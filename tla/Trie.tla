---------------------------------- MODULE Trie ----------------------------------
(***************************************************************************)
(* The upper levels of the trie (lib/trie.c) as user threads and the eBPF  *)
(* page fault handler (page_fault.bpf.c) walk them.  The root is always    *)
(* there; below it lie the L3 tables, the L2 tables and the L1 tables.  An *)
(* entry that points to an L3 or L2 table counts the child tables that are *)
(* not gone and the iterators inside; at zero the table is unlinked, taken *)
(* out of the node cache and reclaimed, and its page unmapped some time    *)
(* later.  The handler takes no counts: it goes through the node cache and *)
(* validates what it read after it has translated an address.              *)
(*                                                                         *)
(* The unit is an L1 table.  An object occupies whole L1 tables; how pages *)
(* of one table are shared out and counted is the subject of AliasSpace.   *)
(***************************************************************************)
EXTENDS Integers, FiniteSets

CONSTANTS
  User,         \* user threads
  Handler,      \* threads in the page fault handler
  NL3,          \* bound: L3 tables
  Fan3, Fan2,   \* TRI_SIZE: L2 tables of an L3 table, L1 tables of an L2 table
  NL1,          \* bound: L1 tables below ALIAS_MAX
  Sizes,        \* bound: lengths of objects in L1 tables
  LastChoices,  \* values the uninitialised is_last of trie_iter_init may hold
  Dangling,     \* TRUE: the program also uses pointers to freed objects
  None,
  Foreign       \* a page that belongs to somebody else

ASSUME TrieAssumption ==
  /\ NL3 \in Nat \ {0} /\ Fan3 \in Nat \ {0} /\ Fan2 \in Nat \ {0}
  /\ NL1 \in 1 .. NL3 * Fan3 * Fan2
  /\ Sizes \subseteq Nat \ {0}
  /\ LastChoices \subseteq BOOLEAN
  /\ Dangling \in BOOLEAN

L1 == 0 .. NL3 * Fan3 * Fan2 - 1
Level == {2, 3}
Node == {<<3, n>> : n \in 0 .. NL3 - 1} \cup {<<2, n>> : n \in 0 .. NL3 * Fan3 - 1}

ASSUME NoneIsNoTable == None \notin Node
ASSUME ForeignIsNoTable == Foreign \notin Node \cup {None}

Fan(x) == IF x[1] = 3 THEN Fan3 ELSE Fan2

(* The table of level lv on the path to L1 table p.                        *)
Up(lv, p) == IF lv = 3 THEN <<3, p \div (Fan2 * Fan3)>> ELSE <<2, p \div Fan2>>

(* The level of the table that holds the entry which changes from p to the *)
(* next L1 table, less one: 1 within an L2 table, 2 within an L3 table.    *)
Step(p) ==
  IF Up(2, p) = Up(2, p + 1) THEN 1 ELSE IF Up(3, p) = Up(3, p + 1) THEN 2 ELSE 3

VARIABLES
  link,   \* the entry that points to a table is not NULL
  cnt,    \* the count in that entry
  mem,    \* the page of a table
  leaf,   \* entries of the L1 tables: state and lock bit
  cache,  \* mm->trie_cached_nodes[2], [3]
  high,   \* the L1 tables handed out so far
  objs,   \* objects the program owns, as ranges of L1 tables
  dead,   \* history: objects whose free has begun
  it,     \* iterator and place of each user thread
  pf      \* iterator and place of each page fault handler

vars == <<link, cnt, mem, leaf, cache, high, objs, dead, it, pf>>

NoIter ==
  [op |-> "idle", at |-> "idle", lv |-> 0, p |-> 0, end |-> 0, by |-> 0,
   last |-> FALSE, sub |-> FALSE, start |-> 0]

NoWalk == [at |-> "idle", lv |-> 0, p |-> 0, first |-> TRUE, cached |-> FALSE,
           k |-> [lv \in Level |-> None]]

Init ==
  /\ link = [x \in Node |-> FALSE]
  /\ cnt = [x \in Node |-> 0]
  /\ mem = [x \in Node |-> "none"]
  /\ leaf = [p \in L1 |-> "null"]
  /\ cache = [lv \in Level |-> None]
  /\ high = 0
  /\ objs = {}
  /\ dead = {}
  /\ it = [u \in User |-> NoIter]
  /\ pf = [h \in Handler |-> NoWalk]

user == <<link, cnt, mem, high, objs, dead, it>>
walk == <<cache, pf>>

-----------------------------------------------------------------------------
(* Allocation: trie_alloc_iter_init, _next and _finish.  No count is taken *)
(* on the way: the tables cannot go while p has not been freed.            *)
Alloc(u, n) ==
  /\ it[u].at = "idle"
  /\ high + n <= NL1
  /\ high' = high + n
  /\ it' = [it EXCEPT ![u] = [NoIter EXCEPT !.op = "alloc", !.at = "touch", !.lv = 3,
                                            !.p = high, !.start = high, !.end = high + n - 1]]
  /\ UNCHANGED <<link, cnt, mem, leaf, objs, dead, walk>>

(* touch_trie_node: a table that is missing is linked with a full count.   *)
Touch(u) ==
  LET x == Up(it[u].lv, it[u].p)
  IN /\ it[u].at = "touch" /\ it[u].lv \in Level
     /\ IF link[x]
        THEN UNCHANGED <<link, cnt, mem>>
        ELSE /\ link' = [link EXCEPT ![x] = TRUE]
             /\ cnt' = [cnt EXCEPT ![x] = Fan(x)]
             /\ mem' = [mem EXCEPT ![x] = "used"]
     /\ it' = [it EXCEPT ![u].lv = @ - 1]
     /\ UNCHANGED <<leaf, high, objs, dead, walk>>

(* touch_lock_trie_node, which spins on a locked table.                    *)
TouchLeaf(u) ==
  /\ it[u].at = "touch" /\ it[u].lv = 1
  /\ leaf[it[u].p] \in {"null", "free"}
  /\ leaf' = [leaf EXCEPT ![it[u].p] = "locked"]
  /\ it' = [it EXCEPT ![u].at = "write"]
  /\ UNCHANGED <<link, cnt, mem, high, objs, dead, walk>>

(* The entries are written and the table is unlocked.                      *)
Write(u) ==
  LET i == it[u]
  IN /\ i.at = "write"
     /\ leaf' = [leaf EXCEPT ![i.p] = "free"]
     /\ IF i.p = i.end
        THEN /\ objs' = objs \cup {[start |-> i.start, end |-> i.end]}
             /\ it' = [it EXCEPT ![u] = NoIter]
        ELSE /\ it' = [it EXCEPT ![u].p = @ + 1, ![u].at = "touch", ![u].lv = Step(i.p)]
             /\ UNCHANGED objs
     /\ UNCHANGED <<link, cnt, mem, high, dead, walk>>

-----------------------------------------------------------------------------
(* Free and malloc_usable_size: trie_iter_init, _next and _finish.         *)
Iter(op, p, end) == [NoIter EXCEPT !.op = op, !.at = "acquire", !.lv = 3, !.p = p, !.end = end]

Free(u, o) ==
  /\ it[u].at = "idle"
  /\ o \in objs
  /\ objs' = objs \ {o}
  /\ dead' = dead \cup {o}
  /\ it' = [it EXCEPT ![u] = Iter("free", o.start, o.end)]
  /\ UNCHANGED <<link, cnt, mem, leaf, high, walk>>

(* The objects the program has a pointer to.                               *)
Pointers == objs \cup (IF Dangling THEN dead ELSE {})

(* malloc_usable_size, or a second free, which finds no entry.             *)
Probe(u, o) ==
  /\ it[u].at = "idle"
  /\ it' = [it EXCEPT ![u] = Iter("probe", o.start, o.start)]
  /\ UNCHANGED <<link, cnt, mem, leaf, high, objs, dead, walk>>

WrongAcquired(c) == c

Acquired(c) == c + 1

(* acquire_trie_node on a table that is there.  trie_iter_next has kept    *)
(* the parent's count until now if its last child was gone.                *)
Acquire(u) ==
  LET i == it[u]
      x == Up(i.lv, i.p)
  IN /\ i.at = "acquire"
     /\ link[x] /\ cnt[x] # 0
     /\ cnt' = [cnt EXCEPT ![x] = Acquired(@)]
     /\ it' = [it EXCEPT ![u] =
          IF i.lv = 3 THEN [i EXCEPT !.lv = 2]
          ELSE IF i.by = 2 /\ i.last THEN [i EXCEPT !.at = "release", !.sub = TRUE, !.lv = 3]
          ELSE [i EXCEPT !.at = "lock", !.lv = 1]]
     /\ UNCHANGED <<link, mem, leaf, high, objs, dead, walk>>

(* acquire_trie_node on a table that is gone: the iterator gives up.  With *)
(* the L2 table missing trie_iter_init releases the L3 table with an       *)
(* is_last that it never set.                                              *)
AcquireFails(u) ==
  LET i == it[u]
      x == Up(i.lv, i.p)
  IN /\ i.at = "acquire"
     /\ ~link[x] \/ cnt[x] = 0
     /\ IF i.lv = 3
        THEN it' = [it EXCEPT ![u] = NoIter]
        ELSE \E b \in (IF i.by = 0 THEN LastChoices ELSE IF i.by = 2 THEN {i.last} ELSE {FALSE}) :
               it' = [it EXCEPT ![u] = [i EXCEPT !.at = "release", !.lv = 3, !.last = b,
                                                 !.end = i.p]]
     /\ UNCHANGED <<link, cnt, mem, leaf, high, objs, dead, walk>>

(* lock_trie_node, which spins on a locked table.                          *)
Lock(u) ==
  LET i == it[u]
  IN /\ i.at = "lock"
     /\ leaf[i.p] = "free"
     /\ leaf' = [leaf EXCEPT ![i.p] = "locked"]
     /\ it' = [it EXCEPT ![u] =
          IF i.by = 1 /\ i.last THEN [i EXCEPT !.at = "release", !.sub = TRUE, !.lv = 2]
          ELSE [i EXCEPT !.at = "body"]]
     /\ UNCHANGED <<link, cnt, mem, high, objs, dead, walk>>

LockFails(u) ==
  LET i == it[u]
  IN /\ i.at = "lock"
     /\ leaf[i.p] \in {"null", "destroyed"}
     /\ it' = [it EXCEPT ![u] = [i EXCEPT !.at = "release", !.lv = 2, !.end = i.p]]
     /\ UNCHANGED <<link, cnt, mem, leaf, high, objs, dead, walk>>

(* What is done under the lock, and unlock_trie_node: the table of a freed *)
(* object is destroyed.  trie_iter_next goes on inside the L2 table or     *)
(* leaves it.                                                              *)
Body(u) ==
  LET i == it[u]
      gone == i.op = "free"
      inside == i.p < i.end /\ Step(i.p) = 1
  IN /\ i.at = "body"
     /\ leaf' = [leaf EXCEPT ![i.p] = IF gone THEN "destroyed" ELSE "free"]
     /\ it' = [it EXCEPT ![u] =
          IF inside THEN [i EXCEPT !.at = "lock", !.by = 1, !.last = gone, !.p = @ + 1]
          ELSE [i EXCEPT !.at = "release", !.lv = 2, !.last = gone]]
     /\ UNCHANGED <<link, cnt, mem, high, objs, dead, walk>>

WrongReleased(i) == 1

(* What the iterator takes off a count: its own access and, with two_sub,  *)
(* the child that it was the last to leave.                                *)
Released(i) == IF i.last /\ ~i.sub THEN 2 ELSE 1

(* After release_trie_node: trie_iter_next goes on below the same table,   *)
(* crosses to the next table of the level above, or the iterator ends.     *)
After(i, gone) ==
  IF i.sub
  THEN IF i.lv = 2 THEN [i EXCEPT !.at = "body", !.lv = 1, !.sub = FALSE, !.last = gone]
       ELSE [i EXCEPT !.at = "lock", !.lv = 1, !.sub = FALSE, !.last = gone]
  ELSE IF i.lv = 2
  THEN IF i.p < i.end /\ Step(i.p) = 2
       THEN [i EXCEPT !.at = "acquire", !.lv = 2, !.by = 2, !.last = gone, !.p = @ + 1]
       ELSE [i EXCEPT !.at = "release", !.lv = 3, !.last = gone]
  ELSE IF i.p < i.end
  THEN [i EXCEPT !.at = "acquire", !.lv = 3, !.by = 3, !.p = @ + 1]
  ELSE NoIter

(* release_trie_node: the count is decremented; the thread that brings it  *)
(* to zero unlinks the table, invalidates the cache and reclaims the page, *)
(* in this order.                                                          *)
Release(u) ==
  LET i == it[u]
      x == Up(i.lv, i.p)
      left == cnt[x] - Released(i)
  IN /\ i.at = "release"
     /\ cnt' = [cnt EXCEPT ![x] = left]
     /\ it' = [it EXCEPT ![u] = IF left = 0 THEN [i EXCEPT !.at = "unlink"] ELSE After(i, FALSE)]
     /\ UNCHANGED <<link, mem, leaf, high, objs, dead, walk>>

Unlink(u) ==
  /\ it[u].at = "unlink"
  /\ link' = [link EXCEPT ![Up(it[u].lv, it[u].p)] = FALSE]
  /\ it' = [it EXCEPT ![u].at = "invalidate"]
  /\ UNCHANGED <<cnt, mem, leaf, high, objs, dead, walk>>

(* invalidate_cached_node: a CAS on the cache of the level.                *)
Invalidate(u) ==
  LET lv == it[u].lv
  IN /\ it[u].at = "invalidate"
     /\ cache' = [cache EXCEPT ![lv] = IF @ = Up(lv, it[u].p) THEN None ELSE @]
     /\ it' = [it EXCEPT ![u].at = "reclaim"]
     /\ UNCHANGED <<link, cnt, mem, leaf, high, objs, dead, pf>>

Reclaim(u) ==
  /\ it[u].at = "reclaim"
  /\ mem' = [mem EXCEPT ![Up(it[u].lv, it[u].p)] = "reclaimed"]
  /\ it' = [it EXCEPT ![u] = After(@, TRUE)]
  /\ UNCHANGED <<link, cnt, leaf, high, objs, dead, walk>>

(* reclaim() evicts or empties its list: the page is unmapped.             *)
Unmap(x) ==
  /\ mem[x] = "reclaimed"
  /\ mem' = [mem EXCEPT ![x] = "unmapped"]
  /\ UNCHANGED <<link, cnt, leaf, high, objs, dead, it, walk>>

-----------------------------------------------------------------------------
(* page_fault: adjust_iter starts at the node cache.                       *)
Fault(h, p) ==
  /\ pf[h].at = "idle"
  /\ pf' = [pf EXCEPT ![h] = [NoWalk EXCEPT !.at = "cache", !.lv = 3, !.p = p]]
  /\ UNCHANGED <<user, leaf, cache>>

Goto(w, at, lv) == [w EXCEPT !.at = at, !.lv = lv]

(* The cache of a level holds the table on the path to p, or not.  In      *)
(* adjust_iter the L2 cache is read after the L3 cache has matched.        *)
ReadCache(h) ==
  LET w == pf[h]
      hit == cache[w.lv] = Up(w.lv, w.p)
  IN /\ w.at = "cache"
     /\ pf' = [pf EXCEPT ![h] =
          IF w.lv = 3
          THEN IF ~hit THEN Goto(w, "load", 3)
               ELSE IF w.first THEN Goto(w, "cache", 2)
               ELSE [Goto(w, "map", 3) EXCEPT !.cached = TRUE]
          ELSE [Goto(w, "map", IF hit THEN 2 ELSE 3) EXCEPT !.cached = TRUE]]
     /\ UNCHANGED <<user, leaf, cache>>

(* bpf_uaddr_to_kaddr gives the page that is mapped at the address now and *)
(* keeps it from being reused; once the table was unmapped this is nothing *)
(* or the page of a later mapping.                                         *)
Translations(x) == IF mem[x] = "unmapped" THEN {None, Foreign} ELSE {x}

Map(h) ==
  LET w == pf[h]
  IN /\ w.at = "map"
     /\ \E k \in Translations(Up(w.lv, w.p)) :
          pf' = [pf EXCEPT ![h] =
            IF k = None THEN NoWalk
            ELSE [w EXCEPT !.k[w.lv] = k, !.at = IF w.cached THEN "check" ELSE "store"]]
     /\ UNCHANGED <<user, leaf, cache>>

Below(w) ==
  IF w.lv = 3 THEN Goto([w EXCEPT !.cached = FALSE], "load", 2)
  ELSE Goto([w EXCEPT !.cached = FALSE], "try", 1)

WrongStillCached(x) == TRUE

(* The second look at the cache after the translation.                     *)
StillCached(x) == cache[x[1]] = x

(* Without a match adjust_iter falls back to the level above.              *)
Check(h) ==
  LET w == pf[h]
  IN /\ w.at = "check"
     /\ pf' = [pf EXCEPT ![h] =
          IF StillCached(Up(w.lv, w.p)) THEN Below(w)
          ELSE IF w.lv = 2 THEN Goto(w, "map", 3)
          ELSE Goto([w EXCEPT !.cached = FALSE], "load", 3)]
     /\ UNCHANGED <<user, leaf, cache>>

(* init_l3 and init_l2, the entry is read in the parent.                   *)
Load(h) ==
  LET w == pf[h]
  IN /\ w.at = "load"
     /\ pf' = [pf EXCEPT ![h] =
          IF link[Up(w.lv, w.p)] /\ (w.lv = 2 => w.k[3] # Foreign) THEN Goto(w, "map", w.lv)
          ELSE NoWalk]
     /\ UNCHANGED <<user, leaf, cache>>

(* The cache is written before the entry is read again.                    *)
Store(h) ==
  LET w == pf[h]
  IN /\ w.at = "store"
     /\ cache' = [cache EXCEPT ![w.lv] = Up(w.lv, w.p)]
     /\ pf' = [pf EXCEPT ![h].at = "verify"]
     /\ UNCHANGED <<user, leaf>>

WrongForget(c) == c

(* CACHE_INVAL.                                                            *)
Forget(c) == None

Verify(h) ==
  LET w == pf[h]
  IN /\ w.at = "verify"
     /\ IF link[Up(w.lv, w.p)]
        THEN pf' = [pf EXCEPT ![h] = Below(w)] /\ UNCHANGED cache
        ELSE /\ cache' = [cache EXCEPT ![w.lv] = Forget(@)]
             /\ pf' = [pf EXCEPT ![h] = NoWalk]
     /\ UNCHANGED <<user, leaf>>

(* init_l1: a trylock in the L2 table.                                     *)
TryLock(h) ==
  LET w == pf[h]
  IN /\ w.at = "try"
     /\ IF w.k[2] # Foreign /\ leaf[w.p] = "free"
        THEN /\ leaf' = [leaf EXCEPT ![w.p] = "locked"]
             /\ pf' = [pf EXCEPT ![h].at = "hold"]
        ELSE pf' = [pf EXCEPT ![h] = NoWalk] /\ UNCHANGED leaf
     /\ UNCHANGED <<user, cache>>

(* finish_iter.                                                            *)
Finish(h) ==
  /\ pf[h].at = "hold"
  /\ leaf' = [leaf EXCEPT ![pf[h].p] = "free"]
  /\ pf' = [pf EXCEPT ![h] = NoWalk]
  /\ UNCHANGED <<user, cache>>

(* next: the handler unlocks the table and walks to the following one, by  *)
(* the nodes it has already translated.                                    *)
NextTable(h) ==
  LET w == pf[h]
      n == [w EXCEPT !.p = @ + 1, !.first = FALSE]
  IN /\ w.at = "hold"
     /\ w.p + 1 \in L1
     /\ leaf' = [leaf EXCEPT ![w.p] = "free"]
     /\ pf' = [pf EXCEPT ![h] =
          CASE Step(w.p) = 1 -> Goto(n, "try", 1)
            [] Step(w.p) = 2 -> IF w.k[3] = None THEN Goto(n, "cache", 3) ELSE Goto(n, "load", 2)
            [] Step(w.p) = 3 -> Goto(n, "load", 3)]
     /\ UNCHANGED <<user, cache>>

-----------------------------------------------------------------------------
UserStep(u) ==
  \/ \E n \in Sizes : Alloc(u, n)
  \/ \E o \in objs : Free(u, o)
  \/ \E o \in Pointers : Probe(u, o)
  \/ Touch(u) \/ TouchLeaf(u) \/ Write(u)
  \/ Acquire(u) \/ AcquireFails(u) \/ Lock(u) \/ LockFails(u) \/ Body(u)
  \/ Release(u) \/ Unlink(u) \/ Invalidate(u) \/ Reclaim(u)

HandlerStep(h) ==
  \/ \E o \in Pointers : \E p \in o.start .. o.end : Fault(h, p)
  \/ ReadCache(h) \/ Map(h) \/ Check(h) \/ Load(h) \/ Store(h) \/ Verify(h)
  \/ TryLock(h) \/ Finish(h) \/ NextTable(h)

(* The program has freed everything and no thread is on its way.           *)
Quiescent ==
  /\ objs = {} /\ \A u \in User : it[u].at = "idle"
  /\ \A h \in Handler : pf[h].at = "idle"
  /\ UNCHANGED vars

Next ==
  \/ \E u \in User : UserStep(u)
  \/ \E h \in Handler : HandlerStep(h)
  \/ \E x \in Node : Unmap(x)
  \/ Quiescent

Spec == Init /\ [][Next]_vars

-----------------------------------------------------------------------------
TypeOK ==
  /\ link \in [Node -> BOOLEAN]
  /\ cnt \in [Node -> 0 .. Fan3 + Fan2 + Cardinality(User)]
  /\ mem \in [Node -> {"none", "used", "reclaimed", "unmapped"}]
  /\ leaf \in [L1 -> {"null", "free", "locked", "destroyed"}]
  /\ \A lv \in Level : cache[lv] \in {x \in Node : x[1] = lv} \cup {None}
  /\ high \in Nat /\ \A o \in objs \cup dead : o.start .. o.end \subseteq L1
  /\ \A u \in User : it[u].p \in L1 /\ it[u].end \in L1
  /\ \A h \in Handler : pf[h].p \in L1

(* User threads whose iterator has acquired table x.                       *)
Inside(x) ==
  {u \in User :
     /\ it[u].op \in {"free", "probe"}
     /\ Up(x[1], it[u].p) = x
     /\ \/ it[u].at \in {"lock", "body"}
        \/ it[u].at = "acquire" /\ x[1] = 3 /\ it[u].lv = 2
        \/ it[u].at \in {"release", "unlink", "invalidate", "reclaim"} /\
           (x[1] > it[u].lv \/ it[u].sub)
        \/ it[u].at = "release" /\ x[1] = it[u].lv}

(* User threads that write entries below x.                                *)
Writing(x) ==
  {u \in User : it[u].op = "alloc" /\ it[u].lv < x[1] /\ Up(x[1], it[u].p) = x}

(* trie.c:387, "now iter->nodes[3] is valid until release": a table that a *)
(* user thread works in is linked and its page has not been reclaimed.     *)
TablesStayValid ==
  \A x \in Node : Inside(x) \cup Writing(x) # {} => link[x] /\ mem[x] = "used"

(* The tables below x that are gone.                                       *)
Gone(x) ==
  IF x[1] = 3 THEN {n \in Node : n[1] = 2 /\ n[2] \div Fan3 = x[2] /\ mem[n] \in {"reclaimed", "unmapped"}}
  ELSE {p \in L1 : Up(2, p) = x /\ leaf[p] = "destroyed"}

(* Threads that have removed a table below x and not yet taken it off the  *)
(* count.                                                                  *)
Owing(x) ==
  {u \in Inside(x) : it[u].last /\
     \/ it[u].at = "release" /\ it[u].lv = x[1]
     \/ x[1] = 2 /\ it[u].at = "lock" /\ it[u].by = 1
     \/ x[1] = 3 /\ it[u].at = "acquire" /\ it[u].by = 2}

(* trie.h:90, "<alloc + access cnt>": children that are not gone, accesses,*)
(* and what a thread still has to subtract.                                *)
CountsAreExact ==
  \A x \in Node : link[x] =>
    cnt[x] = Fan(x) - Cardinality(Gone(x)) + Cardinality(Inside(x)) + Cardinality(Owing(x))

(* A table is reclaimed only when every L1 table below it was destroyed    *)
(* (none is in use, waits to be written or has not been handed out), and   *)
(* it is reclaimed once that is so and the iterators are gone.             *)
Dead(x) == \A p \in L1 : Up(x[1], p) = x => leaf[p] = "destroyed"
ReclaimedIffDead ==
  \A x \in Node :
    /\ mem[x] \in {"reclaimed", "unmapped"} => Dead(x)
    /\ Dead(x) /\ (\A u \in User : it[u].at = "idle") => mem[x] \in {"reclaimed", "unmapped"}

(* trie.c:346, "unlink -> inv cache -> reclaim": the cache points to an    *)
(* unlinked table only until the thread that unlinked it, or a handler     *)
(* that stored it, looks again.                                            *)
CacheIsFresh ==
  \A lv \in Level : \A x \in Node :
    cache[lv] = x /\ ~link[x] =>
      \/ \E u \in User : it[u].at = "invalidate" /\ it[u].lv = lv /\ Up(lv, it[u].p) = x
      \/ \E h \in Handler : pf[h].at = "verify" /\ pf[h].lv = lv /\ Up(lv, pf[h].p) = x

(* page_fault.bpf.c:241, "safe to access": the handler reads an entry only *)
(* in a page that was a table of the trie when it was translated.          *)
ReadsOnlyTables ==
  \A h \in Handler :
    /\ pf[h].at = "load" /\ pf[h].lv = 2 => pf[h].k[3] # Foreign
    /\ pf[h].at = "try" => pf[h].k[2] # Foreign

(* Handler g has stored x in the cache and not yet looked at its entry.    *)
Stored(g, x) == pf[g].at = "verify" /\ pf[g].lv = x[1] /\ Up(pf[g].lv, pf[g].p) = x

MisledByAnother(h) ==
  LET w == pf[h]
      x == Up(w.lv, w.p)
  IN w.at \in {"check", "verify"} /\ w.k[w.lv] = Foreign =>
       /\ w.at = "verify" => ~link[x]
       /\ w.at = "check" /\ cache[w.lv] = x => \E g \in Handler \ {h} : Stored(g, x)

(* page_fault.bpf.c:241, for several page faults at a time: the second     *)
(* look of a handler that has translated a page which is no table any more *)
(* lets it go on only by the cache, and only while another handler has put *)
(* the table back there and is about to look at the entry.                 *)
OnlyAnotherMisleads == \A h \in Handler : MisledByAnother(h)
=============================================================================
