----------------------------- MODULE BatchedFree -----------------------------
(***************************************************************************)
(* The one-time-alias protocol of BUDAlloc in its default configuration    *)
(* (batched, adaptive free with canonical hash sort).  Threads allocate    *)
(* and free objects (ota_malloc and ota_free of alloc_alias.c) and touch   *)
(* them, which runs the eBPF page fault handler (page_fault.bpf.c) with    *)
(* its prefetch loop.                                                      *)
(*                                                                         *)
(* An object is one alias page that the trie maps to a canonical block of  *)
(* mimalloc.  A free clears the trie entry, queues the alias for a batched *)
(* unmap and either hands the canonical block to the next reservation,     *)
(* marked with the buffer that must be flushed before the block is used    *)
(* again, or defers its return to mimalloc until that flush.               *)
(***************************************************************************)
EXTENDS FreeBuffer

CONSTANTS
  Thread,        \* application threads
  Slot,          \* indices of mm->perthread
  SlotOf,        \* thread_index: the slot that thread_init gave each thread
  Canon,         \* canonical blocks that mimalloc can hand out
  ClassOf,       \* "reused", "small" or "large", see Class
  PageOf,        \* the canonical page a block lies on
  NL1,           \* bound: L1 tables (512-page units of the alias space)
  L1Len,         \* alias pages of one L1 table
  ResvLen,       \* cur_len of a class's reservation
  Windows,       \* the prefetch windows a class may see
  PrefetchMax,   \* ALIAS_PREFETCH_LENGTH
  HashMax,       \* CONFIG_CANONICAL_HASH_SORT_DELAYED_SIZE
  TouchFirst,    \* TRUE: the program accesses an object before it frees it
  RaceFree,      \* TRUE: the program frees no object that is being accessed
  None

(* "reused": size index 0 or 15..29, a freed block goes to the reservation *)
(* of its class; "small": index 1..14, deferred, then sorted by the hash;  *)
(* "large": above MAX_RESERVATION_SIZE, deferred, then freed.              *)
Class == {"reused", "small", "large"}

Alias == 1 .. (NL1 * L1Len)
L1 == 0 .. (NL1 - 1)
L1Of(a) == (a - 1) \div L1Len

ASSUME BatchedFreeAssumption ==
  /\ SlotOf \in [Thread -> Slot]
  /\ ClassOf \in [Canon -> Class]
  /\ NL1 \in Nat \ {0} /\ L1Len \in Nat \ {0}
  /\ ResvLen \in [Class -> 1 .. L1Len]
  /\ Windows \in [Class -> SUBSET (Nat \ {0})]
  /\ PrefetchMax \in Nat \ {0} /\ HashMax \in Nat \ {0}
  /\ TouchFirst \in BOOLEAN /\ RaceFree \in BOOLEAN
  /\ None \notin Slot \cup Canon \cup Thread \cup {PageOf[c] : c \in Canon}

VARIABLES
  entry,        \* leaf trie entries
  pte,          \* page table of the alias space: canonical page or None
  l1lock,       \* lock bit of each L1 table: its holder or None
  mpt,          \* mm->perthread
  bufLock,      \* buf_lock of each slot: its holder or None
  prevVersion,  \* thread-local prev_version
  resv,         \* thread-local malloc_reservations
  region,       \* thread-local unused aliases
  nextL1,       \* alias_addr_high: the next unused L1 table
  hash,         \* thread-local free_hash of alloc_canonical.c
  heap,         \* blocks that mimalloc owns
  pc,           \* what each thread is executing
  victim,       \* the alias and block a thread is freeing
  pf,           \* locals of the page fault handler and its prefetch_ctx
  held,         \* history: aliases the program owns
  home          \* history: the block an alias was created for

vars == <<entry, pte, l1lock, mpt, bufLock, prevVersion, resv, region, nextL1,
          hash, heap, pc, victim, pf, held, home>>

-----------------------------------------------------------------------------
(* The flush bit of an entry is set exactly when it names a slot.          *)
Entry == [canon : Canon, tid : Slot \cup {None}, ver : 0 .. NVersions - 1, mapped : BOOLEAN]

ASSUME NoneIsNoEntry == None \notin Entry

FreshEntry(c) == [canon |-> c, tid |-> None, ver |-> 0, mapped |-> FALSE]

Freed(a) == home[a] # None /\ entry[a] = None

(* An L1 table exists from the first entry written to it until every page  *)
(* of it has been freed.                                                   *)
L1Live(n) ==
  /\ \E a \in Alias : L1Of(a) = n /\ home[a] # None
  /\ \E a \in Alias : L1Of(a) = n /\ ~Freed(a)

NoFault ==
  [fault |-> None, run |-> 1, len |-> 1, page |-> None, cur |-> 1, win |-> 0,
   rtid |-> None, need |-> FALSE, slot |-> None, ver |-> 0, first |-> TRUE,
   must |-> FALSE, i |-> 0, locked |-> FALSE]

Init ==
  /\ entry = [a \in Alias |-> None]
  /\ pte = [a \in Alias |-> None]
  /\ l1lock = [n \in L1 |-> None]
  /\ mpt = [s \in Slot |-> InitialBuffer]
  /\ bufLock = [s \in Slot |-> None]
  /\ prevVersion = [t \in Thread |-> 0]
  /\ resv = [t \in Thread |-> [k \in Class |-> [ready |-> <<>>, reuse |-> <<>>]]]
  /\ region = [t \in Thread |-> [next |-> 1, end |-> 1]]
  /\ nextL1 = 0
  /\ hash = [t \in Thread |-> {}]
  /\ heap = Canon
  /\ pc = [t \in Thread |-> "idle"]
  /\ victim = [t \in Thread |-> [alias |-> None, canon |-> None]]
  /\ pf = [t \in Thread |-> NoFault]
  /\ held = {}
  /\ home = [a \in Alias |-> None]

WrongTableIsFree(n) == TRUE

(* Every alias operation of a user thread spins on the table's lock bit.   *)
TableIsFree(n) == l1lock[n] = None

-----------------------------------------------------------------------------
(* ota_malloc: the next object of the class's reservation.                 *)
MallocReserved(t, k) ==
  /\ pc[t] = "idle"
  /\ resv[t][k].ready # <<>>
  /\ held' = held \cup {Head(resv[t][k].ready)}
  /\ resv' = [resv EXCEPT ![t][k].ready = Tail(@)]
  /\ UNCHANGED <<entry, pte, l1lock, mpt, bufLock, prevVersion, region, nextL1,
                 hash, heap, pc, victim, pf, home>>

(* n aliases from the thread's current L1 table, or from a new one.  What  *)
(* alloc_alias does with the rest of a table is the subject of AliasSpace. *)
AllocAlias(t, n, start) ==
  \/ /\ region[t].next + n <= region[t].end
     /\ start = region[t].next
     /\ region' = [region EXCEPT ![t].next = @ + n]
     /\ UNCHANGED nextL1
  \/ /\ region[t].next + n > region[t].end
     /\ nextL1 < NL1
     /\ start = nextL1 * L1Len + 1
     /\ region' = [region EXCEPT ![t] = [next |-> start + n, end |-> start + L1Len]]
     /\ nextL1' = nextL1 + 1

(* ota_malloc on an empty reservation: reused blocks first, then blocks of *)
(* mimalloc, get consecutive aliases; the first alias goes to the caller.  *)
MallocRefill(t, k) ==
  LET reuse == resv[t][k].reuse
      n == ResvLen[k]
  IN /\ pc[t] = "idle"
     /\ resv[t][k].ready = <<>>
     /\ \E start \in Alias,
           fresh \in [(Len(reuse) + 1) .. n -> {c \in heap : ClassOf[c] = k}] :
          /\ \A i, j \in DOMAIN fresh : fresh[i] = fresh[j] => i = j
          /\ AllocAlias(t, n, start)
          /\ TableIsFree(L1Of(start))
          /\ entry' = [a \in Alias |->
               IF a \notin start .. start + n - 1 THEN entry[a]
               ELSE IF a - start < Len(reuse) THEN reuse[a - start + 1]
               ELSE FreshEntry(fresh[a - start + 1])]
          /\ home' = [a \in Alias |->
               IF a \in start .. start + n - 1 THEN entry'[a].canon ELSE home[a]]
          /\ heap' = heap \ {fresh[i] : i \in DOMAIN fresh}
          /\ resv' = [resv EXCEPT ![t][k] =
               [ready |-> [i \in 1 .. n - 1 |-> start + i], reuse |-> <<>>]]
          /\ held' = held \cup {start}
     /\ UNCHANGED <<pte, l1lock, mpt, bufLock, prevVersion, hash, pc, victim, pf>>

-----------------------------------------------------------------------------
BeingAccessed(a) == \E u \in Thread : pc[u] # "idle" /\ pf[u].fault = a

(* ota_free, the trie part: under the lock of the L1 table the entry is    *)
(* cleared; from here on a new access to the alias is detected.            *)
FreeClear(t, a) ==
  /\ pc[t] = "idle"
  /\ a \in held
  /\ TouchFirst => pte[a] # None \/ BeingAccessed(a)
  /\ RaceFree => ~BeingAccessed(a)
  /\ TableIsFree(L1Of(a))
  /\ held' = held \ {a}
  /\ entry' = [entry EXCEPT ![a] = None]
  /\ victim' = [victim EXCEPT ![t] = [alias |-> a, canon |-> entry[a].canon]]
  /\ pc' = [pc EXCEPT ![t] = "lock"]
  /\ UNCHANGED <<pte, l1lock, mpt, bufLock, prevVersion, resv, region, nextL1,
                 hash, heap, pf, home>>

FreeLock(t) ==
  /\ pc[t] = "lock"
  /\ bufLock[SlotOf[t]] = None
  /\ bufLock' = [bufLock EXCEPT ![SlotOf[t]] = t]
  /\ pc' = [pc EXCEPT ![t] = "body"]
  /\ UNCHANGED <<entry, pte, l1lock, mpt, prevVersion, resv, region, nextL1,
                 hash, heap, victim, pf, held, home>>

WrongRelease(t, R) ==
  LET small == {c \in R : ClassOf[c] = "small"}
      sorted == hash[t] \cup small
  IN /\ hash' = [hash EXCEPT ![t] = sorted]
     /\ heap' = heap \cup (R \ small) \cup (IF Cardinality(sorted) < HashMax THEN {} ELSE sorted)

(* canonical_delayed_free of the small blocks R and canonical_free of the  *)
(* others: the hash is emptied whenever it reaches HashMax blocks.         *)
Release(t, R) ==
  LET small == {c \in R : ClassOf[c] = "small"}
      sorted == hash[t] \cup small
  IN \E rest \in SUBSET small :
       /\ IF Cardinality(sorted) < HashMax
          THEN rest = small /\ hash' = [hash EXCEPT ![t] = sorted]
          ELSE /\ Cardinality(rest) = Cardinality(sorted) % HashMax
               /\ hash' = [hash EXCEPT ![t] = rest]
       /\ heap' = heap \cup (R \ small) \cup
                  (IF Cardinality(sorted) < HashMax THEN {} ELSE sorted \ rest)

WrongHasRoom(t, k) == k = "reused"

(* The freed block goes to the reservation of its class if an object of    *)
(* the current reservation has been handed out for each waiting block.     *)
HasRoom(t, k) ==
  k = "reused" /\ Len(resv[t][k].reuse) + Len(resv[t][k].ready) < ResvLen[k]

(* The buffer of slot s becomes m, and what was unmapped is unmapped.      *)
Commit(s, m) ==
  /\ mpt' = [mpt EXCEPT ![s] = [m EXCEPT !.gone = {}]]
  /\ pte' = [x \in Alias |-> IF x \in m.gone THEN None ELSE pte[x]]

(* What ota_free writes: the block was freed under the version ver, and m  *)
(* is the buffer at the end.  What leaves the lists is released.           *)
FreeWrites(t, ver, m) ==
  LET s == SlotOf[t]
      c == victim[t].canon
      k == ClassOf[c]
      kept == Deferred(m) \cup (IF HasRoom(t, k) THEN {c} ELSE {})
  IN /\ Commit(s, m)
     /\ Release(t, (Deferred(mpt[s]) \cup {c}) \ kept)
     /\ resv' = IF HasRoom(t, k)
                THEN [resv EXCEPT ![t][k].reuse = Append(@,
                        [canon |-> c, tid |-> s, ver |-> ver, mapped |-> FALSE])]
                ELSE resv
     /\ prevVersion' = [prevVersion EXCEPT ![t] = m.version]
     /\ pc' = [pc EXCEPT ![t] = "unlock"]
     /\ UNCHANGED <<entry, l1lock, bufLock, region, nextL1, victim, pf, held, home>>

(* ota_free, the part under buf_lock.  `tick` says whether 100 ms passed.  *)
FreeBody(t, tick) ==
  LET s == SlotOf[t]
      a == victim[t].alias
      c == victim[t].canon
      k == ClassOf[c]
  IN /\ pc[t] = "body"
     /\ \E m1 \in {[TryDeferredFree(mpt[s], prevVersion[t]) EXCEPT !.cnt = @ + 1]} :
        \E m2 \in AddRange(IF tick THEN Resize(m1) ELSE m1, a) :
        \E m3 \in BatchFlush(m2) :
        \E m4 \in (IF HasRoom(t, k) THEN {m3}
                  ELSE IF DeferIsFull(m3) THEN DrainDeferred(m3)
                  ELSE {Defer(m3, c, k = "small")}) :
          FreeWrites(t, m2.version, m4)

(* buf_lock is released and the free returns.                              *)
FreeUnlock(t) ==
  /\ pc[t] = "unlock"
  /\ bufLock' = [bufLock EXCEPT ![SlotOf[t]] = None]
  /\ victim' = [victim EXCEPT ![t] = [alias |-> None, canon |-> None]]
  /\ pc' = [pc EXCEPT ![t] = "idle"]
  /\ UNCHANGED <<entry, pte, l1lock, mpt, prevVersion, resv, region, nextL1,
                 hash, heap, pf, held, home>>

-----------------------------------------------------------------------------
(* page_fault on an object that is not mapped yet.  The handler holds the  *)
(* L1 lock from here on.  A marked entry must have its buffer flushed; any *)
(* other entry asks for a flush of some slot with version N_VERSIONS.      *)
(* Faults on a locked table, a cleared entry or a MAPPED entry change      *)
(* nothing: they are retried, reported or resolved by another handler.     *)
PageFault(t, a) ==
  LET e == entry[a]
      k == ClassOf[e.canon]
  IN /\ pc[t] = "idle"
     /\ a \in held
     /\ pte[a] = None
     /\ ~e.mapped
     /\ TableIsFree(L1Of(a))
     /\ l1lock' = [l1lock EXCEPT ![L1Of(a)] = t]
     /\ \E w \in Windows[k], s \in (IF e.tid # None THEN {e.tid} ELSE Slot) :
          pf' = [pf EXCEPT ![t] =
            [fault |-> a, run |-> a, len |-> 1, page |-> PageOf[e.canon], cur |-> a,
             win |-> w, rtid |-> e.tid, need |-> FALSE, slot |-> s,
             ver |-> IF e.tid # None THEN e.ver ELSE NVersions,
             first |-> TRUE, must |-> e.tid # None, i |-> 0, locked |-> TRUE]]
     /\ pc' = [pc EXCEPT ![t] = "check"]
     /\ UNCHANGED <<entry, pte, mpt, bufLock, prevVersion, resv, region, nextL1,
                    hash, heap, victim, held, home>>

notLock == <<prevVersion, resv, region, nextL1, hash, heap, victim, held, home>>
notHandler == <<bufLock, notLock>>

WrongAfterFlush(t) == IF pf[t].first THEN "check" ELSE "page"

(* The faulting entry is marked next, a prefetched one compared.           *)
AfterFlush(t) == IF pf[t].first THEN "mark" ELSE "page"

(* The flush succeeded or was not needed: a prefetch continues for the     *)
(* slot it asked about.                                                    *)
FlushDone(t) ==
  /\ pc' = [pc EXCEPT ![t] = AfterFlush(t)]
  /\ pf' = IF pf[t].first THEN pf
           ELSE [pf EXCEPT ![t].rtid = pf[t].slot, ![t].need = FALSE]

(* flush_alias_free_buf, the test without buf_lock.                        *)
FlushCheck(t) ==
  /\ pc[t] = "check"
  /\ LET m == mpt[pf[t].slot]
     IN IF m.version # pf[t].ver \/ m.empty
        THEN FlushDone(t)
        ELSE pc' = [pc EXCEPT ![t] = "try"] /\ UNCHANGED pf
  /\ UNCHANGED <<entry, pte, l1lock, mpt, notHandler>>

(* flush_alias_free_buf from the trylock on: the buffer that is pending    *)
(* now is flushed.                                                         *)
FlushBuffer(t) ==
  LET s == pf[t].slot
  IN /\ pc[t] = "try"
     /\ bufLock[s] = None
     /\ IF mpt[s].empty THEN UNCHANGED <<mpt, pte>> ELSE Commit(s, Flush(mpt[s]))
     /\ FlushDone(t)
     /\ UNCHANGED <<entry, l1lock, notHandler>>

(* The flush did not happen: the faulting entry is marked and mapped all   *)
(* the same, a prefetch maps what it has and stops.                        *)
Unflushed(t) ==
  /\ pc' = [pc EXCEPT ![t] = IF pf[t].first THEN "mark" ELSE "map"]
  /\ pf' = IF pf[t].first THEN pf ELSE [pf EXCEPT ![t].win = 0]

(* flush_alias_free_buf returns 1: bpf_unset_page_table failed on a range  *)
(* and the lock is released, or there is no buffer and the lock is kept.   *)
(* page_fault looks for a 1 in debug builds only.                          *)
FlushFails(t) ==
  LET s == pf[t].slot
  IN /\ HelpersFail
     /\ pc[t] = "try"
     /\ bufLock[s] = None
     /\ ~mpt[s].empty
     /\ \/ (\E m \in BrokenFlushes(mpt[s]) : Commit(s, m)) /\ UNCHANGED bufLock
        \/ bufLock' = [bufLock EXCEPT ![s] = t] /\ UNCHANGED <<mpt, pte>>
     /\ Unflushed(t)
     /\ UNCHANGED <<entry, l1lock, notLock>>

(* finish_iter, unless next() has already given the lock up (need_unlock). *)
UnlockTable(p) == IF p.locked THEN [l1lock EXCEPT ![L1Of(p.cur)] = None] ELSE l1lock

WrongFlushRetry(t) ==
  /\ pc[t] = "try"
  /\ bufLock[pf[t].slot] # None
  /\ pf[t].first /\ pf[t].must
  /\ Unflushed(t)
  /\ UNCHANGED <<entry, pte, l1lock, mpt, notHandler>>

(* The trylock failed: a fault on a marked entry is retried from the start,*)
(* an unmarked one goes on, a prefetch maps what it has and stops.         *)
FlushRetry(t) ==
  /\ pc[t] = "try"
  /\ bufLock[pf[t].slot] # None
  /\ pf[t].first /\ pf[t].must
  /\ l1lock' = UnlockTable(pf[t])
  /\ pc' = [pc EXCEPT ![t] = "idle"]
  /\ pf' = [pf EXCEPT ![t] = NoFault]
  /\ UNCHANGED <<entry, pte, mpt, notHandler>>

FlushSkip(t) ==
  /\ pc[t] = "try"
  /\ bufLock[pf[t].slot] # None
  /\ ~(pf[t].first /\ pf[t].must)
  /\ Unflushed(t)
  /\ UNCHANGED <<entry, pte, l1lock, mpt, notHandler>>

MarkMapped(t) ==
  /\ pc[t] = "mark"
  /\ entry' = [entry EXCEPT ![pf[t].cur].mapped = TRUE]
  /\ pc' = [pc EXCEPT ![t] = "next"]
  /\ UNCHANGED <<pte, l1lock, mpt, pf, notHandler>>

(* prefetch_fn, one iteration per round of the actions below.  next():     *)
(* the following entry of the same table, or across the table boundary,    *)
(* where the lock on the old table is given up first.                      *)
PrefetchNext(t) ==
  LET a == pf[t].cur
  IN /\ pc[t] = "next"
     /\ IF a % L1Len # 0
        THEN /\ pf' = [pf EXCEPT ![t].cur = a + 1]
             /\ pc' = [pc EXCEPT ![t] = "entry"]
             /\ UNCHANGED l1lock
        ELSE /\ l1lock' = [l1lock EXCEPT ![L1Of(a)] = None]
             /\ pf' = [pf EXCEPT ![t].need = TRUE, ![t].locked = FALSE]
             /\ pc' = [pc EXCEPT ![t] = "cross"]
     /\ UNCHANGED <<entry, pte, mpt, notHandler>>

(* init_l1 on the next table: missing, destroyed or locked ends the run.   *)
PrefetchCross(t) ==
  LET a == pf[t].cur + 1
  IN /\ pc[t] = "cross"
     /\ IF a \in Alias /\ L1Live(L1Of(a)) /\ TableIsFree(L1Of(a))
        THEN /\ l1lock' = [l1lock EXCEPT ![L1Of(a)] = t]
             /\ pf' = [pf EXCEPT ![t].cur = a, ![t].locked = TRUE]
             /\ pc' = [pc EXCEPT ![t] = "entry"]
        ELSE /\ pf' = [pf EXCEPT ![t].win = 0]
             /\ pc' = [pc EXCEPT ![t] = "map"]
             /\ UNCHANGED l1lock
     /\ UNCHANGED <<entry, pte, mpt, notHandler>>

(* A cleared or mapped entry ends the run; a marked entry of another slot, *)
(* or behind a table boundary, has its buffer flushed, but only if the     *)
(* faulting entry was marked too.                                          *)
PrefetchEntry(t) ==
  LET e == entry[pf[t].cur]
  IN /\ pc[t] = "entry"
     /\ IF e = None \/ (e # None /\ e.mapped)
        THEN /\ pf' = [pf EXCEPT ![t].win = 0]
             /\ pc' = [pc EXCEPT ![t] = "map"]
        ELSE IF /\ pf[t].rtid # None
                /\ e.tid # None
                /\ e.tid # pf[t].rtid \/ pf[t].need
        THEN /\ pf' = [pf EXCEPT ![t].slot = e.tid, ![t].ver = e.ver, ![t].first = FALSE]
             /\ pc' = [pc EXCEPT ![t] = "check"]
        ELSE pc' = [pc EXCEPT ![t] = "page"] /\ UNCHANGED pf
     /\ UNCHANGED <<entry, pte, l1lock, mpt, notHandler>>

(* The run grows while the canonical page stays the same.                  *)
PrefetchPage(t) ==
  /\ pc[t] = "page"
  /\ IF PageOf[entry[pf[t].cur].canon] # pf[t].page
     THEN pc' = [pc EXCEPT ![t] = "map"] /\ UNCHANGED <<entry, pf>>
     ELSE /\ entry' = [entry EXCEPT ![pf[t].cur].mapped = TRUE]
          /\ IF pf[t].i = PrefetchMax - 1
             THEN /\ pf' = [pf EXCEPT ![t].len = @ + 1, ![t].win = 0]
                  /\ pc' = [pc EXCEPT ![t] = "map"]
             ELSE /\ pf' = [pf EXCEPT ![t].len = @ + 1, ![t].i = @ + 1]
                  /\ pc' = [pc EXCEPT ![t] = "next"]
  /\ UNCHANGED <<pte, l1lock, mpt, notHandler>>

WrongRunAliases(p) == p.run .. p.run + p.len

(* bpf_set_page_table maps alias_len pages from alias_page on.             *)
RunAliases(p) == p.run .. p.run + p.len - 1

(* The run is mapped; while the window lasts a new run starts at the entry *)
(* that ended this one, else the handler returns.                          *)
MapRun(t) ==
  LET p == pf[t]
      more == p.win > 1
      last == p.i = PrefetchMax - 1
  IN /\ pc[t] = "map"
     /\ pte' = [x \in Alias |-> IF x \in RunAliases(p) THEN p.page ELSE pte[x]]
     /\ IF more /\ ~last
        THEN /\ pf' = [pf EXCEPT ![t].run = p.run + p.len, ![t].len = 1, ![t].win = @ - 1,
                                 ![t].page = PageOf[entry[p.cur].canon], ![t].i = @ + 1]
             /\ pc' = [pc EXCEPT ![t] = "next"]
             /\ UNCHANGED l1lock
        ELSE /\ pf' = [pf EXCEPT ![t] = NoFault]
             /\ pc' = [pc EXCEPT ![t] = "idle"]
             /\ l1lock' = UnlockTable(p)
     /\ UNCHANGED <<entry, mpt, notHandler>>

-----------------------------------------------------------------------------
(* The program has freed everything it allocated and every thread is done. *)
Quiescent == held = {} /\ (\A t \in Thread : pc[t] = "idle") /\ UNCHANGED vars

Handler(t) ==
  \/ FlushCheck(t) \/ FlushBuffer(t) \/ FlushFails(t) \/ FlushRetry(t) \/ FlushSkip(t)
  \/ MarkMapped(t)
  \/ PrefetchNext(t) \/ PrefetchCross(t) \/ PrefetchEntry(t) \/ PrefetchPage(t) \/ MapRun(t)

Finish(t) == FreeLock(t) \/ (\E tick \in BOOLEAN : FreeBody(t, tick)) \/ FreeUnlock(t)

Next ==
  \/ \E t \in Thread :
       \/ \E k \in Class : MallocReserved(t, k) \/ MallocRefill(t, k)
       \/ \E a \in Alias : FreeClear(t, a) \/ PageFault(t, a)
       \/ Finish(t)
       \/ Handler(t)
  \/ Quiescent

Spec == Init /\ [][Next]_vars

(* A thread in the middle of a free or of a page fault keeps running.      *)
FairSpec == Spec /\ \A t \in Thread : WF_vars(Handler(t)) /\ WF_vars(Finish(t))

-----------------------------------------------------------------------------
TypeOK ==
  /\ entry \in [Alias -> Entry \cup {None}]
  /\ pte \in [Alias -> {PageOf[c] : c \in Canon} \cup {None}]
  /\ l1lock \in [L1 -> Thread \cup {None}]
  /\ bufLock \in [Slot -> Thread \cup {None}]
  /\ prevVersion \in [Thread -> 0 .. NVersions - 1]
  /\ nextL1 \in 0 .. NL1
  /\ hash \in [Thread -> SUBSET Canon]
  /\ heap \subseteq Canon
  /\ held \subseteq Alias
  /\ home \in [Alias -> Canon \cup {None}]
  /\ \A s \in Slot :
       /\ mpt[s].version \in 0 .. NVersions - 1
       /\ mpt[s].window \in 1 .. WindowMax
       /\ ~HelpersFail => Len(mpt[s].ranges) <= BufSize
       /\ Pending(mpt[s]) \subseteq Alias
       /\ Deferred(mpt[s]) \subseteq Canon
  /\ \A t \in Thread :
       pc[t] \in {"idle", "lock", "body", "unlock", "check", "try", "mark", "next",
                  "cross", "entry", "page", "map"}

(* Only one thread at a time works on the buffer of a slot, and only one   *)
(* page fault handler on the entries of an L1 table.                       *)
LocksExclude ==
  \A t, u \in Thread : t # u =>
    /\ pc[t] \in {"body", "unlock"} /\ pc[u] \in {"body", "unlock"} => SlotOf[t] # SlotOf[u]
    /\ pf[t].locked /\ pf[u].locked => L1Of(pf[t].cur) # L1Of(pf[u].cur)

(* The entry that a handler read is still there when the handler marks it, *)
(* compares its canonical page or starts a run with it: no free clears it  *)
(* in between (page_fault.bpf.c reads *iter again at each of these places).*)
HandlerSeesEntry ==
  \A t \in Thread :
    \/ pc[t] \in {"check", "try", "mark", "page"}
    \/ pc[t] = "map" /\ pf[t].win > 1
    => entry[pf[t].cur] # None

(* README.md, "detecting and protecting use-after-free": once a program    *)
(* has mapped an object, no freed alias of the same block is mapped, so a  *)
(* dangling pointer cannot reach the object.                               *)
NoStaleReuse ==
  \A a \in Alias, b \in held :
    Freed(a) /\ home[a] = home[b] => pte[a] = None \/ pte[b] = None

(* alloc_alias.c:61, "Defer canonical free is critical to block metadata   *)
(* corruptions": when mimalloc or the hash sort writes its links into a    *)
(* block, no alias of the block is mapped.                                 *)
FreeBlockUnmapped ==
  \A a \in Alias :
    home[a] \in heap \cup UNION {hash[t] : t \in Thread} => pte[a] = None

(* page_fault.bpf.c:375, "if buf empty, all unmapped": the flag that the   *)
(* handler reads without the lock never hides a pending alias.             *)
EmptyMeansUnmapped == \A s \in Slot : mpt[s].empty => mpt[s].ranges = <<>>

(* The alias is in a buffer that a later flush unmaps, or its free has not *)
(* come to the buffer yet.                                                 *)
Awaits(a) ==
  \/ \E s \in Slot : a \in Pending(mpt[s])
  \/ \E t \in Thread : pc[t] \in {"lock", "body"} /\ victim[t].alias = a

(* No stale mapping is forgotten: a freed alias that is still mapped waits *)
(* for a flush (pages join a range, a buffer or a flush under buf_lock,    *)
(* alloc_alias.c, while handlers map and flush).                           *)
StaleIsPending == \A a \in Alias : Freed(a) /\ pte[a] # None => Awaits(a)

(* page_fault.bpf.c:374, "if buf version diff, then prev mapping already   *)
(* unmapped": from its free on an alias waits for a flush, and when it     *)
(* waits no longer, or its buffer has a new version, it is unmapped.       *)
UnmappedWhenFlushed ==
  [][/\ \A a \in Alias :
          (Awaits(a) \/ ~Freed(a)) /\ Freed(a)' /\ ~Awaits(a)' => pte'[a] = None
     /\ \A s \in Slot : mpt'[s].version # mpt[s].version =>
          \A a \in Pending(mpt[s]) : pte'[a] = None]_vars

(* Everything that may own a canonical block.                              *)
Owners(c) ==
  {<<"heap">> : x \in {c} \cap heap}
    \cup {<<"hash", t>> : t \in {u \in Thread : c \in hash[u]}}
    \cup {<<"deferred", s>> : s \in {u \in Slot : c \in Deferred(mpt[u])}}
    \cup {<<"entry", a>> : a \in {b \in Alias : entry[b] # None /\ entry[b].canon = c}}
    \cup {<<"freeing", t>> : t \in {u \in Thread : pc[u] \in {"lock", "body"} /\ victim[u].canon = c}}
    \cup UNION {{<<"reuse", t, k, i>> : i \in {j \in DOMAIN resv[t][k].reuse :
                   resv[t][k].reuse[j].canon = c}} : t \in Thread, k \in Class}

(* A canonical block is never lost and never handed to two objects.        *)
OneOwner == \A c \in Canon : Cardinality(Owners(c)) = 1

(* One-time aliases: an alias that was freed and unmapped stays unmapped.  *)
StaysDead ==
  [][\A a \in Alias : Freed(a) /\ pte[a] = None => pte'[a] = None]_vars

(* What is left of it in every configuration: a dead alias is mapped again *)
(* only by a handler that has left the alias's table (next() unlocks it at *)
(* its last entry, page_fault.bpf.c:286) with a run from there.            *)
DeadComesBackAcross ==
  [][\A a \in Alias : Freed(a) /\ pte[a] = None /\ pte'[a] # None =>
       \E t \in Thread :
         /\ pc[t] = "map"
         /\ a \in RunAliases(pf[t])
         /\ pf[t].locked => L1Of(pf[t].cur) # L1Of(a)]_vars

(* A page fault handler does not keep an L1 table locked for ever, even    *)
(* though it waits for a buffer that a freeing thread holds.               *)
TableIsUnlocked == \A n \in L1 : l1lock[n] # None ~> l1lock[n] = None
=============================================================================
