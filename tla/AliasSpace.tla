------------------------------ MODULE AliasSpace ------------------------------
(***************************************************************************)
(* How alloc_alias.c hands out the one-time alias pages and how trie.c     *)
(* counts them.  The alias space is cut into units of HugeLen pages (512), *)
(* each described by one L1 table of the trie.  A thread takes new units   *)
(* with one atomic add, keeps what it does not need in a thread-local      *)
(* cache of ranges, writes the trie entries of what it needs table by      *)
(* table, and frees objects page by page.  The entry that points to an L1  *)
(* table counts the pages that may still be used; at zero the table is     *)
(* destroyed and its page reclaimed.                                       *)
(***************************************************************************)
EXTENDS Naturals, FiniteSets

CONSTANTS
  Thread,     \* application threads
  HugeLen,    \* TRI_SIZE: alias pages per L1 table
  NHuge,      \* bound: units between ALIAS_BASE and ALIAS_MAX
  CacheSize,  \* CACHE_SIZE: ranges a thread can cache
  MinRemain,  \* CONFIG_MIN_REMAIN_ALIASES
  MaxReq      \* bound: the largest request in pages

ASSUME AliasSpaceAssumption ==
  /\ HugeLen \in Nat \ {0}
  /\ NHuge \in Nat \ {0}
  /\ CacheSize \in Nat \ {0}
  /\ MinRemain \in Nat /\ MinRemain <= HugeLen
  /\ MaxReq \in Nat \ {0}

(* Page 0 stands for address 0; ALIAS_BASE is the first page of unit 1.    *)
Base == HugeLen
Limit == (NHuge + 1) * HugeLen
Page == Base .. Limit - 1
Table == 1 .. NHuge
TableOf(p) == p \div HugeLen
PagesOf(h) == h * HugeLen .. h * HugeLen + HugeLen - 1
TablesOf(lo, hi) == TableOf(lo) .. TableOf(hi - 1)
SlotIdx == 1 .. CacheSize

VARIABLES
  high,    \* alias_addr_high: the next page that no thread has taken
  cache,   \* thread-local alias_cache
  node,    \* L2 entries: state and count of each L1 table
  entry,   \* pages with a trie entry
  objs,    \* objects the program owns, as page ranges
  gone,    \* history: pages that were freed or consumed
  pc,      \* what each thread is executing
  req      \* locals of that operation

vars == <<high, cache, node, entry, objs, gone, pc, req>>

-----------------------------------------------------------------------------
Empty == [start |-> 0, end |-> 0]
NoNode == [state |-> "null", cnt |-> 0]
NewNode == [state |-> "live", cnt |-> HugeLen]
Destroyed == [state |-> "destroyed", cnt |-> 0]
NoReq == [start |-> 0, lo |-> 0, hi |-> 0, n |-> 0, consume |-> 0, piece |-> 1]

Init ==
  /\ high = Base
  /\ cache = [t \in Thread |-> [i \in SlotIdx |-> Empty]]
  /\ node = [h \in Table |-> NoNode]
  /\ entry = {}
  /\ objs = {}
  /\ gone = {}
  /\ pc = [t \in Thread |-> "idle"]
  /\ req = [t \in Thread |-> NoReq]

(* Mutants: an operator whose name starts with Wrong is the next definition*)
(* with a plausible mistake in it.                                         *)
WrongUnlock(cnt) == IF cnt <= 1 THEN Destroyed ELSE [state |-> "live", cnt |-> cnt]

(* The count after the L1 lock is released: a table without pages is       *)
(* unlinked for ever (unlock_trie_node).                                   *)
Unlock(cnt) == IF cnt = 0 THEN Destroyed ELSE [state |-> "live", cnt |-> cnt]

(* The first cached range with room for n pages.                           *)
Fits(c, n) == c.start + n <= c.end
FirstFit(t, n, i) ==
  Fits(cache[t][i], n) /\ \A j \in SlotIdx : j < i => ~Fits(cache[t][j], n)

(* The pages of range c behind a request for n pages.                      *)
Left(c, n) == c.end - (c.start + n)
WrongConsumed(c, n) == Left(c, n)

(* Fewer than MinRemain pages are not worth a slot of the cache: they are  *)
(* consumed with the request.                                              *)
Consumed(c, n) == IF Left(c, n) < MinRemain THEN Left(c, n) ELSE 0

WrongShrunk(c, n) ==
  IF Left(c, n) = 0 THEN Empty ELSE [start |-> c.start + n, end |-> c.end]

(* The range that is left in the slot.                                     *)
Shrunk(c, n) ==
  IF Left(c, n) = 0 \/ Left(c, n) < MinRemain THEN Empty
  ELSE [start |-> c.start + n, end |-> c.end]

(* A request is served as one object or, for a reservation, as one object  *)
(* per page.                                                               *)
Pieces(n) == {1, n}

AllocCached(t, n, piece) ==
  /\ pc[t] = "idle"
  /\ \E i \in SlotIdx :
       LET c == cache[t][i]
       IN /\ FirstFit(t, n, i)
          /\ cache' = [cache EXCEPT ![t][i] = Shrunk(c, n)]
          /\ req' = [req EXCEPT ![t] =
               [start |-> c.start, lo |-> c.start, hi |-> c.start + n, n |-> n,
                consume |-> Consumed(c, n), piece |-> piece]]
  /\ pc' = [pc EXCEPT ![t] = "write"]
  /\ UNCHANGED <<high, node, entry, objs, gone>>

(* The units that n pages need.                                            *)
HugesFor(n) == (n + HugeLen - 1) \div HugeLen

(* get_new_huge_aliases: an atomic add, the only shared step of alloc_alias*)
GetHuge(t, n, piece) ==
  /\ pc[t] = "idle"
  /\ \A i \in SlotIdx : ~Fits(cache[t][i], n)
  /\ high + HugesFor(n) * HugeLen <= Limit
  /\ high' = high + HugesFor(n) * HugeLen
  /\ req' = [req EXCEPT ![t] =
       [start |-> high, lo |-> high, hi |-> high', n |-> n, consume |-> 0, piece |-> piece]]
  /\ pc' = [pc EXCEPT ![t] = "place"]
  /\ UNCHANGED <<cache, node, entry, objs, gone>>

StartWrite(t, start) ==
  /\ req' = [req EXCEPT ![t] = [@ EXCEPT !.start = start, !.lo = start, !.hi = start + req[t].n]]
  /\ pc' = [pc EXCEPT ![t] = "write"]

(* The new units continue the range in slot 0: the request is taken from   *)
(* the front of the merged range, whatever it leaves.                      *)
PlaceMerge(t) ==
  LET c == cache[t][1]
  IN /\ pc[t] = "place"
     /\ c.end = req[t].lo
     /\ cache' = [cache EXCEPT ![t][1] = [start |-> c.start + req[t].n, end |-> req[t].hi]]
     /\ StartWrite(t, c.start)
     /\ UNCHANGED <<high, node, entry, objs, gone>>

(* The request takes all of the new units.                                 *)
PlaceWhole(t) ==
  /\ pc[t] = "place"
  /\ cache[t][1].end # req[t].lo
  /\ req[t].lo + req[t].n = req[t].hi
  /\ StartWrite(t, req[t].lo)
  /\ UNCHANGED <<high, cache, node, entry, objs, gone>>

Rest(t) == [start |-> req[t].lo + req[t].n, end |-> req[t].hi]

(* The rest of the new units goes to the first unused slot.                *)
PlaceSlot(t) ==
  /\ pc[t] = "place"
  /\ cache[t][1].end # req[t].lo
  /\ req[t].lo + req[t].n < req[t].hi
  /\ \E i \in SlotIdx :
       /\ cache[t][i].end = 0 /\ \A j \in SlotIdx : j < i => cache[t][j].end # 0
       /\ cache' = [cache EXCEPT ![t][i] = Rest(t)]
  /\ StartWrite(t, req[t].lo)
  /\ UNCHANGED <<high, node, entry, objs, gone>>

(* trie_remove_range subtracts TRIE_META_ONE * diff_cnt from a value of    *)
(* type struct trie_node *, so C scales it by the size of the struct       *)
(* (2^15 bytes): what reaches the ten bits of the count is a multiple of   *)
(* 2^15.                                                                   *)
NodeBytes == 32768
CountRange == 1024
RemovedCount(diff) == (diff * NodeBytes) % CountRange

CachedIn(t, h) ==
  {p \in PagesOf(h) : \E i \in SlotIdx : cache[t][i].start <= p /\ p < cache[t][i].end}

(* One table of trie_remove_range.  A table that was never written has no  *)
(* entry: its count reads as zero and it is marked destroyed.              *)
RemoveRange(t, h) ==
  IF CachedIn(t, h) = {} THEN node[h]
  ELSE IF node[h].state = "live"
       THEN Unlock(node[h].cnt - RemovedCount(Cardinality(CachedIn(t, h))))
       ELSE Destroyed

Discards(t) ==
  /\ pc[t] = "place"
  /\ cache[t][1].end # req[t].lo
  /\ req[t].lo + req[t].n < req[t].hi
  /\ \A i \in SlotIdx : cache[t][i].end # 0

(* No slot is unused: all cached ranges are discarded for the new rest.    *)
PlaceDiscard(t) ==
  /\ Discards(t)
  /\ node' = [h \in Table |-> RemoveRange(t, h)]
  /\ cache' = [cache EXCEPT ![t] = [i \in SlotIdx |-> IF i = 1 THEN Rest(t) ELSE Empty]]
  /\ StartWrite(t, req[t].lo)
  /\ UNCHANGED <<high, entry, objs, gone>>

-----------------------------------------------------------------------------
(* The part of the operation that lies in the table of its next page.      *)
Stop(t) ==
  LET next == (TableOf(req[t].lo) + 1) * HugeLen
  IN IF next < req[t].hi THEN next ELSE req[t].hi

PiecesOf(r) ==
  IF r.piece = r.n THEN {[start |-> r.start, len |-> r.n]}
  ELSE {[start |-> p, len |-> 1] : p \in r.start .. r.hi - 1}

(* trie_alloc_iter_init / _next / _finish around the stores of one table;  *)
(* the consumed pages are taken off the count of the last table.           *)
WriteTable(t) ==
  LET h == TableOf(req[t].lo)
      stop == Stop(t)
      last == stop = req[t].hi
      old == IF node[h].state = "null" THEN NewNode ELSE node[h]
      used == IF last THEN req[t].consume ELSE 0
  IN /\ pc[t] = "write"
     /\ node[h].state # "destroyed"
     /\ node' = [node EXCEPT ![h] = Unlock(old.cnt - used)]
     /\ entry' = entry \cup (req[t].lo .. stop - 1)
     /\ gone' = gone \cup (stop .. stop + used - 1)
     /\ IF last
        THEN /\ objs' = objs \cup PiecesOf(req[t])
             /\ pc' = [pc EXCEPT ![t] = "idle"]
             /\ req' = [req EXCEPT ![t] = NoReq]
        ELSE /\ req' = [req EXCEPT ![t].lo = stop]
             /\ UNCHANGED <<objs, pc>>
     /\ UNCHANGED <<high, cache>>

FreeBegin(t, o) ==
  /\ pc[t] = "idle"
  /\ o \in objs
  /\ objs' = objs \ {o}
  /\ req' = [req EXCEPT ![t] = [NoReq EXCEPT !.lo = o.start, !.hi = o.start + o.len]]
  /\ pc' = [pc EXCEPT ![t] = "free"]
  /\ UNCHANGED <<high, cache, node, entry, gone>>

WrongDecCount(cnt, pages) == cnt - 1

(* trie_iter_dec_cnt, once for each page whose entry is cleared.           *)
DecCount(cnt, pages) == cnt - pages

(* __ota_free from one trie_iter_init or table change of trie_iter_next to *)
(* the unlock of that table.                                               *)
FreeTable(t) ==
  LET h == TableOf(req[t].lo)
      stop == Stop(t)
  IN /\ pc[t] = "free"
     /\ node[h].state = "live"
     /\ node' = [node EXCEPT ![h] = Unlock(DecCount(@.cnt, stop - req[t].lo))]
     /\ entry' = entry \ (req[t].lo .. stop - 1)
     /\ gone' = gone \cup (req[t].lo .. stop - 1)
     /\ IF stop = req[t].hi
        THEN pc' = [pc EXCEPT ![t] = "idle"] /\ req' = [req EXCEPT ![t] = NoReq]
        ELSE req' = [req EXCEPT ![t].lo = stop] /\ UNCHANGED pc
     /\ UNCHANGED <<high, cache, objs>>

(* The program has freed everything and every thread is done.              *)
Quiescent == objs = {} /\ (\A t \in Thread : pc[t] = "idle") /\ UNCHANGED vars

Malloc(t) ==
  \E n \in 1 .. MaxReq : \E piece \in Pieces(n) :
    AllocCached(t, n, piece) \/ GetHuge(t, n, piece)

Place(t) == PlaceMerge(t) \/ PlaceWhole(t) \/ PlaceSlot(t) \/ PlaceDiscard(t)

Next ==
  \/ \E t \in Thread :
       \/ Malloc(t) \/ Place(t) \/ WriteTable(t) \/ FreeTable(t)
       \/ \E o \in objs : FreeBegin(t, o)
  \/ Quiescent

Spec == Init /\ [][Next]_vars

-----------------------------------------------------------------------------
Cached(t, i) == cache[t][i].start .. cache[t][i].end - 1

(* Pages an operation has taken and not yet written or given to the cache. *)
Claimed(t) ==
  IF pc[t] = "place" THEN req[t].lo .. req[t].hi - 1
  ELSE IF pc[t] = "write" THEN req[t].lo .. req[t].hi + req[t].consume - 1
  ELSE {}

TypeOK ==
  /\ high \in Base .. Limit
  /\ cache \in [Thread -> [SlotIdx -> [start : 0 .. Limit, end : 0 .. Limit]]]
  /\ node \in [Table -> [state : {"null", "live", "destroyed"}, cnt : 0 .. HugeLen]]
  /\ entry \subseteq Page
  /\ gone \subseteq Page
  /\ \A o \in objs : o.start .. o.start + o.len - 1 \subseteq Page
  /\ pc \in [Thread -> {"idle", "place", "write", "free"}]

(* README.md, "one-time-allocator": a page that was handed out is never    *)
(* handed out again.  What a thread caches or is about to use is below     *)
(* high, was never used, and belongs to that thread and slot alone.        *)
OneTime ==
  /\ \A t \in Thread, i \in SlotIdx :
       \A p \in Cached(t, i) :
         /\ p < high /\ p \notin entry /\ p \notin gone
         /\ \A u \in Thread, j \in SlotIdx : p \in Cached(u, j) => t = u /\ i = j
         /\ \A u \in Thread : p \notin Claimed(u)
  /\ \A t \in Thread :
       \A p \in Claimed(t) :
         /\ p < high /\ p \notin entry /\ p \notin gone
         /\ \A u \in Thread : p \in Claimed(u) => t = u
  /\ entry \cap gone = {}

(* The count of a table is the number of its pages not freed or consumed,  *)
(* and a table without such a page has been destroyed.                     *)
CountIsExact ==
  \A h \in Table : node[h].state = "live" =>
    /\ node[h].cnt = HugeLen - Cardinality(PagesOf(h) \cap gone)
    /\ node[h].cnt > 0

(* A destroyed table, whose page is reclaimed, has no page that a thread   *)
(* caches, is about to write, or that an object uses.                      *)
DestroyedIsUnused ==
  \A h \in Table : node[h].state = "destroyed" =>
    \A p \in PagesOf(h) :
      /\ p \notin entry
      /\ \A t \in Thread : p \notin Claimed(t) /\ \A i \in SlotIdx : p \notin Cached(t, i)

(* alloc_alias.c:425, "it should reach huge page end or no consume": the   *)
(* consumed pages end a table and belong to the table they are taken from. *)
ConsumeEndsTable ==
  \A t \in Thread : pc[t] = "write" /\ req[t].consume > 0 =>
    /\ (req[t].hi + req[t].consume) % HugeLen = 0
    /\ TableOf(req[t].hi + req[t].consume - 1) = TableOf(req[t].hi - 1)

(* trie.h:92, an entry for an L1 table holds its allocation count: once no *)
(* page of a table can be used any more the table has been destroyed.      *)
TablesAreReclaimed ==
  \A h \in Table :
    /\ (h + 1) * HugeLen <= high
    /\ \A t \in Thread : pc[t] = "idle"
    /\ \A p \in PagesOf(h) : p \notin entry /\ \A t \in Thread, i \in SlotIdx : p \notin Cached(t, i)
    => node[h].state = "destroyed"

(* trie.c:626, ASSERT(index_1_node): a range that alloc_alias discards     *)
(* lies in tables that have been written to.                               *)
DiscardSeesTables ==
  \A t \in Thread : Discards(t) =>
    \A h \in Table : CachedIn(t, h) # {} => node[h].state = "live"
=============================================================================
