-------------------------- MODULE AliasSpaceProofs --------------------------
(***************************************************************************)
(* OneTime and the properties of the table counts hold in every behaviour  *)
(* of AliasSpace, for any number of threads, units and cache slots.  For   *)
(* OneTime the inductive invariant adds what a page has become once it     *)
(* left the threads' hands: pages with an entry, pages of objects, pages   *)
(* being freed and the part of a request that is already written are below *)
(* alias_addr_high and nobody caches or claims them (Out).                 *)
(***************************************************************************)
EXTENDS AliasSpace, FiniteSetTheorems, TLAPS

(* The types of the variables that OneTime depends on.                     *)
Types ==
  /\ high \in Nat /\ high >= HugeLen
  /\ cache \in [Thread -> [SlotIdx -> [start : Nat, end : Nat]]]
  /\ entry \subseteq Nat
  /\ gone \subseteq Nat
  /\ objs \subseteq [start : Nat, len : Nat]
  /\ pc \in [Thread -> {"idle", "place", "write", "free"}]
  /\ req \in [Thread -> [start : Nat, lo : Nat, hi : Nat, n : Nat, consume : Nat, piece : Nat]]

(* A cached range is not inside out; a request fits the units taken for it *)
(* and, once placed, is a range of n pages written up to lo.               *)
Ranges ==
  /\ \A t \in Thread, i \in SlotIdx : cache[t][i].start <= cache[t][i].end
  /\ \A t \in Thread : pc[t] = "place" =>
       /\ HugeLen <= req[t].lo /\ req[t].lo + req[t].n <= req[t].hi
       /\ req[t].consume = 0
  /\ \A t \in Thread : pc[t] = "write" =>
       /\ req[t].hi = req[t].start + req[t].n
       /\ req[t].start <= req[t].lo /\ req[t].lo <= req[t].hi
  /\ \A t \in Thread : pc[t] = "free" => req[t].lo <= req[t].hi

(* The pages in the hands of thread t.                                     *)
Mine(t, p) == p \in Claimed(t) \/ \E i \in SlotIdx : p \in Cached(t, i)

(* Page p was handed out and is in no thread's hands.                      *)
Out(p) == p < high /\ \A t \in Thread : ~Mine(t, p)

(* What a thread holds is below high, in one slot or claimed, and nobody   *)
(* else's.                                                                 *)
OwnSlots(t) ==
  /\ \A i, j \in SlotIdx : \A p \in Cached(t, i) : p \in Cached(t, j) => i = j
  /\ \A i \in SlotIdx : \A p \in Cached(t, i) : p \notin Claimed(t)

Held ==
  /\ \A t \in Thread : \A p \in Nat : Mine(t, p) => p < high
  /\ \A t, u \in Thread : \A p \in Nat : Mine(t, p) /\ Mine(u, p) => t = u
  /\ \A t \in Thread : OwnSlots(t)

UsedIsOut ==
  /\ \A p \in entry \cup gone : Out(p)
  /\ \A o \in objs : \A p \in o.start .. o.start + o.len - 1 : Out(p)
  /\ \A t \in Thread : pc[t] = "free" => \A p \in req[t].lo .. req[t].hi - 1 : Out(p)
  /\ \A t \in Thread : pc[t] = "write" => \A p \in req[t].start .. req[t].lo - 1 : Out(p)

IInv == Types /\ Ranges /\ Held /\ UsedIsOut /\ entry \cap gone = {}

-----------------------------------------------------------------------------
LEMMA InRange ==
  ASSUME NEW a \in Nat, NEW b \in Nat, NEW p \in a .. b - 1
  PROVE  a <= p /\ p < b
OBVIOUS

(* Units taken for n pages hold n pages.                                   *)
LEMMA HugesHold ==
  ASSUME NEW n \in Nat
  PROVE  HugesFor(n) * HugeLen \in Nat /\ n <= HugesFor(n) * HugeLen
<1>1. ASSUME NEW H \in Nat \ {0}
      PROVE  /\ (n + H - 1) \div H \in Nat
             /\ n <= ((n + H - 1) \div H) * H
  OBVIOUS
<1> QED BY <1>1, AliasSpaceAssumption DEF HugesFor

(* An operation goes on in the same table or stops at the next one.        *)
LEMMA StopForward ==
  ASSUME NEW t \in Thread, Types, req[t].lo <= req[t].hi
  PROVE  Stop(t) \in Nat /\ req[t].lo <= Stop(t) /\ Stop(t) <= req[t].hi
<1>1. ASSUME NEW H \in Nat \ {0}, NEW p \in Nat
      PROVE  (p \div H + 1) * H \in Nat /\ p < (p \div H + 1) * H
  OBVIOUS
<1>2. req[t].lo \in Nat /\ req[t].hi \in Nat
  BY DEF Types
<1> DEFINE next == (req[t].lo \div HugeLen + 1) * HugeLen
<1>3. next \in Nat /\ req[t].lo < next
  BY <1>1, <1>2, AliasSpaceAssumption
<1>4. Stop(t) = IF next < req[t].hi THEN next ELSE req[t].hi
  BY DEF Stop, TableOf
<1> HIDE DEF next
<1> QED BY <1>2, <1>3, <1>4

(* OneTime is part of the invariant.                                       *)
LEMMA InvImpliesOneTime == IInv => OneTime
<1> SUFFICES ASSUME IInv PROVE OneTime
  OBVIOUS
<1>1. ASSUME NEW t \in Thread, NEW i \in SlotIdx, NEW p \in Cached(t, i)
      PROVE  /\ p < high /\ p \notin entry /\ p \notin gone
             /\ \A u \in Thread, j \in SlotIdx : p \in Cached(u, j) => t = u /\ i = j
             /\ \A u \in Thread : p \notin Claimed(u)
  <2>1. Mine(t, p)
    BY DEF Mine
  <2>2. p \in Nat
    BY DEF IInv, Types, Cached
  <2> QED BY <2>1, <2>2 DEF IInv, Held, OwnSlots, UsedIsOut, Out, Mine
<1>2. ASSUME NEW t \in Thread, NEW p \in Claimed(t)
      PROVE  /\ p < high /\ p \notin entry /\ p \notin gone
             /\ \A u \in Thread : p \in Claimed(u) => t = u
  <2>1. Mine(t, p)
    BY DEF Mine
  <2>2. p \in Nat
    BY DEF IInv, Types, Claimed
  <2> QED BY <2>1, <2>2 DEF IInv, Held, UsedIsOut, Out, Mine
<1> QED BY <1>1, <1>2 DEF OneTime, IInv

-----------------------------------------------------------------------------
(* What a step of thread t does to the pages in the threads' hands: only   *)
(* t's change, and new ones come from the units that the step takes.       *)
Moves(t) ==
  /\ high' \in Nat /\ high <= high'
  /\ \A u \in Thread \ {t} : \A p \in Nat : Mine(u, p)' <=> Mine(u, p)
  /\ \A u \in Thread \ {t} : OwnSlots(u)' <=> OwnSlots(u)
  /\ \A p \in Nat : Mine(t, p)' => Mine(t, p) \/ (high <= p /\ p < high')
  /\ OwnSlots(t)'

(* Such a step keeps Held, and a page that is out stays out.               *)
LEMMA MovesKeepHeld ==
  ASSUME NEW t \in Thread, Types, Held, Moves(t)
  PROVE  Held' /\ \A p \in Nat : Out(p) => Out(p)'
<1>1. high \in Nat /\ high' \in Nat /\ high <= high'
  BY DEF Types, Moves
<1>2. ASSUME NEW u \in Thread, NEW p \in Nat, Mine(u, p)'
      PROVE  p < high' /\ (Mine(u, p) \/ (u = t /\ high <= p))
  <2>1. CASE u = t
    BY <1>1, <1>2, <2>1 DEF Moves, Held
  <2>2. CASE u # t
    BY <1>1, <1>2, <2>2 DEF Moves, Held
  <2> QED BY <2>1, <2>2
<1>3. ASSUME NEW u \in Thread, NEW v \in Thread, NEW p \in Nat, Mine(u, p)', Mine(v, p)'
      PROVE  u = v
  <2>1. (Mine(u, p) \/ (u = t /\ high <= p)) /\ (Mine(v, p) \/ (v = t /\ high <= p))
    BY <1>2, <1>3
  <2>2. (Mine(u, p) => p < high) /\ (Mine(v, p) => p < high)
    BY DEF Held
  <2>3. Mine(u, p) /\ Mine(v, p) => u = v
    BY DEF Held
  <2> QED BY <1>1, <2>1, <2>2, <2>3
<1>4. ASSUME NEW u \in Thread PROVE OwnSlots(u)'
  BY <1>4 DEF Moves, Held
<1>5. Held'
  BY <1>2, <1>3, <1>4 DEF Held
<1>6. ASSUME NEW p \in Nat, Out(p) PROVE Out(p)'
  <2>1. p < high'
    BY <1>1, <1>6 DEF Out
  <2>2. ASSUME NEW u \in Thread PROVE ~Mine(u, p)'
    BY <1>1, <1>2, <1>6, <2>2 DEF Out
  <2> QED BY <2>1, <2>2 DEF Out
<1> QED BY <1>5, <1>6

(* A step of t that leaves the locals of the other threads alone.          *)
Local(t) ==
  \A u \in Thread \ {t} : cache'[u] = cache[u] /\ pc'[u] = pc[u] /\ req'[u] = req[u]

LEMMA LocalKeepsOthers ==
  ASSUME NEW t \in Thread, Local(t), NEW u \in Thread \ {t}
  PROVE  (\A p \in Nat : Mine(u, p)' <=> Mine(u, p)) /\ (OwnSlots(u)' <=> OwnSlots(u))
<1>1. cache'[u] = cache[u] /\ pc'[u] = pc[u] /\ req'[u] = req[u]
  BY DEF Local
<1>2. Claimed(u)' = Claimed(u) /\ \A i \in SlotIdx : Cached(u, i)' = Cached(u, i)
  BY <1>1 DEF Claimed, Cached
<1> QED BY <1>2 DEF Mine, OwnSlots

(* The pages of t after the step, if none is new and high stays.           *)
LEMMA LocalMoves ==
  ASSUME NEW t \in Thread, Types, Local(t), high' = high,
         \A p \in Nat : Mine(t, p)' => Mine(t, p), OwnSlots(t)'
  PROVE  Moves(t)
<1>1. high \in Nat
  BY DEF Types
<1> QED BY <1>1, LocalKeepsOthers DEF Moves

(* A page that t had in its hands and gives away is out.                   *)
LEMMA GivenAwayIsOut ==
  ASSUME NEW t \in Thread, Types, Held, Local(t), high' = high,
         NEW p \in Nat, Mine(t, p), ~Mine(t, p)'
  PROVE  Out(p)'
<1>1. p < high
  BY DEF Held
<1>2. ASSUME NEW u \in Thread, u # t PROVE ~Mine(u, p)'
  BY <1>2, LocalKeepsOthers DEF Held
<1> QED BY <1>1, <1>2 DEF Out

(* Steps that only take or place pages leave what is out as it is.         *)
LEMMA TakingKeepsUsed ==
  ASSUME Types, UsedIsOut, UNCHANGED <<entry, gone, objs>>,
         \A p \in Nat : Out(p) => Out(p)',
         \A u \in Thread : pc'[u] = "free" => pc[u] = "free" /\ req'[u] = req[u],
         \A u \in Thread : pc'[u] = "write" =>
           \/ pc[u] = "write" /\ req'[u] = req[u]
           \/ req'[u].start = req'[u].lo /\ req'[u].lo \in Nat
  PROVE  UsedIsOut'
BY DEF UsedIsOut, Types

(* alloc_alias served from the cache.                                      *)
LEMMA AllocCachedStep ==
  ASSUME IInv, NEW t \in Thread, NEW n \in 1 .. MaxReq, NEW piece \in Pieces(n),
         AllocCached(t, n, piece)
  PROVE  IInv'
<1> USE DEF IInv
<1>0. n \in Nat /\ n > 0 /\ piece \in Nat
  BY AliasSpaceAssumption DEF Pieces
<1>1. PICK i \in SlotIdx :
        /\ FirstFit(t, n, i)
        /\ cache' = [cache EXCEPT ![t][i] = Shrunk(cache[t][i], n)]
        /\ req' = [req EXCEPT ![t] =
             [start |-> cache[t][i].start, lo |-> cache[t][i].start, hi |-> cache[t][i].start + n,
              n |-> n, consume |-> Consumed(cache[t][i], n), piece |-> piece]]
  BY DEF AllocCached
<1> DEFINE c == cache[t][i]
<1>2. /\ pc[t] = "idle" /\ pc' = [pc EXCEPT ![t] = "write"]
      /\ UNCHANGED <<high, entry, objs, gone>>
  BY DEF AllocCached
<1>3. c \in [start : Nat, end : Nat] /\ c.start + n <= c.end
  BY <1>1 DEF Types, FirstFit, Fits
<1>4. Left(c, n) \in Nat /\ Left(c, n) = c.end - (c.start + n)
  BY <1>0, <1>3 DEF Left
<1>5. /\ Consumed(c, n) \in Nat
      /\ Shrunk(c, n) \in [start : Nat, end : Nat]
      /\ Shrunk(c, n).start <= Shrunk(c, n).end
      /\ \/ Consumed(c, n) = Left(c, n) /\ Shrunk(c, n) = Empty
         \/ Consumed(c, n) = 0 /\ Shrunk(c, n) = [start |-> c.start + n, end |-> c.end]
         \/ Consumed(c, n) = 0 /\ Shrunk(c, n) = Empty
  BY <1>0, <1>3, <1>4, AliasSpaceAssumption DEF Consumed, Shrunk, Empty
<1> HIDE DEF c
<1>6. Types'
  BY <1>0, <1>1, <1>2, <1>3, <1>5 DEF Types, c
<1>7. Ranges'
  BY <1>0, <1>1, <1>2, <1>3, <1>5 DEF Types, Ranges, c
<1>8. Local(t)
  BY <1>1, <1>2 DEF Types, Local
<1>9. /\ cache'[t][i] = Shrunk(c, n)
      /\ \A j \in SlotIdx : j # i => cache'[t][j] = cache[t][j]
      /\ Claimed(t)' = c.start .. c.start + n + Consumed(c, n) - 1
      /\ Claimed(t) = {}
  BY <1>1, <1>2 DEF Types, Claimed, c
<1>10. /\ Cached(t, i)' \cup Claimed(t)' \subseteq Cached(t, i)
       /\ Cached(t, i)' \cap Claimed(t)' = {}
       /\ \A j \in SlotIdx : j # i => Cached(t, j)' = Cached(t, j)
  <2>0. \A j \in SlotIdx : j # i => Cached(t, j)' = Cached(t, j)
    BY <1>9 DEF Cached
  <2>1. Cached(t, i) = c.start .. c.end - 1
    BY DEF Cached, c
  <2>2. Cached(t, i)' = Shrunk(c, n).start .. Shrunk(c, n).end - 1
    BY <1>9 DEF Cached
  <2>3. CASE Consumed(c, n) = Left(c, n) /\ Shrunk(c, n) = Empty
    <3>1. Cached(t, i)' = {}
      BY <2>2, <2>3 DEF Empty
    <3>2. Claimed(t)' = c.start .. c.end - 1
      BY <1>0, <1>3, <1>4, <1>9, <2>3
    <3> QED BY <2>0, <2>1, <3>1, <3>2
  <2>4. CASE Consumed(c, n) = 0 /\ Shrunk(c, n) = [start |-> c.start + n, end |-> c.end]
    <3>1. Cached(t, i)' = c.start + n .. c.end - 1
      BY <2>2, <2>4
    <3>2. Claimed(t)' = c.start .. c.start + n - 1
      BY <1>0, <1>3, <1>9, <2>4
    <3> QED BY <1>0, <1>3, <2>0, <2>1, <3>1, <3>2
  <2>5. CASE Consumed(c, n) = 0 /\ Shrunk(c, n) = Empty
    <3>1. Cached(t, i)' = {}
      BY <2>2, <2>5 DEF Empty
    <3>2. Claimed(t)' = c.start .. c.start + n - 1
      BY <1>0, <1>3, <1>9, <2>5
    <3> QED BY <1>0, <1>3, <2>0, <2>1, <3>1, <3>2
  <2> QED BY <1>5, <2>3, <2>4, <2>5
<1>11. OwnSlots(t)'
  BY <1>10 DEF Held, OwnSlots
<1>12. \A p \in Nat : Mine(t, p)' => Mine(t, p)
  BY <1>10 DEF Mine
<1>13. Held' /\ \A p \in Nat : Out(p) => Out(p)'
  BY <1>2, <1>8, <1>11, <1>12, LocalMoves, MovesKeepHeld
<1>14. UsedIsOut'
  <2>1. \A u \in Thread : pc'[u] = "free" =>
          pc[u] = "free" /\ req'[u] = req[u]
    BY <1>1, <1>2 DEF Types
  <2>2. \A u \in Thread : pc'[u] = "write" =>
          \/ pc[u] = "write" /\ req'[u] = req[u]
          \/ req'[u].start = req'[u].lo /\ req'[u].lo \in Nat
    BY <1>1, <1>2, <1>3 DEF Types, c
  <2> QED BY <1>2, <1>13, <2>1, <2>2, TakingKeepsUsed
<1> QED BY <1>2, <1>6, <1>7, <1>13, <1>14

(* get_new_huge_aliases.                                                   *)
LEMMA GetHugeStep ==
  ASSUME IInv, NEW t \in Thread, NEW n \in 1 .. MaxReq, NEW piece \in Pieces(n),
         GetHuge(t, n, piece)
  PROVE  IInv'
<1> USE DEF IInv
<1>0. n \in Nat /\ n > 0 /\ piece \in Nat
  BY AliasSpaceAssumption DEF Pieces
<1>1. /\ pc[t] = "idle" /\ pc' = [pc EXCEPT ![t] = "place"]
      /\ high' = high + HugesFor(n) * HugeLen
      /\ req' = [req EXCEPT ![t] =
           [start |-> high, lo |-> high, hi |-> high', n |-> n, consume |-> 0, piece |-> piece]]
      /\ UNCHANGED <<cache, entry, objs, gone>>
  BY DEF GetHuge
<1>2. high \in Nat /\ high' \in Nat /\ high + n <= high'
  BY <1>0, <1>1, HugesHold DEF Types
<1>3. Types'
  <2>1. high' \in Nat /\ high' >= HugeLen
    BY <1>0, <1>2, AliasSpaceAssumption DEF Types
  <2>2. req' \in [Thread -> [start : Nat, lo : Nat, hi : Nat, n : Nat, consume : Nat, piece : Nat]]
    BY <1>0, <1>1, <1>2 DEF Types
  <2> QED BY <1>1, <2>1, <2>2 DEF Types
<1>4. Ranges'
  BY <1>0, <1>1, <1>2 DEF Types, Ranges
<1>5. Local(t)
  BY <1>1 DEF Types, Local
<1>6. /\ Claimed(t)' = high .. high' - 1
      /\ \A i \in SlotIdx : Cached(t, i)' = Cached(t, i)
  BY <1>1 DEF Types, Claimed, Cached
<1>7. \A p \in Nat : Mine(t, p)' => Mine(t, p) \/ (high <= p /\ p < high')
  <2> SUFFICES ASSUME NEW p \in Nat, Mine(t, p)' PROVE Mine(t, p) \/ (high <= p /\ p < high')
    OBVIOUS
  <2>1. CASE p \in Claimed(t)'
    <3>1. p \in high .. high' - 1
      BY <1>6, <2>1
    <3>2. high <= p /\ p < high'
      BY <1>2, <3>1, InRange
    <3> QED BY <3>2
  <2>2. CASE \E i \in SlotIdx : p \in Cached(t, i)'
    BY <1>6, <2>2 DEF Mine
  <2> QED BY <2>1, <2>2 DEF Mine
<1>8. OwnSlots(t)'
  <2>1. \A i \in SlotIdx : \A p \in Cached(t, i) : p \in Nat /\ p < high
    BY DEF Held, Mine, Cached, Types
  <2> QED BY <1>2, <1>6, <2>1 DEF Held, OwnSlots
<1>9. Moves(t)
  BY <1>0, <1>2, <1>5, <1>7, <1>8, LocalKeepsOthers DEF Moves
<1>10. Held' /\ \A p \in Nat : Out(p) => Out(p)'
  BY <1>9, MovesKeepHeld
<1>11. UsedIsOut'
  <2>1. \A u \in Thread : pc'[u] = "free" => pc[u] = "free" /\ req'[u] = req[u]
    BY <1>1 DEF Types
  <2>2. \A u \in Thread : pc'[u] = "write" => pc[u] = "write" /\ req'[u] = req[u]
    BY <1>1 DEF Types
  <2> QED BY <1>1, <1>10, <2>1, <2>2, TakingKeepsUsed
<1> QED BY <1>1, <1>3, <1>4, <1>10, <1>11

(* The part of a placement that its cases share: the request starts at     *)
(* page b, and what t holds afterwards it held before.                     *)
LEMMA PlaceStep ==
  ASSUME IInv, NEW t \in Thread, pc[t] = "place", NEW b \in Nat, StartWrite(t, b),
         UNCHANGED <<high, entry, objs, gone>>,
         cache' \in [Thread -> [SlotIdx -> [start : Nat, end : Nat]]],
         \A u \in Thread \ {t} : cache'[u] = cache[u],
         \A i \in SlotIdx : cache'[t][i].start <= cache'[t][i].end,
         \A p \in b .. b + req[t].n - 1 : Mine(t, p) /\ \A i \in SlotIdx : p \notin Cached(t, i)',
         \A i \in SlotIdx : \A p \in Cached(t, i)' : Mine(t, p),
         \A i, j \in SlotIdx : \A p \in Cached(t, i)' : p \in Cached(t, j)' => i = j
  PROVE  IInv'
<1> USE DEF IInv
<1>0. req[t].n \in Nat /\ req[t].consume = 0
  BY DEF Types, Ranges
<1>1. /\ pc' = [pc EXCEPT ![t] = "write"]
      /\ req' \in [Thread -> [start : Nat, lo : Nat, hi : Nat, n : Nat, consume : Nat, piece : Nat]]
      /\ \A u \in Thread \ {t} : req'[u] = req[u]
      /\ req'[t].start = b /\ req'[t].lo = b /\ req'[t].hi = b + req[t].n
      /\ req'[t].n = req[t].n /\ req'[t].consume = 0
  <2> DEFINE r == [req[t] EXCEPT !.start = b, !.lo = b, !.hi = b + req[t].n]
  <2>1. req' = [req EXCEPT ![t] = r] /\ pc' = [pc EXCEPT ![t] = "write"]
    BY DEF StartWrite
  <2>2. /\ r \in [start : Nat, lo : Nat, hi : Nat, n : Nat, consume : Nat, piece : Nat]
        /\ r.start = b /\ r.lo = b /\ r.hi = b + req[t].n
        /\ r.n = req[t].n /\ r.consume = 0
    <3>1. req[t] \in [start : Nat, lo : Nat, hi : Nat, n : Nat, consume : Nat, piece : Nat]
      BY DEF Types
    <3>2. b + req[t].n \in Nat
      BY <1>0
    <3> QED BY <1>0, <3>1, <3>2
  <2> HIDE DEF r
  <2> QED BY <2>1, <2>2 DEF Types
<1>2. Types'
  BY <1>1 DEF Types
<1>3. Ranges'
  <2>1. \A u \in Thread, i \in SlotIdx : cache'[u][i].start <= cache'[u][i].end
    BY DEF Ranges
  <2>2. \A u \in Thread : pc'[u] = "place" => u # t /\ pc[u] = "place"
    BY <1>1 DEF Types
  <2>3. \A u \in Thread : pc'[u] = "write" => u = t \/ (u # t /\ pc[u] = "write")
    BY <1>1 DEF Types
  <2>4. /\ req'[t].hi = req'[t].start + req'[t].n
        /\ req'[t].start <= req'[t].lo /\ req'[t].lo <= req'[t].hi
    BY <1>0, <1>1
  <2>5. \A u \in Thread : pc'[u] = "free" => u # t /\ pc[u] = "free"
    BY <1>1 DEF Types
  <2>6. \A u \in Thread : u # t => req'[u] = req[u]
    BY <1>1 DEF Types
  <2>7. ASSUME NEW u \in Thread, pc'[u] = "place"
        PROVE  HugeLen <= req'[u].lo /\ req'[u].lo + req'[u].n <= req'[u].hi /\ req'[u].consume = 0
    BY <2>2, <2>6, <2>7 DEF Ranges
  <2>8. ASSUME NEW u \in Thread, pc'[u] = "write"
        PROVE  /\ req'[u].hi = req'[u].start + req'[u].n
               /\ req'[u].start <= req'[u].lo /\ req'[u].lo <= req'[u].hi
    BY <2>3, <2>4, <2>6, <2>8 DEF Ranges
  <2>9. ASSUME NEW u \in Thread, pc'[u] = "free" PROVE req'[u].lo <= req'[u].hi
    BY <2>5, <2>6, <2>9 DEF Ranges
  <2> QED BY <2>1, <2>7, <2>8, <2>9 DEF Ranges
<1>4. Local(t)
  BY <1>1 DEF Types, Local
<1>5. Claimed(t)' = b .. b + req[t].n - 1
  BY <1>0, <1>1 DEF Types, Claimed
<1>6. \A p \in Nat : Mine(t, p)' => Mine(t, p)
  BY <1>5 DEF Mine
<1>7. OwnSlots(t)'
  BY <1>5 DEF OwnSlots
<1>8. Held' /\ \A p \in Nat : Out(p) => Out(p)'
  BY <1>4, <1>6, <1>7, LocalMoves, MovesKeepHeld
<1>9. UsedIsOut'
  <2>1. \A u \in Thread : pc'[u] = "free" => pc[u] = "free" /\ req'[u] = req[u]
    BY <1>1 DEF Types
  <2>2. \A u \in Thread : pc'[u] = "write" =>
          \/ pc[u] = "write" /\ req'[u] = req[u]
          \/ req'[u].start = req'[u].lo /\ req'[u].lo \in Nat
    BY <1>1 DEF Types
  <2> QED BY <1>8, <2>1, <2>2, TakingKeepsUsed
<1> QED BY <1>2, <1>3, <1>8, <1>9

LEMMA PlaceMergeStep ==
  ASSUME IInv, NEW t \in Thread, PlaceMerge(t)
  PROVE  IInv'
<1> USE DEF IInv
<1> DEFINE c == cache[t][1]
           lo == req[t].lo
           hi == req[t].hi
           n == req[t].n
           d == [start |-> c.start + n, end |-> hi]
<1>0. 1 \in SlotIdx
  BY AliasSpaceAssumption DEF SlotIdx
<1>1. /\ pc[t] = "place" /\ c.end = lo
      /\ cache' = [cache EXCEPT ![t][1] = d]
      /\ StartWrite(t, c.start)
      /\ UNCHANGED <<high, entry, objs, gone>>
  BY DEF PlaceMerge
<1>2. /\ c \in [start : Nat, end : Nat] /\ lo \in Nat /\ hi \in Nat /\ n \in Nat
      /\ c.start <= lo /\ lo + n <= hi
      /\ d \in [start : Nat, end : Nat] /\ d.start <= d.end
  BY <1>0, <1>1 DEF Types, Ranges
<1>3. Cached(t, 1) = c.start .. lo - 1 /\ Claimed(t) = lo .. hi - 1
  BY <1>1 DEF Cached, Claimed
<1>4. \A p \in c.start .. hi - 1 : Mine(t, p)
  <2> SUFFICES ASSUME NEW p \in c.start .. hi - 1 PROVE Mine(t, p)
    OBVIOUS
  <2>1. p \in c.start .. lo - 1 \/ p \in lo .. hi - 1
    BY <1>2
  <2> QED BY <1>0, <1>3, <2>1 DEF Mine
<1>5. /\ cache'[t][1] = d
      /\ \A i \in SlotIdx : i # 1 => cache'[t][i] = cache[t][i]
      /\ \A u \in Thread \ {t} : cache'[u] = cache[u]
      /\ cache' \in [Thread -> [SlotIdx -> [start : Nat, end : Nat]]]
  BY <1>0, <1>1, <1>2 DEF Types
<1>6. \A i \in SlotIdx : cache'[t][i].start <= cache'[t][i].end
  BY <1>2, <1>5 DEF Ranges
<1>7. /\ Cached(t, 1)' = c.start + n .. hi - 1
      /\ \A i \in SlotIdx : i # 1 => Cached(t, i)' = Cached(t, i)
  BY <1>5 DEF Cached
<1> HIDE DEF c, lo, hi, d
<1>8. \A i \in SlotIdx : i # 1 => \A p \in c.start .. hi - 1 : p \notin Cached(t, i)
  <2> SUFFICES ASSUME NEW i \in SlotIdx, i # 1, NEW p \in c.start .. hi - 1 PROVE p \notin Cached(t, i)
    OBVIOUS
  <2>1. p \in c.start .. lo - 1 \/ p \in lo .. hi - 1
    BY <1>2
  <2> QED BY <1>0, <1>3, <2>1 DEF Held, OwnSlots
<1>9. \A p \in c.start .. c.start + n - 1 : Mine(t, p) /\ \A i \in SlotIdx : p \notin Cached(t, i)'
  <2> SUFFICES ASSUME NEW p \in c.start .. c.start + n - 1
               PROVE  Mine(t, p) /\ \A i \in SlotIdx : p \notin Cached(t, i)'
    OBVIOUS
  <2>1. p \in c.start .. hi - 1 /\ p \notin c.start + n .. hi - 1
    BY <1>2
  <2> QED BY <1>4, <1>7, <1>8, <2>1
<1>10. \A i \in SlotIdx : \A p \in Cached(t, i)' : Mine(t, p) /\ (i = 1 => p \in c.start .. hi - 1)
  <2> SUFFICES ASSUME NEW i \in SlotIdx, NEW p \in Cached(t, i)'
               PROVE  Mine(t, p) /\ (i = 1 => p \in c.start .. hi - 1)
    OBVIOUS
  <2>1. CASE i = 1
    <3>1. p \in c.start + n .. hi - 1
      BY <1>7, <2>1
    <3>2. p \in c.start .. hi - 1
      BY <1>2, <3>1
    <3> QED BY <1>4, <3>2
  <2>2. CASE i # 1
    BY <1>7, <2>2 DEF Mine
  <2> QED BY <2>1, <2>2
<1>11. \A i, j \in SlotIdx : \A p \in Cached(t, i)' : p \in Cached(t, j)' => i = j
  BY <1>7, <1>8, <1>10 DEF Held, OwnSlots
<1> QED BY <1>1, <1>2, <1>5, <1>6, <1>9, <1>10, <1>11, PlaceStep

LEMMA PlaceWholeStep ==
  ASSUME IInv, NEW t \in Thread, PlaceWhole(t)
  PROVE  IInv'
<1> USE DEF IInv
<1>1. /\ pc[t] = "place" /\ req[t].lo + req[t].n = req[t].hi
      /\ StartWrite(t, req[t].lo)
      /\ cache' = cache /\ UNCHANGED <<high, entry, objs, gone>>
  BY DEF PlaceWhole
<1>2. req[t].lo \in Nat /\ cache' \in [Thread -> [SlotIdx -> [start : Nat, end : Nat]]]
  BY <1>1 DEF Types
<1>3. \A i \in SlotIdx : Cached(t, i)' = Cached(t, i) /\ cache'[t][i].start <= cache'[t][i].end
  BY <1>1 DEF Cached, Ranges
<1>4. \A p \in req[t].lo .. req[t].lo + req[t].n - 1 :
        Mine(t, p) /\ \A i \in SlotIdx : p \notin Cached(t, i)'
  <2>1. Claimed(t) = req[t].lo .. req[t].lo + req[t].n - 1
    <3>1. Claimed(t) = req[t].lo .. req[t].hi - 1
      BY <1>1 DEF Claimed
    <3>2. req[t].lo \in Nat /\ req[t].hi \in Nat /\ req[t].n \in Nat
      BY DEF Types
    <3> QED BY <1>1, <3>1, <3>2
  <2> QED BY <1>3, <2>1 DEF Mine, Held, OwnSlots
<1>5. /\ \A i \in SlotIdx : \A p \in Cached(t, i)' : Mine(t, p)
      /\ \A i, j \in SlotIdx : \A p \in Cached(t, i)' : p \in Cached(t, j)' => i = j
  BY <1>3 DEF Mine, Held, OwnSlots
<1> QED BY <1>1, <1>2, <1>3, <1>4, <1>5, PlaceStep

(* The rest of the new units replaces one slot and some slots are emptied. *)
LEMMA PlaceRestStep ==
  ASSUME IInv, NEW t \in Thread, pc[t] = "place", StartWrite(t, req[t].lo),
         UNCHANGED <<high, entry, objs, gone>>,
         req[t].lo + req[t].n < req[t].hi,
         cache' \in [Thread -> [SlotIdx -> [start : Nat, end : Nat]]],
         \A u \in Thread \ {t} : cache'[u] = cache[u],
         NEW k \in SlotIdx, cache'[t][k] = Rest(t),
         \A i \in SlotIdx : i # k => cache'[t][i] \in {cache[t][i], Empty}
  PROVE  IInv'
<1> USE DEF IInv
<1> DEFINE lo == req[t].lo
           hi == req[t].hi
           n == req[t].n
<1>1. lo \in Nat /\ hi \in Nat /\ n \in Nat /\ lo + n < hi
  BY DEF Types
<1>2. Claimed(t) = lo .. hi - 1
  BY DEF Claimed
<1>3. Cached(t, k)' = lo + n .. hi - 1
  BY DEF Cached, Rest
<1>4. \A i \in SlotIdx : i # k => Cached(t, i)' \subseteq Cached(t, i)
  BY DEF Cached, Empty
<1>5. \A i \in SlotIdx : cache'[t][i].start <= cache'[t][i].end
  <2>1. Rest(t).start <= Rest(t).end /\ Empty.start <= Empty.end
    BY <1>1 DEF Rest, Empty
  <2> QED BY <2>1 DEF Ranges
<1> HIDE DEF lo, hi, n
<1>6. \A p \in lo .. hi - 1 : Mine(t, p) /\ \A i \in SlotIdx : p \notin Cached(t, i)
  BY <1>2 DEF Mine, Held, OwnSlots
<1>7. lo .. lo + n - 1 \subseteq lo .. hi - 1 /\ lo + n .. hi - 1 \subseteq lo .. hi - 1
  BY <1>1
<1>8. (lo .. lo + n - 1) \cap (lo + n .. hi - 1) = {}
  BY <1>1
<1>9. \A p \in lo .. lo + n - 1 : Mine(t, p) /\ \A i \in SlotIdx : p \notin Cached(t, i)'
  BY <1>3, <1>4, <1>6, <1>7, <1>8
<1>10. \A i \in SlotIdx : \A p \in Cached(t, i)' : Mine(t, p)
  BY <1>3, <1>4, <1>6, <1>7 DEF Mine
<1>11. \A i, j \in SlotIdx : \A p \in Cached(t, i)' : p \in Cached(t, j)' => i = j
  BY <1>3, <1>4, <1>6, <1>7 DEF Held, OwnSlots
<1> QED BY <1>1, <1>5, <1>9, <1>10, <1>11, PlaceStep DEF lo, n

LEMMA PlaceSlotStep ==
  ASSUME IInv, NEW t \in Thread, PlaceSlot(t)
  PROVE  IInv'
<1>1. PICK k \in SlotIdx : cache' = [cache EXCEPT ![t][k] = Rest(t)]
  BY DEF PlaceSlot
<1>2. /\ pc[t] = "place" /\ StartWrite(t, req[t].lo)
      /\ UNCHANGED <<high, entry, objs, gone>>
      /\ req[t].lo + req[t].n < req[t].hi
  BY DEF PlaceSlot
<1>3. Rest(t) \in [start : Nat, end : Nat]
  BY DEF IInv, Types, Rest
<1>4. /\ cache' \in [Thread -> [SlotIdx -> [start : Nat, end : Nat]]]
      /\ \A u \in Thread \ {t} : cache'[u] = cache[u]
      /\ cache'[t][k] = Rest(t)
      /\ \A i \in SlotIdx : i # k => cache'[t][i] = cache[t][i]
  BY <1>1, <1>3 DEF IInv, Types
<1> QED BY <1>2, <1>4, PlaceRestStep

LEMMA PlaceDiscardStep ==
  ASSUME IInv, NEW t \in Thread, PlaceDiscard(t)
  PROVE  IInv'
<1>0. 1 \in SlotIdx
  BY AliasSpaceAssumption DEF SlotIdx
<1>1. /\ pc[t] = "place" /\ StartWrite(t, req[t].lo)
      /\ UNCHANGED <<high, entry, objs, gone>>
      /\ req[t].lo + req[t].n < req[t].hi
      /\ cache' = [cache EXCEPT ![t] = [i \in SlotIdx |-> IF i = 1 THEN Rest(t) ELSE Empty]]
  BY DEF PlaceDiscard, Discards
<1>2. Rest(t) \in [start : Nat, end : Nat] /\ Empty \in [start : Nat, end : Nat]
  BY DEF IInv, Types, Rest, Empty
<1>3. /\ cache' \in [Thread -> [SlotIdx -> [start : Nat, end : Nat]]]
      /\ \A u \in Thread \ {t} : cache'[u] = cache[u]
      /\ cache'[t][1] = Rest(t)
      /\ \A i \in SlotIdx : i # 1 => cache'[t][i] = Empty
  BY <1>0, <1>1, <1>2 DEF IInv, Types
<1> QED BY <1>0, <1>1, <1>3, PlaceRestStep

-----------------------------------------------------------------------------
(* The part of a request in one table is written; with the last part the   *)
(* consumed pages are gone and the objects are the program's.              *)
LEMMA WriteTableStep ==
  ASSUME IInv, NEW t \in Thread, WriteTable(t)
  PROVE  IInv'
<1> USE DEF IInv
<1> DEFINE lo == req[t].lo
           hi == req[t].hi
           stop == Stop(t)
           last == stop = hi
           used == IF last THEN req[t].consume ELSE 0
<1>1. /\ pc[t] = "write" /\ cache' = cache /\ high' = high
      /\ entry' = entry \cup (lo .. stop - 1)
      /\ gone' = gone \cup (stop .. stop + used - 1)
      /\ IF last
         THEN /\ objs' = objs \cup PiecesOf(req[t])
              /\ pc' = [pc EXCEPT ![t] = "idle"] /\ req' = [req EXCEPT ![t] = NoReq]
         ELSE /\ req' = [req EXCEPT ![t].lo = stop] /\ objs' = objs /\ pc' = pc
  BY DEF WriteTable
<1>2. /\ lo \in Nat /\ hi \in Nat /\ req[t].start \in Nat /\ req[t].n \in Nat
      /\ req[t].consume \in Nat /\ req[t].piece \in Nat /\ used \in Nat
      /\ hi = req[t].start + req[t].n /\ req[t].start <= lo /\ lo <= hi
  BY <1>1 DEF Types, Ranges
<1>3. stop \in Nat /\ lo <= stop /\ stop <= hi
  BY <1>2, StopForward
<1> HIDE DEF lo, hi, stop
<1>4. Claimed(t) = lo .. hi + req[t].consume - 1
  BY <1>1 DEF Claimed, lo, hi
<1>5. /\ last => Claimed(t)' = {}
      /\ ~last => Claimed(t)' = stop .. hi + req[t].consume - 1
  BY <1>1, <1>3 DEF Claimed, Types, hi
<1>6. \A i \in SlotIdx : Cached(t, i)' = Cached(t, i)
  BY <1>1 DEF Cached
<1>7. Claimed(t)' \subseteq Claimed(t)
  <2>1. \A p \in stop .. hi + req[t].consume - 1 : p \in lo .. hi + req[t].consume - 1
    BY <1>2, <1>3
  <2>2. CASE last
    BY <1>5, <2>2
  <2>3. CASE ~last
    BY <1>4, <1>5, <2>1, <2>3
  <2> QED BY <2>2, <2>3
<1>8. Local(t)
  BY <1>1 DEF Local, Types
<1>9. OwnSlots(t)' /\ \A p \in Nat : Mine(t, p)' => Mine(t, p)
  BY <1>6, <1>7 DEF Held, OwnSlots, Mine
<1>10. Held' /\ \A p \in Nat : Out(p) => Out(p)'
  BY <1>1, <1>8, <1>9, LocalMoves, MovesKeepHeld
<1>11. \A p \in (lo .. stop - 1) \cup (stop .. stop + used - 1) : Out(p)'
  <2> SUFFICES ASSUME NEW p \in (lo .. stop - 1) \cup (stop .. stop + used - 1)
               PROVE  Out(p)'
    OBVIOUS
  <2>1. p \in Nat /\ p \in Claimed(t) /\ p \notin Claimed(t)'
    BY <1>2, <1>3, <1>4, <1>5
  <2>2. Mine(t, p) /\ ~Mine(t, p)'
    BY <1>6, <2>1 DEF Mine, Held, OwnSlots
  <2> QED BY <1>1, <1>8, <2>1, <2>2, GivenAwayIsOut
<1>12. entry' \cap gone' = {}
  <2>1. (lo .. stop - 1) \cap (stop .. stop + used - 1) = {}
    BY <1>2, <1>3
  <2>2. (lo .. stop - 1) \cup (stop .. stop + used - 1) \subseteq Claimed(t)
    BY <1>2, <1>3, <1>4
  <2>3. Claimed(t) \cap (entry \cup gone) = {}
    BY DEF UsedIsOut, Out, Mine
  <2> QED BY <1>1, <2>1, <2>2, <2>3
<1>13. /\ pc' \in [Thread -> {"idle", "place", "write", "free"}]
       /\ req' \in [Thread -> [start : Nat, lo : Nat, hi : Nat, n : Nat, consume : Nat, piece : Nat]]
       /\ \A u \in Thread \ {t} : pc'[u] = pc[u] /\ req'[u] = req[u]
       /\ last => pc'[t] = "idle"
       /\ ~last => /\ pc'[t] = "write" /\ req'[t].lo = stop /\ req'[t].start = req[t].start
                   /\ req'[t].hi = hi /\ req'[t].n = req[t].n
  <2>1. CASE last
    <3>1. NoReq \in [start : Nat, lo : Nat, hi : Nat, n : Nat, consume : Nat, piece : Nat]
      BY DEF NoReq
    <3>2. pc' = [pc EXCEPT ![t] = "idle"] /\ req' = [req EXCEPT ![t] = NoReq]
      BY <1>1, <2>1
    <3> QED BY <2>1, <3>1, <3>2 DEF Types
  <2>2. CASE ~last
    <3>1. pc' = pc /\ req' = [req EXCEPT ![t].lo = stop]
      BY <1>1, <2>2
    <3> QED BY <1>1, <1>3, <2>2, <3>1 DEF Types, hi
  <2> QED BY <2>1, <2>2
<1>14. /\ \A o \in PiecesOf(req[t]) :
            /\ o \in [start : Nat, len : Nat]
            /\ o.start .. o.start + o.len - 1 \subseteq req[t].start .. hi - 1
  BY <1>2 DEF PiecesOf, hi
<1>15. Types'
  <2>1. entry' \subseteq Nat /\ gone' \subseteq Nat
    BY <1>1, <1>2, <1>3 DEF Types
  <2>2. objs' \subseteq [start : Nat, len : Nat]
    BY <1>1, <1>14 DEF Types
  <2> QED BY <1>1, <1>13, <2>1, <2>2 DEF Types
<1>16. Ranges'
  BY <1>1, <1>2, <1>3, <1>13 DEF Ranges
<1>17. UsedIsOut'
  <2>1. \A p \in entry' \cup gone' : Out(p)'
    BY <1>1, <1>10, <1>11 DEF UsedIsOut, Types
  <2>2. \A p \in req[t].start .. stop - 1 : Out(p)'
    <3> SUFFICES ASSUME NEW p \in req[t].start .. stop - 1 PROVE Out(p)'
      OBVIOUS
    <3>1. p \in Nat /\ (p \in req[t].start .. lo - 1 \/ p \in lo .. stop - 1)
      BY <1>2, <1>3
    <3> QED BY <1>1, <1>10, <1>11, <3>1 DEF UsedIsOut, lo
  <2>3. \A o \in objs' : \A p \in o.start .. o.start + o.len - 1 : Out(p)'
    <3> SUFFICES ASSUME NEW o \in objs', NEW p \in o.start .. o.start + o.len - 1 PROVE Out(p)'
      OBVIOUS
    <3>1. CASE o \in objs
      BY <1>10, <3>1 DEF UsedIsOut, Types
    <3>2. CASE last /\ o \in PiecesOf(req[t])
      BY <1>14, <2>2, <3>2
    <3> QED BY <1>1, <3>1, <3>2
  <2>4. \A u \in Thread : pc'[u] = "free" => \A p \in req'[u].lo .. req'[u].hi - 1 : Out(p)'
    <3> SUFFICES ASSUME NEW u \in Thread, pc'[u] = "free", NEW p \in req'[u].lo .. req'[u].hi - 1
                 PROVE  Out(p)'
      OBVIOUS
    <3>1. u # t /\ pc[u] = "free" /\ req'[u] = req[u]
      BY <1>8, <1>13 DEF Local, Types
    <3>2. p \in req[u].lo .. req[u].hi - 1 /\ p \in Nat
      BY <3>1 DEF Types
    <3> QED BY <1>10, <3>1, <3>2 DEF UsedIsOut
  <2>5. \A u \in Thread : pc'[u] = "write" => \A p \in req'[u].start .. req'[u].lo - 1 : Out(p)'
    <3> SUFFICES ASSUME NEW u \in Thread, pc'[u] = "write", NEW p \in req'[u].start .. req'[u].lo - 1
                 PROVE  Out(p)'
      OBVIOUS
    <3>1. CASE u = t
      BY <1>13, <2>2, <3>1
    <3>2. CASE u # t
      BY <1>10, <1>13, <3>2 DEF UsedIsOut, Types
    <3> QED BY <3>1, <3>2
  <2> QED BY <2>1, <2>3, <2>4, <2>5 DEF UsedIsOut
<1> QED BY <1>10, <1>12, <1>15, <1>16, <1>17

(* A free takes an object; the pages it will clear are out already.        *)
LEMMA FreeBeginStep ==
  ASSUME IInv, NEW t \in Thread, NEW o \in objs, FreeBegin(t, o)
  PROVE  IInv'
<1> USE DEF IInv
<1> DEFINE r == [NoReq EXCEPT !.lo = o.start, !.hi = o.start + o.len]
<1>1. /\ pc[t] = "idle" /\ pc' = [pc EXCEPT ![t] = "free"]
      /\ req' = [req EXCEPT ![t] = r] /\ objs' = objs \ {o}
      /\ UNCHANGED <<high, cache, entry, gone>>
  BY DEF FreeBegin
<1>2. o \in [start : Nat, len : Nat]
  BY DEF Types
<1>3. /\ r \in [start : Nat, lo : Nat, hi : Nat, n : Nat, consume : Nat, piece : Nat]
      /\ r.lo = o.start /\ r.hi = o.start + o.len /\ r.lo <= r.hi
  <2>1. NoReq \in [start : Nat, lo : Nat, hi : Nat, n : Nat, consume : Nat, piece : Nat]
    BY DEF NoReq
  <2>2. o.start \in Nat /\ o.start + o.len \in Nat /\ o.start <= o.start + o.len
    BY <1>2
  <2> QED BY <2>1, <2>2
<1> HIDE DEF r
<1>4. Types'
  BY <1>1, <1>3 DEF Types
<1>5. Ranges'
  <2>1. \A u \in Thread : u = t \/ (pc'[u] = pc[u] /\ req'[u] = req[u])
    BY <1>1 DEF Types
  <2>2. pc'[t] = "free" /\ req'[t].lo <= req'[t].hi
    BY <1>1, <1>3 DEF Types
  <2> QED BY <1>1, <2>1, <2>2 DEF Ranges
<1>6. Local(t)
  BY <1>1 DEF Types, Local
<1>7. Claimed(t)' = {} /\ \A i \in SlotIdx : Cached(t, i)' = Cached(t, i)
  BY <1>1 DEF Types, Claimed, Cached
<1>8. OwnSlots(t)' /\ \A p \in Nat : Mine(t, p)' => Mine(t, p)
  BY <1>7 DEF Held, OwnSlots, Mine
<1>9. Held' /\ \A p \in Nat : Out(p) => Out(p)'
  BY <1>1, <1>6, <1>8, LocalMoves, MovesKeepHeld
<1>10. UsedIsOut'
  <2>1. \A p \in entry' \cup gone' : Out(p)'
    BY <1>1, <1>9 DEF UsedIsOut, Types
  <2>2. \A x \in objs : \A p \in x.start .. x.start + x.len - 1 : Out(p)'
    BY <1>9 DEF UsedIsOut, Types
  <2>3. \A u \in Thread : pc'[u] = "free" => \A p \in req'[u].lo .. req'[u].hi - 1 : Out(p)'
    <3> SUFFICES ASSUME NEW u \in Thread, pc'[u] = "free", NEW p \in req'[u].lo .. req'[u].hi - 1
                 PROVE  Out(p)'
      OBVIOUS
    <3>1. CASE u = t
      BY <1>1, <1>3, <2>2, <3>1 DEF Types
    <3>2. CASE u # t
      BY <1>1, <1>9, <3>2 DEF UsedIsOut, Types
    <3> QED BY <3>1, <3>2
  <2>4. \A u \in Thread : pc'[u] = "write" => \A p \in req'[u].start .. req'[u].lo - 1 : Out(p)'
    BY <1>1, <1>9 DEF UsedIsOut, Types
  <2> QED BY <1>1, <2>1, <2>2, <2>3, <2>4 DEF UsedIsOut
<1> QED BY <1>1, <1>4, <1>5, <1>9, <1>10

(* The entries of a freed object in one table are cleared.                 *)
LEMMA FreeTableStep ==
  ASSUME IInv, NEW t \in Thread, FreeTable(t)
  PROVE  IInv'
<1> USE DEF IInv
<1> DEFINE lo == req[t].lo
           hi == req[t].hi
           stop == Stop(t)
<1>1. /\ pc[t] = "free" /\ UNCHANGED <<high, cache, objs>>
      /\ entry' = entry \ (lo .. stop - 1)
      /\ gone' = gone \cup (lo .. stop - 1)
      /\ IF stop = hi
         THEN pc' = [pc EXCEPT ![t] = "idle"] /\ req' = [req EXCEPT ![t] = NoReq]
         ELSE req' = [req EXCEPT ![t].lo = stop] /\ pc' = pc
  BY DEF FreeTable
<1>2. lo \in Nat /\ hi \in Nat
  BY DEF Types
<1>3. stop \in Nat /\ lo <= stop /\ stop <= hi
  BY <1>1, StopForward DEF Ranges
<1> HIDE DEF lo, hi, stop
<1>4. \A p \in lo .. stop - 1 : Out(p)
  <2>1. lo .. stop - 1 \subseteq lo .. hi - 1
    BY <1>2, <1>3
  <2> QED BY <1>1, <2>1 DEF UsedIsOut, lo, hi
<1>5. /\ pc' \in [Thread -> {"idle", "place", "write", "free"}]
      /\ req' \in [Thread -> [start : Nat, lo : Nat, hi : Nat, n : Nat, consume : Nat, piece : Nat]]
      /\ \A u \in Thread \ {t} : pc'[u] = pc[u] /\ req'[u] = req[u]
      /\ pc'[t] = "idle" \/ (pc'[t] = "free" /\ req'[t].lo = stop /\ req'[t].hi = hi)
  <2>1. CASE stop = hi
    <3>1. NoReq \in [start : Nat, lo : Nat, hi : Nat, n : Nat, consume : Nat, piece : Nat]
      BY DEF NoReq
    <3>2. pc' = [pc EXCEPT ![t] = "idle"] /\ req' = [req EXCEPT ![t] = NoReq]
      BY <1>1, <2>1
    <3> QED BY <3>1, <3>2 DEF Types
  <2>2. CASE stop # hi
    <3>1. pc' = pc /\ req' = [req EXCEPT ![t].lo = stop]
      BY <1>1, <2>2
    <3> QED BY <1>1, <1>3, <3>1 DEF Types, hi
  <2> QED BY <2>1, <2>2
<1>6. Types'
  <2>1. entry' \subseteq Nat /\ gone' \subseteq Nat
    BY <1>1, <1>2, <1>3 DEF Types
  <2> QED BY <1>1, <1>5, <2>1 DEF Types
<1>7. Ranges'
  BY <1>1, <1>3, <1>5 DEF Ranges
<1>8. Local(t)
  BY <1>1, <1>5 DEF Local
<1>9. Claimed(t)' = {} /\ \A i \in SlotIdx : Cached(t, i)' = Cached(t, i)
  BY <1>1, <1>5 DEF Claimed, Cached
<1>10. OwnSlots(t)' /\ \A p \in Nat : Mine(t, p)' => Mine(t, p)
  BY <1>9 DEF Held, OwnSlots, Mine
<1>11. Held' /\ \A p \in Nat : Out(p) => Out(p)'
  BY <1>1, <1>8, <1>10, LocalMoves, MovesKeepHeld
<1>12. UsedIsOut'
  <2>1. \A p \in entry' \cup gone' : Out(p)'
    BY <1>1, <1>2, <1>3, <1>4, <1>11 DEF UsedIsOut, Types
  <2>2. \A x \in objs' : \A p \in x.start .. x.start + x.len - 1 : Out(p)'
    BY <1>1, <1>11 DEF UsedIsOut, Types
  <2>3. \A p \in stop .. hi - 1 : Out(p)'
    <3> SUFFICES ASSUME NEW p \in stop .. hi - 1 PROVE Out(p)'
      OBVIOUS
    <3>1. p \in Nat /\ p \in lo .. hi - 1
      BY <1>2, <1>3
    <3> QED BY <1>1, <1>11, <3>1 DEF UsedIsOut, lo, hi
  <2>4. \A u \in Thread : pc'[u] = "free" => \A p \in req'[u].lo .. req'[u].hi - 1 : Out(p)'
    <3> SUFFICES ASSUME NEW u \in Thread, pc'[u] = "free", NEW p \in req'[u].lo .. req'[u].hi - 1
                 PROVE  Out(p)'
      OBVIOUS
    <3>1. CASE u = t
      BY <1>5, <2>3, <3>1
    <3>2. CASE u # t
      BY <1>5, <1>11, <3>2 DEF UsedIsOut, Types
    <3> QED BY <3>1, <3>2
  <2>5. \A u \in Thread : pc'[u] = "write" => \A p \in req'[u].start .. req'[u].lo - 1 : Out(p)'
    <3> SUFFICES ASSUME NEW u \in Thread, pc'[u] = "write", NEW p \in req'[u].start .. req'[u].lo - 1
                 PROVE  Out(p)'
      OBVIOUS
    <3>1. u # t /\ pc[u] = "write" /\ req'[u] = req[u]
      BY <1>5, <1>8 DEF Local, Types
    <3>2. p \in req[u].start .. req[u].lo - 1 /\ p \in Nat
      BY <3>1 DEF Types
    <3> QED BY <1>11, <3>1, <3>2 DEF UsedIsOut
  <2> QED BY <2>1, <2>2, <2>4, <2>5 DEF UsedIsOut
<1>13. entry' \cap gone' = {}
  BY <1>1
<1> QED BY <1>6, <1>7, <1>11, <1>12, <1>13

-----------------------------------------------------------------------------
LEMMA InitInv == Init => IInv
<1> SUFFICES ASSUME Init PROVE IInv
  OBVIOUS
<1> USE DEF Init
<1>1. Types
  BY AliasSpaceAssumption DEF Types, Base, Empty, NoReq
<1>2. Ranges
  BY DEF Ranges, Empty
<1>3. \A t \in Thread : Claimed(t) = {} /\ \A i \in SlotIdx : Cached(t, i) = {}
  BY DEF Claimed, Cached, Empty
<1>4. Held
  BY <1>3 DEF Held, Mine, OwnSlots
<1>5. UsedIsOut
  BY DEF UsedIsOut
<1> QED BY <1>1, <1>2, <1>4, <1>5 DEF IInv

LEMMA NextInv == IInv /\ [Next]_vars => IInv'
<1> SUFFICES ASSUME IInv, [Next]_vars PROVE IInv'
  OBVIOUS
<1>1. CASE UNCHANGED vars
  BY <1>1 DEF vars, IInv, Types, Ranges, Held, UsedIsOut, Out, OwnSlots, Mine, Claimed, Cached
<1>2. ASSUME NEW t \in Thread, Malloc(t) PROVE IInv'
  BY <1>2, AllocCachedStep, GetHugeStep DEF Malloc
<1>3. ASSUME NEW t \in Thread, Place(t) PROVE IInv'
  BY <1>3, PlaceMergeStep, PlaceWholeStep, PlaceSlotStep, PlaceDiscardStep DEF Place
<1>4. ASSUME NEW t \in Thread, WriteTable(t) PROVE IInv'
  BY <1>4, WriteTableStep
<1>5. ASSUME NEW t \in Thread, FreeTable(t) PROVE IInv'
  BY <1>5, FreeTableStep
<1>6. ASSUME NEW t \in Thread, NEW o \in objs, FreeBegin(t, o) PROVE IInv'
  BY <1>6, FreeBeginStep
<1> QED BY <1>1, <1>2, <1>3, <1>4, <1>5, <1>6 DEF Next, Quiescent

(* The invariant holds in every behaviour of alloc_alias and __ota_free.   *)
THEOREM Invariant == Spec => []IInv
BY InitInv, NextInv, PTL DEF Spec

(* No page of the alias space is ever handed out twice: what a thread      *)
(* caches or is about to use was never used and belongs to it alone.       *)
THEOREM OneTimeHolds == Spec => []OneTime
BY Invariant, InvImpliesOneTime, PTL
-----------------------------------------------------------------------------
(***************************************************************************)
(* TypeOK, CountIsExact, DestroyedIsUnused and ConsumeEndsTable.  On top   *)
(* of IInv the inductive invariant says                                    *)
(*   Shape   new units and cached ranges end at the border of a table,     *)
(*   Owners  an entry that an object, a free or an unfinished request      *)
(*           stands for exists and is nobody else's,                       *)
(*   Counts  what the state of a table says about its pages: a table that  *)
(*           was never written lies in the hands of one thread as a whole, *)
(*           which is what makes discarding it harmless.                   *)
(***************************************************************************)
Aligned(x) == \E k \in Nat : x = k * HugeLen

ShapeOf(t) ==
  /\ \A i \in SlotIdx : Aligned(cache[t][i].end) /\ cache[t][i].end <= high
  /\ pc[t] = "place" =>
       /\ Aligned(req[t].lo) /\ Aligned(req[t].hi)
       /\ req[t].hi <= high /\ req[t].n > 0
  /\ pc[t] = "write" =>
       /\ req[t].lo < req[t].hi /\ req[t].hi + req[t].consume <= high
       /\ req[t].consume < HugeLen
       /\ req[t].consume > 0 => Aligned(req[t].hi + req[t].consume)
  /\ pc[t] = "free" => req[t].lo < req[t].hi

Shape ==
  /\ Aligned(high) /\ Base <= high /\ high <= Limit
  /\ \A t \in Thread : ShapeOf(t)
  /\ \A t \in Thread : \A p \in Nat : Mine(t, p) => Base <= p
  /\ \A p \in entry \cup gone : Base <= p

ObjPages(o) == o.start .. o.start + o.len - 1

(* The entries that an operation of t has written or will clear.           *)
Used(t) ==
  IF pc[t] = "write" THEN req[t].start .. req[t].lo - 1
  ELSE IF pc[t] = "free" THEN req[t].lo .. req[t].hi - 1
  ELSE {}

Owners ==
  /\ \A o \in objs : o.len > 0 /\ ObjPages(o) \subseteq entry
  /\ \A t \in Thread : Used(t) \subseteq entry
  /\ \A o, q \in objs : o # q => ObjPages(o) \cap ObjPages(q) = {}
  /\ \A o \in objs, t \in Thread : ObjPages(o) \cap Used(t) = {}
  /\ \A t, u \in Thread : t # u => Used(t) \cap Used(u) = {}

CountOf(h) ==
  /\ node[h].state = "null" =>
       /\ PagesOf(h) \cap gone = {}
       /\ \A t \in Thread :
            (\E p \in PagesOf(h) : Mine(t, p)) => \A p \in PagesOf(h) : Mine(t, p)
  /\ node[h].state = "live" =>
       node[h].cnt = HugeLen - Cardinality(PagesOf(h) \cap gone) /\ node[h].cnt > 0
  /\ node[h].state = "destroyed" => \A p \in PagesOf(h) : Out(p) /\ p \notin entry

Counts ==
  /\ node \in [Table -> [state : {"null", "live", "destroyed"}, cnt : 0 .. HugeLen]]
  /\ \A h \in Table : CountOf(h)

CInv == IInv /\ Shape /\ Owners /\ Counts

-----------------------------------------------------------------------------
(* Arithmetic of the table borders.                                        *)
LEMMA Multiples ==
  ASSUME NEW H \in Nat \ {0}, NEW a \in Int, NEW b \in Int
  PROVE  /\ a * H \in Int /\ b * H \in Int
         /\ (a + 1) * H = a * H + H
         /\ a < b => a * H + H <= b * H
         /\ a * H < b * H => a < b
<1>1. a * H \in Int /\ b * H \in Int /\ (a + 1) * H = a * H + H
  OBVIOUS
<1>2. ASSUME NEW x \in Int, NEW y \in Int, x <= y PROVE x * H <= y * H
  <2>1. PICK d \in Nat : y = x + d
    BY <1>2
  <2>2. d * H \in Nat /\ y * H = x * H + d * H
    BY <2>1
  <2> QED BY <2>2
<1>3. a < b => a * H + H <= b * H
  <2> SUFFICES ASSUME a < b PROVE a * H + H <= b * H
    OBVIOUS
  <2>1. (a + 1) * H <= b * H
    BY <1>2
  <2> QED BY <1>1, <2>1
<1>4. a * H < b * H => a < b
  <2> SUFFICES ASSUME a * H < b * H, b <= a PROVE FALSE
    OBVIOUS
  <2>1. b * H <= a * H
    BY <1>2
  <2> QED BY <1>1, <2>1
<1> QED BY <1>1, <1>3, <1>4

LEMMA PagesAre ==
  ASSUME NEW h \in Nat
  PROVE  /\ PagesOf(h) \subseteq Nat
         /\ \A p \in Nat : p \in PagesOf(h) <=> h * HugeLen <= p /\ p < h * HugeLen + HugeLen
         /\ \A p \in PagesOf(h) : h * HugeLen <= p /\ p < h * HugeLen + HugeLen
<1>1. HugeLen \in Nat \ {0} /\ h * HugeLen \in Nat
  BY AliasSpaceAssumption
<1> QED BY <1>1 DEF PagesOf

(* A table lies on one side of every border.                               *)
LEMMA BordersCut ==
  ASSUME NEW h \in Nat, NEW x, Aligned(x), NEW p \in PagesOf(h), NEW q \in PagesOf(h)
  PROVE  x \in Nat /\ p \in Nat /\ q \in Nat /\ (p < x <=> q < x)
<1>1. PICK k \in Nat : x = k * HugeLen
  BY DEF Aligned
<1>2. HugeLen \in Nat \ {0}
  BY AliasSpaceAssumption
<1>3. /\ x \in Nat /\ h * HugeLen \in Nat /\ (h < k => h * HugeLen + HugeLen <= x)
      /\ k < h + 1 => x <= h * HugeLen
  <2>1. k * HugeLen \in Nat /\ h * HugeLen \in Nat
    BY <1>2
  <2>2. h < k => h * HugeLen + HugeLen <= k * HugeLen
    BY <1>2, Multiples
  <2>3. k < h => k * HugeLen + HugeLen <= h * HugeLen
    BY <1>2, Multiples
  <2>4. k < h + 1 => k < h \/ k = h
    OBVIOUS
  <2> QED BY <1>1, <1>2, <2>1, <2>2, <2>3, <2>4
<1>4. p \in Nat /\ q \in Nat
  BY PagesAre
<1>5. /\ h * HugeLen <= p /\ p < h * HugeLen + HugeLen
      /\ h * HugeLen <= q /\ q < h * HugeLen + HugeLen
  BY PagesAre
<1>6. CASE h < k
  BY <1>2, <1>3, <1>4, <1>5, <1>6
<1>7. CASE k < h + 1
  BY <1>2, <1>3, <1>4, <1>5, <1>7
<1> QED BY <1>4, <1>3, <1>6, <1>7

(* TableOf is the table a page belongs to.                                 *)
LEMMA TableIs ==
  ASSUME NEW p \in Nat
  PROVE  /\ TableOf(p) \in Nat /\ p \in PagesOf(TableOf(p))
         /\ \A h \in Nat : p \in PagesOf(h) => h = TableOf(p)
<1>1. HugeLen \in Nat \ {0}
  BY AliasSpaceAssumption
<1>2. ASSUME NEW H \in Nat \ {0}
      PROVE  /\ p \div H \in Nat
             /\ (p \div H) * H <= p /\ p < (p \div H) * H + H
  OBVIOUS
<1> DEFINE g == TableOf(p)
<1>3. g \in Nat /\ g * HugeLen <= p /\ p < g * HugeLen + HugeLen
  BY <1>1, <1>2 DEF TableOf
<1> HIDE DEF g
<1>4. p \in PagesOf(g)
  BY <1>3, PagesAre
<1>5. ASSUME NEW h \in Nat, p \in PagesOf(h) PROVE h = g
  <2>1. h * HugeLen <= p /\ p < h * HugeLen + HugeLen /\ h * HugeLen \in Nat /\ g * HugeLen \in Nat
    BY <1>1, <1>3, <1>5, PagesAre
  <2>2. h < g => h * HugeLen + HugeLen <= g * HugeLen
    BY <1>1, <1>3, Multiples
  <2>3. g < h => g * HugeLen + HugeLen <= h * HugeLen
    BY <1>1, <1>3, Multiples
  <2> QED BY <1>1, <1>3, <2>1, <2>2, <2>3
<1> QED BY <1>3, <1>4, <1>5 DEF g

(* The pages of the alias space lie in its tables.                         *)
LEMMA TableExists ==
  ASSUME NEW p \in Nat, Base <= p, p < Limit
  PROVE  TableOf(p) \in Table
<1>1. HugeLen \in Nat \ {0} /\ NHuge \in Nat
  BY AliasSpaceAssumption
<1> DEFINE g == TableOf(p)
<1>2. g \in Nat /\ g * HugeLen <= p /\ p < g * HugeLen + HugeLen
  BY TableIs, PagesAre
<1> HIDE DEF g
<1>3. g # 0
  BY <1>1, <1>2 DEF Base
<1>4. g < NHuge + 1
  <2>1. g * HugeLen < (NHuge + 1) * HugeLen
    <3>1. g * HugeLen \in Nat /\ (NHuge + 1) * HugeLen \in Nat
      BY <1>1, <1>2
    <3> QED BY <1>2, <3>1 DEF Limit
  <2> QED BY <1>1, <1>2, <2>1, Multiples
<1> QED BY <1>1, <1>2, <1>3, <1>4 DEF Table, g

LEMMA AlignedPlus ==
  ASSUME NEW x, Aligned(x), NEW m \in Nat
  PROVE  Aligned(x + m * HugeLen)
<1>1. PICK k \in Nat : x = k * HugeLen
  BY DEF Aligned
<1>2. x + m * HugeLen = (k + m) * HugeLen /\ k + m \in Nat
  BY <1>1, AliasSpaceAssumption
<1> QED BY <1>2 DEF Aligned

LEMMA PagesFinite ==
  ASSUME NEW h \in Nat
  PROVE  IsFiniteSet(PagesOf(h)) /\ Cardinality(PagesOf(h)) = HugeLen
<1>1. HugeLen \in Nat \ {0} /\ h * HugeLen \in Nat
  BY AliasSpaceAssumption
<1> SUFFICES ASSUME NEW x \in Nat
             PROVE  IsFiniteSet(x .. x + HugeLen - 1) /\ Cardinality(x .. x + HugeLen - 1) = HugeLen
  BY <1>1 DEF PagesOf
<1> DEFINE y == x + HugeLen - 1
<1>2. x \in Int /\ y \in Int /\ ~(x > y) /\ y - x + 1 = HugeLen
  BY <1>1
<1> HIDE DEF y
<1>3. IsFiniteSet(x .. y) /\ Cardinality(x .. y) = IF x > y THEN 0 ELSE y - x + 1
  BY <1>2, FS_Interval
<1> QED BY <1>2, <1>3 DEF y

(* Adding d pages of a table to those that are gone.                       *)
LEMMA GoneGrows ==
  ASSUME NEW h \in Nat, NEW a \in Nat, NEW b \in Nat, a <= b,
         a .. b - 1 \subseteq PagesOf(h), (a .. b - 1) \cap gone = {},
         gone' = gone \cup (a .. b - 1)
  PROVE  /\ Cardinality(PagesOf(h) \cap gone) \in Nat
         /\ Cardinality(PagesOf(h) \cap gone') = Cardinality(PagesOf(h) \cap gone) + (b - a)
         /\ Cardinality(PagesOf(h) \cap gone') <= HugeLen
         /\ Cardinality(PagesOf(h) \cap gone') = HugeLen => PagesOf(h) \subseteq gone'
         /\ \A g \in Nat : g # h => PagesOf(g) \cap gone' = PagesOf(g) \cap gone
<1>1. HugeLen \in Nat \ {0} /\ h * HugeLen \in Nat
  BY AliasSpaceAssumption
<1>2. IsFiniteSet(PagesOf(h)) /\ Cardinality(PagesOf(h)) = HugeLen
  BY PagesFinite
<1> DEFINE S == PagesOf(h) \cap gone
           T == a .. b - 1
           U == PagesOf(h) \cap gone'
<1>3. IsFiniteSet(T) /\ Cardinality(T) = b - a
  <2>1. a \in Int /\ b - 1 \in Int
    OBVIOUS
  <2>2. IsFiniteSet(a .. b - 1) /\ Cardinality(a .. b - 1) = IF a > b - 1 THEN 0 ELSE b - 1 - a + 1
    BY <2>1, FS_Interval
  <2> QED BY <2>2
<1>4. U = S \cup T /\ S \cap T = {} /\ S \subseteq PagesOf(h) /\ U \subseteq PagesOf(h)
  OBVIOUS
<1> HIDE DEF S, T, U
<1>5. IsFiniteSet(S) /\ Cardinality(S) \in Nat
  BY <1>2, <1>4, FS_Subset, FS_CardinalityType
<1>6. Cardinality(U) = Cardinality(S) + (b - a)
  <2>1. Cardinality(U) = Cardinality(S) + Cardinality(T) - Cardinality(S \cap T)
    BY <1>3, <1>4, <1>5, FS_Union
  <2>2. Cardinality(S \cap T) = 0
    BY <1>4, FS_EmptySet
  <2> QED BY <1>3, <1>5, <2>1, <2>2
<1>7. Cardinality(U) <= HugeLen /\ (Cardinality(U) = HugeLen => U = PagesOf(h))
  BY <1>2, <1>4, FS_Subset
<1>8. ASSUME NEW g \in Nat, g # h PROVE PagesOf(g) \cap gone' = PagesOf(g) \cap gone
  <2>1. \A p \in T : p \notin PagesOf(g)
    BY <1>8, TableIs, PagesAre DEF T
  <2> QED BY <2>1 DEF T
<1> QED BY <1>5, <1>6, <1>7, <1>8 DEF S, U

-----------------------------------------------------------------------------
LEMMA InvImplies == CInv => TypeOK /\ CountIsExact /\ DestroyedIsUnused /\ ConsumeEndsTable
<1> SUFFICES ASSUME CInv PROVE TypeOK /\ CountIsExact /\ DestroyedIsUnused /\ ConsumeEndsTable
  OBVIOUS
<1> USE DEF CInv, IInv
<1>0. HugeLen \in Nat \ {0} /\ Base \in Nat /\ Limit \in Nat
  <2>1. NHuge + 1 \in Nat /\ HugeLen \in Nat
    BY AliasSpaceAssumption
  <2> QED BY <2>1, AliasSpaceAssumption DEF Base, Limit
<1>1. high \in Nat /\ Base <= high /\ high <= Limit
  BY DEF Types, Shape
<1>2. \A p \in Nat : Base <= p /\ p < high => p \in Page
  BY <1>0, <1>1 DEF Page
<1>3. entry \subseteq Page /\ gone \subseteq Page
  BY <1>2 DEF Types, Shape, UsedIsOut, Out
<1>4. \A o \in objs : o.start .. o.start + o.len - 1 \subseteq Page
  BY <1>3 DEF Owners, ObjPages
<1>5. cache \in [Thread -> [SlotIdx -> [start : 0 .. Limit, end : 0 .. Limit]]]
  <2>1. ASSUME NEW t \in Thread, NEW i \in SlotIdx
        PROVE  cache[t][i] \in [start : 0 .. Limit, end : 0 .. Limit]
    <3>1. cache[t][i] \in [start : Nat, end : Nat] /\ cache[t][i].start <= cache[t][i].end
      BY DEF Types, Ranges
    <3>2. cache[t][i].end <= high
      BY DEF Shape, ShapeOf
    <3>3. cache[t][i].start \in 0 .. Limit /\ cache[t][i].end \in 0 .. Limit
      BY <1>0, <1>1, <3>1, <3>2
    <3> QED BY <3>1, <3>3
  <2> QED BY <2>1 DEF Types
<1>6. TypeOK
  BY <1>0, <1>1, <1>3, <1>4, <1>5 DEF TypeOK, Counts, Types
<1>7. CountIsExact
  BY DEF CountIsExact, Counts, CountOf
<1>8. DestroyedIsUnused
  BY DEF DestroyedIsUnused, Counts, CountOf, Out, Mine
<1>9. ConsumeEndsTable
  <2> SUFFICES ASSUME NEW t \in Thread, pc[t] = "write", req[t].consume > 0
               PROVE  /\ (req[t].hi + req[t].consume) % HugeLen = 0
                      /\ TableOf(req[t].hi + req[t].consume - 1) = TableOf(req[t].hi - 1)
    BY DEF ConsumeEndsTable
  <2> DEFINE hi == req[t].hi
             c == req[t].consume
  <2>1. hi \in Nat /\ hi > 0 /\ c \in Nat /\ c > 0 /\ c < HugeLen /\ Aligned(hi + c)
    BY DEF Types, Shape, ShapeOf
  <2>2. PICK k \in Nat : hi + c = k * HugeLen
    BY <2>1 DEF Aligned
  <2> HIDE DEF hi, c
  <2>3. (hi + c) % HugeLen = 0
    <3>1. ASSUME NEW H \in Nat \ {0} PROVE (k * H) % H = 0
      OBVIOUS
    <3> QED BY <1>0, <2>2, <3>1
  <2>4. k > 0
    BY <1>0, <2>1, <2>2
  <2>5. /\ (k - 1) * HugeLen + HugeLen = hi + c /\ k - 1 \in Nat
        /\ (k - 1) * HugeLen \in Nat
    <3>1. (k - 1 + 1) * HugeLen = (k - 1) * HugeLen + HugeLen /\ k - 1 \in Nat
      BY <1>0, <2>4, Multiples
    <3> QED BY <1>0, <2>2, <2>4, <3>1
  <2>6. hi + c - 1 \in PagesOf(k - 1) /\ hi - 1 \in PagesOf(k - 1)
    BY <1>0, <2>1, <2>5, PagesAre
  <2>7. TableOf(hi + c - 1) = TableOf(hi - 1)
    <3>1. hi + c - 1 \in Nat /\ hi - 1 \in Nat
      BY <2>1
    <3> QED BY <2>5, <2>6, <3>1, TableIs
  <2> QED BY <2>3, <2>7 DEF hi, c
<1> QED BY <1>6, <1>7, <1>8, <1>9

LEMMA InitCount == Init => CInv
<1> SUFFICES ASSUME Init PROVE CInv
  OBVIOUS
<1> USE DEF Init
<1>0. HugeLen \in Nat \ {0} /\ NHuge \in Nat /\ Base = 1 * HugeLen /\ Aligned(0) /\ Aligned(Base)
  <2>1. HugeLen \in Nat \ {0} /\ NHuge \in Nat
    BY AliasSpaceAssumption
  <2>2. 0 = 0 * HugeLen /\ HugeLen = 1 * HugeLen
    BY <2>1
  <2> QED BY <2>1, <2>2 DEF Aligned, Base
<1>1. \A t \in Thread : Claimed(t) = {} /\ \A i \in SlotIdx : Cached(t, i) = {}
  BY DEF Claimed, Cached, Empty
<1>2. Base <= Limit
  <2>1. (NHuge + 1) * HugeLen = NHuge * HugeLen + HugeLen /\ NHuge * HugeLen \in Nat
    BY <1>0, Multiples
  <2> QED BY <1>0, <2>1 DEF Base, Limit
<1>3. Shape
  BY <1>0, <1>1, <1>2 DEF Shape, ShapeOf, Mine, Empty
<1>4. Owners
  BY DEF Owners, Used
<1>5. Counts
  <2>1. NoNode \in [state : {"null", "live", "destroyed"}, cnt : 0 .. HugeLen]
    BY <1>0 DEF NoNode
  <2>2. \A h \in Table : CountOf(h)
    BY <1>1 DEF CountOf, NoNode, Mine
  <2> QED BY <2>1, <2>2 DEF Counts
<1> QED BY <1>3, <1>4, <1>5, InitInv DEF CInv

-----------------------------------------------------------------------------
(* What every step does to the pages in hand: t alone takes or gives away  *)
(* pages, and what it takes is new.                                        *)
Takes(t) ==
  /\ Local(t) /\ high' \in Nat /\ high <= high' /\ high' <= Limit /\ Aligned(high')
  /\ \A p \in Nat : Mine(t, p)' => Mine(t, p) \/ (high <= p /\ p < high')

LEMMA OutKept ==
  ASSUME IInv, IInv', NEW t \in Thread, Takes(t)
  PROVE  /\ \A p \in Nat : Out(p) => Out(p)'
         /\ \A u \in Thread \ {t} : \A p \in Nat : Mine(u, p)' <=> Mine(u, p)
<1>1. Moves(t)
  BY LocalKeepsOthers DEF Moves, Takes, IInv, Held
<1> QED BY <1>1, MovesKeepHeld DEF IInv, Moves

LEMMA ShapeKept ==
  ASSUME CInv, IInv', NEW t \in Thread, Takes(t), ShapeOf(t)',
         \A p \in entry' \cup gone' : p \in entry \cup gone \/ (p \in Nat /\ Mine(t, p))
  PROVE  Shape'
<1> USE DEF CInv
<1>1. high \in Nat /\ high' \in Nat /\ high <= high' /\ Base \in Nat
  BY AliasSpaceAssumption DEF IInv, Types, Takes, Base
<1>2. Aligned(high') /\ Base <= high' /\ high' <= Limit
  BY <1>1 DEF Takes, Shape
<1>3. ASSUME NEW u \in Thread PROVE ShapeOf(u)'
  <2>1. CASE u = t
    BY <2>1
  <2>2. CASE u # t
    <3>1. cache'[u] = cache[u] /\ pc'[u] = pc[u] /\ req'[u] = req[u]
      BY <2>2 DEF Takes, Local
    <3>2. ShapeOf(u)
      BY DEF Shape
    <3>3. \A i \in SlotIdx : cache[u][i].end \in Nat
      BY DEF IInv, Types
    <3>4. req[u].hi \in Nat /\ req[u].consume \in Nat
      BY DEF IInv, Types
    <3>5. \A i \in SlotIdx : Aligned(cache[u][i].end) /\ cache[u][i].end <= high'
      BY <1>1, <3>2, <3>3 DEF ShapeOf
    <3>6. /\ req[u].hi <= high => req[u].hi <= high'
          /\ req[u].hi + req[u].consume <= high => req[u].hi + req[u].consume <= high'
      BY <1>1, <3>4
    <3> QED BY <3>1, <3>2, <3>5, <3>6 DEF ShapeOf, Aligned
  <2> QED BY <2>1, <2>2
<1>4. ASSUME NEW u \in Thread, NEW p \in Nat, Mine(u, p)' PROVE Base <= p
  <2>1. Mine(u, p) \/ high <= p
    BY <1>4, OutKept DEF Takes
  <2> QED BY <1>1, <2>1 DEF Shape
<1>5. \A p \in entry' \cup gone' : Base <= p
  BY DEF Shape
<1> QED BY <1>2, <1>3, <1>4, <1>5 DEF Shape, Aligned

(* A step that touches no entry and no object.                             *)
LEMMA QuietStep ==
  ASSUME CInv, IInv', NEW t \in Thread, Takes(t), ShapeOf(t)',
         UNCHANGED <<entry, gone, objs>>, Used(t)' = {}
  PROVE  Shape' /\ Owners'
<1> USE DEF CInv
<1>1. Shape'
  <2>1. \A p \in entry' \cup gone' : p \in entry \cup gone
    OBVIOUS
  <2> QED BY <2>1, ShapeKept
<1>2. \A u \in Thread : Used(u)' = Used(u) \/ Used(u)' = {}
  <2> SUFFICES ASSUME NEW u \in Thread, u # t PROVE Used(u)' = Used(u)
    OBVIOUS
  <2>1. pc'[u] = pc[u] /\ req'[u] = req[u]
    BY DEF Takes, Local
  <2> QED BY <2>1 DEF Used
<1>3. Owners'
  BY <1>2 DEF Owners, ObjPages
<1> QED BY <1>1, <1>3

(* If moreover the tables stay and t gives no page away.                   *)
LEMMA QuietCounts ==
  ASSUME CInv, IInv', NEW t \in Thread, Takes(t),
         UNCHANGED <<node, entry, gone>>,
         \A p \in Nat : Mine(t, p) \/ (high <= p /\ p < high') => Mine(t, p)'
  PROVE  Counts'
<1> USE DEF CInv
<1>1. \A p \in Nat : Out(p) => Out(p)'
  BY OutKept
<1>2. ASSUME NEW h \in Table PROVE CountOf(h)'
  <2>0. h \in Nat /\ CountOf(h)
    BY DEF Table, Counts
  <2>1. node'[h] = node[h]
    OBVIOUS
  <2>2. ASSUME node[h].state = "null", NEW u \in Thread,
               NEW p \in PagesOf(h), Mine(u, p)', NEW q \in PagesOf(h)
        PROVE  Mine(u, q)'
    <3>1. p \in Nat /\ q \in Nat
      BY <2>0, PagesAre
    <3>2. CASE Mine(u, p)
      <4>1. Mine(u, q)
        BY <2>0, <2>2, <3>2 DEF CountOf
      <4> QED BY <3>1, <4>1, OutKept
    <3>3. CASE ~Mine(u, p)
      <4>1. u = t /\ high <= p /\ p < high'
        BY <2>2, <3>1, <3>3, OutKept DEF Takes
      <4>2. high <= q /\ q < high'
        <5>1. Aligned(high) /\ Aligned(high')
          BY DEF Shape, Takes
        <5>2. (p < high <=> q < high) /\ (p < high' <=> q < high') /\ high \in Nat
          BY <2>0, <5>1, BordersCut
        <5> QED BY <3>1, <4>1, <5>2
      <4> QED BY <3>1, <4>1, <4>2
    <3> QED BY <3>2, <3>3
  <2>3. \A p \in PagesOf(h) : p \in Nat
    BY <2>0, PagesAre
  <2> QED BY <1>1, <2>0, <2>1, <2>2, <2>3 DEF CountOf, PagesOf
<1> QED BY <1>2 DEF Counts

LEMMA AllocCachedCount ==
  ASSUME CInv, IInv', NEW t \in Thread, NEW n \in 1 .. MaxReq, NEW piece \in Pieces(n),
         AllocCached(t, n, piece)
  PROVE  CInv'
<1> USE DEF CInv
<1>0. n \in Nat /\ n > 0 /\ MinRemain \in Nat /\ MinRemain <= HugeLen /\ HugeLen \in Nat
  BY AliasSpaceAssumption
<1>1. PICK i \in SlotIdx :
        /\ FirstFit(t, n, i)
        /\ cache' = [cache EXCEPT ![t][i] = Shrunk(cache[t][i], n)]
        /\ req' = [req EXCEPT ![t] =
             [start |-> cache[t][i].start, lo |-> cache[t][i].start, hi |-> cache[t][i].start + n,
              n |-> n, consume |-> Consumed(cache[t][i], n), piece |-> piece]]
  BY DEF AllocCached
<1> DEFINE c == cache[t][i]
<1>2. /\ pc[t] = "idle" /\ pc' = [pc EXCEPT ![t] = "write"]
      /\ UNCHANGED <<high, node, entry, objs, gone>>
  BY DEF AllocCached
<1>3. /\ c \in [start : Nat, end : Nat] /\ c.start + n <= c.end
      /\ Aligned(c.end) /\ c.end <= high /\ high \in Nat
  BY <1>1 DEF IInv, Types, FirstFit, Fits, Shape, ShapeOf
<1>4. Left(c, n) \in Nat /\ Left(c, n) = c.end - (c.start + n)
  BY <1>0, <1>3 DEF Left
<1>5. \/ /\ Consumed(c, n) = Left(c, n) /\ Left(c, n) < HugeLen /\ Shrunk(c, n) = Empty
      \/ /\ Consumed(c, n) = 0 /\ Shrunk(c, n) = [start |-> c.start + n, end |-> c.end]
      \/ /\ Consumed(c, n) = 0 /\ Left(c, n) = 0 /\ Shrunk(c, n) = Empty
  BY <1>0, <1>3, <1>4 DEF Consumed, Shrunk
<1> HIDE DEF c
<1>6. /\ cache'[t][i] = Shrunk(c, n) /\ pc'[t] = "write"
      /\ \A j \in SlotIdx : j # i => cache'[t][j] = cache[t][j]
      /\ req'[t].lo = c.start /\ req'[t].hi = c.start + n /\ req'[t].start = c.start
      /\ req'[t].consume = Consumed(c, n)
      /\ Local(t)
  BY <1>1, <1>2 DEF IInv, Types, Local, c
<1>7. Claimed(t)' = c.start .. c.start + n + Consumed(c, n) - 1 /\ Claimed(t) = {}
  BY <1>2, <1>6 DEF Claimed
<1>8. /\ Cached(t, i)' \cup Claimed(t)' = Cached(t, i)
      /\ \A j \in SlotIdx : j # i => Cached(t, j)' = Cached(t, j)
  <2>0. \A j \in SlotIdx : j # i => Cached(t, j)' = Cached(t, j)
    BY <1>6 DEF Cached
  <2>1. Cached(t, i) = c.start .. c.end - 1
    BY DEF Cached, c
  <2>2. Cached(t, i)' = Shrunk(c, n).start .. Shrunk(c, n).end - 1
    BY <1>6 DEF Cached
  <2>3. CASE Consumed(c, n) = Left(c, n) /\ Shrunk(c, n) = Empty
    <3>1. Cached(t, i)' = {}
      BY <2>2, <2>3 DEF Empty
    <3>2. Claimed(t)' = c.start .. c.end - 1
      BY <1>0, <1>3, <1>4, <1>7, <2>3
    <3> QED BY <2>0, <2>1, <3>1, <3>2
  <2>4. CASE Consumed(c, n) = 0 /\ Shrunk(c, n) = [start |-> c.start + n, end |-> c.end]
    <3>1. Cached(t, i)' = c.start + n .. c.end - 1
      BY <2>2, <2>4
    <3>2. Claimed(t)' = c.start .. c.start + n - 1
      BY <1>0, <1>3, <1>7, <2>4
    <3> QED BY <1>0, <1>3, <2>0, <2>1, <3>1, <3>2
  <2> QED BY <1>4, <1>5, <2>3, <2>4
<1>9. \A p \in Nat : Mine(t, p)' <=> Mine(t, p)
  BY <1>7, <1>8 DEF Mine
<1>10. Takes(t)
  BY <1>2, <1>3, <1>6, <1>9 DEF Takes, Shape
<1>11. ShapeOf(t)'
  <2>1. \A j \in SlotIdx : Aligned(cache'[t][j].end) /\ cache'[t][j].end <= high'
    <3>1. Aligned(0) /\ 0 <= high
      <4>1. 0 = 0 * HugeLen
        BY <1>0
      <4> QED BY <1>3, <4>1 DEF Aligned
    <3>2. Aligned(Shrunk(c, n).end) /\ Shrunk(c, n).end <= high
      BY <1>3, <1>5, <3>1 DEF Empty
    <3> QED BY <1>2, <1>6, <3>2 DEF Shape, ShapeOf
  <2>2. Consumed(c, n) < HugeLen /\ c.start + n + Consumed(c, n) <= high
    BY <1>0, <1>3, <1>4, <1>5, AliasSpaceAssumption
  <2>3. Consumed(c, n) > 0 => Aligned(c.start + n + Consumed(c, n))
    <3> SUFFICES ASSUME Consumed(c, n) > 0 PROVE Aligned(c.start + n + Consumed(c, n))
      OBVIOUS
    <3>1. c.start + n + Consumed(c, n) = c.end
      BY <1>0, <1>3, <1>4, <1>5
    <3> QED BY <1>3, <3>1
  <2>4. c.start < c.start + n
    BY <1>0, <1>3
  <2> QED BY <1>2, <1>6, <2>1, <2>2, <2>3, <2>4 DEF ShapeOf, Aligned
<1>12. Used(t)' = {}
  BY <1>3, <1>6 DEF Used
<1> QED BY <1>2, <1>3, <1>9, <1>10, <1>11, <1>12, QuietStep, QuietCounts

LEMMA GetHugeCount ==
  ASSUME CInv, IInv', NEW t \in Thread, NEW n \in 1 .. MaxReq, NEW piece \in Pieces(n),
         GetHuge(t, n, piece)
  PROVE  CInv'
<1> USE DEF CInv
<1>0. n \in Nat /\ n > 0 /\ HugeLen \in Nat \ {0}
  BY AliasSpaceAssumption
<1>1. /\ pc[t] = "idle" /\ pc' = [pc EXCEPT ![t] = "place"]
      /\ high' = high + HugesFor(n) * HugeLen /\ high' <= Limit
      /\ req' = [req EXCEPT ![t] =
           [start |-> high, lo |-> high, hi |-> high', n |-> n, consume |-> 0, piece |-> piece]]
      /\ UNCHANGED <<cache, node, entry, objs, gone>>
  BY DEF GetHuge
<1>2. high \in Nat /\ high' \in Nat /\ high <= high' /\ HugesFor(n) \in Nat
  <2>1. high \in Nat /\ HugesFor(n) * HugeLen \in Nat
    BY <1>0, HugesHold DEF IInv, Types
  <2>2. ASSUME NEW H \in Nat \ {0} PROVE (n + H - 1) \div H \in Nat
    BY <1>0
  <2> QED BY <1>0, <1>1, <2>1, <2>2 DEF HugesFor
<1>3. Aligned(high) /\ Aligned(high')
  BY <1>1, <1>2, AlignedPlus DEF Shape
<1>4. /\ Local(t) /\ pc'[t] = "place" /\ req'[t].lo = high /\ req'[t].hi = high' /\ req'[t].n = n
  BY <1>1 DEF IInv, Types, Local
<1>5. /\ Claimed(t)' = high .. high' - 1 /\ Claimed(t) = {}
      /\ \A i \in SlotIdx : Cached(t, i)' = Cached(t, i)
  BY <1>1, <1>4 DEF Claimed, Cached
<1>6. \A p \in Nat : Mine(t, p)' <=> Mine(t, p) \/ (high <= p /\ p < high')
  <2>1. ASSUME NEW a \in Nat, NEW b \in Nat, NEW p \in Nat
        PROVE  p \in a .. b - 1 <=> a <= p /\ p < b
    OBVIOUS
  <2>2. \A p \in Nat : p \in Claimed(t)' <=> high <= p /\ p < high'
    BY <1>2, <1>5, <2>1
  <2> QED BY <1>5, <2>2 DEF Mine
<1>7. Takes(t)
  BY <1>1, <1>2, <1>3, <1>4, <1>6 DEF Takes
<1>8. ShapeOf(t)'
  <2>1. \A i \in SlotIdx : Aligned(cache'[t][i].end) /\ cache'[t][i].end <= high'
    <3>1. \A i \in SlotIdx : cache[t][i].end \in Nat /\ cache[t][i].end <= high
      BY DEF IInv, Types, Shape, ShapeOf
    <3> QED BY <1>1, <1>2, <3>1 DEF Shape, ShapeOf
  <2> QED BY <1>0, <1>2, <1>3, <1>4, <2>1 DEF ShapeOf, Aligned
<1>9. Used(t)' = {}
  BY <1>4 DEF Used
<1> QED BY <1>1, <1>6, <1>7, <1>8, <1>9, QuietStep, QuietCounts

(* What the placements of new units share: the request starts at page b.   *)
LEMMA PlaceShape ==
  ASSUME CInv, IInv', NEW t \in Thread, pc[t] = "place", NEW b \in Nat, StartWrite(t, b),
         UNCHANGED <<high, entry, objs, gone>>,
         \A u \in Thread \ {t} : cache'[u] = cache[u],
         \A i \in SlotIdx : Aligned(cache'[t][i].end) /\ cache'[t][i].end <= high,
         b + req[t].n <= high,
         \A p \in Nat :
           p \in b .. b + req[t].n - 1 \/ (\E i \in SlotIdx : p \in Cached(t, i)') => Mine(t, p)
  PROVE  /\ Takes(t) /\ Shape' /\ Owners'
         /\ Claimed(t)' = b .. b + req[t].n - 1
<1> USE DEF CInv
<1>1. /\ pc' = [pc EXCEPT ![t] = "write"]
      /\ \A u \in Thread \ {t} : req'[u] = req[u]
      /\ req'[t].start = b /\ req'[t].lo = b /\ req'[t].hi = b + req[t].n
      /\ req'[t].consume = req[t].consume
  <2> DEFINE r == [req[t] EXCEPT !.start = b, !.lo = b, !.hi = b + req[t].n]
  <2>1. req' = [req EXCEPT ![t] = r] /\ pc' = [pc EXCEPT ![t] = "write"]
    BY DEF StartWrite
  <2>2. r.start = b /\ r.lo = b /\ r.hi = b + req[t].n /\ r.consume = req[t].consume
    <3>1. req[t] \in [start : Nat, lo : Nat, hi : Nat, n : Nat, consume : Nat, piece : Nat]
      BY DEF IInv, Types
    <3> QED BY <3>1
  <2> HIDE DEF r
  <2> QED BY <2>1, <2>2 DEF IInv, Types
<1>2. pc'[t] = "write" /\ Local(t)
  BY <1>1 DEF IInv, Types, Local
<1>3. /\ req[t].n \in Nat /\ req[t].n > 0 /\ req[t].consume = 0
      /\ high \in Nat /\ HugeLen \in Nat \ {0}
  BY AliasSpaceAssumption DEF IInv, Types, Ranges, Shape, ShapeOf
<1>4. Claimed(t)' = b .. b + req[t].n - 1
  BY <1>1, <1>2, <1>3 DEF Claimed
<1>5. Takes(t)
  <2>1. \A p \in Nat : Mine(t, p)' => Mine(t, p)
    BY <1>4 DEF Mine
  <2> QED BY <1>2, <1>3, <2>1 DEF Takes, Shape
<1>6. ShapeOf(t)'
  <2>1. b < b + req[t].n /\ b + req[t].n + 0 <= high /\ 0 < HugeLen /\ ~(0 > 0)
    BY <1>3
  <2> QED BY <1>1, <1>2, <1>3, <2>1 DEF ShapeOf, Aligned
<1>7. Used(t)' = {}
  BY <1>1, <1>2 DEF Used
<1> QED BY <1>4, <1>5, <1>6, <1>7, QuietStep

LEMMA PlaceMergeCount ==
  ASSUME CInv, IInv', NEW t \in Thread, PlaceMerge(t)
  PROVE  CInv'
<1> USE DEF CInv
<1> DEFINE c == cache[t][1]
           lo == req[t].lo
           hi == req[t].hi
           n == req[t].n
           d == [start |-> c.start + n, end |-> hi]
<1>0. 1 \in SlotIdx
  BY AliasSpaceAssumption DEF SlotIdx
<1>1. /\ pc[t] = "place" /\ c.end = lo
      /\ cache' = [cache EXCEPT ![t][1] = d]
      /\ StartWrite(t, c.start)
      /\ UNCHANGED <<high, node, entry, objs, gone>>
  BY DEF PlaceMerge
<1>2. /\ c.start \in Nat /\ lo \in Nat /\ hi \in Nat /\ n \in Nat /\ high \in Nat
      /\ c.start <= lo /\ lo + n <= hi /\ hi <= high /\ Aligned(hi) /\ Aligned(lo)
  BY <1>0, <1>1 DEF IInv, Types, Ranges, Shape, ShapeOf
<1>3. /\ cache'[t][1] = d
      /\ \A i \in SlotIdx : i # 1 => cache'[t][i] = cache[t][i]
      /\ \A u \in Thread \ {t} : cache'[u] = cache[u]
  BY <1>0, <1>1 DEF IInv, Types
<1>4. /\ Cached(t, 1) = c.start .. lo - 1 /\ Claimed(t) = lo .. hi - 1
      /\ Cached(t, 1)' = c.start + n .. hi - 1
      /\ \A i \in SlotIdx : i # 1 => Cached(t, i)' = Cached(t, i)
  BY <1>1, <1>3 DEF Cached, Claimed
<1>5. \A i \in SlotIdx : Aligned(cache'[t][i].end) /\ cache'[t][i].end <= high
  <2>1. d.end = hi
    OBVIOUS
  <2> HIDE DEF d
  <2> QED BY <1>2, <1>3, <2>1 DEF Shape, ShapeOf
<1> HIDE DEF c, lo, hi, d
<1>6. (c.start .. c.start + n - 1) \cup Cached(t, 1)' = Cached(t, 1) \cup Claimed(t)
  <2>1. (c.start .. c.start + n - 1) \cup (c.start + n .. hi - 1) = c.start .. hi - 1
    BY <1>2
  <2>2. (c.start .. lo - 1) \cup (lo .. hi - 1) = c.start .. hi - 1
    BY <1>2
  <2> QED BY <1>4, <2>1, <2>2
<1>7. \A p \in Nat :
        p \in c.start .. c.start + n - 1 \/ (\E i \in SlotIdx : p \in Cached(t, i)') <=> Mine(t, p)
  BY <1>0, <1>4, <1>6 DEF Mine
<1>8. c.start + n <= high
  BY <1>2
<1>9. /\ Takes(t) /\ Shape' /\ Owners'
      /\ Claimed(t)' = c.start .. c.start + n - 1
  BY <1>1, <1>2, <1>3, <1>5, <1>7, <1>8, PlaceShape DEF n
<1>10. \A p \in Nat : Mine(t, p)' <=> Mine(t, p)
  BY <1>7, <1>9 DEF Mine
<1>11. Counts'
  BY <1>1, <1>2, <1>9, <1>10, QuietCounts
<1> QED BY <1>9, <1>11

LEMMA PlaceWholeCount ==
  ASSUME CInv, IInv', NEW t \in Thread, PlaceWhole(t)
  PROVE  CInv'
<1> USE DEF CInv
<1>1. /\ pc[t] = "place" /\ req[t].lo + req[t].n = req[t].hi
      /\ StartWrite(t, req[t].lo)
      /\ UNCHANGED <<high, cache, node, entry, objs, gone>>
  BY DEF PlaceWhole
<1>2. req[t].lo \in Nat /\ req[t].hi <= high /\ high \in Nat
  BY <1>1 DEF IInv, Types, Shape, ShapeOf
<1>3. /\ Claimed(t) = req[t].lo .. req[t].lo + req[t].n - 1
      /\ \A i \in SlotIdx : Cached(t, i)' = Cached(t, i)
  <2>1. Claimed(t) = req[t].lo .. req[t].hi - 1
    BY <1>1 DEF Claimed
  <2>2. \A i \in SlotIdx : Cached(t, i)' = Cached(t, i)
    BY <1>1 DEF Cached
  <2>3. req[t].lo \in Nat /\ req[t].hi \in Nat /\ req[t].n \in Nat
    BY DEF IInv, Types
  <2> QED BY <1>1, <2>1, <2>2, <2>3
<1>4. \A p \in Nat :
        p \in req[t].lo .. req[t].lo + req[t].n - 1 \/ (\E i \in SlotIdx : p \in Cached(t, i)')
          <=> Mine(t, p)
  BY <1>3 DEF Mine
<1>5. \A i \in SlotIdx : Aligned(cache'[t][i].end) /\ cache'[t][i].end <= high
  BY <1>1 DEF Shape, ShapeOf
<1>6. /\ Takes(t) /\ Shape' /\ Owners'
      /\ Claimed(t)' = req[t].lo .. req[t].lo + req[t].n - 1
  BY <1>1, <1>2, <1>4, <1>5, PlaceShape
<1>7. \A p \in Nat : Mine(t, p)' <=> Mine(t, p)
  BY <1>4, <1>6 DEF Mine
<1>8. Counts'
  BY <1>1, <1>2, <1>6, <1>7, QuietCounts
<1> QED BY <1>6, <1>8

(* The rest of the new units goes to slot k, the other slots in `kept` stay*)
(* and the rest is emptied.                                                *)
LEMMA PlaceRestShape ==
  ASSUME CInv, IInv', NEW t \in Thread, pc[t] = "place", StartWrite(t, req[t].lo),
         UNCHANGED <<high, entry, objs, gone>>, req[t].lo + req[t].n < req[t].hi,
         \A u \in Thread \ {t} : cache'[u] = cache[u],
         NEW k \in SlotIdx, cache'[t][k] = Rest(t),
         \A i \in SlotIdx : i # k => cache'[t][i] \in {cache[t][i], Empty}
  PROVE  /\ Takes(t) /\ Shape' /\ Owners'
         /\ Claimed(t) = Claimed(t)' \cup Cached(t, k)'
         /\ \A i \in SlotIdx : i # k => Cached(t, i)' \in {Cached(t, i), {}}
<1> USE DEF CInv
<1> DEFINE lo == req[t].lo
           hi == req[t].hi
           n == req[t].n
<1>1. /\ lo \in Nat /\ hi \in Nat /\ n \in Nat /\ lo + n < hi /\ hi <= high /\ high \in Nat
      /\ Aligned(hi) /\ Aligned(0)
  <2>1. 0 = 0 * HugeLen
    BY AliasSpaceAssumption
  <2> QED BY <2>1 DEF IInv, Types, Shape, ShapeOf, Aligned
<1>2. Claimed(t) = lo .. hi - 1 /\ Cached(t, k)' = lo + n .. hi - 1
  BY DEF Claimed, Cached, Rest
<1>3. \A i \in SlotIdx : i # k => Cached(t, i)' \in {Cached(t, i), {}}
  BY DEF Cached, Empty
<1>4. \A i \in SlotIdx : Aligned(cache'[t][i].end) /\ cache'[t][i].end <= high
  <2>1. Rest(t).end = hi /\ Empty.end = 0
    BY DEF Rest, Empty
  <2> QED BY <1>1, <2>1 DEF Shape, ShapeOf
<1> HIDE DEF lo, hi, n
<1>5. Claimed(t) = (lo .. lo + n - 1) \cup Cached(t, k)'
  BY <1>1, <1>2
<1>6. \A p \in Nat :
        p \in lo .. lo + n - 1 \/ (\E i \in SlotIdx : p \in Cached(t, i)') => Mine(t, p)
  BY <1>3, <1>5 DEF Mine
<1>7. lo + n <= high
  BY <1>1
<1>8. Takes(t) /\ Shape' /\ Owners' /\ Claimed(t)' = lo .. lo + n - 1
  BY <1>1, <1>4, <1>6, <1>7, PlaceShape DEF lo, n
<1> QED BY <1>3, <1>5, <1>8

LEMMA PlaceSlotCount ==
  ASSUME CInv, IInv', NEW t \in Thread, PlaceSlot(t)
  PROVE  CInv'
<1> USE DEF CInv
<1>1. PICK k \in SlotIdx : cache[t][k].end = 0 /\ cache' = [cache EXCEPT ![t][k] = Rest(t)]
  BY DEF PlaceSlot
<1>2. /\ pc[t] = "place" /\ StartWrite(t, req[t].lo)
      /\ UNCHANGED <<high, node, entry, objs, gone>>
      /\ req[t].lo + req[t].n < req[t].hi
  BY DEF PlaceSlot
<1>3. /\ \A u \in Thread \ {t} : cache'[u] = cache[u]
      /\ cache'[t][k] = Rest(t)
      /\ \A i \in SlotIdx : i # k => cache'[t][i] = cache[t][i]
  BY <1>1 DEF IInv, Types
<1>4. /\ Takes(t) /\ Shape' /\ Owners'
      /\ Claimed(t) = Claimed(t)' \cup Cached(t, k)'
  BY <1>2, <1>3, PlaceRestShape
<1>5. \A i \in SlotIdx : i # k => Cached(t, i)' = Cached(t, i)
  BY <1>3 DEF Cached
<1>6. Cached(t, k) = {}
  <2>1. cache[t][k].start \in Nat
    BY DEF IInv, Types
  <2> QED BY <1>1, <2>1 DEF Cached
<1>7. \A p \in Nat : Mine(t, p) => Mine(t, p)'
  BY <1>4, <1>5, <1>6 DEF Mine
<1>8. Counts'
  <2>1. high \in Nat /\ high' = high
    BY <1>2 DEF IInv, Types
  <2> QED BY <1>2, <1>4, <1>7, <2>1, QuietCounts
<1> QED BY <1>4, <1>8

(* The discarded ranges: what trie_remove_range subtracts is always zero,  *)
(* and a table without an entry is t's as a whole.                         *)
LEMMA PlaceDiscardCount ==
  ASSUME CInv, IInv', NEW t \in Thread, PlaceDiscard(t)
  PROVE  CInv'
<1> USE DEF CInv
<1>0. 1 \in SlotIdx
  BY AliasSpaceAssumption DEF SlotIdx
<1>1. /\ pc[t] = "place" /\ StartWrite(t, req[t].lo)
      /\ UNCHANGED <<high, entry, objs, gone>>
      /\ req[t].lo + req[t].n < req[t].hi
      /\ cache' = [cache EXCEPT ![t] = [i \in SlotIdx |-> IF i = 1 THEN Rest(t) ELSE Empty]]
      /\ node' = [h \in Table |-> RemoveRange(t, h)]
  BY DEF PlaceDiscard, Discards
<1>2. /\ \A u \in Thread \ {t} : cache'[u] = cache[u]
      /\ cache'[t][1] = Rest(t)
      /\ \A i \in SlotIdx : i # 1 => cache'[t][i] = Empty
  BY <1>0, <1>1 DEF IInv, Types
<1>3. /\ Takes(t) /\ Shape' /\ Owners'
      /\ Claimed(t) = Claimed(t)' \cup Cached(t, 1)'
  BY <1>0, <1>1, <1>2, PlaceRestShape
<1>4. \A i \in SlotIdx : i # 1 => Cached(t, i)' = {}
  BY <1>2 DEF Cached, Empty
<1>5. \A p \in Nat : Mine(t, p)' <=> p \in Claimed(t)
  BY <1>0, <1>3, <1>4 DEF Mine
<1>6. /\ \A p \in Nat : Out(p) => Out(p)'
      /\ \A u \in Thread \ {t} : \A p \in Nat : Mine(u, p)' <=> Mine(u, p)
  BY <1>3, OutKept
<1>7. ASSUME NEW h \in Nat, NEW p \in PagesOf(h), NEW q \in PagesOf(h)
      PROVE  p \in Nat /\ q \in Nat /\ (p \in Claimed(t) <=> q \in Claimed(t))
  <2>1. Aligned(req[t].lo) /\ Aligned(req[t].hi)
    BY <1>1 DEF Shape, ShapeOf
  <2>2. (p < req[t].lo <=> q < req[t].lo) /\ (p < req[t].hi <=> q < req[t].hi)
    BY <2>1, BordersCut
  <2>3. p \in Nat /\ q \in Nat
    BY PagesAre
  <2>4. Claimed(t) = req[t].lo .. req[t].hi - 1 /\ req[t].lo \in Nat /\ req[t].hi \in Nat
    BY <1>1 DEF Claimed, IInv, Types
  <2> QED BY <2>2, <2>3, <2>4
<1>8. ASSUME NEW d PROVE d \in Nat => RemovedCount(d) = 0
  BY DEF RemovedCount, NodeBytes, CountRange
<1>9. ASSUME NEW h \in Table, CachedIn(t, h) # {} PROVE node[h].state # "destroyed"
  <2>1. PICK p \in PagesOf(h), i \in SlotIdx : cache[t][i].start <= p /\ p < cache[t][i].end
    BY <1>9 DEF CachedIn
  <2>2. h \in Nat /\ CountOf(h)
    BY DEF Table, Counts
  <2>3. p \in Nat /\ cache[t][i].start \in Nat /\ cache[t][i].end \in Nat
    BY <2>2, PagesAre DEF IInv, Types
  <2>4. Mine(t, p)
    BY <2>1, <2>3 DEF Mine, Cached
  <2> QED BY <2>1, <2>2, <2>4 DEF CountOf, Out
<1>10. ASSUME NEW h \in Table, node[h].state = "null", CachedIn(t, h) # {}, NEW q \in PagesOf(h)
       PROVE  Out(q)' /\ q \notin entry
  <2>1. PICK p \in PagesOf(h), i \in SlotIdx : cache[t][i].start <= p /\ p < cache[t][i].end
    BY <1>10 DEF CachedIn
  <2>2. h \in Nat /\ CountOf(h)
    BY DEF Table, Counts
  <2>3. p \in Nat /\ q \in Nat /\ cache[t][i].start \in Nat /\ cache[t][i].end \in Nat
    BY <2>2, PagesAre DEF IInv, Types
  <2>4. p \in Cached(t, i)
    BY <2>1, <2>3 DEF Cached
  <2>5. Mine(t, q)
    BY <1>10, <2>2, <2>4 DEF Mine, CountOf
  <2>6. q \notin Claimed(t)
    BY <1>7, <2>2, <2>4 DEF IInv, Held, OwnSlots
  <2>7. Out(q)'
    BY <1>1, <1>3, <1>5, <2>3, <2>5, <2>6, GivenAwayIsOut DEF Takes, IInv
  <2>8. q \notin entry
    BY <2>5 DEF IInv, UsedIsOut, Out
  <2> QED BY <2>7, <2>8
<1>11. ASSUME NEW h \in Table
       PROVE  /\ node'[h] \in [state : {"null", "live", "destroyed"}, cnt : 0 .. HugeLen]
              /\ CountOf(h)'
  <2>0. /\ h \in Nat /\ CountOf(h)
        /\ node[h] \in [state : {"null", "live", "destroyed"}, cnt : 0 .. HugeLen]
    BY DEF Table, Counts
  <2>1. node'[h] = RemoveRange(t, h)
    BY <1>1
  <2>2. node'[h] = node[h] \/ (node'[h] = Destroyed /\ node[h].state = "null" /\ CachedIn(t, h) # {})
    <3>1. CASE CachedIn(t, h) = {}
      BY <2>1, <3>1 DEF RemoveRange
    <3>2. CASE CachedIn(t, h) # {} /\ node[h].state = "live"
      <4>1. Cardinality(CachedIn(t, h)) \in Nat
        <5>1. IsFiniteSet(PagesOf(h)) /\ CachedIn(t, h) \subseteq PagesOf(h)
          BY <2>0, PagesFinite DEF CachedIn
        <5> QED BY <5>1, FS_Subset, FS_CardinalityType
      <4>2. RemovedCount(Cardinality(CachedIn(t, h))) = 0
        BY <1>8, <4>1
      <4>3. node'[h] = Unlock(node[h].cnt - 0)
        BY <2>1, <3>2, <4>2 DEF RemoveRange
      <4>4. /\ node[h].cnt \in Nat /\ node[h].cnt > 0
            /\ node[h] = [state |-> "live", cnt |-> node[h].cnt]
        BY <2>0, <3>2 DEF CountOf
      <4>5. Unlock(node[h].cnt - 0) = [state |-> "live", cnt |-> node[h].cnt]
        BY <4>4 DEF Unlock
      <4> QED BY <4>3, <4>4, <4>5
    <3>3. CASE CachedIn(t, h) # {} /\ node[h].state # "live"
      BY <1>9, <2>0, <2>1, <3>3 DEF RemoveRange
    <3> QED BY <3>1, <3>2, <3>3
  <2>3. \A p \in PagesOf(h) : p \in Nat
    BY <2>0, PagesAre
  <2>4. CASE node'[h] = node[h]
    <3>1. ASSUME NEW u \in Thread, NEW p \in PagesOf(h), Mine(u, p)', NEW q \in PagesOf(h),
                 node[h].state = "null"
          PROVE  Mine(u, q)'
      <4>1. CASE u = t
        BY <1>5, <1>7, <2>0, <2>3, <3>1, <4>1
      <4>2. CASE u # t
        BY <1>6, <2>0, <2>3, <3>1, <4>2 DEF CountOf
      <4> QED BY <4>1, <4>2
    <3> QED BY <1>1, <1>6, <2>0, <2>3, <2>4, <3>1 DEF CountOf, PagesOf
  <2>5. CASE node'[h] = Destroyed /\ node[h].state = "null" /\ CachedIn(t, h) # {}
    <3>1. /\ Destroyed \in [state : {"null", "live", "destroyed"}, cnt : 0 .. HugeLen]
          /\ Destroyed.state = "destroyed"
      BY AliasSpaceAssumption DEF Destroyed
    <3>2. \A p \in PagesOf(h) : Out(p)' /\ p \notin entry'
      BY <1>1, <1>10, <2>5
    <3> QED BY <2>5, <3>1, <3>2 DEF CountOf, PagesOf
  <2> QED BY <2>0, <2>2, <2>4, <2>5
<1>12. Counts'
  BY <1>1, <1>11 DEF Counts
<1> QED BY <1>3, <1>12

-----------------------------------------------------------------------------
(* The part of an operation in one table.                                  *)
LEMMA StopInTable ==
  ASSUME NEW t \in Thread, req[t].lo \in Nat, req[t].hi \in Nat, req[t].lo < req[t].hi
  PROVE  /\ Stop(t) \in Nat /\ req[t].lo < Stop(t) /\ Stop(t) <= req[t].hi
         /\ req[t].lo .. Stop(t) - 1 \subseteq PagesOf(TableOf(req[t].lo))
<1> DEFINE lo == req[t].lo
           hi == req[t].hi
           g == TableOf(lo)
           next == (g + 1) * HugeLen
<1>1. HugeLen \in Nat \ {0}
  BY AliasSpaceAssumption
<1>2. g \in Nat /\ g * HugeLen \in Nat /\ g * HugeLen <= lo /\ lo < g * HugeLen + HugeLen
  BY <1>1, TableIs, PagesAre
<1>3. next = g * HugeLen + HugeLen
  BY <1>1, <1>2, Multiples
<1>4. Stop(t) = IF next < hi THEN next ELSE hi
  BY DEF Stop
<1> HIDE DEF g, next, lo, hi
<1>5. Stop(t) \in Nat /\ lo < Stop(t) /\ Stop(t) <= hi /\ Stop(t) <= g * HugeLen + HugeLen
  BY <1>1, <1>2, <1>3, <1>4 DEF lo, hi
<1>6. \A p \in lo .. Stop(t) - 1 : p \in PagesOf(g)
  <2> SUFFICES ASSUME NEW p \in lo .. Stop(t) - 1 PROVE p \in PagesOf(g)
    OBVIOUS
  <2>1. p \in Nat /\ g * HugeLen <= p /\ p < g * HugeLen + HugeLen
    BY <1>1, <1>2, <1>5 DEF lo
  <2> QED BY <1>2, <2>1, PagesAre
<1> QED BY <1>5, <1>6 DEF lo, hi, g

(* One table loses the pages a .. b - 1 and its count follows.             *)
LEMMA CountsStep ==
  ASSUME CInv, IInv', NEW t \in Thread, Takes(t), high' = high,
         NEW h \in Table, NEW a \in Nat, NEW b \in Nat, a <= b,
         a .. b - 1 \subseteq PagesOf(h), (a .. b - 1) \cap gone = {},
         gone' = gone \cup (a .. b - 1),
         NEW c, c = HugeLen - Cardinality(PagesOf(h) \cap gone) - (b - a),
         node' = [node EXCEPT ![h] = Unlock(c)],
         entry' \subseteq entry \cup PagesOf(h),
         \A p \in Nat : p \notin PagesOf(h) => (Mine(t, p)' <=> Mine(t, p))
  PROVE  Counts'
<1> USE DEF CInv
<1>0. h \in Nat /\ HugeLen \in Nat \ {0}
  BY AliasSpaceAssumption DEF Table
<1> DEFINE C == Cardinality(PagesOf(h) \cap gone)
           D == Cardinality(PagesOf(h) \cap gone')
<1>1. /\ C \in Nat /\ D = C + (b - a) /\ D <= HugeLen
      /\ D = HugeLen => PagesOf(h) \subseteq gone'
      /\ \A g \in Nat : g # h => PagesOf(g) \cap gone' = PagesOf(g) \cap gone
  BY <1>0, GoneGrows
<1>2. c = HugeLen - C - (b - a)
  OBVIOUS
<1> HIDE DEF C, D
<1>3. D \in Nat /\ c = HugeLen - D /\ c \in 0 .. HugeLen
  BY <1>0, <1>1, <1>2
<1>4. node'[h] = Unlock(c) /\ \A g \in Table : g # h => node'[g] = node[g]
  BY DEF Counts
<1>5. node'[h] \in [state : {"null", "live", "destroyed"}, cnt : 0 .. HugeLen] /\ CountOf(h)'
  <2>1. CASE c = 0
    <3>1. node'[h] = [state |-> "destroyed", cnt |-> 0]
      BY <1>4, <2>1 DEF Unlock, Destroyed
    <3>2. \A p \in PagesOf(h) : Out(p)' /\ p \notin entry'
      BY <1>0, <1>1, <1>3, <2>1 DEF IInv, UsedIsOut
    <3> QED BY <1>0, <3>1, <3>2 DEF CountOf, PagesOf
  <2>2. CASE c # 0
    <3>1. node'[h] = [state |-> "live", cnt |-> c]
      BY <1>4, <2>2 DEF Unlock
    <3>2. c = HugeLen - Cardinality(PagesOf(h) \cap gone') /\ c > 0
      BY <1>3, <2>2 DEF D
    <3> QED BY <1>3, <3>1, <3>2 DEF CountOf, PagesOf
  <2> QED BY <2>1, <2>2
<1>6. ASSUME NEW g \in Table, g # h PROVE CountOf(g)'
  <2>1. /\ g \in Nat /\ CountOf(g) /\ node'[g] = node[g]
        /\ PagesOf(g) \cap gone' = PagesOf(g) \cap gone
    BY <1>1, <1>4, <1>6 DEF Table, Counts
  <2>2. \A p \in PagesOf(g) : p \in Nat /\ p \notin PagesOf(h)
    BY <1>0, <1>6, <2>1, PagesAre, TableIs
  <2>3. \A p \in PagesOf(g) : p \in entry' => p \in entry
    BY <2>2
  <2>4. \A u \in Thread, p \in PagesOf(g) : Mine(u, p)' <=> Mine(u, p)
    BY <2>2, OutKept
  <2>5. \A p \in PagesOf(g) : Out(p) => Out(p)'
    BY <2>2, OutKept
  <2> QED BY <2>1, <2>3, <2>4, <2>5 DEF CountOf, PagesOf
<1> QED BY <1>4, <1>5, <1>6 DEF Counts

LEMMA FreeBeginCount ==
  ASSUME CInv, IInv', NEW t \in Thread, NEW o \in objs, FreeBegin(t, o)
  PROVE  CInv'
<1> USE DEF CInv
<1>1. /\ pc[t] = "idle" /\ pc' = [pc EXCEPT ![t] = "free"]
      /\ req' = [req EXCEPT ![t] = [NoReq EXCEPT !.lo = o.start, !.hi = o.start + o.len]]
      /\ objs' = objs \ {o} /\ UNCHANGED <<high, cache, node, entry, gone>>
  BY DEF FreeBegin
<1>2. /\ pc'[t] = "free" /\ req'[t].lo = o.start /\ req'[t].hi = o.start + o.len /\ Local(t)
  BY <1>1 DEF IInv, Types, Local, NoReq
<1>3. o.start \in Nat /\ o.len \in Nat /\ o.len > 0 /\ high \in Nat
  BY DEF IInv, Types, Owners
<1>4. \A p \in Nat : Mine(t, p)' <=> Mine(t, p)
  BY <1>1, <1>2 DEF Mine, Claimed, Cached
<1>5. Takes(t)
  BY <1>1, <1>2, <1>3, <1>4 DEF Takes, Shape
<1>6. ShapeOf(t)'
  <2>1. o.start < o.start + o.len
    BY <1>3
  <2>2. \A i \in SlotIdx : Aligned(cache'[t][i].end) /\ cache'[t][i].end <= high'
    BY <1>1 DEF Shape, ShapeOf
  <2> QED BY <1>2, <2>1, <2>2 DEF ShapeOf, Aligned
<1>7. Shape'
  <2>1. \A p \in entry' \cup gone' : p \in entry \cup gone
    BY <1>1
  <2> QED BY <1>5, <1>6, <2>1, ShapeKept
<1>8. Owners'
  <2>1. Used(t)' = ObjPages(o)
    <3>1. Used(t)' = req'[t].lo .. req'[t].hi - 1
      BY <1>2 DEF Used
    <3>2. Used(t)' = o.start .. (o.start + o.len) - 1
      BY <1>2, <3>1
    <3> QED BY <1>3, <3>2 DEF ObjPages
  <2>2. \A u \in Thread : u # t => Used(u)' = Used(u)
    BY <1>2 DEF Used, Local
  <2>3. \A x, y \in objs : x # y => ObjPages(x) \cap ObjPages(y) = {}
    BY DEF Owners
  <2>4. \A u \in Thread : Used(u)' \subseteq entry'
    BY <1>1, <2>1, <2>2 DEF Owners
  <2>5. \A x \in objs' : \A u \in Thread : ObjPages(x) \cap Used(u)' = {}
    BY <1>1, <2>1, <2>2, <2>3 DEF Owners
  <2>6. \A u, v \in Thread : u # v => Used(u)' \cap Used(v)' = {}
    BY <2>1, <2>2 DEF Owners
  <2>7. \A x \in objs' : x.len > 0 /\ ObjPages(x) \subseteq entry'
    BY <1>1 DEF Owners
  <2>8. \A x, y \in objs' : x # y => ObjPages(x) \cap ObjPages(y) = {}
    BY <1>1, <2>3
  <2> QED BY <2>4, <2>5, <2>6, <2>7, <2>8 DEF Owners, ObjPages
<1>9. Counts'
  <2>1. \A p \in Nat : Mine(t, p) \/ (high <= p /\ p < high') => Mine(t, p)'
    BY <1>1, <1>3, <1>4
  <2> QED BY <1>1, <1>5, <2>1, QuietCounts
<1> QED BY <1>7, <1>8, <1>9

LEMMA FreeTableCount ==
  ASSUME CInv, IInv', NEW t \in Thread, FreeTable(t)
  PROVE  CInv'
<1> USE DEF CInv
<1> DEFINE lo == req[t].lo
           hi == req[t].hi
           stop == Stop(t)
           h == TableOf(lo)
<1>1. /\ pc[t] = "free" /\ node[h].state = "live"
      /\ node' = [node EXCEPT ![h] = Unlock(node[h].cnt - (stop - lo))]
      /\ entry' = entry \ (lo .. stop - 1)
      /\ gone' = gone \cup (lo .. stop - 1)
      /\ UNCHANGED <<high, cache, objs>>
  BY DEF FreeTable, DecCount
<1>2. \/ /\ stop = hi /\ pc' = [pc EXCEPT ![t] = "idle"] /\ req' = [req EXCEPT ![t] = NoReq]
      \/ /\ stop # hi /\ req' = [req EXCEPT ![t].lo = stop] /\ pc' = pc
  BY DEF FreeTable
<1>3. lo \in Nat /\ hi \in Nat /\ lo < hi /\ high \in Nat
  BY <1>1 DEF IInv, Types, Shape, ShapeOf
<1>4. stop \in Nat /\ lo < stop /\ stop <= hi /\ lo .. stop - 1 \subseteq PagesOf(h)
  BY <1>3, StopInTable
<1>5. Used(t) = lo .. hi - 1
  BY <1>1 DEF Used
<1>6. /\ Local(t)
      /\ \/ pc'[t] = "idle"
         \/ pc'[t] = "free" /\ req'[t].lo = stop /\ req'[t].hi = hi /\ stop # hi
  BY <1>1, <1>2 DEF IInv, Types, Local
<1> HIDE DEF lo, hi, stop, h
<1>7. lo .. hi - 1 \subseteq entry /\ lo .. stop - 1 \subseteq lo .. hi - 1
  BY <1>3, <1>4, <1>5 DEF Owners
<1>8. h \in Table
  <2>1. lo \in entry
    BY <1>3, <1>7
  <2>2. Base <= lo /\ lo < high /\ high <= Limit /\ Limit \in Nat
    BY <2>1, AliasSpaceAssumption DEF Shape, IInv, UsedIsOut, Out, Limit
  <2>3. lo < Limit
    BY <1>3, <2>2
  <2> QED BY <1>3, <2>2, <2>3, TableExists DEF h
<1>9. \A p \in Nat : Mine(t, p)' <=> Mine(t, p)
  BY <1>1, <1>6 DEF Mine, Claimed, Cached
<1>10. Takes(t)
  BY <1>1, <1>3, <1>6, <1>9 DEF Takes, Shape
<1>11. Shape'
  <2>1. \A i \in SlotIdx : Aligned(cache'[t][i].end) /\ cache'[t][i].end <= high'
    BY <1>1 DEF Shape, ShapeOf
  <2>2. stop # hi => stop < hi
    BY <1>3, <1>4
  <2>3. ShapeOf(t)'
    BY <1>6, <2>1, <2>2 DEF ShapeOf, Aligned
  <2>4. \A p \in entry' \cup gone' : p \in entry \cup gone
    BY <1>1, <1>7
  <2> QED BY <1>10, <2>3, <2>4, ShapeKept
<1>12. Owners'
  <2>1. Used(t)' = {} \/ Used(t)' = stop .. hi - 1
    BY <1>6 DEF Used
  <2>2. Used(t)' \subseteq Used(t) /\ Used(t)' \cap (lo .. stop - 1) = {}
    BY <1>3, <1>4, <1>5, <2>1
  <2>3. \A u \in Thread : u # t => Used(u)' = Used(u)
    BY <1>6 DEF Used, Local
  <2>4. lo .. stop - 1 \subseteq Used(t)
    BY <1>5, <1>7
  <2>5. \A o \in objs : o.len > 0 /\ ObjPages(o) \subseteq entry'
    BY <1>1, <2>4 DEF Owners
  <2>6. \A u \in Thread : Used(u)' \subseteq entry'
    BY <1>1, <2>2, <2>3, <2>4 DEF Owners
  <2> QED BY <1>1, <2>2, <2>3, <2>5, <2>6 DEF Owners, ObjPages
<1>13. Counts'
  <2>1. (lo .. stop - 1) \cap gone = {}
    BY <1>7 DEF IInv
  <2> DEFINE c == node[h].cnt - (stop - lo)
  <2>2. c = HugeLen - Cardinality(PagesOf(h) \cap gone) - (stop - lo)
    BY <1>1, <1>8 DEF Counts, CountOf
  <2>3. node' = [node EXCEPT ![h] = Unlock(c)]
    BY <1>1
  <2>4. entry' \subseteq entry \cup PagesOf(h) /\ lo <= stop
    BY <1>1, <1>3, <1>4
  <2> HIDE DEF c
  <2> QED BY <1>1, <1>3, <1>4, <1>8, <1>9, <1>10, <2>1, <2>2, <2>3, <2>4, CountsStep
<1> QED BY <1>11, <1>12, <1>13

(* The objects that a finished request becomes.                            *)
LEMMA PiecesAre ==
  ASSUME NEW r, r.start \in Nat, r.n \in Nat, r.n > 0, r.hi = r.start + r.n
  PROVE  /\ \A o \in PiecesOf(r) : o.len > 0 /\ ObjPages(o) \subseteq r.start .. r.hi - 1
         /\ \A o, q \in PiecesOf(r) : o # q => ObjPages(o) \cap ObjPages(q) = {}
<1>1. CASE r.piece = r.n
  <2>1. PiecesOf(r) = {[start |-> r.start, len |-> r.n]}
    BY <1>1 DEF PiecesOf
  <2> DEFINE o == [start |-> r.start, len |-> r.n]
  <2>2. o.len > 0 /\ ObjPages(o) = r.start .. r.hi - 1
    BY DEF ObjPages
  <2> QED BY <2>1, <2>2
<1>2. CASE r.piece # r.n
  <2>1. PiecesOf(r) = {[start |-> p, len |-> 1] : p \in r.start .. r.hi - 1}
    BY <1>2 DEF PiecesOf
  <2>2. ASSUME NEW p \in r.start .. r.hi - 1
        PROVE  ObjPages([start |-> p, len |-> 1]) = {p}
    <3>1. p \in Nat /\ p + 1 - 1 = p /\ p .. p = {p}
      OBVIOUS
    <3> QED BY <3>1 DEF ObjPages
  <2>3. ASSUME NEW o \in PiecesOf(r)
        PROVE  \E p \in r.start .. r.hi - 1 :
                 o = [start |-> p, len |-> 1] /\ ObjPages(o) = {p}
    BY <2>1, <2>2
  <2>4. \A o \in PiecesOf(r) : o.len > 0 /\ ObjPages(o) \subseteq r.start .. r.hi - 1
    <3> SUFFICES ASSUME NEW o \in PiecesOf(r)
                 PROVE  o.len > 0 /\ ObjPages(o) \subseteq r.start .. r.hi - 1
      OBVIOUS
    <3>1. PICK p \in r.start .. r.hi - 1 : o = [start |-> p, len |-> 1] /\ ObjPages(o) = {p}
      BY <2>3
    <3> QED BY <3>1
  <2>5. ASSUME NEW o \in PiecesOf(r), NEW q \in PiecesOf(r), o # q
        PROVE  ObjPages(o) \cap ObjPages(q) = {}
    <3>1. PICK x \in r.start .. r.hi - 1 : o = [start |-> x, len |-> 1] /\ ObjPages(o) = {x}
      BY <2>3
    <3>2. PICK y \in r.start .. r.hi - 1 : q = [start |-> y, len |-> 1] /\ ObjPages(q) = {y}
      BY <2>3
    <3>3. x # y
      BY <2>5, <3>1, <3>2
    <3> QED BY <3>1, <3>2, <3>3
  <2> QED BY <2>4, <2>5
<1> QED BY <1>1, <1>2

LEMMA WriteTableCount ==
  ASSUME CInv, IInv', NEW t \in Thread, WriteTable(t)
  PROVE  CInv'
<1> USE DEF CInv
<1> DEFINE lo == req[t].lo
           hi == req[t].hi
           st == req[t].start
           cs == req[t].consume
           stop == Stop(t)
           h == TableOf(lo)
           used == IF stop = hi THEN cs ELSE 0
           old == IF node[h].state = "null" THEN NewNode ELSE node[h]
<1>1. /\ pc[t] = "write" /\ node[h].state # "destroyed"
      /\ node' = [node EXCEPT ![h] = Unlock(old.cnt - used)]
      /\ entry' = entry \cup (lo .. stop - 1)
      /\ gone' = gone \cup (stop .. stop + used - 1)
      /\ UNCHANGED <<high, cache>>
  BY DEF WriteTable
<1>2. \/ /\ stop = hi /\ objs' = objs \cup PiecesOf(req[t])
         /\ pc' = [pc EXCEPT ![t] = "idle"] /\ req' = [req EXCEPT ![t] = NoReq]
      \/ /\ stop # hi /\ req' = [req EXCEPT ![t].lo = stop] /\ UNCHANGED <<objs, pc>>
  BY DEF WriteTable
<1>3. /\ lo \in Nat /\ hi \in Nat /\ st \in Nat /\ req[t].n \in Nat /\ cs \in Nat /\ high \in Nat
      /\ lo < hi /\ st <= lo /\ hi = st + req[t].n /\ hi + cs <= high /\ cs < HugeLen
      /\ cs > 0 => Aligned(hi + cs)
  BY <1>1 DEF IInv, Types, Ranges, Shape, ShapeOf
<1>4. stop \in Nat /\ lo < stop /\ stop <= hi /\ lo .. stop - 1 \subseteq PagesOf(h)
  BY <1>3, StopInTable
<1>5. /\ Local(t)
      /\ \/ pc'[t] = "idle" /\ stop = hi
         \/ /\ pc'[t] = "write" /\ stop # hi /\ req'[t].lo = stop /\ req'[t].hi = hi
            /\ req'[t].start = st /\ req'[t].consume = cs
  BY <1>1, <1>2 DEF IInv, Types, Local
<1>6. Used(t) = st .. lo - 1 /\ Claimed(t) = lo .. hi + cs - 1
  BY <1>1 DEF Used, Claimed
<1>7. Claimed(t)' = (IF stop = hi THEN {} ELSE stop .. hi + cs - 1)
  BY <1>5 DEF Claimed
<1>8. \A i \in SlotIdx : Cached(t, i)' = Cached(t, i)
  BY <1>1 DEF Cached
<1>9. old.cnt = HugeLen - Cardinality(PagesOf(h) \cap gone) \/ h \notin Table
  <2> SUFFICES ASSUME h \in Table PROVE old.cnt = HugeLen - Cardinality(PagesOf(h) \cap gone)
    OBVIOUS
  <2>1. CountOf(h) /\ node[h].state \in {"null", "live", "destroyed"} /\ HugeLen \in Nat
    BY AliasSpaceAssumption DEF Counts
  <2>2. CASE node[h].state = "null"
    <3>1. PagesOf(h) \cap gone = {} /\ old.cnt = HugeLen
      BY <2>1, <2>2 DEF CountOf, NewNode
    <3>2. Cardinality(PagesOf(h) \cap gone) = 0
      BY <3>1, FS_EmptySet
    <3> QED BY <2>1, <3>1, <3>2
  <2>3. CASE node[h].state = "live"
    BY <2>1, <2>3 DEF CountOf
  <2> QED BY <1>1, <2>1, <2>2, <2>3
<1>10. h \in Nat /\ \A p \in Nat : p \in PagesOf(h) => h = TableOf(p)
  BY <1>3, TableIs
<1>11. used \in Nat /\ (used > 0 => stop = hi /\ used = cs /\ hi + cs - 1 \in PagesOf(h))
  <2>1. ASSUME cs > 0, stop = hi PROVE hi + cs - 1 \in PagesOf(h)
    <3>1. TableOf(hi + cs - 1) = TableOf(hi - 1)
      BY <1>1, <2>1, InvImplies DEF ConsumeEndsTable
    <3>2. hi - 1 \in PagesOf(h) /\ hi - 1 \in Nat /\ hi + cs - 1 \in Nat
      BY <1>3, <1>4, <2>1
    <3>3. TableOf(hi - 1) = h
      BY <1>10, <3>2
    <3> QED BY <3>1, <3>2, <3>3, TableIs
  <2> QED BY <1>3, <2>1
<1> HIDE DEF lo, hi, st, cs, stop, h, old, used
<1>12. stop .. stop + used - 1 \subseteq PagesOf(h)
  <2> SUFFICES ASSUME NEW p \in stop .. stop + used - 1 PROVE p \in PagesOf(h)
    OBVIOUS
  <2>1. p \in Nat /\ used > 0 /\ stop = hi /\ used = cs /\ hi <= p /\ p <= hi + cs - 1
    BY <1>3, <1>4, <1>11
  <2>2. hi - 1 \in PagesOf(h) /\ hi + cs - 1 \in PagesOf(h)
    BY <1>3, <1>4, <1>11, <2>1
  <2>3. h * HugeLen <= hi - 1 /\ hi + cs - 1 < h * HugeLen + HugeLen /\ h * HugeLen \in Nat
    BY <1>10, <2>2, AliasSpaceAssumption, PagesAre
  <2>4. h * HugeLen <= p /\ p < h * HugeLen + HugeLen
    BY <1>3, <2>1, <2>3, AliasSpaceAssumption
  <2> QED BY <1>10, <2>1, <2>4, PagesAre
<1>13. /\ Claimed(t) = Claimed(t)' \cup (lo .. stop - 1) \cup (stop .. stop + used - 1)
       /\ (lo .. stop - 1) \cap (stop .. stop + used - 1) = {}
  <2>1. used = IF stop = hi THEN cs ELSE 0
    BY DEF used
  <2>2. CASE stop = hi
    <3>1. Claimed(t)' = {} /\ used = cs
      BY <1>7, <2>1, <2>2
    <3>2. /\ (lo .. hi - 1) \cup (hi .. hi + cs - 1) = lo .. hi + cs - 1
          /\ (lo .. hi - 1) \cap (hi .. hi + cs - 1) = {}
      BY <1>3
    <3> QED BY <1>6, <2>2, <3>1, <3>2
  <2>3. CASE stop # hi
    <3>1. used = 0 /\ stop \in Nat /\ lo <= stop /\ stop <= hi
      BY <1>3, <1>4, <2>1, <2>3
    <3>2. (stop .. stop + used - 1) = {}
      BY <3>1
    <3>3. Claimed(t)' = stop .. hi + cs - 1 /\ Claimed(t) = lo .. hi + cs - 1
      BY <1>6, <1>7, <2>3
    <3>4. lo .. hi + cs - 1 = (stop .. hi + cs - 1) \cup (lo .. stop - 1)
      BY <1>3, <3>1
    <3> QED BY <3>2, <3>3, <3>4
  <2> QED BY <2>2, <2>3
<1>14. /\ \A p \in Nat : Mine(t, p)' => Mine(t, p)
       /\ \A p \in Nat : p \notin PagesOf(h) => (Mine(t, p)' <=> Mine(t, p))
       /\ \A p \in (lo .. stop - 1) \cup (stop .. stop + used - 1) :
            p \in Nat /\ Mine(t, p) /\ p \notin entry /\ p \notin gone
  <2>1. \A p \in (lo .. stop - 1) \cup (stop .. stop + used - 1) : p \in Nat
    BY <1>3, <1>4, <1>11
  <2>2. \A p \in Nat : Mine(t, p) => p \notin entry /\ p \notin gone
    BY DEF IInv, UsedIsOut, Out
  <2> QED BY <1>4, <1>8, <1>12, <1>13, <2>1, <2>2 DEF Mine
<1>15. Takes(t)
  BY <1>1, <1>3, <1>5, <1>14 DEF Takes, Shape
<1>16. h \in Table
  <2>1. Mine(t, lo) /\ lo \in Nat
    BY <1>3, <1>4, <1>14
  <2>2. Base <= lo /\ lo < high /\ high <= Limit /\ Limit \in Nat
    BY <2>1, AliasSpaceAssumption DEF Shape, IInv, Held, Limit
  <2>3. lo < Limit
    BY <1>3, <2>2
  <2> QED BY <2>1, <2>2, <2>3, TableExists DEF h
<1>17. Shape'
  <2>1. \A i \in SlotIdx : Aligned(cache'[t][i].end) /\ cache'[t][i].end <= high'
    BY <1>1 DEF Shape, ShapeOf
  <2>2. stop # hi => stop < hi
    BY <1>3, <1>4
  <2>3. ShapeOf(t)'
    BY <1>1, <1>3, <1>5, <2>1, <2>2 DEF ShapeOf, Aligned
  <2>4. \A p \in entry' \cup gone' : p \in entry \cup gone \/ (p \in Nat /\ Mine(t, p))
    BY <1>1, <1>14
  <2> QED BY <1>15, <2>3, <2>4, ShapeKept
<1>18. Owners'
  <2> DEFINE W == Used(t) \cup (lo .. stop - 1)
  <2>1. W = st .. stop - 1
    BY <1>3, <1>4, <1>6
  <2>2. /\ W \subseteq entry'
        /\ \A o \in objs : ObjPages(o) \cap W = {}
        /\ \A u \in Thread : u # t => Used(u) \cap W = {}
    BY <1>1, <1>14 DEF Owners
  <2>3. \A u \in Thread : u # t => Used(u)' = Used(u)
    BY <1>5 DEF Used, Local
  <2>4. /\ \A o \in objs : o.len > 0 /\ ObjPages(o) \subseteq entry'
        /\ \A u \in Thread : Used(u) \subseteq entry'
    BY <1>1 DEF Owners
  <2> HIDE DEF W
  <2>5. CASE stop # hi
    <3>1. Used(t)' = W /\ objs' = objs
      BY <1>2, <1>5, <2>1, <2>5 DEF Used
    <3> QED BY <2>2, <2>3, <2>4, <3>1 DEF Owners, ObjPages
  <2>6. CASE stop = hi
    <3>1. Used(t)' = {} /\ objs' = objs \cup PiecesOf(req[t])
      BY <1>2, <1>5, <2>6 DEF Used
    <3>2. /\ \A o \in PiecesOf(req[t]) : o.len > 0 /\ ObjPages(o) \subseteq W
          /\ \A o, q \in PiecesOf(req[t]) : o # q => ObjPages(o) \cap ObjPages(q) = {}
      <4>1. req[t].n > 0
        BY <1>3
      <4> QED BY <1>3, <2>1, <2>6, <4>1, PiecesAre DEF st, hi
    <3>3. \A o \in objs' : o.len > 0 /\ ObjPages(o) \subseteq entry'
      BY <2>2, <2>4, <3>1, <3>2
    <3>4. \A o, q \in objs' : o # q => ObjPages(o) \cap ObjPages(q) = {}
      BY <2>2, <3>1, <3>2 DEF Owners
    <3>5. \A o \in objs', u \in Thread : ObjPages(o) \cap Used(u)' = {}
      BY <2>2, <2>3, <3>1, <3>2 DEF Owners
    <3>6. \A u, v \in Thread : u # v => Used(u)' \cap Used(v)' = {}
      BY <2>3, <3>1 DEF Owners
    <3>7. \A u \in Thread : Used(u)' \subseteq entry'
      BY <2>3, <2>4, <3>1
    <3> QED BY <3>3, <3>4, <3>5, <3>6, <3>7 DEF Owners, ObjPages
  <2> QED BY <2>5, <2>6
<1>19. Counts'
  <2> DEFINE c == old.cnt - used
             b == stop + used
  <2>1. b - stop = used /\ b \in Nat /\ stop <= b
    BY <1>4, <1>11
  <2>2. c = HugeLen - Cardinality(PagesOf(h) \cap gone) - (b - stop)
    BY <1>9, <1>16, <2>1
  <2>0. stop .. b - 1 = stop .. stop + used - 1
    BY <1>4, <1>11
  <2> HIDE DEF b
  <2>3. node' = [node EXCEPT ![h] = Unlock(c)] /\ gone' = gone \cup (stop .. b - 1)
    BY <1>1, <2>0
  <2>4. stop .. b - 1 \subseteq PagesOf(h) /\ (stop .. b - 1) \cap gone = {}
    BY <1>12, <1>14, <2>0
  <2>5. entry' \subseteq entry \cup PagesOf(h)
    BY <1>1, <1>4
  <2> HIDE DEF c
  <2> QED BY <1>1, <1>4, <1>14, <1>15, <1>16, <2>1, <2>2, <2>3, <2>4, <2>5, CountsStep
<1> QED BY <1>17, <1>18, <1>19

-----------------------------------------------------------------------------
LEMMA NextCount == CInv /\ [Next]_vars => CInv'
<1> SUFFICES ASSUME CInv, [Next]_vars PROVE CInv'
  OBVIOUS
<1>0. IInv'
  BY NextInv DEF CInv
<1>1. CASE UNCHANGED vars
  BY <1>0, <1>1 DEF vars, CInv, Shape, ShapeOf, Owners, ObjPages, Used, Counts, CountOf,
                    Aligned, Out, Mine, Claimed, Cached, PagesOf
<1>2. ASSUME NEW t \in Thread, Malloc(t) PROVE CInv'
  BY <1>0, <1>2, AllocCachedCount, GetHugeCount DEF Malloc
<1>3. ASSUME NEW t \in Thread, Place(t) PROVE CInv'
  BY <1>0, <1>3, PlaceMergeCount, PlaceWholeCount, PlaceSlotCount, PlaceDiscardCount DEF Place
<1>4. ASSUME NEW t \in Thread, WriteTable(t) PROVE CInv'
  BY <1>0, <1>4, WriteTableCount
<1>5. ASSUME NEW t \in Thread, FreeTable(t) PROVE CInv'
  BY <1>0, <1>5, FreeTableCount
<1>6. ASSUME NEW t \in Thread, NEW o \in objs, FreeBegin(t, o) PROVE CInv'
  BY <1>0, <1>6, FreeBeginCount
<1> QED BY <1>1, <1>2, <1>3, <1>4, <1>5, <1>6 DEF Next, Quiescent

(* The invariant of the counts holds in every behaviour.                   *)
THEOREM CountInvariant == Spec => []CInv
BY InitCount, NextCount, PTL DEF Spec

(* The variables keep their types: nothing is taken beyond the alias space *)
(* and no count leaves 0 .. HugeLen.                                       *)
THEOREM AliasTypes == Spec => []TypeOK
BY CountInvariant, InvImplies, PTL

(* trie_iter_dec_cnt and unlock_trie_node: the count of a table is what is *)
(* left of its pages, and it is destroyed with the last one.               *)
THEOREM CountsAreHeld == Spec => []CountIsExact
BY CountInvariant, InvImplies, PTL

(* A table that was destroyed, by a free, a consumed rest or a discarded   *)
(* range, has no page that is or can still be used.                        *)
THEOREM DestroyedStaysUnused == Spec => []DestroyedIsUnused
BY CountInvariant, InvImplies, PTL

(* alloc_alias.c:425: consumed pages end the table they are taken from.    *)
THEOREM ConsumesEndTables == Spec => []ConsumeEndsTable
BY CountInvariant, InvImplies, PTL
=============================================================================
