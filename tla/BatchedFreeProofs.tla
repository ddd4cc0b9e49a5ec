--------------------------- MODULE BatchedFreeProofs ---------------------------
(***************************************************************************)
(* Type correctness of BatchedFree, the exclusion its two locks give and   *)
(* the entries a page fault handler relies on, for any number of threads,  *)
(* slots, tables and blocks.  What the locks protect (Threads) rests on    *)
(* what the trie holds: a freed block can only be typed because every      *)
(* alias given to the program, or waiting in a reservation, has an entry,  *)
(* which in turn needs that no alias is given twice (Given).  The first    *)
(* part is about the operations on struct mm_per_thread alone (FreeBuffer):*)
(* what they keep and what they unmap, for every buffer size, window and   *)
(* number of versions.                                                     *)
(***************************************************************************)
EXTENDS BatchedFree, FiniteSetTheorems, WellFoundedInduction, TLAPS

RangeType == [start : Nat, len : Nat]

(* A buffer whose deferral lists hold blocks of C.                         *)
BufferType(C) ==
  [version : 0 .. NVersions - 1, empty : BOOLEAN, cnt : Nat, window : 1 .. WindowMax,
   ranges : Seq(RangeType), small : SUBSET C, large : SUBSET C, gone : SUBSET Nat]

(* No range lies behind the end of free_alias_buf, unless a flush failed.  *)
Fits(m) == ~HelpersFail => Len(m.ranges) <= BufSize

(* The aliases of all ranges of a sequence.                                *)
AllOf(s) == UNION {AliasesOf(s[j]) : j \in DOMAIN s}

(* From m to x no page is forgotten: what was pending is pending or has    *)
(* been unmapped, and it has been if the version says so.                  *)
Remembers(m, x) ==
  /\ Pending(m) \subseteq Pending(x) \cup x.gone
  /\ m.gone \subseteq x.gone
  /\ x.version # m.version => Pending(m) \subseteq x.gone

-----------------------------------------------------------------------------
(* A set of indices of a sequence has a last element.                      *)
LEMMA LatestIsIn ==
  ASSUME NEW n \in Nat, NEW S \in SUBSET (1 .. n), S # {}
  PROVE  Latest(S) \in S
<1> DEFINE R == {n - i : i \in S}
<1>1. R \in SUBSET Nat
  OBVIOUS
<1>2. PICK i \in S : TRUE
  OBVIOUS
<1>3. n - i \in R
  BY <1>2
<1>4. PICK r \in R : \A q \in R : r <= q
  <2> DEFINE Below == {ss \in Nat \X Nat : ss[1] < ss[2]}
  <2>1. IsWellFoundedOn(Below, Nat)
    BY NatLessThanWellFounded DEF OpToRel
  <2>2. PICK r \in R : \A q \in R : ~ (<<q, r>> \in Below)
    <3> HIDE DEF R, Below
    <3> QED BY <1>1, <1>3, <2>1, WFMin
  <2>3. ASSUME NEW q \in R PROVE r <= q
    <3>1. q \in Nat /\ r \in Nat
      BY <1>1
    <3>2. ~ (q < r)
      BY <2>2, <3>1
    <3> QED BY <3>1, <3>2
  <2> QED BY <2>3
<1>5. PICK k \in S : r = n - k
  OBVIOUS
<1>6. \A j \in S : j <= k
  <2> SUFFICES ASSUME NEW j \in S PROVE j <= k
    OBVIOUS
  <2>1. n - k <= n - j
    BY <1>4, <1>5
  <2>2. j \in Nat /\ k \in Nat
    OBVIOUS
  <2> QED BY <2>1, <2>2
<1>7. k \in S /\ \A j \in S : j <= k
  BY <1>6
<1> HIDE DEF R
<1> QED BY <1>7 DEF Latest

(* A range that touches a page is extended by that page exactly.           *)
LEMMA ExtendAdds ==
  ASSUME NEW r \in RangeType, NEW a \in Nat, Touches(r, a)
  PROVE  /\ Extend(r, a) \in RangeType
         /\ AliasesOf(Extend(r, a)) = AliasesOf(r) \cup {a}
<1>1. r.start \in Nat /\ r.len \in Nat
  BY DEF RangeType
<1>2. CASE r.start + r.len = a
  <2>1. Extend(r, a) = [start |-> r.start, len |-> r.len + 1]
    BY <1>2 DEF Extend
  <2> QED BY <1>1, <1>2, <2>1 DEF AliasesOf, RangeType
<1>3. CASE r.start + r.len # a /\ a + 1 = r.start
  <2>1. Extend(r, a) = [start |-> a, len |-> r.len + 1]
    BY <1>3 DEF Extend
  <2>2. Extend(r, a) \in RangeType /\ Extend(r, a).start = a /\ Extend(r, a).len = r.len + 1
    BY <1>1, <2>1 DEF RangeType
  <2>3. a .. a + (r.len + 1) - 1 = (r.start .. r.start + r.len - 1) \cup {a}
    BY <1>1, <1>3
  <2> QED BY <2>2, <2>3 DEF AliasesOf
<1> QED BY <1>2, <1>3 DEF Touches

LEMMA Range1Is == ASSUME NEW a \in Nat PROVE Range1(a) \in RangeType /\ AliasesOf(Range1(a)) = {a}
BY DEF Range1, RangeType, AliasesOf

LEMMA NoRangeIs == NoRange \in RangeType /\ AliasesOf(NoRange) = {}
BY DEF NoRange, RangeType, AliasesOf

LEMMA InitialBufferType == ASSUME NEW C PROVE InitialBuffer \in BufferType(C) /\ Fits(InitialBuffer)
<1>1. InitialBuffer.ranges = <<>> /\ <<>> \in Seq(RangeType) /\ Len(<<>>) = 0
  BY DEF InitialBuffer
<1>2. 0 \in 0 .. NVersions - 1 /\ 1 \in 1 .. WindowMax /\ 0 <= BufSize
  BY FreeBufferAssumption
<1> QED BY <1>1, <1>2 DEF InitialBuffer, BufferType, Fits

LEMMA PendingIs ==
  ASSUME NEW C, NEW m \in BufferType(C)
  PROVE  /\ m.ranges \in Seq(RangeType) /\ Len(m.ranges) \in Nat
         /\ DOMAIN m.ranges = 1 .. Len(m.ranges)
         /\ Pending(m) \subseteq Nat
<1>1. /\ m.ranges \in Seq(RangeType) /\ Len(m.ranges) \in Nat
      /\ DOMAIN m.ranges = 1 .. Len(m.ranges)
  BY DEF BufferType
<1>2. ASSUME NEW i \in DOMAIN m.ranges PROVE AliasesOf(m.ranges[i]) \subseteq Nat
  <2>1. m.ranges[i] \in RangeType
    BY <1>1
  <2> QED BY <2>1 DEF RangeType, AliasesOf
<1> QED BY <1>1, <1>2 DEF Pending

LEMMA PendingAll == ASSUME NEW m PROVE Pending(m) = AllOf(m.ranges)
BY DEF Pending, AllOf

(* From step to step nothing is forgotten either.                          *)
LEMMA RemembersOn ==
  ASSUME NEW l, NEW m, NEW x, Remembers(l, m), Remembers(m, x) PROVE Remembers(l, x)
BY DEF Remembers

LEMMA RemembersItself ==
  ASSUME NEW m, NEW x, x.ranges = m.ranges, x.gone = m.gone, x.version = m.version
  PROVE  Remembers(m, x)
BY DEF Remembers, Pending

(* The eBPF flush leaves a well-formed buffer with nothing pending, and    *)
(* releases nothing; what was pending is unmapped.                         *)
LEMMA FlushEmpties ==
  ASSUME NEW C, NEW m \in BufferType(C)
  PROVE  /\ Flush(m) \in BufferType(C)
         /\ Fits(Flush(m))
         /\ Flush(m).ranges = <<>>
         /\ Pending(Flush(m)) = {}
         /\ Flush(m).empty
         /\ Deferred(Flush(m)) = Deferred(m)
         /\ ~HelpersFail /\ Fits(m) => Remembers(m, Flush(m))
<1> DEFINE g == m.gone \cup UNION {AliasesOf(m.ranges[i]) : i \in DOMAIN m.ranges \cap 1 .. BufSize}
<1>1. m.version \in Nat /\ (m.version + 1) % NVersions \in 0 .. NVersions - 1
  BY FreeBufferAssumption DEF BufferType
<1>2. <<>> \in Seq(RangeType) /\ Len(<<>>) = 0 /\ DOMAIN <<>> = {}
  OBVIOUS
<1>3. g \in SUBSET Nat
  <2>1. UNION {AliasesOf(m.ranges[i]) : i \in DOMAIN m.ranges \cap 1 .. BufSize} \subseteq Pending(m)
    BY DEF Pending
  <2>2. m.gone \subseteq Nat
    BY DEF BufferType
  <2> QED BY <2>1, <2>2, PendingIs
<1>4. Flush(m) = [m EXCEPT !.gone = g, !.ranges = <<>>, !.cnt = 0, !.empty = TRUE,
                           !.version = (m.version + 1) % NVersions]
  BY DEF Flush
<1>5. ~HelpersFail /\ Fits(m) => Pending(m) \subseteq g
  <2> SUFFICES ASSUME Len(m.ranges) <= BufSize PROVE Pending(m) \subseteq g
    BY DEF Fits
  <2>1. DOMAIN m.ranges \cap 1 .. BufSize = DOMAIN m.ranges
    BY PendingIs, FreeBufferAssumption
  <2> QED BY <2>1 DEF Pending
<1>6. m.gone \subseteq g
  OBVIOUS
<1> DEFINE v == (m.version + 1) % NVersions
<1> HIDE DEF g, v
<1>7. Flush(m).ranges = <<>> /\ Flush(m).gone = g /\ Flush(m).empty
  BY <1>4 DEF BufferType
<1>8. Flush(m) \in BufferType(C)
  <2>1. v \in 0 .. NVersions - 1
    BY <1>1 DEF v
  <2>2. Flush(m) = [m EXCEPT !.gone = g, !.ranges = <<>>, !.cnt = 0, !.empty = TRUE, !.version = v]
    BY <1>4 DEF v
  <2>3. [m EXCEPT !.gone = g, !.ranges = <<>>] \in BufferType(C)
    BY <1>2, <1>3 DEF BufferType
  <2> DEFINE y == [m EXCEPT !.gone = g, !.ranges = <<>>]
  <2>4. Flush(m) = [y EXCEPT !.cnt = 0, !.empty = TRUE, !.version = v]
    BY <2>2, <2>3 DEF BufferType
  <2>5. y \in BufferType(C)
    BY <2>3
  <2> HIDE DEF y
  <2>6. [y EXCEPT !.cnt = 0, !.empty = TRUE] \in BufferType(C)
    BY <2>5 DEF BufferType
  <2> DEFINE z == [y EXCEPT !.cnt = 0, !.empty = TRUE]
  <2>7. z \in BufferType(C) /\ Flush(m) = [z EXCEPT !.version = v]
    BY <2>4, <2>5, <2>6 DEF BufferType
  <2> HIDE DEF z
  <2> QED BY <2>1, <2>7 DEF BufferType
<1>9. Pending(Flush(m)) = {}
  BY <1>2, <1>7 DEF Pending
<1>10. Deferred(Flush(m)) = Deferred(m)
  BY <1>4 DEF Deferred, BufferType
<1>11. Fits(Flush(m))
  BY <1>2, <1>7, FreeBufferAssumption DEF Fits
<1>12. ~HelpersFail /\ Fits(m) => Remembers(m, Flush(m))
  BY <1>5, <1>6, <1>7, <1>9 DEF Remembers
<1> QED BY <1>7, <1>8, <1>9, <1>10, <1>11, <1>12

(* A flush that breaks off leaves ranges that were there before, and       *)
(* nothing else than the ranges and the unmapped pages is changed.         *)
LEMMA FlushBreaksIs ==
  ASSUME NEW C, NEW m \in BufferType(C), NEW x \in BrokenFlushes(m)
  PROVE  /\ x \in BufferType(C)
         /\ Pending(x) \subseteq Pending(m)
         /\ Deferred(x) = Deferred(m)
<1>1. PICK k \in DOMAIN m.ranges \cap 1 .. BufSize : x = FlushBreaks(m, k)
  BY DEF BrokenFlushes
<1> DEFINE q == [i \in DOMAIN m.ranges |-> IF i <= k THEN NoRange ELSE m.ranges[i]]
           g == m.gone \cup UNION {AliasesOf(m.ranges[i]) : i \in 1 .. k - 1}
<1>2. x = [m EXCEPT !.gone = g, !.ranges = q]
  BY <1>1 DEF FlushBreaks
<1>3. q \in Seq(RangeType) /\ DOMAIN q = DOMAIN m.ranges
  <2>1. q \in [1 .. Len(m.ranges) -> RangeType]
    BY PendingIs, NoRangeIs
  <2> QED BY <2>1, PendingIs
<1>4. \A i \in DOMAIN q : AliasesOf(q[i]) \subseteq AliasesOf(m.ranges[i])
  BY NoRangeIs
<1>5. g \in SUBSET Nat
  <2>1. 1 .. k - 1 \subseteq DOMAIN m.ranges
    BY PendingIs, FreeBufferAssumption
  <2>2. UNION {AliasesOf(m.ranges[i]) : i \in 1 .. k - 1} \subseteq Pending(m)
    BY <2>1 DEF Pending
  <2>3. m.gone \subseteq Nat
    BY DEF BufferType
  <2> QED BY <2>2, <2>3, PendingIs
<1> HIDE DEF q, g
<1>6. x \in BufferType(C) /\ x.ranges = q
  BY <1>2, <1>3, <1>5 DEF BufferType
<1>7. Pending(x) \subseteq Pending(m)
  BY <1>3, <1>4, <1>6 DEF Pending
<1>8. Deferred(x) = Deferred(m)
  BY <1>2 DEF Deferred, BufferType
<1> QED BY <1>6, <1>7, <1>8

(* Whatever a free finds behind its flush.                                 *)
LEMMA FlushOutcome ==
  ASSUME NEW C, NEW m \in BufferType(C), Fits(m), NEW x \in FlushOutcomes(m)
  PROVE  /\ x \in BufferType(C) /\ Fits(x)
         /\ Pending(x) \subseteq Pending(m)
         /\ Deferred(x) = Deferred(m)
         /\ ~HelpersFail => x = Flush(m) /\ Remembers(m, x)
<1>1. CASE x = Flush(m)
  BY <1>1, FlushEmpties
<1>2. CASE HelpersFail /\ (x = m \/ x \in BrokenFlushes(m))
  BY <1>2, FlushBreaksIs DEF Fits
<1> QED BY <1>1, <1>2 DEF FlushOutcomes

LEMMA ReleaseDeferredKeeps ==
  ASSUME NEW C, NEW m \in BufferType(C)
  PROVE  /\ ReleaseDeferred(m) \in BufferType(C)
         /\ ReleaseDeferred(m).ranges = m.ranges
         /\ ReleaseDeferred(m).gone = m.gone
         /\ ReleaseDeferred(m).version = m.version
         /\ Deferred(ReleaseDeferred(m)) = {}
BY DEF ReleaseDeferred, BufferType, Deferred

(* Releasing the deferred blocks and resizing the window leave the pending *)
(* ranges alone and invent no deferred block.                              *)
LEMMA TryDeferredKeeps ==
  ASSUME NEW C, NEW m \in BufferType(C), NEW v
  PROVE  LET x == TryDeferredFree(m, v)
         IN /\ x \in BufferType(C)
            /\ x.ranges = m.ranges /\ x.gone = m.gone /\ x.version = m.version
            /\ Deferred(x) \subseteq Deferred(m)
BY ReleaseDeferredKeeps DEF TryDeferredFree

LEMMA ResizeKeeps ==
  ASSUME NEW C, NEW m \in BufferType(C)
  PROVE  LET x == Resize(m)
         IN /\ x \in BufferType(C)
            /\ x.ranges = m.ranges /\ x.gone = m.gone /\ x.version = m.version
            /\ Deferred(x) = Deferred(m)
<1>1. m.window \in 1 .. WindowMax /\ WindowMax \in Nat
  BY FreeBufferAssumption DEF BufferType
<1>2. (IF 4 * m.window > WindowMax THEN WindowMax ELSE 4 * m.window) \in 1 .. WindowMax
  BY <1>1
<1>3. (IF m.window \div 2 < 1 THEN 1 ELSE m.window \div 2) \in 1 .. WindowMax
  BY <1>1
<1> DEFINE x == Resize(m)
<1>4. x = m \/ \E w \in 1 .. WindowMax : x = [m EXCEPT !.window = w]
  BY <1>2, <1>3 DEF Resize
<1> HIDE DEF x
<1>5. /\ x \in BufferType(C)
      /\ x.ranges = m.ranges /\ x.gone = m.gone /\ x.version = m.version
      /\ Deferred(x) = Deferred(m)
  BY <1>4 DEF BufferType, Deferred
<1> QED BY <1>5 DEF x

LEMMA DeferKeeps ==
  ASSUME NEW C, NEW m \in BufferType(C), NEW c \in C, NEW small \in BOOLEAN
  PROVE  LET x == Defer(m, c, small)
         IN /\ x \in BufferType(C)
            /\ x.ranges = m.ranges /\ x.gone = m.gone /\ x.version = m.version
            /\ Deferred(x) \subseteq Deferred(m) \cup {c}
BY DEF Defer, BufferType, Deferred

-----------------------------------------------------------------------------
(* A range is stored in the place of an older one or behind the last.      *)
Grown(r, q, a) == AliasesOf(r) = AliasesOf(q) \cup {a}

Replaced(s, i, r) == [s EXCEPT ![i] = r]

LEMMA PendingReplace ==
  ASSUME NEW s \in Seq(RangeType), NEW i \in DOMAIN s, NEW r \in RangeType, NEW a,
         Grown(r, s[i], a)
  PROVE  AllOf(Replaced(s, i, r)) = AllOf(s) \cup {a}
<1> DEFINE q == [s EXCEPT ![i] = r]
<1>1. DOMAIN q = DOMAIN s
  OBVIOUS
<1>2. q[i] = r /\ \A j \in DOMAIN s : j # i => q[j] = s[j]
  OBVIOUS
<1> HIDE DEF q
<1>3. ASSUME NEW x PROVE (\E j \in DOMAIN q : x \in AliasesOf(q[j]))
                          <=> (x = a \/ \E j \in DOMAIN s : x \in AliasesOf(s[j]))
  BY <1>1, <1>2 DEF Grown
<1>4. AllOf(q) = AllOf(s) \cup {a}
  BY <1>3 DEF AllOf
<1> QED BY <1>4 DEF q, Replaced

LEMMA PendingAppend ==
  ASSUME NEW s \in Seq(RangeType), NEW a \in Nat
  PROVE  AllOf(Append(s, Range1(a))) = AllOf(s) \cup {a}
<1> DEFINE q == Append(s, Range1(a))
<1>1. /\ DOMAIN q = 1 .. Len(s) + 1
      /\ DOMAIN s = 1 .. Len(s)
      /\ Len(s) \in Nat
      /\ q[Len(s) + 1] = Range1(a)
      /\ \A j \in 1 .. Len(s) : q[j] = s[j]
  BY Range1Is
<1> HIDE DEF q
<1>2. AliasesOf(q[Len(s) + 1]) = {a}
  BY <1>1, Range1Is
<1>3. \A j \in DOMAIN q : j \in DOMAIN s \/ j = Len(s) + 1
  BY <1>1
<1>4. DOMAIN s \subseteq DOMAIN q /\ Len(s) + 1 \in DOMAIN q
  BY <1>1
<1>5. ASSUME NEW x PROVE (\E j \in DOMAIN q : x \in AliasesOf(q[j]))
                          <=> (x = a \/ \E j \in DOMAIN s : x \in AliasesOf(s[j]))
  BY <1>1, <1>2, <1>3, <1>4
<1>6. AllOf(q) = AllOf(s) \cup {a}
  BY <1>5 DEF AllOf
<1> QED BY <1>6 DEF q

(* The slot that a flush has zeroed takes the page.                        *)
Stored(s, a) == Append(SubSeq(s, 1, Len(s) - 1), Range1(a))

LEMMA PendingStore ==
  ASSUME NEW s \in Seq(RangeType), NEW a \in Nat, s = <<>> \/ s[Len(s)] = NoRange
  PROVE  /\ Stored(s, a) \in Seq(RangeType)
         /\ Len(Stored(s, a)) = IF s = <<>> THEN 1 ELSE Len(s)
         /\ AllOf(Stored(s, a)) = AllOf(s) \cup {a}
<1> DEFINE h == SubSeq(s, 1, Len(s) - 1)
           q == Append(h, Range1(a))
<1>1. Len(s) \in Nat /\ DOMAIN s = 1 .. Len(s) /\ (s = <<>> <=> Len(s) = 0)
  OBVIOUS
<1>2. /\ h \in Seq(RangeType) /\ Len(h) = (IF s = <<>> THEN 0 ELSE Len(s) - 1)
      /\ DOMAIN h = 1 .. Len(h) /\ \A j \in DOMAIN h : h[j] = s[j]
  BY <1>1
<1> HIDE DEF h
<1>3. q = Append(h, Range1(a)) /\ Len(h) \in Nat
  BY DEF h
<1>7. Stored(s, a) = q
  BY DEF Stored, h
<1> HIDE DEF q
<1>4. q \in Seq(RangeType) /\ Len(q) = Len(h) + 1
  BY <1>2, <1>3, Range1Is
<1>5. AllOf(q) = AllOf(h) \cup {a}
  BY <1>2, <1>3, PendingAppend
<1>6. AllOf(h) = AllOf(s)
  <2>1. CASE s = <<>>
    BY <1>1, <1>2, <2>1 DEF AllOf
  <2>2. CASE s # <<>>
    <3>1. s[Len(s)] = NoRange
      BY <2>2
    <3>2. \A j \in DOMAIN s : j \in DOMAIN h \/ j = Len(s)
      BY <1>1, <1>2, <2>2
    <3>3. DOMAIN h \subseteq DOMAIN s
      BY <1>1, <1>2, <2>2
    <3>4. ASSUME NEW x PROVE (\E j \in DOMAIN h : x \in AliasesOf(h[j]))
                              <=> (\E j \in DOMAIN s : x \in AliasesOf(s[j]))
      BY <1>2, <3>1, <3>2, <3>3, NoRangeIs
    <3> QED BY <3>4 DEF AllOf
  <2> QED BY <2>1, <2>2
<1>8. Len(q) = IF s = <<>> THEN 1 ELSE Len(s)
  <2>1. CASE s = <<>>
    BY <1>2, <1>4, <2>1
  <2>2. CASE s # <<>>
    <3>1. Len(h) = Len(s) - 1
      BY <1>2, <2>2
    <3>2. Len(q) = Len(s)
      BY <1>1, <1>4, <3>1
    <3> QED BY <2>2, <3>2
  <2> QED BY <2>1, <2>2
<1> QED BY <1>4, <1>5, <1>6, <1>7, <1>8

(* The buffer keeps its form when a freed page joins it, and no page is    *)
(* forgotten: the page is pending with everything that was pending before, *)
(* or, in a full buffer, everything else has just been unmapped by the     *)
(* flush, unless that flush failed.                                        *)
THEOREM AddRangeForgetsNothing ==
  ASSUME NEW C, NEW m \in BufferType(C), Fits(m), NEW a \in Nat, NEW x \in AddRange(m, a)
  PROVE  /\ x \in BufferType(C) /\ Fits(x)
         /\ Pending(x) \subseteq Pending(m) \cup {a}
         /\ a \in Pending(x)
         /\ Deferred(x) \subseteq Deferred(m)
         /\ ~HelpersFail => Remembers(m, x)
<1>3. m.ranges \in Seq(RangeType) /\ Len(m.ranges) \in Nat /\ DOMAIN m.ranges = 1 .. Len(m.ranges)
  BY PendingIs
<1>0. ASSUME x \in BufferType(C), x.gone = m.gone, x.version = m.version,
             Deferred(x) = Deferred(m),
             ~HelpersFail => Len(x.ranges) <= BufSize,
             AllOf(x.ranges) = AllOf(m.ranges) \cup {a}
      PROVE  /\ x \in BufferType(C) /\ Fits(x)
             /\ Pending(x) \subseteq Pending(m) \cup {a}
             /\ a \in Pending(x)
             /\ Deferred(x) \subseteq Deferred(m)
             /\ ~HelpersFail => Remembers(m, x)
  <2>1. Pending(x) = Pending(m) \cup {a}
    BY <1>0, PendingAll
  <2>2. Fits(x)
    BY <1>0 DEF Fits
  <2> QED BY <1>0, <2>1, <2>2 DEF Remembers
<1>4. CASE SlotIsFree(m)
  <2> DEFINE q == Stored(m.ranges, a)
  <2>1. x = [m EXCEPT !.ranges = q, !.empty = FALSE]
    BY <1>4 DEF AddRange, Stored
  <2>2. /\ q \in Seq(RangeType) /\ Len(q) = IF m.ranges = <<>> THEN 1 ELSE Len(m.ranges)
        /\ AllOf(q) = AllOf(m.ranges) \cup {a}
    <3>1. m.ranges = <<>> \/ m.ranges[Len(m.ranges)] = NoRange
      BY <1>4 DEF SlotIsFree
    <3> QED BY <1>3, <3>1, PendingStore
  <2> HIDE DEF q
  <2>3. ~HelpersFail => Len(q) <= BufSize
    BY <2>2, FreeBufferAssumption DEF Fits
  <2>4. /\ x \in BufferType(C) /\ x.ranges = q /\ x.gone = m.gone /\ x.version = m.version
        /\ Deferred(x) = Deferred(m)
    BY <2>1, <2>2 DEF BufferType, Deferred
  <2> QED BY <1>0, <2>2, <2>3, <2>4
<1>5. CASE ~SlotIsFree(m) /\ Mergeable(m, a) # {}
  <2> DEFINE i == Latest(Mergeable(m, a))
  <2>1. Mergeable(m, a) \in SUBSET (1 .. Len(m.ranges))
    BY <1>3 DEF Mergeable
  <2>2. i \in Mergeable(m, a)
    BY <2>1, <1>3, <1>5, LatestIsIn
  <2> HIDE DEF i
  <2>3. i \in DOMAIN m.ranges /\ m.ranges[i] \in RangeType /\ Touches(m.ranges[i], a)
    <3>1. i \in DOMAIN m.ranges /\ Touches(m.ranges[i], a)
      BY <2>2 DEF Mergeable
    <3> QED BY <3>1, <1>3
  <2> DEFINE e == Extend(m.ranges[i], a)
  <2>4. x = [m EXCEPT !.ranges = [m.ranges EXCEPT ![i] = e]]
    BY <1>5 DEF AddRange, i
  <2>5. e \in RangeType /\ AliasesOf(e) = AliasesOf(m.ranges[i]) \cup {a}
    BY <2>3, ExtendAdds
  <2> HIDE DEF e
  <2> DEFINE q == [m.ranges EXCEPT ![i] = e]
  <2>6. q \in Seq(RangeType) /\ Len(q) = Len(m.ranges)
    BY <1>3, <2>3, <2>5
  <2>7. AllOf(q) = AllOf(m.ranges) \cup {a}
    <3> DEFINE sq == m.ranges
    <3>1. /\ sq \in Seq(RangeType) /\ i \in DOMAIN sq
          /\ Grown(e, sq[i], a)
      BY <1>3, <2>3, <2>5 DEF Grown
    <3> HIDE DEF sq, q
    <3>2. AllOf(Replaced(sq, i, e)) = AllOf(sq) \cup {a}
      BY <2>5, <3>1, PendingReplace
    <3>3. Replaced(sq, i, e) = q
      BY DEF Replaced, sq, q
    <3> QED BY <3>2, <3>3 DEF sq
  <2>8. x = [m EXCEPT !.ranges = q]
    BY <2>4
  <2> HIDE DEF q
  <2>9. /\ x \in BufferType(C) /\ x.ranges = q /\ x.gone = m.gone /\ x.version = m.version
        /\ Deferred(x) = Deferred(m)
    BY <2>6, <2>8 DEF BufferType, Deferred
  <2> QED BY <1>0, <2>6, <2>7, <2>9 DEF Fits
<1>6. CASE ~SlotIsFree(m) /\ Overflows(m, a)
  <2>1. PICK f \in FlushOutcomes(m) :
          x = [ReleaseDeferred(f) EXCEPT !.ranges = Append(@, Range1(a))]
    BY <1>6 DEF AddRange, Overflows
  <2>2. /\ f \in BufferType(C) /\ Fits(f) /\ Pending(f) \subseteq Pending(m)
        /\ ~HelpersFail => f = Flush(m) /\ Remembers(m, f)
    BY <2>1, FlushOutcome
  <2> DEFINE r == ReleaseDeferred(f)
             q == Append(f.ranges, Range1(a))
  <2>3. /\ r \in BufferType(C) /\ r.ranges = f.ranges /\ r.gone = f.gone /\ r.version = f.version
        /\ Deferred(r) = {}
    BY <2>2, ReleaseDeferredKeeps
  <2>4. /\ q \in Seq(RangeType) /\ Len(q) = Len(f.ranges) + 1
        /\ AllOf(q) = AllOf(f.ranges) \cup {a}
    BY <2>2, PendingIs, PendingAppend, Range1Is
  <2>5. x = [r EXCEPT !.ranges = q]
    BY <2>1, <2>3
  <2> HIDE DEF r, q
  <2>6. /\ x \in BufferType(C) /\ x.ranges = q /\ x.gone = f.gone /\ x.version = f.version
        /\ Deferred(x) = {}
    BY <2>3, <2>4, <2>5 DEF BufferType, Deferred
  <2>7. Pending(x) = Pending(f) \cup {a}
    BY <2>4, <2>6, PendingAll
  <2>8. Fits(x)
    <3>1. ~HelpersFail => f.ranges = <<>>
      BY <2>2, FlushEmpties
    <3> QED BY <2>4, <2>6, <3>1, FreeBufferAssumption DEF Fits
  <2>9. ~HelpersFail => Remembers(m, x)
    BY <2>2, <2>6, <2>7 DEF Remembers
  <2> QED BY <2>2, <2>6, <2>7, <2>8, <2>9
<1>7. CASE ~SlotIsFree(m) /\ Mergeable(m, a) = {} /\ ~Overflows(m, a)
  <2> DEFINE q == Append(m.ranges, Range1(a))
  <2>1. x = [m EXCEPT !.ranges = q]
    BY <1>7 DEF AddRange
  <2>2. q \in Seq(RangeType) /\ Len(q) = Len(m.ranges) + 1
    BY <1>3, Range1Is
  <2>3. ~HelpersFail => Len(q) <= BufSize
    BY <1>3, <1>7, <2>2, FreeBufferAssumption DEF Fits, Overflows
  <2>4. AllOf(q) = AllOf(m.ranges) \cup {a}
    BY <1>3, PendingAppend
  <2> HIDE DEF q
  <2>5. /\ x \in BufferType(C) /\ x.ranges = q /\ x.gone = m.gone /\ x.version = m.version
        /\ Deferred(x) = Deferred(m)
    BY <2>1, <2>2 DEF BufferType, Deferred
  <2> QED BY <1>0, <2>3, <2>4, <2>5
<1> QED BY <1>4, <1>5, <1>6, <1>7

(* The flush of a full window only takes pages out of the buffer.          *)
LEMMA BatchFlushShrinks ==
  ASSUME NEW C, NEW m \in BufferType(C), Fits(m), NEW x \in BatchFlush(m)
  PROVE  /\ x \in BufferType(C) /\ Fits(x)
         /\ Pending(x) \subseteq Pending(m)
         /\ Deferred(x) = Deferred(m)
         /\ ~HelpersFail => Remembers(m, x)
<1>1. x \in FlushOutcomes(m) \/ x = m
  BY DEF BatchFlush
<1> QED BY <1>1, FlushOutcome, RemembersItself

(* So does the release of a full deferral list.                            *)
LEMMA DrainShrinks ==
  ASSUME NEW C, NEW m \in BufferType(C), Fits(m), NEW x \in DrainDeferred(m)
  PROVE  /\ x \in BufferType(C) /\ Fits(x)
         /\ Pending(x) \subseteq Pending(m)
         /\ Deferred(x) = {}
         /\ ~HelpersFail => Remembers(m, x)
<1>1. PICK f : x = ReleaseDeferred(f) /\ (f = m \/ f \in FlushOutcomes(m))
  BY DEF DrainDeferred
<1>2. /\ f \in BufferType(C) /\ Fits(f) /\ Pending(f) \subseteq Pending(m)
      /\ ~HelpersFail => Remembers(m, f)
  BY <1>1, FlushOutcome, RemembersItself
<1>3. /\ x \in BufferType(C) /\ x.ranges = f.ranges /\ x.gone = f.gone /\ x.version = f.version
      /\ Deferred(x) = {}
  BY <1>1, <1>2, ReleaseDeferredKeeps
<1>4. Fits(x) /\ Pending(x) = Pending(f) /\ Remembers(f, x)
  BY <1>2, <1>3, RemembersItself DEF Fits, Pending
<1> QED BY <1>2, <1>3, <1>4, RemembersOn

-----------------------------------------------------------------------------
PC == {"idle", "lock", "body", "unlock", "check", "try", "mark", "next", "cross",
       "entry", "page", "map"}

Page == {PageOf[c] : c \in Canon}

FaultType ==
  [fault : Alias \cup {None}, run : Nat, len : Nat, page : Page \cup {None}, cur : Alias,
   win : Nat, rtid : Slot \cup {None}, need : BOOLEAN, slot : Slot \cup {None},
   ver : 0 .. NVersions, first : BOOLEAN, must : BOOLEAN, i : Nat, locked : BOOLEAN]

Types ==
  /\ entry \in [Alias -> Entry \cup {None}]
  /\ pte \in [Alias -> Page \cup {None}]
  /\ l1lock \in [L1 -> Thread \cup {None}]
  /\ mpt \in [Slot -> BufferType(Canon)]
  /\ bufLock \in [Slot -> Thread \cup {None}]
  /\ prevVersion \in [Thread -> 0 .. NVersions - 1]
  /\ resv \in [Thread -> [Class -> [ready : Seq(Alias), reuse : Seq(Entry)]]]
  /\ region \in [Thread -> [next : Nat, end : Nat]]
  /\ nextL1 \in 0 .. NL1
  /\ hash \in [Thread -> SUBSET Canon]
  /\ heap \in SUBSET Canon
  /\ pc \in [Thread -> PC]
  /\ victim \in [Thread -> [alias : Alias \cup {None}, canon : Canon \cup {None}]]
  /\ pf \in [Thread -> FaultType]
  /\ held \in SUBSET Alias
  /\ home \in [Alias -> Canon \cup {None}]

Buffers == \A s \in Slot : Fits(mpt[s]) /\ Pending(mpt[s]) \subseteq Alias

Ready(t, k) == resv[t][k].ready

(* Alias a belongs to the program or to a reservation.                     *)
Out(a) ==
  \/ a \in held
  \/ \E t \in Thread, k \in Class : \E i \in DOMAIN Ready(t, k) : Ready(t, k)[i] = a

Rest(t) == region[t].next .. region[t].end - 1

(* Aliases up to Top lie in a table that some thread took.                 *)
Top == nextL1 * L1Len

(* An alias that no thread has used yet.                                   *)
Unused(a) == ~ (a <= Top) \/ \E t \in Thread : a \in Rest(t)

(* An alias that is out has an entry and is in no thread's region.         *)
HasEntry ==
  \A a \in Alias : Out(a) => entry[a] # None /\ a <= Top /\ \A t \in Thread : a \notin Rest(t)

(* An alias waits in one place of one reservation.                         *)
Once ==
  /\ \A t \in Thread, k \in Class : \A i \in DOMAIN Ready(t, k) : Ready(t, k)[i] \notin held
  /\ \A t, u \in Thread, k, l \in Class :
       \A i \in DOMAIN Ready(t, k), j \in DOMAIN Ready(u, l) :
         Ready(t, k)[i] = Ready(u, l)[j] => t = u /\ k = l /\ i = j

(* The regions are disjoint parts of the tables taken.                     *)
Regions ==
  /\ \A t \in Thread : \A a \in Rest(t) : a \in Alias /\ a <= Top
  /\ \A t, u \in Thread : \A a \in Rest(t) : a \in Rest(u) => t = u

Given == HasEntry /\ Once /\ Regions

(* The locks a thread holds at each point and what it knows under them.    *)
Knows(u) ==
  /\ pc[u] \in {"body", "unlock"} => bufLock[SlotOf[u]] = u
  /\ pf[u].locked => l1lock[L1Of(pf[u].cur)] = u
  /\ \/ pc[u] \in {"check", "try", "mark", "page"}
     \/ pc[u] = "map" /\ pf[u].win > 1
     => pf[u].locked /\ entry[pf[u].cur] # None
  /\ pc[u] \in {"next", "entry"} => pf[u].locked
  /\ pc[u] \in {"lock", "body"} => victim[u].alias \in Alias /\ victim[u].canon \in Canon
  /\ pc[u] \in {"check", "try"} => pf[u].slot \in Slot

Threads == \A u \in Thread : Knows(u)

IInv == Types /\ Buffers /\ Given /\ Threads

-----------------------------------------------------------------------------
LEMMA Times ==
  ASSUME NEW h \in Nat, NEW m \in Nat, NEW n \in Nat, n <= m
  PROVE  n * h \in Nat /\ m * h \in Nat /\ n * h <= m * h
<1>1. m - n \in Nat /\ (m - n) * h >= 0
  OBVIOUS
<1>2. (m - n) * h = m * h - n * h
  OBVIOUS
<1> QED BY <1>1, <1>2

(* A quotient is the only one that leaves a remainder below the divisor.   *)
LEMMA Quotient ==
  ASSUME NEW h \in Nat \ {0}, NEW x \in Nat, NEW q \in Nat, q * h <= x, x < q * h + h
  PROVE  x \div h = q /\ x % h = x - q * h
<1> DEFINE p == x \div h
<1>1. p \in Int /\ x = p * h + (x % h) /\ 0 <= x % h /\ x % h < h
  OBVIOUS
<1> HIDE DEF p
<1>2. p >= 0
  <2>1. ASSUME p + 1 <= 0 PROVE FALSE
    <3>1. (0 - (p + 1)) * h >= 0
      BY <1>1, <2>1
    <3>2. (0 - (p + 1)) * h = 0 - p * h - h
      BY <1>1
    <3> QED BY <1>1, <3>1, <3>2
  <2> QED BY <1>1, <2>1
<1>3. ASSUME p + 1 <= q PROVE FALSE
  <2>1. (p + 1) * h <= q * h
    BY <1>1, <1>2, <1>3, Times
  <2>2. (p + 1) * h = p * h + h
    BY <1>1
  <2> QED BY <1>1, <2>1, <2>2
<1>4. ASSUME q + 1 <= p PROVE FALSE
  <2>1. (q + 1) * h <= p * h
    BY <1>1, <1>2, <1>4, Times
  <2>2. (q + 1) * h = q * h + h
    OBVIOUS
  <2> QED BY <1>1, <2>1, <2>2
<1>5. p = q
  BY <1>1, <1>3, <1>4
<1>6. x % h = x - q * h
  BY <1>1, <1>5
<1> QED BY <1>5, <1>6 DEF p

(* A positive number lies in a row of length h.                            *)
LEMMA Row ==
  ASSUME NEW h \in Nat \ {0}, NEW a \in Nat \ {0}
  PROVE  \E q \in Nat : q * h + 1 <= a /\ a <= q * h + h /\ (a - 1) \div h = q
<1> DEFINE x == a - 1
           q == x \div h
<1>1. x \in Nat
  OBVIOUS
<1> HIDE DEF x
<1>2. q \in Int /\ x = q * h + (x % h) /\ 0 <= x % h /\ x % h < h
  BY <1>1
<1>3. q \in Nat
  BY <1>1
<1>4. q * h <= x /\ x < q * h + h /\ q * h \in Nat
  <2> HIDE DEF q
  <2>1. q * h \in Nat /\ x % h \in Int
    BY <1>1, <1>3
  <2> QED BY <1>1, <1>2, <2>1
<1> HIDE DEF q
<1>5. x = a - 1
  BY DEF x
<1>6. (a - 1) \div h = q
  BY DEF x, q
<1> QED BY <1>3, <1>4, <1>5, <1>6

(* The alias space is cut into tables of L1Len pages.                      *)
LEMMA TableOf ==
  /\ 1 \in Alias
  /\ \A a \in Alias : a \in Nat /\ L1Of(a) \in L1
  /\ \A a \in Alias : a % L1Len # 0 => a + 1 \in Alias /\ L1Of(a + 1) = L1Of(a)
<1>1. NL1 \in Nat \ {0} /\ L1Len \in Nat \ {0}
  BY BatchedFreeAssumption
<1> DEFINE size == NL1 * L1Len
<1>2. 1 <= size /\ size \in Nat
  BY <1>1, Times, 1 * L1Len = L1Len
<1>3. Alias = 1 .. size
  BY DEF Alias
<1>4. ASSUME NEW a \in Alias
      PROVE  /\ a \in Nat /\ L1Of(a) \in L1
             /\ a % L1Len # 0 => a + 1 \in Alias /\ L1Of(a + 1) = L1Of(a)
  <2>1. a \in Nat \ {0} /\ a <= size
    <3> HIDE DEF size
    <3> QED BY <1>2, <1>3
  <2>2. PICK q \in Nat : q * L1Len + 1 <= a /\ a <= q * L1Len + L1Len /\ (a - 1) \div L1Len = q
    BY <1>1, <2>1, Row
  <2>3. q * L1Len \in Nat /\ (q + 1) * L1Len = q * L1Len + L1Len
    BY <1>1, Times
  <2>4. q < NL1
    <3>1. ASSUME NL1 <= q PROVE FALSE
      <4>1. size <= q * L1Len
        BY <1>1, <3>1, Times
      <4> HIDE DEF size
      <4> QED BY <1>2, <2>1, <2>2, <2>3, <4>1
    <3> QED BY <1>1, <3>1
  <2>5. (q + 1) * L1Len <= size
    BY <1>1, <2>4, Times
  <2>6. L1Of(a) \in L1
    BY <1>1, <2>2, <2>4 DEF L1Of, L1
  <2>7. ASSUME a % L1Len # 0 PROVE a + 1 \in Alias /\ L1Of(a + 1) = L1Of(a)
    <3>1. a # q * L1Len + L1Len
      <4>1. (q + 1) * L1Len <= a /\ a < (q + 1) * L1Len + L1Len => a % L1Len = a - (q + 1) * L1Len
        <5>1. q + 1 \in Nat
          OBVIOUS
        <5> QED BY <1>1, <2>1, <5>1, Quotient
      <4> HIDE DEF size
      <4> QED BY <1>1, <2>1, <2>3, <2>7, <4>1
    <3>2. a + 1 <= (q + 1) * L1Len /\ q * L1Len <= a /\ a < q * L1Len + L1Len
      BY <1>1, <2>1, <2>2, <2>3, <3>1
    <3>3. a \div L1Len = q
      BY <1>1, <2>1, <3>2, Quotient
    <3>4. L1Of(a + 1) = a \div L1Len
      BY <2>1 DEF L1Of
    <3> HIDE DEF size
    <3>5. a + 1 <= size
      BY <1>2, <2>1, <2>3, <2>5, <3>2, <1>1
    <3>6. a + 1 \in Alias
      BY <1>2, <1>3, <2>1, <3>5
    <3> QED BY <2>2, <3>3, <3>4, <3>6 DEF L1Of
  <2> QED BY <2>1, <2>6, <2>7
<1> HIDE DEF size
<1>5. 1 \in Alias
  BY <1>2, <1>3
<1> QED BY <1>4, <1>5

(* The aliases of the tables taken so far.                                 *)
LEMMA TopIs ==
  ASSUME Types
  PROVE  /\ Top \in Nat /\ Top <= NL1 * L1Len /\ NL1 * L1Len \in Nat
         /\ nextL1 < NL1 => Top + L1Len <= NL1 * L1Len
         /\ (nextL1 + 1) * L1Len = Top + L1Len
<1>1. NL1 \in Nat /\ L1Len \in Nat /\ nextL1 \in Nat /\ nextL1 <= NL1
  BY BatchedFreeAssumption DEF Types
<1>2. Top \in Nat /\ Top <= NL1 * L1Len /\ NL1 * L1Len \in Nat
  BY <1>1, Times DEF Top
<1>3. (nextL1 + 1) * L1Len = Top + L1Len
  BY <1>1 DEF Top
<1>4. nextL1 < NL1 => (nextL1 + 1) * L1Len <= NL1 * L1Len
  BY <1>1, Times
<1> QED BY <1>2, <1>3, <1>4

(* A step of thread t that takes no lock of thread u and clears no entry   *)
(* in a table that u has locked leaves what u knows.                       *)
LEMMA OthersKnow ==
  ASSUME Types, NEW u \in Thread, Knows(u),
         pc'[u] = pc[u], pf'[u] = pf[u], victim'[u] = victim[u],
         bufLock[SlotOf[u]] = u => bufLock'[SlotOf[u]] = u,
         \A n \in L1 : l1lock[n] = u => l1lock'[n] = u,
         \A a \in Alias : l1lock[L1Of(a)] = u /\ entry[a] # None => entry'[a] # None
  PROVE  Knows(u)'
<1>1. pf[u].cur \in Alias /\ L1Of(pf[u].cur) \in L1
  BY TableOf DEF Types, FaultType
<1>2. L1Of(pf[u].cur)' = L1Of(pf[u].cur)
  BY DEF L1Of
<1> QED BY <1>1, <1>2 DEF Knows

(* Nothing is given or taken back.                                         *)
LEMMA GivenKept ==
  ASSUME Given, UNCHANGED <<region, nextL1, held>>,
         \A u \in Thread, k \in Class : resv'[u][k].ready = resv[u][k].ready,
         \A a \in Alias : entry[a] # None => entry'[a] # None
  PROVE  Given'
<1>1. Top' = Top /\ \A u \in Thread : Rest(u)' = Rest(u)
  BY DEF Top, Rest
<1>2. \A a \in Alias : Out(a)' => Out(a)
  BY DEF Out, Ready
<1>3. HasEntry'
  <2> SUFFICES ASSUME NEW a \in Alias, Out(a)'
               PROVE  entry'[a] # None /\ a <= Top' /\ \A u \in Thread : a \notin Rest(u)'
    BY DEF HasEntry
  <2>1. entry[a] # None /\ a <= Top /\ \A u \in Thread : a \notin Rest(u)
    BY <1>2 DEF Given, HasEntry
  <2> QED BY <1>1, <2>1
<1>4. Once'
  BY DEF Given, Once, Ready
<1>5. Regions'
  BY DEF Given, Regions, Rest, Top
<1> QED BY <1>3, <1>4, <1>5 DEF Given

LEMMA BuffersKept == ASSUME Buffers, UNCHANGED mpt PROVE Buffers'
BY DEF Buffers
LEMMA NoneIsNoThread == None \notin Thread
BY BatchedFreeAssumption

(* What is left to show of a step of a page fault handler, which may keep  *)
(* a buf_lock that nobody held.                                            *)
LEMMA HandlerStep ==
  ASSUME IInv, NEW t \in Thread, UNCHANGED notLock,
         \A s \in Slot : bufLock[s] # None => bufLock'[s] = bufLock[s],
         Types', Buffers', Knows(t)',
         \A u \in Thread \ {t} : pc'[u] = pc[u] /\ pf'[u] = pf[u],
         \A n \in L1 : l1lock[n] \notin {None, t} => l1lock'[n] = l1lock[n],
         \A a \in Alias : entry[a] # None => entry'[a] # None
  PROVE  IInv'
<1>1. Given'
  BY GivenKept DEF IInv, notLock
<1>2. ASSUME NEW u \in Thread, u # t PROVE Knows(u)'
  <2>1. SlotOf[u] \in Slot /\ u # None
    BY BatchedFreeAssumption, NoneIsNoThread
  <2>2. bufLock[SlotOf[u]] = u => bufLock'[SlotOf[u]] = u
    BY <2>1
  <2> QED BY <1>2, <2>1, <2>2, OthersKnow DEF IInv, Threads, notLock
<1>3. Threads'
  BY <1>2 DEF Threads
<1> QED BY <1>1, <1>3 DEF IInv

LEMMA FaultTypes ==
  ASSUME IInv, NEW t \in Thread
  PROVE  /\ pf[t] \in FaultType /\ pf[t].cur \in Alias /\ L1Of(pf[t].cur) \in L1
         /\ pf[t].slot \in Slot \cup {None} /\ Knows(t)
         /\ entry[pf[t].cur] \in Entry \cup {None}
         /\ NoFault \in FaultType
<1>1. pf[t] \in FaultType
  BY DEF IInv, Types
<1>2. pf[t].cur \in Alias /\ pf[t].slot \in Slot \cup {None}
  BY <1>1 DEF FaultType
<1>3. entry[pf[t].cur] \in Entry \cup {None}
  BY <1>2 DEF IInv, Types
<1>4. NoFault \in FaultType
  BY TableOf, FreeBufferAssumption DEF NoFault, FaultType
<1> QED BY <1>1, <1>2, <1>3, <1>4, TableOf DEF IInv, Threads

LEMMA FlushDoneKnows ==
  ASSUME IInv, NEW t \in Thread, FlushDone(t), pc[t] \in {"check", "try"},
         UNCHANGED <<entry, l1lock, notHandler>>
  PROVE  /\ Knows(t)' /\ pc' \in [Thread -> PC] /\ pf' \in [Thread -> FaultType]
         /\ \A u \in Thread \ {t} : pc'[u] = pc[u] /\ pf'[u] = pf[u]
<1>1. pf[t] \in FaultType /\ Knows(t) /\ pf[t].slot \in Slot /\ pf[t].locked /\ entry[pf[t].cur] # None
  BY FaultTypes DEF Knows
<1>2. pc \in [Thread -> PC] /\ pf \in [Thread -> FaultType]
  BY DEF IInv, Types
<1>3. AfterFlush(t) \in {"mark", "page"}
  BY DEF AfterFlush
<1>4. pc' \in [Thread -> PC] /\ pc'[t] \in {"mark", "page"} /\ \A u \in Thread \ {t} : pc'[u] = pc[u]
  BY <1>2, <1>3 DEF FlushDone, PC
<1> DEFINE q == [pf[t] EXCEPT !.rtid = pf[t].slot, !.need = FALSE]
<1>5. q \in FaultType /\ q.cur = pf[t].cur /\ q.locked = pf[t].locked
  BY <1>1 DEF FaultType
<1>6. pf' = pf \/ pf' = [pf EXCEPT ![t] = q]
  BY <1>1, <1>2 DEF FlushDone, FaultType
<1> HIDE DEF q
<1>7. /\ pf' \in [Thread -> FaultType] /\ pf'[t].cur = pf[t].cur /\ pf'[t].locked = pf[t].locked
      /\ \A u \in Thread \ {t} : pf'[u] = pf[u]
  BY <1>2, <1>5, <1>6
<1>8. Knows(t)'
  BY <1>1, <1>4, <1>7 DEF Knows, notHandler, notLock, L1Of
<1> QED BY <1>4, <1>7, <1>8

LEMMA FlushCheckStep == ASSUME IInv, NEW t \in Thread, FlushCheck(t) PROVE IInv'
<1> DEFINE rest == <<entry, pte, l1lock, mpt, notHandler>>
<1>1. pc[t] = "check" /\ UNCHANGED rest
  BY DEF FlushCheck
<1>2. FlushDone(t) \/ (pc' = [pc EXCEPT ![t] = "try"] /\ UNCHANGED pf)
  BY DEF FlushCheck
<1>3. /\ Knows(t)' /\ pc' \in [Thread -> PC] /\ pf' \in [Thread -> FaultType]
      /\ \A u \in Thread \ {t} : pc'[u] = pc[u] /\ pf'[u] = pf[u]
  <2>1. CASE FlushDone(t)
    BY <1>1, <2>1, FlushDoneKnows
  <2>2. CASE pc' = [pc EXCEPT ![t] = "try"] /\ UNCHANGED pf
    <3>1. pc \in [Thread -> PC] /\ pf \in [Thread -> FaultType] /\ Knows(t)
      BY FaultTypes DEF IInv, Types
    <3> QED BY <1>1, <2>2, <3>1 DEF Knows, PC, notHandler, notLock, L1Of
  <2> QED BY <1>2, <2>1, <2>2
<1>4. Types'
  BY <1>1, <1>3 DEF IInv, Types, notHandler, notLock
<1>5. Buffers'
  BY <1>1, BuffersKept DEF IInv
<1> QED BY <1>1, <1>3, <1>4, <1>5, HandlerStep DEF notHandler, notLock

(* A buffer whose flush is committed: the handler goes on.                 *)
LEMMA CommitKeeps ==
  ASSUME IInv, NEW s \in Slot, NEW m \in BufferType(Canon), Fits(m), Pending(m) \subseteq Alias,
         Commit(s, m)
  PROVE  /\ mpt' \in [Slot -> BufferType(Canon)] /\ pte' \in [Alias -> Page \cup {None}]
         /\ Buffers'
<1> DEFINE x == [m EXCEPT !.gone = {}]
<1>1. mpt \in [Slot -> BufferType(Canon)] /\ pte \in [Alias -> Page \cup {None}]
  BY DEF IInv, Types
<1>2. /\ x \in BufferType(Canon) /\ x.ranges = m.ranges
  BY DEF BufferType
<1>3. Fits(x) /\ Pending(x) = Pending(m)
  BY <1>2 DEF Fits, Pending
<1>4. /\ mpt' = [mpt EXCEPT ![s] = x]
      /\ pte' = [y \in Alias |-> IF y \in m.gone THEN None ELSE pte[y]]
  BY DEF Commit
<1> HIDE DEF x
<1>5. mpt' \in [Slot -> BufferType(Canon)] /\ pte' \in [Alias -> Page \cup {None}]
  BY <1>1, <1>2, <1>4
<1>6. \A r \in Slot : mpt'[r] = mpt[r] \/ mpt'[r] = x
  BY <1>1, <1>4
<1>7. \A r \in Slot : Fits(mpt[r]) /\ Pending(mpt[r]) \subseteq Alias
  BY DEF IInv, Buffers
<1>8. ASSUME NEW r \in Slot PROVE Fits(mpt'[r]) /\ Pending(mpt'[r]) \subseteq Alias
  BY <1>3, <1>6, <1>7
<1>9. \A r \in Slot : Fits(mpt'[r]) /\ Pending(mpt'[r]) \subseteq Alias
  BY <1>8
<1>10. Buffers'
  BY <1>9 DEF Buffers, Fits, Pending
<1> QED BY <1>5, <1>10

LEMMA FlushBufferStep == ASSUME IInv, NEW t \in Thread, FlushBuffer(t) PROVE IInv'
<1> DEFINE s == pf[t].slot
<1>1. pc[t] = "try" /\ FlushDone(t) /\ UNCHANGED <<entry, l1lock, notHandler>>
  BY DEF FlushBuffer
<1>2. /\ Knows(t)' /\ pc' \in [Thread -> PC] /\ pf' \in [Thread -> FaultType]
      /\ \A u \in Thread \ {t} : pc'[u] = pc[u] /\ pf'[u] = pf[u]
  BY <1>1, FlushDoneKnows
<1>3. s \in Slot
  BY <1>1, FaultTypes DEF Knows
<1>4. /\ mpt \in [Slot -> BufferType(Canon)] /\ pte \in [Alias -> Page \cup {None}]
      /\ mpt[s] \in BufferType(Canon)
  BY <1>3 DEF IInv, Types
<1>5. /\ Flush(mpt[s]) \in BufferType(Canon) /\ Fits(Flush(mpt[s]))
      /\ Pending(Flush(mpt[s])) = {}
  BY <1>4, FlushEmpties
<1>6. UNCHANGED <<mpt, pte>> \/ Commit(s, Flush(mpt[s]))
  BY DEF FlushBuffer
<1> HIDE DEF s
<1>7. /\ mpt' \in [Slot -> BufferType(Canon)] /\ pte' \in [Alias -> Page \cup {None}]
      /\ Buffers'
  <2>1. CASE UNCHANGED <<mpt, pte>>
    BY <1>4, <2>1, BuffersKept DEF IInv
  <2>2. CASE Commit(s, Flush(mpt[s]))
    BY <1>3, <1>5, <2>2, CommitKeeps
  <2> QED BY <1>6, <2>1, <2>2
<1>8. Types'
  BY <1>1, <1>2, <1>7 DEF IInv, Types, notHandler, notLock
<1> QED BY <1>1, <1>2, <1>7, <1>8, HandlerStep DEF notHandler

LEMMA UnflushedKnows ==
  ASSUME IInv, NEW t \in Thread, Unflushed(t), pc[t] = "try",
         UNCHANGED <<entry, l1lock, notLock>>
  PROVE  /\ Knows(t)' /\ pc' \in [Thread -> PC] /\ pf' \in [Thread -> FaultType]
         /\ \A u \in Thread \ {t} : pc'[u] = pc[u] /\ pf'[u] = pf[u]
<1>1. /\ pc \in [Thread -> PC] /\ pf \in [Thread -> FaultType] /\ pf[t] \in FaultType
      /\ Knows(t)
  BY FaultTypes DEF IInv, Types
<1> DEFINE q == [pf[t] EXCEPT !.win = 0]
<1>2. q \in FaultType /\ q.win = 0 /\ q.cur = pf[t].cur /\ q.locked = pf[t].locked
  BY <1>1 DEF FaultType
<1>3. \/ pc' = [pc EXCEPT ![t] = "mark"] /\ pf' = pf
      \/ pc' = [pc EXCEPT ![t] = "map"] /\ pf' = [pf EXCEPT ![t] = q]
  BY <1>1 DEF Unflushed, FaultType
<1> HIDE DEF q
<1>4. /\ pc' \in [Thread -> PC] /\ pf' \in [Thread -> FaultType]
      /\ \A u \in Thread \ {t} : pc'[u] = pc[u] /\ pf'[u] = pf[u]
  BY <1>1, <1>2, <1>3 DEF PC
<1>5. Knows(t)'
  BY <1>1, <1>2, <1>3 DEF Knows, notLock, L1Of
<1> QED BY <1>4, <1>5

LEMMA FlushFailsStep == ASSUME IInv, NEW t \in Thread, FlushFails(t) PROVE IInv'
<1> DEFINE s == pf[t].slot
<1>1. /\ pc[t] = "try" /\ bufLock[s] = None /\ Unflushed(t)
      /\ UNCHANGED <<entry, l1lock, notLock>>
  BY DEF FlushFails
<1>2. /\ Knows(t)' /\ pc' \in [Thread -> PC] /\ pf' \in [Thread -> FaultType]
      /\ \A u \in Thread \ {t} : pc'[u] = pc[u] /\ pf'[u] = pf[u]
  BY <1>1, UnflushedKnows
<1>3. s \in Slot
  BY <1>1, FaultTypes DEF Knows
<1>4. /\ mpt \in [Slot -> BufferType(Canon)] /\ pte \in [Alias -> Page \cup {None}]
      /\ mpt[s] \in BufferType(Canon) /\ Pending(mpt[s]) \subseteq Alias
      /\ bufLock \in [Slot -> Thread \cup {None}]
  BY <1>3 DEF IInv, Types, Buffers
<1>5. \/ (\E m \in BrokenFlushes(mpt[s]) : Commit(s, m)) /\ UNCHANGED bufLock
      \/ bufLock' = [bufLock EXCEPT ![s] = t] /\ UNCHANGED <<mpt, pte>>
  BY DEF FlushFails
<1>6. HelpersFail
  BY DEF FlushFails
<1> HIDE DEF s
<1>7. /\ mpt' \in [Slot -> BufferType(Canon)] /\ pte' \in [Alias -> Page \cup {None}]
      /\ Buffers'
  <2>1. CASE UNCHANGED <<mpt, pte>>
    BY <1>4, <2>1, BuffersKept DEF IInv
  <2>2. ASSUME NEW m \in BrokenFlushes(mpt[s]), Commit(s, m)
        PROVE  /\ mpt' \in [Slot -> BufferType(Canon)] /\ pte' \in [Alias -> Page \cup {None}]
               /\ Buffers'
    <3>1. m \in BufferType(Canon) /\ Pending(m) \subseteq Alias
      BY <1>4, <2>2, FlushBreaksIs
    <3>2. Fits(m)
      BY <1>6 DEF Fits
    <3> QED BY <1>3, <2>2, <3>1, <3>2, CommitKeeps
  <2> QED BY <1>5, <2>1, <2>2
<1>8. /\ bufLock' \in [Slot -> Thread \cup {None}]
      /\ \A r \in Slot : bufLock[r] # None => bufLock'[r] = bufLock[r]
  BY <1>1, <1>3, <1>4, <1>5
<1>9. Types'
  BY <1>1, <1>2, <1>7, <1>8 DEF IInv, Types, notLock
<1> QED BY <1>1, <1>2, <1>7, <1>8, <1>9, HandlerStep

LEMMA FlushRetryStep == ASSUME IInv, NEW t \in Thread, FlushRetry(t) PROVE IInv'
<1>1. /\ pc' = [pc EXCEPT ![t] = "idle"] /\ pf' = [pf EXCEPT ![t] = NoFault]
      /\ l1lock' = UnlockTable(pf[t]) /\ UNCHANGED <<entry, pte, mpt, notHandler>>
      /\ pc[t] = "try"
  BY DEF FlushRetry
<1>2. /\ pc \in [Thread -> PC] /\ pf \in [Thread -> FaultType] /\ NoFault \in FaultType
      /\ l1lock \in [L1 -> Thread \cup {None}] /\ L1Of(pf[t].cur) \in L1 /\ Knows(t)
  BY FaultTypes DEF IInv, Types
<1>3. /\ l1lock' \in [L1 -> Thread \cup {None}]
      /\ \A n \in L1 : l1lock[n] \notin {None, t} => l1lock'[n] = l1lock[n]
  BY <1>1, <1>2 DEF UnlockTable, Knows
<1>4. Types'
  BY <1>1, <1>2, <1>3 DEF IInv, Types, notHandler, notLock, PC
<1>5. Buffers'
  BY <1>1, BuffersKept DEF IInv
<1>6. pc'[t] = "idle" /\ pf'[t] = NoFault /\ ~NoFault.locked
  BY <1>1, <1>2 DEF NoFault
<1>7. Knows(t)'
  BY <1>6 DEF Knows
<1>8. \A u \in Thread \ {t} : pc'[u] = pc[u] /\ pf'[u] = pf[u]
  BY <1>1, <1>2
<1>9. \A a \in Alias : entry[a] # None => entry'[a] # None
  BY <1>1
<1> QED BY <1>1, <1>3, <1>4, <1>5, <1>7, <1>8, <1>9, HandlerStep DEF notHandler, notLock

LEMMA FlushSkipStep == ASSUME IInv, NEW t \in Thread, FlushSkip(t) PROVE IInv'
<1>1. /\ UNCHANGED <<entry, pte, l1lock, mpt, notHandler>> /\ pc[t] = "try" /\ Unflushed(t)
  BY DEF FlushSkip
<1>2. UNCHANGED notLock /\ UNCHANGED bufLock
  BY <1>1 DEF notHandler
<1>3. /\ Knows(t)' /\ pc' \in [Thread -> PC] /\ pf' \in [Thread -> FaultType]
      /\ \A u \in Thread \ {t} : pc'[u] = pc[u] /\ pf'[u] = pf[u]
  BY <1>1, <1>2, UnflushedKnows
<1>4. Types'
  BY <1>1, <1>2, <1>3 DEF IInv, Types, notLock
<1>5. Buffers'
  BY <1>1, BuffersKept DEF IInv
<1> QED BY <1>1, <1>2, <1>3, <1>4, <1>5, HandlerStep

(* Marking an entry keeps it an entry.                                     *)
LEMMA MarkKeeps ==
  ASSUME IInv, NEW t \in Thread, entry[pf[t].cur] # None,
         entry' = [entry EXCEPT ![pf[t].cur].mapped = TRUE]
  PROVE  /\ entry' \in [Alias -> Entry \cup {None}]
         /\ \A a \in Alias : entry[a] # None => entry'[a] # None
<1>1. entry \in [Alias -> Entry \cup {None}] /\ pf[t].cur \in Alias /\ entry[pf[t].cur] \in Entry
  BY FaultTypes DEF IInv, Types
<1> DEFINE e == [entry[pf[t].cur] EXCEPT !.mapped = TRUE]
<1>2. e \in Entry
  BY <1>1 DEF Entry
<1>3. entry' = [entry EXCEPT ![pf[t].cur] = e]
  OBVIOUS
<1> HIDE DEF e
<1> QED BY <1>1, <1>2, <1>3, NoneIsNoEntry

LEMMA MarkMappedStep == ASSUME IInv, NEW t \in Thread, MarkMapped(t) PROVE IInv'
<1>1. /\ pc[t] = "mark" /\ pc' = [pc EXCEPT ![t] = "next"]
      /\ entry' = [entry EXCEPT ![pf[t].cur].mapped = TRUE]
      /\ UNCHANGED <<pte, l1lock, mpt, pf, notHandler>>
  BY DEF MarkMapped
<1>2. pc \in [Thread -> PC] /\ pf \in [Thread -> FaultType] /\ Knows(t)
  BY FaultTypes DEF IInv, Types
<1>3. entry[pf[t].cur] # None /\ pf[t].locked
  BY <1>1, <1>2 DEF Knows
<1>4. /\ entry' \in [Alias -> Entry \cup {None}]
      /\ \A a \in Alias : entry[a] # None => entry'[a] # None
  BY <1>1, <1>3, MarkKeeps
<1>5. Types'
  BY <1>1, <1>2, <1>4 DEF IInv, Types, notHandler, notLock, PC
<1>6. Buffers'
  BY <1>1, BuffersKept DEF IInv
<1>7. Knows(t)'
  BY <1>1, <1>2, <1>3 DEF Knows, notHandler, notLock, L1Of
<1>8. \A u \in Thread \ {t} : pc'[u] = pc[u] /\ pf'[u] = pf[u]
  BY <1>1, <1>2
<1> QED BY <1>1, <1>4, <1>5, <1>6, <1>7, <1>8, HandlerStep DEF notHandler, notLock

LEMMA PrefetchNextStep == ASSUME IInv, NEW t \in Thread, PrefetchNext(t) PROVE IInv'
<1> DEFINE a == pf[t].cur
<1>1. pc[t] = "next" /\ UNCHANGED <<entry, pte, mpt, notHandler>>
  BY DEF PrefetchNext
<1>2. /\ pc \in [Thread -> PC] /\ pf \in [Thread -> FaultType] /\ pf[t] \in FaultType
      /\ l1lock \in [L1 -> Thread \cup {None}] /\ a \in Alias /\ L1Of(a) \in L1 /\ Knows(t)
  BY FaultTypes DEF IInv, Types
<1>3. pf[t].locked /\ l1lock[L1Of(a)] = t
  BY <1>1, <1>2 DEF Knows
<1>4. CASE a % L1Len # 0
  <2> DEFINE q == [pf[t] EXCEPT !.cur = a + 1]
  <2>1. a + 1 \in Alias /\ L1Of(a + 1) = L1Of(a)
    BY <1>2, <1>4, TableOf
  <2>2. q \in FaultType /\ q.cur = a + 1 /\ q.locked = pf[t].locked
    BY <1>2, <2>1 DEF FaultType
  <2>3. pf' = [pf EXCEPT ![t] = q] /\ pc' = [pc EXCEPT ![t] = "entry"] /\ UNCHANGED l1lock
    BY <1>4 DEF PrefetchNext
  <2> HIDE DEF q, a
  <2>4. Types'
    BY <1>1, <1>2, <2>2, <2>3 DEF IInv, Types, notHandler, notLock, PC
  <2>5. Buffers'
    BY <1>1, BuffersKept DEF IInv
  <2>6. pc'[t] = "entry" /\ pf'[t] = q
    BY <1>2, <2>3
  <2>7. L1Of(pf[t].cur)' = L1Of(a)
    BY <2>1, <2>2, <2>6 DEF L1Of
  <2>8. Knows(t)'
    BY <1>3, <2>2, <2>3, <2>6, <2>7 DEF Knows
  <2>9. \A u \in Thread \ {t} : pc'[u] = pc[u] /\ pf'[u] = pf[u]
    BY <1>2, <2>3
  <2> QED BY <1>1, <2>3, <2>4, <2>5, <2>8, <2>9, HandlerStep DEF notHandler, notLock
<1>5. CASE a % L1Len = 0
  <2> DEFINE q == [pf[t] EXCEPT !.need = TRUE, !.locked = FALSE]
  <2>1. q \in FaultType /\ q.cur = a /\ ~q.locked
    BY <1>2 DEF FaultType
  <2>2. /\ pf' = [pf EXCEPT ![t] = q] /\ pc' = [pc EXCEPT ![t] = "cross"]
        /\ l1lock' = [l1lock EXCEPT ![L1Of(a)] = None]
    BY <1>2, <1>5 DEF PrefetchNext, FaultType
  <2> HIDE DEF q, a
  <2>3. Types'
    BY <1>1, <1>2, <2>1, <2>2 DEF IInv, Types, notHandler, notLock, PC
  <2>4. Buffers'
    BY <1>1, BuffersKept DEF IInv
  <2>5. pc'[t] = "cross" /\ pf'[t] = q
    BY <1>2, <2>2
  <2>6. Knows(t)'
    BY <2>1, <2>5 DEF Knows
  <2>7. \A u \in Thread \ {t} : pc'[u] = pc[u] /\ pf'[u] = pf[u]
    BY <1>2, <2>2
  <2>8. \A n \in L1 : l1lock[n] \notin {None, t} => l1lock'[n] = l1lock[n]
    BY <1>2, <1>3, <2>2
  <2> QED BY <1>1, <2>3, <2>4, <2>6, <2>7, <2>8, HandlerStep DEF notHandler, notLock
<1> QED BY <1>4, <1>5
LEMMA PrefetchCrossStep == ASSUME IInv, NEW t \in Thread, PrefetchCross(t) PROVE IInv'
<1> DEFINE a == pf[t].cur + 1
<1>1. pc[t] = "cross" /\ UNCHANGED <<entry, pte, mpt, notHandler>>
  BY DEF PrefetchCross
<1>2. /\ pc \in [Thread -> PC] /\ pf \in [Thread -> FaultType] /\ pf[t] \in FaultType
      /\ l1lock \in [L1 -> Thread \cup {None}] /\ Knows(t)
  BY FaultTypes DEF IInv, Types
<1>3. Buffers'
  BY <1>1, BuffersKept DEF IInv
<1>4. CASE a \in Alias /\ L1Live(L1Of(a)) /\ TableIsFree(L1Of(a))
  <2> DEFINE q == [pf[t] EXCEPT !.cur = a, !.locked = TRUE]
  <2>1. q \in FaultType /\ q.cur = a /\ q.locked
    BY <1>2, <1>4 DEF FaultType
  <2>2. L1Of(a) \in L1 /\ l1lock[L1Of(a)] = None
    BY <1>4, TableOf DEF TableIsFree
  <2>3. /\ pf' = [pf EXCEPT ![t] = q] /\ pc' = [pc EXCEPT ![t] = "entry"]
        /\ l1lock' = [l1lock EXCEPT ![L1Of(a)] = t]
    BY <1>2, <1>4 DEF PrefetchCross, FaultType
  <2> HIDE DEF q, a
  <2>4. Types'
    BY <1>1, <1>2, <2>1, <2>3 DEF IInv, Types, notHandler, notLock, PC
  <2>5. pc'[t] = "entry" /\ pf'[t] = q
    BY <1>2, <2>3
  <2>6. L1Of(pf[t].cur)' = L1Of(a)
    BY <2>1, <2>5 DEF L1Of
  <2>7. l1lock'[L1Of(a)] = t
    BY <1>2, <2>2, <2>3
  <2>8. Knows(t)'
    BY <2>1, <2>5, <2>6, <2>7 DEF Knows
  <2>9. \A u \in Thread \ {t} : pc'[u] = pc[u] /\ pf'[u] = pf[u]
    BY <1>2, <2>3
  <2>10. \A n \in L1 : l1lock[n] \notin {None, t} => l1lock'[n] = l1lock[n]
    BY <1>2, <2>2, <2>3
  <2> QED BY <1>1, <1>3, <2>4, <2>8, <2>9, <2>10, HandlerStep DEF notHandler, notLock
<1>5. CASE ~ (a \in Alias /\ L1Live(L1Of(a)) /\ TableIsFree(L1Of(a)))
  <2> DEFINE q == [pf[t] EXCEPT !.win = 0]
  <2>1. q \in FaultType /\ q.win = 0 /\ q.cur = pf[t].cur /\ q.locked = pf[t].locked
    BY <1>2 DEF FaultType
  <2>2. pf' = [pf EXCEPT ![t] = q] /\ pc' = [pc EXCEPT ![t] = "map"] /\ UNCHANGED l1lock
    BY <1>5 DEF PrefetchCross
  <2> HIDE DEF q, a
  <2>3. Types'
    BY <1>1, <1>2, <2>1, <2>2 DEF IInv, Types, notHandler, notLock, PC
  <2>4. pc'[t] = "map" /\ pf'[t] = q
    BY <1>2, <2>2
  <2>5. Knows(t)'
    BY <1>2, <2>1, <2>2, <2>4 DEF Knows, L1Of
  <2>6. \A u \in Thread \ {t} : pc'[u] = pc[u] /\ pf'[u] = pf[u]
    BY <1>2, <2>2
  <2> QED BY <1>1, <1>3, <2>2, <2>3, <2>5, <2>6, HandlerStep DEF notHandler, notLock
<1> QED BY <1>4, <1>5

LEMMA PrefetchEntryStep == ASSUME IInv, NEW t \in Thread, PrefetchEntry(t) PROVE IInv'
<1> DEFINE e == entry[pf[t].cur]
<1>1. pc[t] = "entry" /\ UNCHANGED <<entry, pte, l1lock, mpt, notHandler>>
  BY DEF PrefetchEntry
<1>2. /\ pc \in [Thread -> PC] /\ pf \in [Thread -> FaultType] /\ pf[t] \in FaultType
      /\ e \in Entry \cup {None} /\ Knows(t) /\ pf[t].locked
  BY <1>1, FaultTypes DEF IInv, Types, Knows
<1> DEFINE ended == [pf[t] EXCEPT !.win = 0]
           asked == [pf[t] EXCEPT !.slot = e.tid, !.ver = e.ver, !.first = FALSE]
<1>3. /\ ended \in FaultType /\ ended.win = 0
      /\ ended.cur = pf[t].cur /\ ended.locked = pf[t].locked
  BY <1>2 DEF FaultType
<1>4. e # None /\ e.tid # None =>
        /\ asked \in FaultType /\ asked.slot \in Slot
        /\ asked.cur = pf[t].cur /\ asked.locked = pf[t].locked
  <2> SUFFICES ASSUME e # None, e.tid # None
               PROVE  /\ asked \in FaultType /\ asked.slot \in Slot
                      /\ asked.cur = pf[t].cur /\ asked.locked = pf[t].locked
    OBVIOUS
  <2>1. e.tid \in Slot /\ e.ver \in 0 .. NVersions - 1
    BY <1>2 DEF Entry
  <2>2. e.ver \in 0 .. NVersions
    BY <2>1, FreeBufferAssumption
  <2> HIDE DEF e
  <2> QED BY <1>2, <2>1, <2>2 DEF FaultType
<1>5. \/ pf' = [pf EXCEPT ![t] = ended] /\ pc' = [pc EXCEPT ![t] = "map"]
      \/ e # None /\ e.tid # None /\ pf' = [pf EXCEPT ![t] = asked] /\ pc' = [pc EXCEPT ![t] = "check"]
      \/ e # None /\ pf' = pf /\ pc' = [pc EXCEPT ![t] = "page"]
  BY <1>2 DEF PrefetchEntry, FaultType
<1>6. Buffers'
  BY <1>1, BuffersKept DEF IInv
<1>7. e = entry[pf[t].cur]
  OBVIOUS
<1> HIDE DEF ended, asked, e
<1>8. /\ pc' \in [Thread -> PC] /\ pf' \in [Thread -> FaultType]
      /\ \A u \in Thread \ {t} : pc'[u] = pc[u] /\ pf'[u] = pf[u]
  BY <1>2, <1>3, <1>4, <1>5 DEF PC
<1>9. Types'
  BY <1>1, <1>8 DEF IInv, Types, notHandler, notLock
<1>10. Knows(t)'
  <2>1. CASE pf' = [pf EXCEPT ![t] = ended] /\ pc' = [pc EXCEPT ![t] = "map"]
    <3>1. pf'[t] = ended /\ pc'[t] = "map"
      BY <1>2, <2>1
    <3> QED BY <1>1, <1>2, <1>3, <3>1 DEF Knows, L1Of
  <2>2. CASE e # None /\ e.tid # None /\ pf' = [pf EXCEPT ![t] = asked] /\ pc' = [pc EXCEPT ![t] = "check"]
    <3>1. pf'[t] = asked /\ pc'[t] = "check"
      BY <1>2, <2>2
    <3> QED BY <1>1, <1>2, <1>4, <1>7, <2>2, <3>1 DEF Knows, L1Of
  <2>3. CASE e # None /\ pf' = pf /\ pc' = [pc EXCEPT ![t] = "page"]
    <3>1. pc'[t] = "page"
      BY <1>2, <2>3
    <3> QED BY <1>1, <1>2, <1>7, <2>3, <3>1 DEF Knows, L1Of
  <2> QED BY <1>5, <2>1, <2>2, <2>3
<1> QED BY <1>1, <1>6, <1>8, <1>9, <1>10, HandlerStep DEF notHandler, notLock

LEMMA PrefetchPageStep == ASSUME IInv, NEW t \in Thread, PrefetchPage(t) PROVE IInv'
<1>1. pc[t] = "page" /\ UNCHANGED <<pte, l1lock, mpt, notHandler>>
  BY DEF PrefetchPage
<1>2. /\ pc \in [Thread -> PC] /\ pf \in [Thread -> FaultType] /\ pf[t] \in FaultType
      /\ Knows(t) /\ pf[t].locked /\ entry[pf[t].cur] # None
      /\ entry \in [Alias -> Entry \cup {None}]
  BY <1>1, FaultTypes DEF IInv, Types, Knows
<1> DEFINE ended == [pf[t] EXCEPT !.len = @ + 1, !.win = 0]
           grown == [pf[t] EXCEPT !.len = @ + 1, !.i = @ + 1]
<1>3. /\ ended \in FaultType /\ ended.win = 0 /\ grown \in FaultType
      /\ ended.cur = pf[t].cur /\ ended.locked = pf[t].locked
      /\ grown.cur = pf[t].cur /\ grown.locked = pf[t].locked
  <2>1. pf[t].len + 1 \in Nat /\ pf[t].i + 1 \in Nat
    BY <1>2 DEF FaultType
  <2>2. ended \in FaultType
    BY <1>2, <2>1 DEF FaultType
  <2>3. grown \in FaultType
    BY <1>2, <2>1 DEF FaultType
  <2> QED BY <1>2, <2>2, <2>3 DEF FaultType
<1> DEFINE marked == [entry EXCEPT ![pf[t].cur].mapped = TRUE]
<1>4. \/ entry' = entry /\ pf' = pf /\ pc' = [pc EXCEPT ![t] = "map"]
      \/ entry' = marked /\ pf' = [pf EXCEPT ![t] = ended] /\ pc' = [pc EXCEPT ![t] = "map"]
      \/ entry' = marked /\ pf' = [pf EXCEPT ![t] = grown] /\ pc' = [pc EXCEPT ![t] = "next"]
  BY <1>2 DEF PrefetchPage, FaultType
<1>5. entry' = entry \/ entry' = marked
  BY <1>4
<1>6. /\ entry' \in [Alias -> Entry \cup {None}]
      /\ \A a \in Alias : entry[a] # None => entry'[a] # None
  BY <1>2, <1>5, MarkKeeps
<1>7. Buffers'
  BY <1>1, BuffersKept DEF IInv
<1> HIDE DEF ended, grown, marked
<1>8. /\ pc' \in [Thread -> PC] /\ pf' \in [Thread -> FaultType]
      /\ \A u \in Thread \ {t} : pc'[u] = pc[u] /\ pf'[u] = pf[u]
  BY <1>2, <1>3, <1>4 DEF PC
<1>9. Types'
  BY <1>1, <1>6, <1>8 DEF IInv, Types, notHandler, notLock
<1>10. entry'[pf[t].cur] # None
  BY <1>2, <1>6, FaultTypes
<1>11. Knows(t)'
  <2>1. \/ pf'[t] = pf[t] /\ pc'[t] = "map"
        \/ pf'[t] = ended /\ pc'[t] = "map"
        \/ pf'[t] = grown /\ pc'[t] = "next"
    BY <1>2, <1>4
  <2>2. CASE pf'[t] = pf[t] /\ pc'[t] = "map"
    BY <1>1, <1>2, <1>10, <2>2 DEF Knows, L1Of
  <2>3. CASE pf'[t] = ended /\ pc'[t] = "map"
    BY <1>1, <1>2, <1>3, <2>3 DEF Knows, L1Of
  <2>4. CASE pf'[t] = grown /\ pc'[t] = "next"
    BY <1>1, <1>2, <1>3, <2>4 DEF Knows, L1Of
  <2> QED BY <2>1, <2>2, <2>3, <2>4
<1> QED BY <1>1, <1>6, <1>7, <1>8, <1>9, <1>11, HandlerStep DEF notHandler, notLock

LEMMA MapRunStep == ASSUME IInv, NEW t \in Thread, MapRun(t) PROVE IInv'
<1> DEFINE p == pf[t]
<1>1. /\ pc[t] = "map" /\ UNCHANGED <<entry, mpt, notHandler>>
      /\ pte' = [x \in Alias |-> IF x \in RunAliases(p) THEN p.page ELSE pte[x]]
  BY DEF MapRun
<1>2. /\ pc \in [Thread -> PC] /\ pf \in [Thread -> FaultType] /\ p \in FaultType
      /\ Knows(t) /\ l1lock \in [L1 -> Thread \cup {None}] /\ L1Of(p.cur) \in L1
      /\ pte \in [Alias -> Page \cup {None}] /\ entry[p.cur] \in Entry \cup {None}
      /\ NoFault \in FaultType
  BY FaultTypes DEF IInv, Types
<1>3. p.page \in Page \cup {None} /\ p.win \in Nat
  BY <1>2 DEF FaultType
<1>4. pte' \in [Alias -> Page \cup {None}]
  <2> HIDE DEF p
  <2> QED BY <1>1, <1>2, <1>3
<1>5. Buffers'
  BY <1>1, BuffersKept DEF IInv
<1>6. CASE p.win > 1 /\ p.i # PrefetchMax - 1
  <2>1. p.locked /\ entry[p.cur] # None
    BY <1>1, <1>2, <1>6 DEF Knows
  <2>2. PageOf[entry[p.cur].canon] \in Page
    <3>1. entry[p.cur].canon \in Canon
      BY <1>2, <2>1 DEF Entry
    <3> QED BY <3>1 DEF Page
  <2> DEFINE q == [p EXCEPT !.run = p.run + p.len, !.len = 1, !.win = @ - 1,
                            !.page = PageOf[entry[p.cur].canon], !.i = @ + 1]
  <2>3. p.win - 1 \in Nat /\ p.run + p.len \in Nat /\ p.i + 1 \in Nat
    BY <1>2, <1>3, <1>6 DEF FaultType
  <2>4. q \in FaultType /\ q.cur = p.cur /\ q.locked = p.locked
    <3> HIDE DEF p
    <3>1. q \in FaultType
      BY <1>2, <2>2, <2>3 DEF FaultType
    <3> QED BY <1>2, <3>1 DEF FaultType
  <2>5. pf' = [pf EXCEPT ![t] = q] /\ pc' = [pc EXCEPT ![t] = "next"] /\ UNCHANGED l1lock
    BY <1>2, <1>6 DEF MapRun, FaultType
  <2> HIDE DEF q
  <2>6. Types'
    BY <1>1, <1>2, <1>4, <2>4, <2>5 DEF IInv, Types, notHandler, notLock, PC
  <2>7. pc'[t] = "next" /\ pf'[t] = q
    BY <1>2, <2>5
  <2>8. Knows(t)'
    BY <1>2, <2>1, <2>4, <2>5, <2>7 DEF Knows, L1Of
  <2>9. \A u \in Thread \ {t} : pc'[u] = pc[u] /\ pf'[u] = pf[u]
    BY <1>2, <2>5
  <2> QED BY <1>1, <1>5, <2>5, <2>6, <2>8, <2>9, HandlerStep DEF notHandler, notLock
<1>7. CASE ~ (p.win > 1 /\ p.i # PrefetchMax - 1)
  <2>1. /\ pf' = [pf EXCEPT ![t] = NoFault] /\ pc' = [pc EXCEPT ![t] = "idle"]
        /\ l1lock' = UnlockTable(p)
    BY <1>7 DEF MapRun
  <2>2. /\ l1lock' \in [L1 -> Thread \cup {None}]
        /\ \A n \in L1 : l1lock[n] \notin {None, t} => l1lock'[n] = l1lock[n]
    BY <1>2, <2>1 DEF UnlockTable, Knows
  <2>3. Types'
    BY <1>1, <1>2, <1>4, <2>1, <2>2 DEF IInv, Types, notHandler, notLock, PC
  <2>4. pc'[t] = "idle" /\ pf'[t] = NoFault /\ ~NoFault.locked
    BY <1>2, <2>1 DEF NoFault
  <2>5. Knows(t)'
    BY <2>4 DEF Knows
  <2>6. \A u \in Thread \ {t} : pc'[u] = pc[u] /\ pf'[u] = pf[u]
    BY <1>2, <2>1
  <2> QED BY <1>1, <1>5, <2>2, <2>3, <2>5, <2>6, HandlerStep DEF notHandler, notLock
<1> QED BY <1>6, <1>7
LEMMA PageFaultStep ==
  ASSUME IInv, NEW t \in Thread, NEW a \in Alias, PageFault(t, a) PROVE IInv'
<1> DEFINE e == entry[a]
<1>1. /\ pc[t] = "idle" /\ a \in held /\ TableIsFree(L1Of(a))
      /\ l1lock' = [l1lock EXCEPT ![L1Of(a)] = t]
      /\ pc' = [pc EXCEPT ![t] = "check"]
      /\ UNCHANGED <<entry, pte, mpt, notHandler>>
  BY DEF PageFault, notHandler, notLock
<1>2. e \in Entry /\ e # None
  BY <1>1 DEF IInv, Given, HasEntry, Out, Types
<1>3. PICK w \in Windows[ClassOf[e.canon]], s \in (IF e.tid # None THEN {e.tid} ELSE Slot) :
        pf' = [pf EXCEPT ![t] =
          [fault |-> a, run |-> a, len |-> 1, page |-> PageOf[e.canon], cur |-> a,
           win |-> w, rtid |-> e.tid, need |-> FALSE, slot |-> s,
           ver |-> IF e.tid # None THEN e.ver ELSE NVersions,
           first |-> TRUE, must |-> e.tid # None, i |-> 0, locked |-> TRUE]]
  BY DEF PageFault
<1>4. e.canon \in Canon /\ e.tid \in Slot \cup {None} /\ e.ver \in 0 .. NVersions - 1
  BY <1>2 DEF Entry
<1>5. w \in Nat /\ s \in Slot /\ PageOf[e.canon] \in Page
  BY <1>3, <1>4, BatchedFreeAssumption DEF Page
<1>6. /\ (IF e.tid # None THEN e.ver ELSE NVersions) \in 0 .. NVersions
      /\ a \in Nat
  BY <1>4, FreeBufferAssumption, TableOf
<1> DEFINE q == [fault |-> a, run |-> a, len |-> 1, page |-> PageOf[e.canon], cur |-> a,
                 win |-> w, rtid |-> e.tid, need |-> FALSE, slot |-> s,
                 ver |-> IF e.tid # None THEN e.ver ELSE NVersions,
                 first |-> TRUE, must |-> e.tid # None, i |-> 0, locked |-> TRUE]
<1>7. pf' = [pf EXCEPT ![t] = q] /\ e = entry[a]
  BY <1>3
<1> HIDE DEF e
<1>8. q \in FaultType
  BY <1>4, <1>5, <1>6 DEF FaultType
<1>9. q.cur = a /\ q.slot = s /\ q.locked
  OBVIOUS
<1> HIDE DEF q
<1>10. /\ pc \in [Thread -> PC] /\ pf \in [Thread -> FaultType]
       /\ l1lock \in [L1 -> Thread \cup {None}] /\ L1Of(a) \in L1 /\ l1lock[L1Of(a)] = None
  BY <1>1, TableOf DEF IInv, Types, TableIsFree
<1>11. Types'
  BY <1>1, <1>7, <1>8, <1>10 DEF IInv, Types, notHandler, notLock, PC
<1>12. Buffers'
  BY <1>1, BuffersKept DEF IInv
<1>13. pf'[t] = q /\ pc'[t] = "check" /\ l1lock'[L1Of(a)] = t
  BY <1>1, <1>7, <1>10
<1>14. L1Of(pf[t].cur)' = L1Of(a)
  BY <1>9, <1>13 DEF L1Of
<1>15. Knows(t)'
  BY <1>1, <1>2, <1>5, <1>7, <1>9, <1>13, <1>14 DEF Knows
<1>16. /\ \A u \in Thread \ {t} : pc'[u] = pc[u] /\ pf'[u] = pf[u]
       /\ \A n \in L1 : l1lock[n] \notin {None, t} => l1lock'[n] = l1lock[n]
  BY <1>1, <1>7, <1>10
<1> QED BY <1>1, <1>11, <1>12, <1>15, <1>16, HandlerStep DEF notHandler, notLock

-----------------------------------------------------------------------------
LEMMA FreeLockStep == ASSUME IInv, NEW t \in Thread, FreeLock(t) PROVE IInv'
<1>1. /\ pc[t] = "lock" /\ bufLock[SlotOf[t]] = None
      /\ bufLock' = [bufLock EXCEPT ![SlotOf[t]] = t] /\ pc' = [pc EXCEPT ![t] = "body"]
      /\ UNCHANGED <<entry, pte, l1lock, mpt, prevVersion, resv, region, nextL1,
                     hash, heap, victim, pf, held, home>>
  BY DEF FreeLock
<1>2. /\ pc \in [Thread -> PC] /\ bufLock \in [Slot -> Thread \cup {None}]
      /\ SlotOf[t] \in Slot /\ Knows(t)
  BY FaultTypes, BatchedFreeAssumption DEF IInv, Types
<1>3. Types'
  BY <1>1, <1>2 DEF IInv, Types, PC
<1>4. Buffers' /\ Given'
  BY <1>1, BuffersKept, GivenKept DEF IInv
<1>5. Knows(t)'
  BY <1>1, <1>2 DEF Knows, L1Of
<1>6. ASSUME NEW u \in Thread, u # t PROVE Knows(u)'
  BY <1>1, <1>2, <1>6, OthersKnow, NoneIsNoThread DEF IInv, Threads
<1>7. Threads'
  BY <1>5, <1>6 DEF Threads
<1> QED BY <1>3, <1>4, <1>7 DEF IInv

LEMMA FreeUnlockStep == ASSUME IInv, NEW t \in Thread, FreeUnlock(t) PROVE IInv'
<1>1. /\ pc[t] = "unlock" /\ bufLock' = [bufLock EXCEPT ![SlotOf[t]] = None]
      /\ victim' = [victim EXCEPT ![t] = [alias |-> None, canon |-> None]]
      /\ pc' = [pc EXCEPT ![t] = "idle"]
      /\ UNCHANGED <<entry, pte, l1lock, mpt, prevVersion, resv, region, nextL1,
                     hash, heap, pf, held, home>>
  BY DEF FreeUnlock
<1>2. /\ pc \in [Thread -> PC] /\ bufLock \in [Slot -> Thread \cup {None}]
      /\ SlotOf[t] \in Slot /\ Knows(t) /\ bufLock[SlotOf[t]] = t
  BY <1>1, FaultTypes, BatchedFreeAssumption DEF IInv, Types, Knows
<1>3. Types'
  BY <1>1, <1>2 DEF IInv, Types, PC
<1>4. Buffers' /\ Given'
  BY <1>1, BuffersKept, GivenKept DEF IInv
<1>5. Knows(t)'
  BY <1>1, <1>2 DEF Knows, L1Of
<1>6. ASSUME NEW u \in Thread, u # t PROVE Knows(u)'
  <2>1. victim'[u] = victim[u] /\ pc'[u] = pc[u]
    BY <1>1, <1>2, <1>6 DEF IInv, Types
  <2> QED BY <1>1, <1>2, <1>6, <2>1, OthersKnow DEF IInv, Threads
<1>7. Threads'
  BY <1>5, <1>6 DEF Threads
<1> QED BY <1>3, <1>4, <1>7 DEF IInv

LEMMA FreeClearStep ==
  ASSUME IInv, NEW t \in Thread, NEW a \in Alias, FreeClear(t, a) PROVE IInv'
<1> DEFINE v == [alias |-> a, canon |-> entry[a].canon]
<1>1. /\ pc[t] = "idle" /\ a \in held /\ l1lock[L1Of(a)] = None
      /\ held' = held \ {a} /\ entry' = [entry EXCEPT ![a] = None]
      /\ victim' = [victim EXCEPT ![t] = v] /\ pc' = [pc EXCEPT ![t] = "lock"]
      /\ UNCHANGED <<pte, l1lock, mpt, bufLock, prevVersion, resv, region, nextL1,
                     hash, heap, pf, home>>
  BY DEF FreeClear, TableIsFree
<1>2. /\ pc \in [Thread -> PC] /\ entry \in [Alias -> Entry \cup {None}] /\ Knows(t)
      /\ victim \in [Thread -> [alias : Alias \cup {None}, canon : Canon \cup {None}]]
  BY FaultTypes DEF IInv, Types
<1>3. entry[a] \in Entry
  BY <1>1, <1>2 DEF IInv, Given, HasEntry, Out
<1>4. v.alias = a /\ v.canon \in Canon /\ v \in [alias : Alias \cup {None}, canon : Canon \cup {None}]
  BY <1>3 DEF Entry
<1> HIDE DEF v
<1>5. Types'
  BY <1>1, <1>2, <1>4 DEF IInv, Types, PC
<1>6. Buffers'
  BY <1>1, BuffersKept DEF IInv
<1>7. Given'
  <2>1. \A b \in Alias \ {a} : entry'[b] = entry[b]
    BY <1>1, <1>2
  <2>2. \A u \in Thread, k \in Class : \A i \in DOMAIN Ready(u, k) : Ready(u, k)[i] # a
    BY <1>1 DEF IInv, Given, Once
  <2>3. \A b \in Alias : Out(b)' => Out(b) /\ b # a
    BY <1>1, <2>2 DEF Out, Ready
  <2>4. HasEntry'
    <3>1. Top' = Top /\ \A u \in Thread : Rest(u)' = Rest(u)
      BY <1>1 DEF Top, Rest
    <3>2. HasEntry
      BY DEF IInv, Given
    <3>3. ASSUME NEW b \in Alias, Out(b)'
          PROVE  entry'[b] # None /\ b <= Top' /\ \A u \in Thread : b \notin Rest(u)'
      <4>1. Out(b) /\ b # a
        BY <2>3, <3>3
      <4>2. entry'[b] = entry[b] /\ entry[b] # None /\ b <= Top /\ \A u \in Thread : b \notin Rest(u)
        BY <2>1, <3>2, <4>1 DEF HasEntry
      <4> QED BY <3>1, <4>2
    <3> QED BY <3>3 DEF HasEntry
  <2>5. Once'
    BY <1>1 DEF IInv, Given, Once, Ready
  <2>6. Regions'
    BY <1>1 DEF IInv, Given, Regions, Rest, Top
  <2> QED BY <2>4, <2>5, <2>6 DEF Given
<1>8. Knows(t)'
  <2>1. pc'[t] = "lock" /\ victim'[t] = v
    BY <1>1, <1>2
  <2>2. UNCHANGED <<pf, l1lock>> /\ (pf[t].locked => l1lock[L1Of(pf[t].cur)] = t)
    BY <1>1, <1>2 DEF Knows
  <2> QED BY <1>4, <2>1, <2>2 DEF Knows, L1Of
<1>9. ASSUME NEW u \in Thread, u # t PROVE Knows(u)'
  <2>1. \A b \in Alias : l1lock[L1Of(b)] = u /\ entry[b] # None => entry'[b] # None
    BY <1>1, <1>2, NoneIsNoThread
  <2>2. victim'[u] = victim[u] /\ pc'[u] = pc[u]
    BY <1>1, <1>2, <1>9
  <2> QED BY <1>1, <2>1, <2>2, OthersKnow DEF IInv, Threads
<1>10. Threads'
  BY <1>8, <1>9 DEF Threads
<1> QED BY <1>5, <1>6, <1>7, <1>10 DEF IInv
-----------------------------------------------------------------------------
LEMMA MallocReservedStep ==
  ASSUME IInv, NEW t \in Thread, NEW k \in Class, MallocReserved(t, k) PROVE IInv'
<1> DEFINE s == Ready(t, k)
<1>1. /\ s # <<>> /\ held' = held \cup {Head(s)}
      /\ resv' = [resv EXCEPT ![t][k].ready = Tail(s)]
      /\ UNCHANGED <<entry, pte, l1lock, mpt, bufLock, prevVersion, region, nextL1,
                     hash, heap, pc, victim, pf, home>>
  BY DEF MallocReserved, Ready
<1>2. /\ resv \in [Thread -> [Class -> [ready : Seq(Alias), reuse : Seq(Entry)]]]
      /\ s \in Seq(Alias)
  BY DEF IInv, Types, Ready
<1>3. /\ 1 \in DOMAIN s /\ Head(s) = s[1] /\ s[1] \in Alias /\ Tail(s) \in Seq(Alias)
      /\ \A i \in DOMAIN Tail(s) : i + 1 \in DOMAIN s /\ i + 1 # 1 /\ Tail(s)[i] = s[i + 1]
      /\ \A i, j \in DOMAIN Tail(s) : i + 1 = j + 1 => i = j
  BY <1>1, <1>2
<1>4. /\ resv' \in [Thread -> [Class -> [ready : Seq(Alias), reuse : Seq(Entry)]]]
      /\ Ready(t, k)' = Tail(s)
      /\ \A u \in Thread, l \in Class : ~ (u = t /\ l = k) => Ready(u, l)' = Ready(u, l)
  <2> DEFINE tail == Tail(s)
             R == [ready : Seq(Alias), reuse : Seq(Entry)]
  <2>0. resv[t][k] \in R /\ tail \in Seq(Alias)
    BY <1>2, <1>3
  <2> HIDE DEF s, tail
  <2>1. [resv[t][k] EXCEPT !.ready = tail] \in R
    BY <2>0
  <2> USE DEF tail
  <2> QED BY <1>1, <1>2, <2>1 DEF Ready
<1>5. /\ s[1] \notin held
      /\ \A u \in Thread, l \in Class : \A j \in DOMAIN Ready(u, l) :
           Ready(u, l)[j] = s[1] => u = t /\ l = k /\ j = 1
  BY <1>3 DEF IInv, Given, Once
<1>6. Once
  BY DEF IInv, Given
<1> DEFINE Place(u, l, i) == IF u = t /\ l = k THEN i + 1 ELSE i
<1>7. \A u \in Thread, l \in Class : \A i \in DOMAIN Ready(u, l)' :
        /\ Place(u, l, i) \in DOMAIN Ready(u, l)
        /\ Ready(u, l)'[i] = Ready(u, l)[Place(u, l, i)]
        /\ ~ (u = t /\ l = k /\ Place(u, l, i) = 1)
  BY <1>3, <1>4
<1>8. \A u \in Thread, l \in Class : \A i, j \in DOMAIN Ready(u, l)' :
        Place(u, l, i) = Place(u, l, j) => i = j
  BY <1>3, <1>4
<1> HIDE DEF Place, s
<1>9. Types'
  BY <1>1, <1>3, <1>4 DEF IInv, Types
<1>10. Buffers'
  BY <1>1, BuffersKept DEF IInv
<1>11. \A a \in Alias : Out(a)' => Out(a)
  <2>1. Out(Head(s))
    BY <1>3 DEF Out, s
  <2>2. ASSUME NEW a \in Alias, NEW u \in Thread, NEW l \in Class, NEW i \in DOMAIN Ready(u, l)',
               Ready(u, l)'[i] = a
        PROVE  Out(a)
    BY <1>7, <2>2 DEF Out
  <2> QED BY <1>1, <2>1, <2>2 DEF Out
<1>12. HasEntry'
  <2>1. Top' = Top /\ \A u \in Thread : Rest(u)' = Rest(u)
    BY <1>1 DEF Top, Rest
  <2>2. ASSUME NEW a \in Alias, Out(a)'
        PROVE  entry'[a] # None /\ a <= Top' /\ \A u \in Thread : a \notin Rest(u)'
    <3>1. entry[a] # None /\ a <= Top /\ \A u \in Thread : a \notin Rest(u)
      BY <1>11, <2>2 DEF IInv, Given, HasEntry
    <3> QED BY <1>1, <2>1, <3>1
  <2> QED BY <2>2 DEF HasEntry
<1>13. Once'
  <2>1. ASSUME NEW u \in Thread, NEW l \in Class, NEW i \in DOMAIN Ready(u, l)'
        PROVE  Ready(u, l)'[i] \notin held'
    <3>1. Ready(u, l)[Place(u, l, i)] \notin held
      BY <1>6, <1>7 DEF Once
    <3>2. Ready(u, l)[Place(u, l, i)] # s[1]
      BY <1>5, <1>7
    <3> QED BY <1>1, <1>3, <1>7, <3>1, <3>2
  <2>2. ASSUME NEW u \in Thread, NEW v \in Thread, NEW l \in Class, NEW m \in Class,
               NEW i \in DOMAIN Ready(u, l)', NEW j \in DOMAIN Ready(v, m)',
               Ready(u, l)'[i] = Ready(v, m)'[j]
        PROVE  u = v /\ l = m /\ i = j
    <3>1. u = v /\ l = m /\ Place(u, l, i) = Place(v, m, j)
      BY <1>6, <1>7, <2>2 DEF Once
    <3> QED BY <1>8, <3>1
  <2> QED BY <2>1, <2>2 DEF Once
<1>14. Regions'
  BY <1>1 DEF IInv, Given, Regions, Rest, Top
<1>15. Threads'
  BY <1>1 DEF IInv, Threads, Knows, L1Of
<1> QED BY <1>9, <1>10, <1>12, <1>13, <1>14, <1>15 DEF IInv, Given
(* The aliases a thread takes lie in its tables, nobody has them and the   *)
(* regions stay disjoint.                                                  *)
LEMMA AllocAliasFresh ==
  ASSUME IInv, NEW t \in Thread, NEW n \in 1 .. L1Len, NEW start \in Alias,
         AllocAlias(t, n, start)
  PROVE  /\ \A a \in start .. start + n - 1 :
              a \in Alias /\ a <= Top' /\ ~Out(a) /\ \A u \in Thread : a \notin Rest(u)'
         /\ Top <= Top' /\ Top \in Nat /\ Top' \in Nat
         /\ \A a \in Alias : Out(a) => \A u \in Thread : a \notin Rest(u)'
         /\ \A a \in Alias : a \in start .. start + n - 1 \/ Unused(a)' => Unused(a)
         /\ Regions'
         /\ region' \in [Thread -> [next : Nat, end : Nat]] /\ nextL1' \in 0 .. NL1
<1> DEFINE size == NL1 * L1Len
           old == region[t]
<1>1. /\ Top \in Nat /\ Top <= size /\ size \in Nat
      /\ nextL1 < NL1 => Top + L1Len <= size
      /\ (nextL1 + 1) * L1Len = Top + L1Len
  BY TopIs DEF IInv
<1>2. /\ Alias = 1 .. size /\ L1Len \in Nat \ {0} /\ NL1 \in Nat
      /\ n \in Nat /\ n >= 1 /\ n <= L1Len /\ start \in Nat
  BY BatchedFreeAssumption, TableOf DEF Alias
<1>3. /\ region \in [Thread -> [next : Nat, end : Nat]] /\ old.next \in Nat /\ old.end \in Nat
      /\ nextL1 \in Nat /\ nextL1 <= NL1
  BY <1>2 DEF IInv, Types
<1>4. Regions /\ HasEntry
  BY DEF IInv, Given
<1> HIDE DEF size
<1>5. CASE old.next + n <= old.end /\ start = old.next
           /\ region' = [region EXCEPT ![t].next = @ + n] /\ UNCHANGED nextL1
  <2> DEFINE new == [old EXCEPT !.next = @ + n]
  <2>1. /\ new \in [next : Nat, end : Nat] /\ new.next = old.next + n /\ new.end = old.end
        /\ region' = [region EXCEPT ![t] = new]
    BY <1>2, <1>3, <1>5
  <2> HIDE DEF new
  <2>2. region'[t] = new /\ \A u \in Thread \ {t} : region'[u] = region[u]
    BY <1>3, <2>1
  <2>3. Rest(t)' = start + n .. old.end - 1
    BY <1>5, <2>1, <2>2 DEF Rest
  <2>4. \A u \in Thread \ {t} : Rest(u)' = Rest(u)
    BY <2>2 DEF Rest
  <2>5. Rest(t) = start .. old.end - 1
    BY <1>5 DEF Rest
  <2>6. \A a \in start .. start + n - 1 : a \in Rest(t) /\ a \notin Rest(t)'
    BY <1>2, <1>3, <1>5, <2>3, <2>5
  <2>7. \A a \in Rest(t)' : a \in Rest(t)
    BY <1>2, <1>3, <1>5, <2>3, <2>5
  <2>8. Top' = Top
    BY <1>5 DEF Top
  <2>9. \A u \in Thread : \A a \in Rest(u)' : a \in Rest(u)
    BY <2>4, <2>7
  <2>10. Regions'
    <3>1. \A u \in Thread : \A a \in Rest(u)' : a \in Alias /\ a <= Top'
      BY <1>4, <2>8, <2>9 DEF Regions
    <3>2. ASSUME NEW u \in Thread, NEW v \in Thread, NEW a \in Rest(u)', a \in Rest(v)' PROVE u = v
      BY <1>4, <2>9, <3>2 DEF Regions
    <3> QED BY <3>1, <3>2 DEF Regions
  <2>11. ASSUME NEW a \in start .. start + n - 1
         PROVE  a \in Alias /\ a <= Top' /\ ~Out(a) /\ \A u \in Thread : a \notin Rest(u)'
    <3>1. a \in Rest(t) /\ a \notin Rest(t)'
      BY <2>6
    <3>2. a \in Alias /\ a <= Top
      BY <1>4, <3>1 DEF Regions
    <3>3. ~Out(a)
      BY <1>4, <3>1, <3>2 DEF HasEntry
    <3>4. ASSUME NEW u \in Thread PROVE a \notin Rest(u)'
      BY <1>4, <2>4, <3>1 DEF Regions
    <3> QED BY <2>8, <3>2, <3>3, <3>4
  <2>12. \A a \in Alias : Out(a) => \A u \in Thread : a \notin Rest(u)'
    BY <1>4, <2>9 DEF HasEntry
  <2>13. region' \in [Thread -> [next : Nat, end : Nat]] /\ nextL1' \in 0 .. NL1
    BY <1>2, <1>3, <1>5, <2>1
  <2>14. \A x \in Alias : x \in start .. start + n - 1 \/ Unused(x)' => Unused(x)
    BY <2>6, <2>8, <2>9 DEF Unused
  <2> QED BY <1>1, <2>8, <2>10, <2>11, <2>12, <2>13, <2>14
<1>6. CASE nextL1 < NL1 /\ start = nextL1 * L1Len + 1
           /\ region' = [region EXCEPT ![t] = [next |-> start + n, end |-> start + L1Len]]
           /\ nextL1' = nextL1 + 1
  <2>1. start = Top + 1
    BY <1>6 DEF Top
  <2>2. Top' = Top + L1Len
    BY <1>1, <1>6 DEF Top
  <2>3. Rest(t)' = start + n .. start + L1Len - 1
    <3>1. region'[t] = [next |-> start + n, end |-> start + L1Len]
      BY <1>3, <1>6
    <3>2. region'[t].next = start + n /\ region'[t].end = start + L1Len
      BY <3>1
    <3> QED BY <1>2, <3>2 DEF Rest
  <2>4. \A u \in Thread \ {t} : Rest(u)' = Rest(u)
    BY <1>3, <1>6 DEF Rest
  <2>5. \A a \in start .. start + n - 1 : a \in Alias /\ a <= Top' /\ ~ (a <= Top) /\ a \notin Rest(t)'
    BY <1>1, <1>2, <1>6, <2>1, <2>2, <2>3
  <2>6. \A a \in Rest(t)' : a \in Alias /\ a <= Top' /\ ~ (a <= Top)
    BY <1>1, <1>2, <1>6, <2>1, <2>2, <2>3
  <2>7. \A u \in Thread \ {t} : \A a \in Rest(u)' : a \in Alias /\ a <= Top /\ a <= Top'
    <3>1. ASSUME NEW u \in Thread \ {t}, NEW a \in Rest(u)' PROVE a \in Alias /\ a <= Top /\ a <= Top'
      <4>1. a \in Alias /\ a <= Top
        BY <1>4, <2>4 DEF Regions
      <4>2. a \in Nat
        BY <4>1, TableOf
      <4> QED BY <1>1, <1>2, <2>2, <4>1, <4>2
    <3> QED BY <3>1
  <2>8. Regions'
    <3>1. \A u \in Thread : \A a \in Rest(u)' : a \in Alias /\ a <= Top'
      BY <2>6, <2>7
    <3>2. ASSUME NEW u \in Thread, NEW v \in Thread, NEW a \in Rest(u)', a \in Rest(v)' PROVE u = v
      <4>1. CASE u # t /\ v # t
        BY <1>4, <2>4, <3>2, <4>1 DEF Regions
      <4>2. CASE u = t /\ v # t
        BY <2>6, <2>7, <3>2, <4>2
      <4>3. CASE u # t /\ v = t
        BY <2>6, <2>7, <3>2, <4>3
      <4> QED BY <4>1, <4>2, <4>3
    <3> QED BY <3>1, <3>2 DEF Regions
  <2>9. \A a \in Alias : Out(a) => a <= Top /\ \A u \in Thread : a \notin Rest(u)'
    <3>1. ASSUME NEW a \in Alias, Out(a), NEW u \in Thread PROVE a <= Top /\ a \notin Rest(u)'
      <4>1. a <= Top /\ a \notin Rest(u)
        BY <1>4, <3>1 DEF HasEntry
      <4> QED BY <2>4, <2>6, <4>1
    <3> QED BY <3>1, <1>4 DEF HasEntry
  <2>10. ASSUME NEW a \in start .. start + n - 1
         PROVE  a \in Alias /\ a <= Top' /\ ~Out(a) /\ \A u \in Thread : a \notin Rest(u)'
    <3>1. a \in Alias /\ a <= Top' /\ ~ (a <= Top) /\ a \notin Rest(t)'
      BY <2>5
    <3>2. \A u \in Thread : a \notin Rest(u)'
      BY <2>7, <3>1
    <3> QED BY <2>9, <3>1, <3>2
  <2>11. region' \in [Thread -> [next : Nat, end : Nat]] /\ nextL1' \in 0 .. NL1
    BY <1>2, <1>3, <1>6
  <2>12. ASSUME NEW x \in Alias, x \in start .. start + n - 1 \/ Unused(x)' PROVE Unused(x)
    <3>1. x \in Nat /\ (x <= Top => x <= Top')
      BY <1>1, <1>2, <2>2, TableOf
    <3> QED BY <2>4, <2>5, <2>6, <2>12, <3>1 DEF Unused
  <2> QED BY <1>1, <1>2, <2>2, <2>8, <2>9, <2>10, <2>11, <2>12
<1> QED BY <1>5, <1>6 DEF AllocAlias
LEMMA MallocRefillStep ==
  ASSUME IInv, NEW t \in Thread, NEW k \in Class, MallocRefill(t, k) PROVE IInv'
<1> DEFINE reuse == resv[t][k].reuse
           n == ResvLen[k]
<1>1. PICK start \in Alias,
           fresh \in [(Len(reuse) + 1) .. n -> {c \in heap : ClassOf[c] = k}] :
        /\ AllocAlias(t, n, start)
        /\ TableIsFree(L1Of(start))
        /\ entry' = [a \in Alias |->
             IF a \notin start .. start + n - 1 THEN entry[a]
             ELSE IF a - start < Len(reuse) THEN reuse[a - start + 1]
             ELSE FreshEntry(fresh[a - start + 1])]
        /\ home' = [a \in Alias |->
             IF a \in start .. start + n - 1 THEN entry'[a].canon ELSE home[a]]
        /\ heap' = heap \ {fresh[i] : i \in DOMAIN fresh}
        /\ resv' = [resv EXCEPT ![t][k] =
             [ready |-> [i \in 1 .. n - 1 |-> start + i], reuse |-> <<>>]]
        /\ held' = held \cup {start}
  BY DEF MallocRefill
<1>2. /\ UNCHANGED <<pte, l1lock, mpt, bufLock, prevVersion, hash, pc, victim, pf>>
      /\ pc[t] = "idle" /\ Ready(t, k) = <<>>
  BY DEF MallocRefill, Ready
<1>3. n \in 1 .. L1Len /\ L1Len \in Nat \ {0}
  BY BatchedFreeAssumption
<1>4. /\ \A a \in start .. start + n - 1 :
           a \in Alias /\ a <= Top' /\ ~Out(a) /\ \A u \in Thread : a \notin Rest(u)'
      /\ Top <= Top' /\ Top \in Nat /\ Top' \in Nat
      /\ \A a \in Alias : Out(a) => \A u \in Thread : a \notin Rest(u)'
      /\ Regions'
      /\ region' \in [Thread -> [next : Nat, end : Nat]] /\ nextL1' \in 0 .. NL1
  <2> HIDE DEF n
  <2> QED BY <1>1, <1>3, AllocAliasFresh
<1>5. /\ reuse \in Seq(Entry) /\ entry \in [Alias -> Entry \cup {None}]
      /\ resv \in [Thread -> [Class -> [ready : Seq(Alias), reuse : Seq(Entry)]]]
      /\ heap \in SUBSET Canon /\ home \in [Alias -> Canon \cup {None}] /\ held \in SUBSET Alias
  BY DEF IInv, Types
<1>6. start \in Nat /\ n \in Nat /\ n >= 1 /\ \A a \in Alias : a \in Nat
  BY <1>3, TableOf
<1> HIDE DEF n, reuse
<1>7. ASSUME NEW a \in start .. start + n - 1 PROVE a \in Alias /\ entry'[a] \in Entry
  <2>1. a \in Alias
    BY <1>4
  <2>2. a \in Nat /\ start <= a /\ a <= start + n - 1
    BY <1>6
  <2>3. CASE a - start < Len(reuse)
    <3>1. a - start + 1 \in 1 .. Len(reuse)
      BY <1>5, <1>6, <2>2, <2>3
    <3>2. reuse[a - start + 1] \in Entry
      BY <1>5, <3>1
    <3>3. entry'[a] = reuse[a - start + 1]
      BY <1>1, <2>1, <2>3
    <3> QED BY <2>1, <3>2, <3>3
  <2>4. CASE ~ (a - start < Len(reuse))
    <3>1. a - start + 1 \in (Len(reuse) + 1) .. n
      BY <1>5, <1>6, <2>2, <2>4
    <3>2. fresh[a - start + 1] \in Canon
      BY <1>1, <1>5, <3>1
    <3>3. FreshEntry(fresh[a - start + 1]) \in Entry
      BY <3>2, FreeBufferAssumption DEF FreshEntry, Entry
    <3>4. entry'[a] = FreshEntry(fresh[a - start + 1])
      BY <1>1, <2>1, <2>4
    <3> QED BY <2>1, <3>3, <3>4
  <2> QED BY <2>3, <2>4
<1>8. \A a \in Alias : a \notin start .. start + n - 1 => entry'[a] = entry[a]
  BY <1>1
<1>9. entry' \in [Alias -> Entry \cup {None}] /\ home' \in [Alias -> Canon \cup {None}]
  <2>1. \A a \in Alias : entry'[a] \in Entry \cup {None}
    BY <1>5, <1>7, <1>8
  <2>2. \A a \in start .. start + n - 1 : entry'[a].canon \in Canon
    BY <1>7 DEF Entry
  <2>3. DOMAIN entry' = Alias /\ entry' = [a \in Alias |-> entry'[a]]
    BY <1>1
  <2> QED BY <1>1, <1>5, <2>1, <2>2, <2>3
<1>10. \A a \in Alias : entry[a] # None => entry'[a] # None
  BY <1>7, <1>8, NoneIsNoEntry
<1> DEFINE ready == [i \in 1 .. n - 1 |-> start + i]
<1>11. /\ DOMAIN ready = 1 .. n - 1
       /\ \A i \in 1 .. n - 1 : ready[i] = start + i /\ ready[i] \in start .. start + n - 1 /\ ready[i] # start
       /\ \A i, j \in 1 .. n - 1 : ready[i] = ready[j] => i = j
  BY <1>6
<1>12. ready \in Seq(Alias)
  <2>1. n - 1 \in Nat /\ \A i \in 1 .. n - 1 : start + i \in Alias
    BY <1>4, <1>6, <1>11
  <2> QED BY <2>1
<1>13. /\ resv' \in [Thread -> [Class -> [ready : Seq(Alias), reuse : Seq(Entry)]]]
       /\ Ready(t, k)' = ready
       /\ \A u \in Thread, l \in Class : ~ (u = t /\ l = k) => Ready(u, l)' = Ready(u, l)
  <2> HIDE DEF ready
  <2>1. resv' = [resv EXCEPT ![t][k] = [ready |-> ready, reuse |-> <<>>]]
    BY <1>1 DEF ready
  <2>2. [ready |-> ready, reuse |-> <<>>] \in [ready : Seq(Alias), reuse : Seq(Entry)]
    BY <1>12
  <2> QED BY <1>5, <2>1, <2>2 DEF Ready
<1> HIDE DEF ready
<1>14. Types'
  <2>1. heap' \in SUBSET Canon /\ held' \in SUBSET Alias
    BY <1>1, <1>5
  <2> QED BY <1>2, <1>4, <1>9, <1>13, <2>1 DEF IInv, Types
<1>15. Buffers'
  BY <1>2, BuffersKept DEF IInv
<1>16. \A a \in Alias : Out(a)' => Out(a) \/ a \in start .. start + n - 1
  <2>1. start \in start .. start + n - 1
    BY <1>6
  <2>2. ASSUME NEW a \in Alias, NEW u \in Thread, NEW l \in Class, NEW i \in DOMAIN Ready(u, l)',
               Ready(u, l)'[i] = a
        PROVE  Out(a) \/ a \in start .. start + n - 1
    <3>1. CASE u = t /\ l = k
      BY <1>11, <1>13, <2>2, <3>1
    <3>2. CASE ~ (u = t /\ l = k)
      BY <1>13, <2>2, <3>2 DEF Out
    <3> QED BY <3>1, <3>2
  <2>3. ASSUME NEW a \in Alias, a \in held' PROVE Out(a) \/ a \in start .. start + n - 1
    BY <1>1, <2>1, <2>3 DEF Out
  <2> QED BY <2>2, <2>3 DEF Out
<1>17. HasEntry'
  <2>1. ASSUME NEW a \in Alias, Out(a)'
        PROVE  entry'[a] # None /\ a <= Top' /\ \A u \in Thread : a \notin Rest(u)'
    <3>1. CASE a \in start .. start + n - 1
      BY <1>4, <1>7, <3>1, NoneIsNoEntry
    <3>2. CASE Out(a)
      <4>1. entry[a] # None /\ a <= Top
        BY <3>2 DEF IInv, Given, HasEntry
      <4>2. a \in Nat /\ Top \in Nat /\ Top' \in Nat
        BY TableOf, <1>4
      <4> QED BY <1>4, <1>10, <3>2, <4>1, <4>2
    <3> QED BY <1>16, <2>1, <3>1, <3>2
  <2> QED BY <2>1 DEF HasEntry
<1>18. Once'
  <2>1. Once
    BY DEF IInv, Given
  <2>2. ~Out(start) /\ \A a \in start .. start + n - 1 : a \in Alias /\ ~Out(a)
    BY <1>4, <1>6
  <2>3. \A u \in Thread, l \in Class : \A i \in DOMAIN Ready(u, l) :
          Ready(u, l)[i] \in Alias /\ Out(Ready(u, l)[i])
    BY DEF IInv, Types, Out, Ready
  <2>4. ASSUME NEW u \in Thread, NEW l \in Class, NEW i \in DOMAIN Ready(u, l)'
        PROVE  Ready(u, l)'[i] \notin held'
    <3>1. CASE u = t /\ l = k
      <4>1. Ready(u, l)'[i] \in start .. start + n - 1 /\ Ready(u, l)'[i] # start
        BY <1>11, <1>13, <3>1
      <4>2. Ready(u, l)'[i] \notin held
        BY <2>2, <4>1 DEF Out
      <4> QED BY <1>1, <4>1, <4>2
    <3>2. CASE ~ (u = t /\ l = k)
      <4>1. Ready(u, l)' = Ready(u, l) /\ i \in DOMAIN Ready(u, l)
        BY <1>13, <3>2
      <4>2. Ready(u, l)[i] \notin held /\ Ready(u, l)[i] # start
        BY <2>1, <2>2, <2>3, <4>1 DEF Once
      <4> QED BY <1>1, <4>1, <4>2
    <3> QED BY <3>1, <3>2
  <2>5. ASSUME NEW u \in Thread, NEW v \in Thread, NEW l \in Class, NEW m \in Class,
               NEW i \in DOMAIN Ready(u, l)', NEW j \in DOMAIN Ready(v, m)',
               Ready(u, l)'[i] = Ready(v, m)'[j]
        PROVE  u = v /\ l = m /\ i = j
    <3>1. CASE u = t /\ l = k /\ v = t /\ m = k
      BY <1>11, <1>13, <2>5, <3>1
    <3>2. CASE u = t /\ l = k /\ ~ (v = t /\ m = k)
      BY <1>11, <1>13, <2>2, <2>3, <2>5, <3>2
    <3>3. CASE ~ (u = t /\ l = k) /\ v = t /\ m = k
      BY <1>11, <1>13, <2>2, <2>3, <2>5, <3>3
    <3>4. CASE ~ (u = t /\ l = k) /\ ~ (v = t /\ m = k)
      <4>1. /\ Ready(u, l)' = Ready(u, l) /\ i \in DOMAIN Ready(u, l)
            /\ Ready(v, m)' = Ready(v, m) /\ j \in DOMAIN Ready(v, m)
        BY <1>13, <3>4
      <4> QED BY <2>1, <2>5, <4>1 DEF Once
    <3> QED BY <3>1, <3>2, <3>3, <3>4
  <2> QED BY <2>4, <2>5 DEF Once
<1>19. Threads'
  <2>1. ASSUME NEW u \in Thread PROVE Knows(u)'
    BY <1>2, <1>10, OthersKnow DEF IInv, Threads
  <2> QED BY <2>1 DEF Threads
<1> QED BY <1>4, <1>14, <1>15, <1>17, <1>18, <1>19 DEF IInv, Given
-----------------------------------------------------------------------------
(* The buffers a free that runs under the version ver may leave: the freed *)
(* page a joins m, the window is flushed, the block c is kept by the free  *)
(* (room), deferred, or it makes the deferral list be drained.             *)
Counted(m, v, x) == x \in {[TryDeferredFree(m, v) EXCEPT !.cnt = @ + 1],
                           Resize([TryDeferredFree(m, v) EXCEPT !.cnt = @ + 1])}

Joins(m, v, a, j) == \E x : Counted(m, v, x) /\ j \in AddRange(x, a)

Results(j, room, c, small, r) ==
  \E b \in BatchFlush(j) :
    \/ room /\ r = b
    \/ ~room /\ r \in DrainDeferred(b)
    \/ ~room /\ r = Defer(b, c, small)

(* What a free does, in the words above.                                   *)
LEMMA FreeBodyIs ==
  ASSUME NEW t \in Thread, NEW tick \in BOOLEAN, FreeBody(t, tick)
  PROVE  \E j, r :
           /\ pc[t] = "body"
           /\ Joins(mpt[SlotOf[t]], prevVersion[t], victim[t].alias, j)
           /\ Results(j, HasRoom(t, ClassOf[victim[t].canon]), victim[t].canon,
                      ClassOf[victim[t].canon] = "small", r)
           /\ FreeWrites(t, j.version, r)
<1> DEFINE m == mpt[SlotOf[t]]
           v == prevVersion[t]
           a == victim[t].alias
           c == victim[t].canon
           room == HasRoom(t, ClassOf[c])
           small == ClassOf[c] = "small"
           m1 == [TryDeferredFree(m, v) EXCEPT !.cnt = @ + 1]
<1>1. PICK j \in AddRange(IF tick THEN Resize(m1) ELSE m1, a) :
        \E b \in BatchFlush(j) :
        \E r \in (IF room THEN {b}
                  ELSE IF DeferIsFull(b) THEN DrainDeferred(b)
                  ELSE {Defer(b, c, small)}) : FreeWrites(t, j.version, r)
  BY DEF FreeBody
<1>2. PICK b \in BatchFlush(j) :
        \E r \in (IF room THEN {b}
                  ELSE IF DeferIsFull(b) THEN DrainDeferred(b)
                  ELSE {Defer(b, c, small)}) : FreeWrites(t, j.version, r)
  BY <1>1
<1>3. PICK r : /\ r \in (IF room THEN {b}
                         ELSE IF DeferIsFull(b) THEN DrainDeferred(b)
                         ELSE {Defer(b, c, small)})
               /\ FreeWrites(t, j.version, r)
  BY <1>2
<1>4. pc[t] = "body"
  BY DEF FreeBody
<1>5. Joins(m, v, a, j)
  <2>1. Counted(m, v, IF tick THEN Resize(m1) ELSE m1)
    BY DEF Counted
  <2> QED BY <1>1, <2>1 DEF Joins
<1>6. Results(j, room, c, small, r)
  <2> HIDE DEF room, small, c
  <2> QED BY <1>2, <1>3 DEF Results
<1> HIDE DEF m, v, a, c, room, small, m1
<1>7. pc[t] = "body" /\ Joins(m, v, a, j) /\ Results(j, room, c, small, r) /\ FreeWrites(t, j.version, r)
  BY <1>3, <1>4, <1>5, <1>6
<1> QED BY <1>7 DEF m, v, a, c, room, small

LEMMA CountedIs ==
  ASSUME NEW m \in BufferType(Canon), NEW v, NEW x, Counted(m, v, x)
  PROVE  /\ x \in BufferType(Canon)
         /\ x.ranges = m.ranges /\ x.gone = m.gone /\ x.version = m.version
         /\ Deferred(x) \subseteq Deferred(m)
<1> DEFINE y == TryDeferredFree(m, v)
           z == [y EXCEPT !.cnt = @ + 1]
<1>1. /\ y \in BufferType(Canon)
      /\ y.ranges = m.ranges /\ y.gone = m.gone /\ y.version = m.version
      /\ Deferred(y) \subseteq Deferred(m)
  BY TryDeferredKeeps
<1> HIDE DEF y
<1>2. /\ z \in BufferType(Canon)
      /\ z.ranges = m.ranges /\ z.gone = m.gone /\ z.version = m.version
      /\ Deferred(z) \subseteq Deferred(m)
  BY <1>1 DEF BufferType, Deferred
<1>3. x \in {z, Resize(z)}
  BY DEF Counted, y
<1> HIDE DEF z
<1> QED BY <1>2, <1>3, ResizeKeeps

(* What is pending after the page has joined.                              *)
LEMMA JoinsIs ==
  ASSUME NEW m \in BufferType(Canon), Fits(m), NEW a \in Nat, NEW v, NEW j, Joins(m, v, a, j)
  PROVE  /\ j \in BufferType(Canon) /\ Fits(j)
         /\ Pending(j) \subseteq Pending(m) \cup {a}
         /\ a \in Pending(j)
         /\ Deferred(j) \subseteq Deferred(m)
         /\ ~HelpersFail => Remembers(m, j)
<1>1. PICK x : Counted(m, v, x) /\ j \in AddRange(x, a)
  BY DEF Joins
<1>2. /\ x \in BufferType(Canon)
      /\ x.ranges = m.ranges /\ x.gone = m.gone /\ x.version = m.version
      /\ Deferred(x) \subseteq Deferred(m)
  BY <1>1, CountedIs
<1>3. Fits(x) /\ Pending(x) = Pending(m) /\ Remembers(m, x)
  BY <1>2, RemembersItself DEF Fits, Pending
<1> QED BY <1>1, <1>2, <1>3, AddRangeForgetsNothing, RemembersOn

(* The buffer after a free: well formed, and what is pending was pending   *)
(* before or is the freed page.                                            *)
LEMMA ResultsIs ==
  ASSUME NEW j \in BufferType(Canon), Fits(j), NEW c \in Canon, NEW small \in BOOLEAN,
         NEW room, NEW r, Results(j, room, c, small, r)
  PROVE  /\ r \in BufferType(Canon) /\ Fits(r)
         /\ Pending(r) \subseteq Pending(j)
         /\ Deferred(r) \subseteq Deferred(j) \cup (IF room THEN {} ELSE {c})
         /\ ~HelpersFail => Remembers(j, r)
<1>1. PICK b \in BatchFlush(j) :
        \/ room /\ r = b
        \/ ~room /\ r \in DrainDeferred(b)
        \/ ~room /\ r = Defer(b, c, small)
  BY DEF Results
<1>2. /\ b \in BufferType(Canon) /\ Fits(b)
      /\ Pending(b) \subseteq Pending(j)
      /\ Deferred(b) = Deferred(j)
      /\ ~HelpersFail => Remembers(j, b)
  BY BatchFlushShrinks
<1>3. CASE room /\ r = b
  BY <1>2, <1>3
<1>4. CASE ~room /\ r \in DrainDeferred(b)
  BY <1>2, <1>4, DrainShrinks, RemembersOn
<1>5. CASE ~room /\ r = Defer(b, c, small)
  <2>1. /\ r \in BufferType(Canon)
        /\ r.ranges = b.ranges /\ r.gone = b.gone /\ r.version = b.version
        /\ Deferred(r) \subseteq Deferred(b) \cup {c}
    BY <1>2, <1>5, DeferKeeps
  <2>2. Fits(r) /\ Pending(r) = Pending(b) /\ Remembers(b, r)
    BY <1>2, <2>1, RemembersItself DEF Fits, Pending
  <2> QED BY <1>2, <1>5, <2>1, <2>2, RemembersOn
<1> QED BY <1>1, <1>3, <1>4, <1>5

LEMMA FreeBodyStep ==
  ASSUME IInv, NEW t \in Thread, NEW tick \in BOOLEAN, FreeBody(t, tick) PROVE IInv'
<1> DEFINE s == SlotOf[t]
           a == victim[t].alias
           c == victim[t].canon
           k == ClassOf[c]
           isSmall == k = "small"
           room == HasRoom(t, k)
<1>0. PICK j, m4 :
        /\ pc[t] = "body"
        /\ Joins(mpt[s], prevVersion[t], a, j)
        /\ Results(j, room, c, isSmall, m4)
        /\ FreeWrites(t, j.version, m4)
  BY FreeBodyIs
<1> DEFINE kept == Deferred(m4) \cup (IF room THEN {c} ELSE {})
           R == (Deferred(mpt[s]) \cup {c}) \ kept
           e == [canon |-> c, tid |-> s, ver |-> j.version, mapped |-> FALSE]
<1>1. /\ pc[t] = "body"
      /\ Commit(s, m4)
      /\ Release(t, R)
      /\ resv' = IF room THEN [resv EXCEPT ![t][k].reuse = Append(@, e)] ELSE resv
      /\ prevVersion' = [prevVersion EXCEPT ![t] = m4.version]
      /\ pc' = [pc EXCEPT ![t] = "unlock"]
      /\ UNCHANGED <<entry, l1lock, bufLock, region, nextL1, victim, pf, held, home>>
  BY <1>0 DEF FreeWrites
<1>2. Knows(t) /\ a \in Alias /\ a \in Nat /\ c \in Canon
  BY <1>0, FaultTypes, TableOf DEF Knows
<1>3. s \in Slot /\ k \in Class /\ isSmall \in BOOLEAN
  BY <1>2, BatchedFreeAssumption
<1>4. mpt[s] \in BufferType(Canon) /\ Fits(mpt[s]) /\ Pending(mpt[s]) \subseteq Alias
  BY <1>3 DEF IInv, Types, Buffers
<1>8. s = SlotOf[t]
  OBVIOUS
<1> HIDE DEF s, a, c, k, isSmall, room, R, kept
<1>6. /\ j.version \in 0 .. NVersions - 1
      /\ m4 \in BufferType(Canon) /\ Fits(m4) /\ Pending(m4) \subseteq Alias
  <2>1. j \in BufferType(Canon) /\ Fits(j) /\ Pending(j) \subseteq Pending(mpt[s]) \cup {a}
    BY <1>0, <1>2, <1>4, JoinsIs
  <2>2. m4 \in BufferType(Canon) /\ Fits(m4) /\ Pending(m4) \subseteq Pending(j)
    BY <1>0, <1>2, <1>3, <2>1, ResultsIs
  <2>3. j.version \in 0 .. NVersions - 1
    BY <2>1 DEF BufferType
  <2> QED BY <1>2, <1>4, <2>1, <2>2, <2>3
<1>7. R \in SUBSET Canon
  BY <1>2, <1>4 DEF R, Deferred, BufferType
<1>9. /\ mpt \in [Slot -> BufferType(Canon)] /\ pte \in [Alias -> Page \cup {None}]
      /\ resv \in [Thread -> [Class -> [ready : Seq(Alias), reuse : Seq(Entry)]]]
      /\ hash \in [Thread -> SUBSET Canon] /\ heap \in SUBSET Canon
      /\ prevVersion \in [Thread -> 0 .. NVersions - 1] /\ pc \in [Thread -> PC]
  BY DEF IInv, Types
<1>10. hash' \in [Thread -> SUBSET Canon] /\ heap' \in SUBSET Canon
  <2> DEFINE small == {x \in R : ClassOf[x] = "small"}
             sorted == hash[t] \cup small
  <2>1. PICK rest \in SUBSET small :
          /\ hash' = [hash EXCEPT ![t] = sorted] \/ hash' = [hash EXCEPT ![t] = rest]
          /\ heap' = heap \cup (R \ small) \cup
                     (IF Cardinality(sorted) < HashMax THEN {} ELSE sorted \ rest)
    BY <1>1 DEF Release
  <2>2. small \in SUBSET Canon /\ sorted \in SUBSET Canon
    BY <1>7, <1>9
  <2> HIDE DEF small, sorted
  <2> QED BY <1>7, <1>9, <2>1, <2>2
<1>11. e \in Entry
  BY <1>2, <1>3, <1>6 DEF Entry
<1> HIDE DEF e
<1>12. /\ resv' \in [Thread -> [Class -> [ready : Seq(Alias), reuse : Seq(Entry)]]]
       /\ \A u \in Thread, l \in Class : resv'[u][l].ready = resv[u][l].ready
  <2> DEFINE T == [ready : Seq(Alias), reuse : Seq(Entry)]
             r == [resv[t][k] EXCEPT !.reuse = Append(@, e)]
  <2>1. resv[t][k] \in T
    BY <1>3, <1>9
  <2>2. Append(resv[t][k].reuse, e) \in Seq(Entry)
    BY <1>11, <2>1
  <2>3. r \in T /\ r.ready = resv[t][k].ready
    BY <2>1, <2>2
  <2>4. resv' = [resv EXCEPT ![t][k] = r] \/ resv' = resv
    BY <1>1
  <2> HIDE DEF r
  <2>5. CASE resv' = resv
    BY <1>9, <2>5
  <2>6. CASE resv' = [resv EXCEPT ![t][k] = r]
    <3>1. DOMAIN resv' = Thread /\ \A u \in Thread \ {t} : resv'[u] = resv[u]
      BY <1>9, <2>6
    <3>2. resv'[t] = [resv[t] EXCEPT ![k] = r]
      BY <1>9, <2>6
    <3>3. resv'[t] \in [Class -> T] /\ \A l \in Class : resv'[t][l].ready = resv[t][l].ready
      BY <1>3, <1>9, <2>3, <3>2
    <3>4. resv' \in [Thread -> [Class -> T]]
      BY <1>3, <1>9, <2>3, <2>6
    <3> QED BY <3>1, <3>3, <3>4
  <2> QED BY <2>4, <2>5, <2>6
<1>13. Types'
  <2>1. mpt' \in [Slot -> BufferType(Canon)] /\ pte' \in [Alias -> Page \cup {None}]
    BY <1>1, <1>3, <1>6, CommitKeeps
  <2>2. prevVersion' \in [Thread -> 0 .. NVersions - 1]
    <3>1. m4.version \in 0 .. NVersions - 1
      BY <1>6 DEF BufferType
    <3> QED BY <1>1, <1>9, <3>1
  <2> QED BY <1>1, <1>9, <1>10, <1>12, <2>1, <2>2 DEF IInv, Types, PC
<1>14. Buffers'
  BY <1>1, <1>3, <1>6, CommitKeeps
<1>15. Given'
  BY <1>1, <1>12, GivenKept DEF IInv
<1>16. Knows(t)'
  <2>1. pc'[t] = "unlock"
    BY <1>1, <1>9
  <2> QED BY <1>1, <1>2, <2>1 DEF Knows, L1Of
<1>17. ASSUME NEW u \in Thread, u # t PROVE Knows(u)'
  <2>1. pc'[u] = pc[u]
    BY <1>1, <1>9, <1>17
  <2> QED BY <1>1, <2>1, OthersKnow DEF IInv, Threads
<1>18. Threads'
  BY <1>16, <1>17 DEF Threads
<1> QED BY <1>13, <1>14, <1>15, <1>18 DEF IInv
-----------------------------------------------------------------------------
LEMMA InitInv == Init => IInv
<1> SUFFICES ASSUME Init PROVE IInv
  OBVIOUS
<1> USE DEF Init
<1>1. NoFault \in FaultType /\ ~NoFault.locked
  BY TableOf, FreeBufferAssumption DEF NoFault, FaultType
<1>2. InitialBuffer \in BufferType(Canon) /\ Fits(InitialBuffer) /\ Pending(InitialBuffer) = {}
  <2>1. InitialBuffer.ranges = <<>>
    BY DEF InitialBuffer
  <2> QED BY <2>1, InitialBufferType DEF Pending
<1>3. Types
  <2>1. <<>> \in Seq(Alias) /\ <<>> \in Seq(Entry)
    OBVIOUS
  <2>2. 0 \in 0 .. NVersions - 1 /\ 0 \in 0 .. NL1
    BY FreeBufferAssumption, BatchedFreeAssumption
  <2> QED BY <1>1, <1>2, <2>1, <2>2 DEF Types, PC
<1>4. Buffers
  BY <1>2 DEF Buffers
<1>5. Given
  <2>1. \A u \in Thread : Rest(u) = {}
    BY DEF Rest
  <2>2. \A u \in Thread, k \in Class : Ready(u, k) = <<>> /\ DOMAIN <<>> = {}
    BY DEF Ready
  <2>3. \A a \in Alias : ~Out(a)
    BY <2>2 DEF Out
  <2> QED BY <2>1, <2>2, <2>3 DEF Given, HasEntry, Once, Regions
<1>6. Threads
  BY <1>1 DEF Threads, Knows
<1> QED BY <1>3, <1>4, <1>5, <1>6 DEF IInv

LEMMA NextInv == IInv /\ [Next]_vars => IInv'
<1> SUFFICES ASSUME IInv, [Next]_vars PROVE IInv'
  OBVIOUS
<1>1. CASE UNCHANGED vars
  <2>1. Types' /\ Buffers'
    BY <1>1 DEF IInv, Types, Buffers, vars
  <2>2. Given'
    BY <1>1, GivenKept DEF IInv, vars
  <2>3. Threads'
    BY <1>1 DEF IInv, Threads, Knows, L1Of, vars
  <2> QED BY <2>1, <2>2, <2>3 DEF IInv
<1>2. ASSUME NEW t \in Thread, NEW k \in Class, MallocReserved(t, k) PROVE IInv'
  BY <1>2, MallocReservedStep
<1>3. ASSUME NEW t \in Thread, NEW k \in Class, MallocRefill(t, k) PROVE IInv'
  BY <1>3, MallocRefillStep
<1>4. ASSUME NEW t \in Thread, NEW a \in Alias, FreeClear(t, a) PROVE IInv'
  BY <1>4, FreeClearStep
<1>5. ASSUME NEW t \in Thread, NEW a \in Alias, PageFault(t, a) PROVE IInv'
  BY <1>5, PageFaultStep
<1>6. ASSUME NEW t \in Thread, Finish(t) PROVE IInv'
  BY <1>6, FreeLockStep, FreeBodyStep, FreeUnlockStep DEF Finish
<1>7. ASSUME NEW t \in Thread, Handler(t) PROVE IInv'
  BY <1>7, FlushCheckStep, FlushBufferStep, FlushFailsStep, FlushRetryStep, FlushSkipStep,
     MarkMappedStep, PrefetchNextStep, PrefetchCrossStep, PrefetchEntryStep, PrefetchPageStep, MapRunStep
     DEF Handler
<1>8. CASE Quiescent
  BY <1>1, <1>8 DEF Quiescent
<1> QED BY <1>1, <1>2, <1>3, <1>4, <1>5, <1>6, <1>7, <1>8 DEF Next

THEOREM Invariant == Spec => []IInv
BY InitInv, NextInv, PTL DEF Spec

(* Every variable has its type; in particular the buffer of a slot never   *)
(* holds more than FREE_ALIAS_BUF_SIZE ranges (unless a flush may fail),   *)
(* all of them aliases, and a deferral list holds nothing but canonical    *)
(* blocks.                                                                 *)
THEOREM TypeCorrect == Spec => []TypeOK
<1>1. IInv => TypeOK
  <2> SUFFICES ASSUME IInv PROVE TypeOK
    OBVIOUS
  <2>1. Types /\ Buffers
    BY DEF IInv
  <2>2. ASSUME NEW s \in Slot
        PROVE  /\ mpt[s].version \in 0 .. NVersions - 1
               /\ mpt[s].window \in 1 .. WindowMax
               /\ ~HelpersFail => Len(mpt[s].ranges) <= BufSize
               /\ Pending(mpt[s]) \subseteq Alias
               /\ Deferred(mpt[s]) \subseteq Canon
    <3>1. mpt[s] \in BufferType(Canon) /\ Fits(mpt[s]) /\ Pending(mpt[s]) \subseteq Alias
      BY <2>1 DEF Types, Buffers
    <3> QED BY <3>1 DEF BufferType, Fits, Deferred
  <2> QED BY <2>1, <2>2 DEF Types, TypeOK, Page, PC
<1> QED BY <1>1, Invariant, PTL

(* buf_lock and the lock bits of the L1 tables exclude: no two threads     *)
(* work on one buffer and no two page fault handlers on one table.         *)
THEOREM LocksExcludeHolds == Spec => []LocksExclude
<1>1. IInv => LocksExclude
  BY NoneIsNoThread DEF IInv, Threads, Knows, LocksExclude
<1> QED BY <1>1, Invariant, PTL

(* The entry a page fault handler reads more than once is not cleared by a *)
(* free in between, even though frees of other threads run concurrently.   *)
THEOREM HandlerSeesEntryHolds == Spec => []HandlerSeesEntry
<1>1. IInv => HandlerSeesEntry
  BY DEF IInv, Threads, Knows, HandlerSeesEntry
<1> QED BY <1>1, Invariant, PTL
-----------------------------------------------------------------------------
(* Who owns a canonical block.  A block that a free or an allocation moves *)
(* changes its owner in that step; the proof names the old owner, which is *)
(* the only one, and the new one.                                          *)
InHash(u, d) == d \in hash[u]
Defers(r, d) == d \in Deferred(mpt[r])
InEntry(a, d) == entry[a] # None /\ entry[a].canon = d
Freeing(u, d) == pc[u] \in {"lock", "body"} /\ victim[u].canon = d
Reuses(u, l, i, d) == i \in DOMAIN resv[u][l].reuse /\ resv[u][l].reuse[i].canon = d

Owns(o, d) ==
  \/ o = <<"heap">> /\ d \in heap
  \/ \E u \in Thread : o = <<"hash", u>> /\ InHash(u, d)
  \/ \E r \in Slot : o = <<"deferred", r>> /\ Defers(r, d)
  \/ \E a \in Alias : o = <<"entry", a>> /\ InEntry(a, d)
  \/ \E u \in Thread : o = <<"freeing", u>> /\ Freeing(u, d)
  \/ \E u \in Thread, l \in Class, i \in Nat : o = <<"reuse", u, l, i>> /\ Reuses(u, l, i, d)

Single(d) == \E o : \A p : Owns(p, d) <=> p = o

(* An unused alias has no entry, and a reservation has a place for each    *)
(* block that waits for it: neither an allocation overwrites an entry, nor *)
(* does it forget a waiting block.                                         *)
Blank == \A a \in Alias : Unused(a) => entry[a] = None

Places(t, k) == Len(resv[t][k].reuse) + Len(resv[t][k].ready) <= ResvLen[k]

Stock ==
  /\ Blank
  /\ \A t \in Thread, k \in Class : Places(t, k)
  /\ \A d \in Canon : Single(d)

(* A block with one owner has no second one: a place of it tells the kind  *)
(* of the owner and the rest of its name.                                  *)
Only(o, d) ==
  /\ d \in heap => o[1] = "heap"
  /\ \A u \in Thread : InHash(u, d) => o[1] = "hash" /\ o[2] = u
  /\ \A r \in Slot : Defers(r, d) => o[1] = "deferred" /\ o[2] = r
  /\ \A a \in Alias : InEntry(a, d) => o[1] = "entry" /\ o[2] = a
  /\ \A u \in Thread : Freeing(u, d) => o[1] = "freeing" /\ o[2] = u
  /\ \A u \in Thread, l \in Class, i \in Nat :
       Reuses(u, l, i, d) => o[1] = "reuse" /\ o[2] = u /\ o[3] = l /\ o[4] = i

LEMMA Alone == ASSUME NEW d, NEW o, \A p : Owns(p, d) <=> p = o PROVE Only(o, d)
<1>1. d \in heap => o = <<"heap">>
  BY DEF Owns
<1>2. \A u \in Thread : InHash(u, d) => o = <<"hash", u>>
  BY DEF Owns
<1>3. \A r \in Slot : Defers(r, d) => o = <<"deferred", r>>
  BY DEF Owns
<1>4. \A a \in Alias : InEntry(a, d) => o = <<"entry", a>>
  BY DEF Owns
<1>5. \A u \in Thread : Freeing(u, d) => o = <<"freeing", u>>
  BY DEF Owns
<1>6. \A u \in Thread, l \in Class, i \in Nat : Reuses(u, l, i, d) => o = <<"reuse", u, l, i>>
  BY DEF Owns
<1> QED BY <1>1, <1>2, <1>3, <1>4, <1>5, <1>6 DEF Only

(* A block that none of the places gains or loses keeps its owner.         *)
LEMMA OwnerKept ==
  ASSUME NEW d, Single(d),
         d \in heap' <=> d \in heap,
         \A u \in Thread : InHash(u, d)' <=> InHash(u, d),
         \A r \in Slot : Defers(r, d)' <=> Defers(r, d),
         \A a \in Alias : InEntry(a, d)' <=> InEntry(a, d),
         \A u \in Thread : Freeing(u, d)' <=> Freeing(u, d),
         \A u \in Thread, l \in Class, i \in Nat : Reuses(u, l, i, d)' <=> Reuses(u, l, i, d)
  PROVE  Single(d)'
<1>1. \A p : Owns(p, d)' <=> Owns(p, d)
  BY DEF Owns
<1> QED BY <1>1 DEF Single

(* A block that one place has gained is with its new owner only.           *)
LEMMA OnlyOwner ==
  ASSUME NEW d, NEW o, Owns(o, d)',
         d \in heap' => o = <<"heap">>,
         \A u \in Thread : InHash(u, d)' => o = <<"hash", u>>,
         \A r \in Slot : Defers(r, d)' => o = <<"deferred", r>>,
         \A a \in Alias : InEntry(a, d)' => o = <<"entry", a>>,
         \A u \in Thread : Freeing(u, d)' => o = <<"freeing", u>>,
         \A u \in Thread, l \in Class, i \in Nat : Reuses(u, l, i, d)' => o = <<"reuse", u, l, i>>
  PROVE  Single(d)'
<1>1. \A p : Owns(p, d)' => p = o
  BY DEF Owns
<1> QED BY <1>1 DEF Single

(* The steps that move no block.                                           *)
LEMMA StockKept ==
  ASSUME Stock, UNCHANGED <<heap, hash, region, nextL1, resv>>,
         \A d \in Canon : \A r \in Slot : Defers(r, d)' <=> Defers(r, d),
         \A d \in Canon : \A a \in Alias : InEntry(a, d)' <=> InEntry(a, d),
         \A d \in Canon : \A u \in Thread : Freeing(u, d)' <=> Freeing(u, d),
         \A a \in Alias : entry[a] = None => entry'[a] = None
  PROVE  Stock'
<1>1. \A a \in Alias : Unused(a)' <=> Unused(a)
  BY DEF Unused, Top, Rest
<1>2. Blank'
  BY <1>1 DEF Stock, Blank
<1>3. \A t \in Thread, k \in Class : Places(t, k)'
  BY DEF Stock, Places
<1>4. ASSUME NEW d \in Canon PROVE Single(d)'
  <2>1. \A u \in Thread : InHash(u, d)' <=> InHash(u, d)
    BY DEF InHash
  <2>2. \A u \in Thread, l \in Class, i \in Nat : Reuses(u, l, i, d)' <=> Reuses(u, l, i, d)
    BY DEF Reuses
  <2>3. Single(d)
    BY DEF Stock
  <2> QED BY <2>1, <2>2, <2>3, OwnerKept
<1> QED BY <1>2, <1>3, <1>4 DEF Stock

(* Marking an entry MAPPED leaves it where it is.                          *)
LEMMA MarkStock ==
  ASSUME IInv, Stock, NEW t \in Thread, entry[pf[t].cur] # None,
         entry' = [entry EXCEPT ![pf[t].cur].mapped = TRUE],
         UNCHANGED <<heap, hash, region, nextL1, resv, mpt, victim>>,
         \A u \in Thread : pc'[u] \in {"lock", "body"} <=> pc[u] \in {"lock", "body"}
  PROVE  Stock'
<1> DEFINE b == pf[t].cur
<1>1. entry \in [Alias -> Entry \cup {None}] /\ b \in Alias /\ entry[b] \in Entry
  BY FaultTypes DEF IInv, Types
<1> DEFINE e == [entry[b] EXCEPT !.mapped = TRUE]
<1>2. e \in Entry /\ e.canon = entry[b].canon
  BY <1>1 DEF Entry
<1>3. entry' = [entry EXCEPT ![b] = e]
  OBVIOUS
<1> HIDE DEF e, b
<1>4. \A a \in Alias : entry'[a] = IF a = b THEN e ELSE entry[a]
  BY <1>1, <1>3
<1>5. e # None /\ entry[b] # None
  BY <1>1, <1>2, NoneIsNoEntry
<1>6. \A d \in Canon : \A a \in Alias : InEntry(a, d)' <=> InEntry(a, d)
  BY <1>2, <1>4, <1>5 DEF InEntry
<1>7. \A a \in Alias : entry[a] = None => entry'[a] = None
  BY <1>4, <1>5
<1>8. \A d \in Canon : \A r \in Slot : Defers(r, d)' <=> Defers(r, d)
  BY DEF Defers, Deferred
<1>9. \A d \in Canon : \A u \in Thread : Freeing(u, d)' <=> Freeing(u, d)
  BY DEF Freeing
<1> QED BY <1>6, <1>7, <1>8, <1>9, StockKept

(* A page fault handler moves no block: its flush empties the pending list *)
(* but not the deferral lists.                                             *)
LEMMA HandlerStock == ASSUME IInv, Stock, NEW t \in Thread, Handler(t) PROVE Stock'
<1>1. pc \in [Thread -> PC] /\ mpt \in [Slot -> BufferType(Canon)]
  BY DEF IInv, Types
<1>2. /\ UNCHANGED <<heap, hash, region, nextL1, resv, victim>>
      /\ \A u \in Thread : pc'[u] \in {"lock", "body"} <=> pc[u] \in {"lock", "body"}
  <2>1. UNCHANGED notLock
    BY DEF Handler, FlushCheck, FlushBuffer, FlushFails, FlushRetry, FlushSkip, MarkMapped,
           PrefetchNext, PrefetchCross, PrefetchEntry, PrefetchPage, MapRun, notHandler
  <2>2. /\ pc[t] \in PC \ {"lock", "body"}
        /\ \E v \in PC \ {"lock", "body"} : pc' = [pc EXCEPT ![t] = v]
    <3>1. CASE FlushCheck(t)
      BY <3>1 DEF FlushCheck, FlushDone, AfterFlush, PC
    <3>2. CASE FlushBuffer(t)
      BY <3>2 DEF FlushBuffer, FlushDone, AfterFlush, PC
    <3>3. CASE FlushFails(t) \/ FlushRetry(t) \/ FlushSkip(t) \/ MarkMapped(t)
      BY <3>3 DEF FlushFails, FlushRetry, FlushSkip, Unflushed, MarkMapped, PC
    <3>4. CASE PrefetchNext(t) \/ PrefetchCross(t) \/ PrefetchPage(t)
      BY <3>4 DEF PrefetchNext, PrefetchCross, PrefetchPage, PC
    <3>5. CASE PrefetchEntry(t)
      BY <3>5 DEF PrefetchEntry, PC
    <3>6. CASE MapRun(t)
      BY <3>6 DEF MapRun, PC
    <3> QED BY <3>1, <3>2, <3>3, <3>4, <3>5, <3>6 DEF Handler
  <2> QED BY <1>1, <2>1, <2>2 DEF notLock, notLock
<1>3. \A d \in Canon : \A u \in Thread : Freeing(u, d)' <=> Freeing(u, d)
  BY <1>2 DEF Freeing
<1>4. ASSUME UNCHANGED <<entry, mpt>> PROVE Stock'
  <2>1. /\ \A d \in Canon : \A r \in Slot : Defers(r, d)' <=> Defers(r, d)
        /\ \A d \in Canon : \A a \in Alias : InEntry(a, d)' <=> InEntry(a, d)
    BY <1>4 DEF Defers, Deferred, InEntry
  <2> QED BY <1>2, <1>3, <1>4, <2>1, StockKept
<1>5. CASE FlushBuffer(t) \/ FlushFails(t)
  <2> DEFINE s == pf[t].slot
  <2>1. s \in Slot /\ UNCHANGED entry
    BY <1>5, FaultTypes DEF FlushBuffer, FlushFails, Knows
  <2>2. mpt[s] \in BufferType(Canon)
    BY <1>1, <2>1
  <2>3. UNCHANGED mpt \/ \E m \in {Flush(mpt[s])} \cup BrokenFlushes(mpt[s]) : Commit(s, m)
    BY <1>5 DEF FlushBuffer, FlushFails
  <2> HIDE DEF s
  <2>4. ASSUME NEW m \in {Flush(mpt[s])} \cup BrokenFlushes(mpt[s]), Commit(s, m), NEW r \in Slot
        PROVE  Deferred(mpt'[r]) = Deferred(mpt[r])
    <3> DEFINE x == [m EXCEPT !.gone = {}]
    <3>1. m \in BufferType(Canon) /\ Deferred(m) = Deferred(mpt[s])
      BY <2>2, FlushEmpties, FlushBreaksIs
    <3>2. Deferred(x) = Deferred(mpt[s])
      BY <3>1 DEF Deferred, BufferType
    <3>3. mpt' = [mpt EXCEPT ![s] = x]
      BY <2>4 DEF Commit
    <3> HIDE DEF x
    <3>4. mpt'[r] = IF r = s THEN x ELSE mpt[r]
      BY <1>1, <2>1, <3>3
    <3> QED BY <3>2, <3>4
  <2>5. \A r \in Slot : Deferred(mpt'[r]) = Deferred(mpt[r])
    BY <2>3, <2>4
  <2>6. \A d \in Canon : \A r \in Slot : Defers(r, d)' <=> Defers(r, d)
    BY <2>5 DEF Defers, Deferred
  <2>7. \A d \in Canon : \A a \in Alias : InEntry(a, d)' <=> InEntry(a, d)
    BY <2>1 DEF InEntry
  <2> QED BY <1>2, <1>3, <2>1, <2>6, <2>7, StockKept
<1>6. CASE MarkMapped(t)
  <2>1. entry[pf[t].cur] # None
    BY <1>6, FaultTypes DEF MarkMapped, Knows
  <2> QED BY <1>2, <1>6, <2>1, MarkStock DEF MarkMapped
<1>7. CASE PrefetchPage(t)
  <2>1. entry[pf[t].cur] # None
    BY <1>7, FaultTypes DEF PrefetchPage, Knows
  <2>2. UNCHANGED mpt /\ (UNCHANGED entry \/ entry' = [entry EXCEPT ![pf[t].cur].mapped = TRUE])
    BY <1>7 DEF PrefetchPage
  <2> QED BY <1>2, <1>4, <2>1, <2>2, MarkStock
<1>8. ASSUME ~ FlushBuffer(t), ~ FlushFails(t), ~ MarkMapped(t), ~ PrefetchPage(t) PROVE UNCHANGED <<entry, mpt>>
  BY <1>8 DEF Handler, FlushCheck, FlushRetry, FlushSkip, PrefetchNext, PrefetchCross,
              PrefetchEntry, MapRun
<1> QED BY <1>4, <1>5, <1>6, <1>7, <1>8

LEMMA PageFaultStock ==
  ASSUME IInv, Stock, NEW t \in Thread, NEW a \in Alias, PageFault(t, a) PROVE Stock'
<1>1. /\ pc[t] = "idle" /\ pc' = [pc EXCEPT ![t] = "check"] /\ pc \in [Thread -> PC]
      /\ UNCHANGED <<entry, mpt, resv, region, nextL1, hash, heap, victim>>
  BY DEF PageFault, IInv, Types
<1>2. \A d \in Canon : \A u \in Thread : Freeing(u, d)' <=> Freeing(u, d)
  BY <1>1 DEF Freeing
<1>3. /\ \A d \in Canon : \A r \in Slot : Defers(r, d)' <=> Defers(r, d)
      /\ \A d \in Canon : \A b \in Alias : InEntry(b, d)' <=> InEntry(b, d)
  BY <1>1 DEF Defers, Deferred, InEntry
<1> QED BY <1>1, <1>2, <1>3, StockKept

LEMMA FreeLockStock ==
  ASSUME IInv, Stock, NEW t \in Thread, FreeLock(t) \/ FreeUnlock(t) PROVE Stock'
<1>1. UNCHANGED <<entry, mpt, resv, region, nextL1, hash, heap>>
  BY DEF FreeLock, FreeUnlock
<1>2. \A d \in Canon : \A u \in Thread : Freeing(u, d)' <=> Freeing(u, d)
  <2>1. pc \in [Thread -> PC] /\ DOMAIN victim = Thread
    BY DEF IInv, Types
  <2>2. CASE FreeLock(t)
    <3>1. pc[t] = "lock" /\ pc' = [pc EXCEPT ![t] = "body"] /\ UNCHANGED victim
      BY <2>2 DEF FreeLock
    <3> QED BY <2>1, <3>1 DEF Freeing
  <2>3. CASE FreeUnlock(t)
    <3>1. /\ pc[t] = "unlock" /\ pc' = [pc EXCEPT ![t] = "idle"]
          /\ victim' = [victim EXCEPT ![t] = [alias |-> None, canon |-> None]]
      BY <2>3 DEF FreeUnlock
    <3> QED BY <2>1, <3>1 DEF Freeing
  <2> QED BY <2>2, <2>3
<1>3. /\ \A d \in Canon : \A r \in Slot : Defers(r, d)' <=> Defers(r, d)
      /\ \A d \in Canon : \A b \in Alias : InEntry(b, d)' <=> InEntry(b, d)
  BY <1>1 DEF Defers, Deferred, InEntry
<1> QED BY <1>1, <1>2, <1>3, StockKept

(* An object that is handed out makes room for a waiting block.            *)
LEMMA MallocReservedStock ==
  ASSUME IInv, Stock, NEW t \in Thread, NEW k \in Class, MallocReserved(t, k) PROVE Stock'
<1> DEFINE q == resv[t][k]
           r == [q EXCEPT !.ready = Tail(@)]
           T == [ready : Seq(Alias), reuse : Seq(Entry)]
<1>1. /\ q.ready # <<>> /\ resv' = [resv EXCEPT ![t][k].ready = Tail(@)]
      /\ UNCHANGED <<entry, mpt, region, nextL1, hash, heap, victim, pc>>
  BY DEF MallocReserved
<1>2. q \in T /\ resv \in [Thread -> [Class -> T]]
  BY DEF IInv, Types
<1>3. r.reuse = q.reuse /\ Len(r.ready) <= Len(q.ready) /\ Len(q.ready) \in Nat /\ Len(r.ready) \in Nat
  BY <1>1, <1>2
<1>4. resv' = [resv EXCEPT ![t][k] = r]
  BY <1>1
<1> HIDE DEF r, q
<1>5. \A u \in Thread, l \in Class : resv'[u][l] = IF u = t /\ l = k THEN r ELSE resv[u][l]
  BY <1>2, <1>4
<1>6. \A u \in Thread, l \in Class : resv'[u][l].reuse = resv[u][l].reuse
  BY <1>3, <1>5 DEF q
<1>7. ASSUME NEW u \in Thread, NEW l \in Class PROVE Places(u, l)'
  <2>1. Places(u, l)
    BY DEF Stock
  <2>2. CASE u = t /\ l = k
    <3> DEFINE x == Len(q.reuse)
               y == Len(q.ready)
               z == Len(r.ready)
               n == ResvLen[k]
    <3>1. x + y <= n
      BY <2>1, <2>2 DEF Places, q
    <3>2. resv'[u][l] = r
      BY <1>5, <2>2
    <3>3. x \in Nat /\ y \in Nat /\ z \in Nat /\ n \in Nat /\ z <= y /\ Len(r.reuse) = x
      <4>1. n \in 1 .. L1Len /\ L1Len \in Nat
        BY BatchedFreeAssumption
      <4>2. n \in Nat
        BY <4>1
      <4> QED BY <1>2, <1>3, <4>2
    <3> HIDE DEF x, y, z, n
    <3>4. x + z <= n
      BY <3>1, <3>3
    <3> QED BY <2>2, <3>2, <3>3, <3>4 DEF Places, z, n
  <2>3. CASE ~ (u = t /\ l = k)
    BY <1>5, <2>1, <2>3 DEF Places
  <2> QED BY <2>2, <2>3
<1>8. Blank'
  BY <1>1 DEF Stock, Blank, Unused, Top, Rest
<1>9. ASSUME NEW d \in Canon PROVE Single(d)'
  <2>1. Single(d)
    BY DEF Stock
  <2>2. \A u \in Thread, l \in Class, i \in Nat : Reuses(u, l, i, d)' <=> Reuses(u, l, i, d)
    BY <1>6 DEF Reuses
  <2>3. /\ \A x \in Slot : Defers(x, d)' <=> Defers(x, d)
        /\ \A b \in Alias : InEntry(b, d)' <=> InEntry(b, d)
        /\ \A u \in Thread : (Freeing(u, d)' <=> Freeing(u, d)) /\ (InHash(u, d)' <=> InHash(u, d))
    BY <1>1 DEF Defers, Deferred, InEntry, Freeing, InHash
  <2> QED BY <1>1, <2>1, <2>2, <2>3, OwnerKept
<1> QED BY <1>7, <1>8, <1>9 DEF Stock

(* The block of a freed object goes from its entry to the freeing thread.  *)
LEMMA FreeClearStock ==
  ASSUME IInv, Stock, NEW t \in Thread, NEW a \in Alias, FreeClear(t, a) PROVE Stock'
<1> DEFINE c == entry[a].canon
<1>1. /\ pc[t] = "idle" /\ a \in held
      /\ entry' = [entry EXCEPT ![a] = None]
      /\ victim' = [victim EXCEPT ![t] = [alias |-> a, canon |-> c]]
      /\ pc' = [pc EXCEPT ![t] = "lock"]
      /\ UNCHANGED <<mpt, resv, region, nextL1, hash, heap>>
  BY DEF FreeClear
<1>2. /\ entry \in [Alias -> Entry \cup {None}] /\ pc \in [Thread -> PC] /\ DOMAIN victim = Thread
      /\ entry[a] # None
  BY <1>1 DEF IInv, Types, Given, HasEntry, Out
<1>3. InEntry(a, c)
  BY <1>2 DEF InEntry
<1> HIDE DEF c
<1>4. \A b \in Alias : entry'[b] = IF b = a THEN None ELSE entry[b]
  BY <1>1, <1>2
<1>5. \A u \in Thread : pc'[u] = IF u = t THEN "lock" ELSE pc[u]
  BY <1>1, <1>2
<1>6. \A u \in Thread : u # t => victim'[u] = victim[u]
  BY <1>1, <1>2
<1>7. victim'[t].canon = c
  BY <1>1, <1>2
<1>8. Blank'
  BY <1>1, <1>4 DEF Stock, Blank, Unused, Top, Rest
<1>9. \A u \in Thread, k \in Class : Places(u, k)'
  BY <1>1 DEF Stock, Places
<1>10. ASSUME NEW d \in Canon PROVE Single(d)'
  <2>1. PICK o : \A p : Owns(p, d) <=> p = o
    BY DEF Stock, Single
  <2>2. /\ \A x \in Slot : Defers(x, d)' <=> Defers(x, d)
        /\ \A u \in Thread : InHash(u, d)' <=> InHash(u, d)
        /\ \A u \in Thread, l \in Class, i \in Nat : Reuses(u, l, i, d)' <=> Reuses(u, l, i, d)
    BY <1>1 DEF Defers, Deferred, InHash, Reuses
  <2>3. CASE d = c
    <3>1. Only(o, d) /\ o[1] = "entry" /\ o[2] = a
      <4>1. Only(o, d)
        BY <2>1, Alone
      <4>2. InEntry(a, d)
        BY <1>3, <2>3
      <4> QED BY <4>1, <4>2 DEF Only
    <3>2. /\ d \notin heap
          /\ \A u \in Thread : ~ InHash(u, d) /\ ~ Freeing(u, d)
          /\ \A r \in Slot : ~ Defers(r, d)
          /\ \A b \in Alias : InEntry(b, d) => b = a
          /\ \A u \in Thread, l \in Class, i \in Nat : ~ Reuses(u, l, i, d)
      BY <3>1 DEF Only
    <3>3. Freeing(t, d)'
      BY <1>5, <1>7, <2>3 DEF Freeing
    <3>4. \A u \in Thread : Freeing(u, d)' => u = t
      BY <1>5, <1>6, <3>2 DEF Freeing
    <3>5. \A b \in Alias : ~ InEntry(b, d)'
      BY <1>4, <3>2 DEF InEntry
    <3>6. Owns(<<"freeing", t>>, d)'
      BY <3>3 DEF Owns
    <3> QED BY <1>1, <2>2, <3>2, <3>4, <3>5, <3>6, OnlyOwner
  <2>4. CASE d # c
    <3>1. \A u \in Thread : Freeing(u, d)' <=> Freeing(u, d)
      BY <1>1, <1>5, <1>6, <1>7, <2>4 DEF Freeing
    <3>2. \A b \in Alias : InEntry(b, d)' <=> InEntry(b, d)
      BY <1>4, <2>4 DEF InEntry, c
    <3>3. Single(d)
      BY DEF Stock
    <3> QED BY <1>1, <2>2, <3>1, <3>2, <3>3, OwnerKept
  <2> QED BY <2>3, <2>4
<1> QED BY <1>8, <1>9, <1>10 DEF Stock

(* Releasing the blocks R: each of them, and each block of the thread's    *)
(* hash, is either in the hash or with mimalloc afterwards, and no other   *)
(* block moves.                                                            *)
LEMMA ReleaseMoves ==
  ASSUME Types, NEW t \in Thread, NEW R \in SUBSET Canon, Release(t, R)
  PROVE  /\ \A u \in Thread \ {t} : hash'[u] = hash[u]
         /\ hash'[t] \subseteq hash[t] \cup R
         /\ heap \subseteq heap' /\ heap' \subseteq heap \cup R \cup hash[t]
         /\ \A d \in hash[t] \cup R :
              ~ (d \in hash[t] /\ d \in R) /\ d \notin heap => (d \in hash'[t] <=> d \notin heap')
<1> DEFINE small == {c \in R : ClassOf[c] = "small"}
           sorted == hash[t] \cup small
           few == Cardinality(sorted) < HashMax
<1>1. PICK rest \in SUBSET small :
        /\ IF few THEN rest = small /\ hash' = [hash EXCEPT ![t] = sorted]
                  ELSE hash' = [hash EXCEPT ![t] = rest]
        /\ heap' = heap \cup (R \ small) \cup (IF few THEN {} ELSE sorted \ rest)
  BY DEF Release
<1>2. small \subseteq R /\ hash \in [Thread -> SUBSET Canon]
  BY DEF Types
<1>3. sorted = hash[t] \cup small
  OBVIOUS
<1> HIDE DEF small, sorted, few
<1>4. CASE few
  <2>1. hash'[t] = sorted /\ (\A u \in Thread \ {t} : hash'[u] = hash[u]) /\ heap' = heap \cup (R \ small)
    BY <1>1, <1>2, <1>4
  <2> QED BY <1>2, <1>3, <2>1
<1>5. CASE ~ few
  <2>1. /\ hash'[t] = rest /\ (\A u \in Thread \ {t} : hash'[u] = hash[u])
        /\ heap' = heap \cup (R \ small) \cup (sorted \ rest)
    BY <1>1, <1>2, <1>5
  <2> QED BY <1>1, <1>2, <1>3, <2>1
<1> QED BY <1>4, <1>5

(* What ota_free does with the blocks: the blocks that leave the deferral  *)
(* lists are released, with the freed block unless it goes to the          *)
(* reservation or is deferred itself.                                      *)
LEMMA FreeBodyMoves ==
  ASSUME IInv, NEW t \in Thread, NEW tick \in BOOLEAN, FreeBody(t, tick)
  PROVE  LET s == SlotOf[t]
             c == victim[t].canon
             k == ClassOf[c]
         IN \E ver, m4 :
              /\ pc[t] = "body" /\ c \in Canon /\ s \in Slot /\ k \in Class
              /\ FreeWrites(t, ver, m4)
              /\ m4 \in BufferType(Canon)
              /\ Deferred(m4) \subseteq Deferred(mpt[s]) \cup {c}
              /\ HasRoom(t, k) => Deferred(m4) \subseteq Deferred(mpt[s])
<1> DEFINE s == SlotOf[t]
           a == victim[t].alias
           c == victim[t].canon
           k == ClassOf[c]
           small == k = "small"
           room == HasRoom(t, k)
<1>1. PICK j, m4 :
        /\ pc[t] = "body"
        /\ Joins(mpt[s], prevVersion[t], a, j)
        /\ Results(j, room, c, small, m4)
        /\ FreeWrites(t, j.version, m4)
  BY FreeBodyIs
<1>2. a \in Nat /\ c \in Canon
  BY <1>1, FaultTypes, TableOf DEF Knows
<1>3. s \in Slot /\ k \in Class /\ small \in BOOLEAN
  BY <1>2, BatchedFreeAssumption
<1>4. mpt[s] \in BufferType(Canon) /\ Fits(mpt[s])
  BY <1>3 DEF IInv, Types, Buffers
<1> HIDE DEF small, s, a, c, k, room
<1>5. j \in BufferType(Canon) /\ Fits(j) /\ Deferred(j) \subseteq Deferred(mpt[s])
  BY <1>1, <1>2, <1>4, JoinsIs
<1>6. m4 \in BufferType(Canon) /\ Deferred(m4) \subseteq Deferred(j) \cup (IF room THEN {} ELSE {c})
  BY <1>1, <1>2, <1>3, <1>5, ResultsIs
<1>7. /\ Deferred(m4) \subseteq Deferred(mpt[s]) \cup {c}
      /\ room => Deferred(m4) \subseteq Deferred(mpt[s])
  BY <1>5, <1>6
<1> QED BY <1>1, <1>2, <1>3, <1>6, <1>7 DEF s, c, k, room

LEMMA FreeBodyStock ==
  ASSUME IInv, Stock, NEW t \in Thread, NEW tick \in BOOLEAN, FreeBody(t, tick) PROVE Stock'
<1> DEFINE s == SlotOf[t]
           c == victim[t].canon
           k == ClassOf[c]
           D == Deferred(mpt[s])
           room == HasRoom(t, k)
           q == resv[t][k]
           T == [ready : Seq(Alias), reuse : Seq(Entry)]
<1>1. PICK ver, m4 :
        /\ pc[t] = "body" /\ c \in Canon /\ s \in Slot /\ k \in Class
        /\ FreeWrites(t, ver, m4)
        /\ m4 \in BufferType(Canon)
        /\ Deferred(m4) \subseteq D \cup {c}
        /\ room => Deferred(m4) \subseteq D
  <2> HIDE DEF s, c, k, D, room
  <2> QED BY FreeBodyMoves DEF s, c, k, D, room
<1> DEFINE e == [canon |-> c, tid |-> s, ver |-> ver, mapped |-> FALSE]
           kept == Deferred(m4) \cup (IF room THEN {c} ELSE {})
           R == (D \cup {c}) \ kept
<1>2. /\ mpt' = [mpt EXCEPT ![s] = [m4 EXCEPT !.gone = {}]]
      /\ Release(t, R)
      /\ resv' = IF room THEN [resv EXCEPT ![t][k].reuse = Append(@, e)] ELSE resv
      /\ pc' = [pc EXCEPT ![t] = "unlock"]
      /\ UNCHANGED <<entry, region, nextL1, victim>>
  BY <1>1 DEF FreeWrites, Commit
<1>3. /\ Types /\ Types' /\ mpt \in [Slot -> BufferType(Canon)] /\ pc \in [Thread -> PC]
      /\ resv \in [Thread -> [Class -> T]] /\ resv' \in [Thread -> [Class -> T]]
  BY FreeBodyStep DEF IInv, Types
<1>4. D \subseteq Canon
  BY <1>1, <1>3 DEF Deferred, BufferType
<1>5. room => Len(q.reuse) + Len(q.ready) < ResvLen[k]
  BY DEF HasRoom
<1>6. e.canon = c
  OBVIOUS
<1>7. \A d \in Canon : /\ d \in D <=> Defers(s, d)
                       /\ \A r \in Slot : d \in Deferred(mpt[r]) <=> Defers(r, d)
  BY DEF Defers
<1>8. Freeing(t, c)
  BY <1>1 DEF Freeing
<1>9. \A d : Freeing(t, d) => d = c
  BY DEF Freeing
<1> HIDE DEF s, c, k, D, room, q, e, kept
<1>10. /\ \A u \in Thread \ {t} : hash'[u] = hash[u]
       /\ hash'[t] \subseteq hash[t] \cup R
       /\ heap \subseteq heap' /\ heap' \subseteq heap \cup R \cup hash[t]
       /\ \A d \in hash[t] \cup R :
            ~ (d \in hash[t] /\ d \in R) /\ d \notin heap => (d \in hash'[t] <=> d \notin heap')
  <2>1. R \in SUBSET Canon
    BY <1>1, <1>4
  <2> HIDE DEF R
  <2> QED BY <1>2, <1>3, <2>1, ReleaseMoves
<1>11. \A r \in Slot : Deferred(mpt[r])' = IF r = s THEN Deferred(m4) ELSE Deferred(mpt[r])
  <2> DEFINE x == [m4 EXCEPT !.gone = {}]
  <2>1. Deferred(x) = Deferred(m4)
    BY <1>1 DEF Deferred, BufferType
  <2>2. mpt' = [mpt EXCEPT ![s] = x]
    BY <1>2
  <2> HIDE DEF x
  <2>3. \A r \in Slot : mpt'[r] = IF r = s THEN x ELSE mpt[r]
    BY <1>1, <1>3, <2>2
  <2> QED BY <2>1, <2>3 DEF Deferred
<1>12. \A u \in Thread, d \in Canon : Freeing(u, d)' <=> (u # t /\ Freeing(u, d))
  BY <1>2, <1>3 DEF Freeing
<1>13. \A a \in Alias, d \in Canon : InEntry(a, d)' <=> InEntry(a, d)
  BY <1>2 DEF InEntry
<1> DEFINE w == [q EXCEPT !.reuse = Append(@, e)]
           n == Len(q.reuse)
<1>14. /\ ~ room => resv' = resv
       /\ room => \A u \in Thread, l \in Class : resv'[u][l] = IF u = t /\ l = k THEN w ELSE resv[u][l]
  <2>1. room => resv' = [resv EXCEPT ![t][k] = w]
    BY <1>2 DEF q
  <2> HIDE DEF w, T, R, n
  <2>2. ASSUME room, NEW u \in Thread, NEW l \in Class
        PROVE  resv'[u][l] = IF u = t /\ l = k THEN w ELSE resv[u][l]
    <3>1. resv' = [resv EXCEPT ![t] = [resv[t] EXCEPT ![k] = w]]
      BY <2>1, <2>2
    <3>2. resv'[u] = IF u = t THEN [resv[t] EXCEPT ![k] = w] ELSE resv[u]
      BY <1>3, <3>1
    <3>3. resv[t] \in [Class -> T]
      BY <1>3
    <3> QED BY <1>1, <3>2, <3>3
  <2> QED BY <1>2, <2>2
<1>15. q \in T /\ n \in Nat
  BY <1>1, <1>3 DEF q
<1>16. room => w \in T /\ w.ready = q.ready /\ w.reuse = Append(q.reuse, e)
  <2>1. room => w \in T
    <3> HIDE DEF w
    <3> QED BY <1>1, <1>3, <1>14
  <2> QED BY <1>15, <2>1
<1> HIDE DEF w
<1>17. room => /\ DOMAIN w.reuse = 1 .. n + 1 /\ Len(w.reuse) = n + 1 /\ w.reuse[n + 1].canon = c
               /\ DOMAIN q.reuse = 1 .. n
               /\ \A i \in 1 .. n : w.reuse[i] = q.reuse[i]
  <2>1. q.reuse \in Seq(Entry)
    BY <1>15
  <2>2. room => w.reuse[n + 1] = e
    BY <1>16, <2>1
  <2> QED BY <1>6, <1>16, <2>1, <2>2
<1>18. Blank'
  BY <1>2 DEF Stock, Blank, Unused, Top, Rest
<1>19. ASSUME NEW u \in Thread, NEW l \in Class PROVE Places(u, l)'
  <2>1. Places(u, l)
    BY DEF Stock
  <2>2. CASE room /\ u = t /\ l = k
    <3> DEFINE y == Len(q.ready)
               z == ResvLen[k]
    <3>1. n + y < z
      BY <1>5, <2>2
    <3>2. y \in Nat /\ z \in Nat
      <4>1. z \in 1 .. L1Len /\ L1Len \in Nat
        BY <1>1, BatchedFreeAssumption
      <4> QED BY <1>15, <4>1
    <3>3. resv'[u][l].ready = q.ready /\ Len(resv'[u][l].reuse) = n + 1
      BY <1>14, <1>16, <1>17, <2>2
    <3> HIDE DEF n, y, z
    <3>4. n + 1 + y <= z
      BY <1>15, <3>1, <3>2
    <3> QED BY <2>2, <3>3, <3>4 DEF Places, y, z
  <2>3. CASE ~ (room /\ u = t /\ l = k)
    <3>1. resv'[u][l] = resv[u][l]
      BY <1>14, <2>3
    <3> QED BY <2>1, <3>1 DEF Places
  <2> QED BY <2>2, <2>3
<1>20. \A u \in Thread, l \in Class, i \in Nat, d \in Canon :
         Reuses(u, l, i, d)' <=>
           Reuses(u, l, i, d) \/ (room /\ d = c /\ u = t /\ l = k /\ i = n + 1)
  <2> SUFFICES ASSUME NEW u \in Thread, NEW l \in Class, NEW i \in Nat, NEW d \in Canon
               PROVE  Reuses(u, l, i, d)' <=>
                        Reuses(u, l, i, d) \/ (room /\ d = c /\ u = t /\ l = k /\ i = n + 1)
    OBVIOUS
  <2>1. CASE room /\ u = t /\ l = k
    <3>1. Reuses(u, l, i, d)' <=> (i \in 1 .. n + 1 /\ w.reuse[i].canon = d)
      BY <1>14, <1>17, <2>1 DEF Reuses
    <3>2. Reuses(u, l, i, d) <=> (i \in 1 .. n /\ q.reuse[i].canon = d)
      BY <1>17, <2>1 DEF Reuses, q
    <3> HIDE DEF n
    <3> QED BY <1>15, <1>17, <2>1, <3>1, <3>2
  <2>2. CASE ~ (room /\ u = t /\ l = k)
    <3>1. resv'[u][l] = resv[u][l]
      BY <1>14, <2>2
    <3> QED BY <2>2, <3>1 DEF Reuses
  <2> QED BY <2>1, <2>2
<1> HIDE DEF n
<1>21. ASSUME NEW d \in Canon PROVE Single(d)'
  <2>1. PICK o : \A p : Owns(p, d) <=> p = o
    BY DEF Stock, Single
  <2>2. Only(o, d)
    BY <2>1, Alone
  <2>3. CASE d # c /\ d \notin D /\ d \notin hash[t]
    <3>1. d \in heap' <=> d \in heap
      BY <1>10, <2>3
    <3>2. \A u \in Thread : InHash(u, d)' <=> InHash(u, d)
      BY <1>10, <2>3 DEF InHash
    <3>3. \A r \in Slot : Defers(r, d)' <=> Defers(r, d)
      BY <1>1, <1>7, <1>11, <2>3 DEF Defers
    <3>4. /\ \A u \in Thread : Freeing(u, d)' <=> Freeing(u, d)
          /\ \A u \in Thread, l \in Class, i \in Nat : Reuses(u, l, i, d)' <=> Reuses(u, l, i, d)
      BY <1>9, <1>12, <1>20, <2>3
    <3>5. Single(d)
      BY DEF Stock
    <3> QED BY <1>13, <3>1, <3>2, <3>3, <3>4, <3>5, OwnerKept
  <2>4. CASE d # c /\ d \notin D /\ d \in hash[t]
    <3>1. o[1] = "hash" /\ o[2] = t
      BY <2>2, <2>4 DEF Only, InHash
    <3>2. /\ d \notin heap
          /\ \A u \in Thread : u # t => d \notin hash[u]
          /\ \A r \in Slot : ~ Defers(r, d)
          /\ \A a \in Alias : ~ InEntry(a, d)
          /\ \A u \in Thread : ~ Freeing(u, d)
          /\ \A u \in Thread, l \in Class, i \in Nat : ~ Reuses(u, l, i, d)
      BY <2>2, <3>1 DEF Only, InHash
    <3>3. d \notin R /\ \A r \in Slot : ~ Defers(r, d)'
      BY <1>1, <1>11, <2>4, <3>2 DEF Defers
    <3>4. /\ \A a \in Alias : ~ InEntry(a, d)'
          /\ \A u \in Thread : ~ Freeing(u, d)'
          /\ \A u \in Thread, l \in Class, i \in Nat : ~ Reuses(u, l, i, d)'
      BY <1>12, <1>13, <1>20, <2>4, <3>2
    <3>5. d \in hash'[t] <=> d \notin heap'
      BY <1>10, <2>4, <3>2, <3>3
    <3>6. \A u \in Thread : u # t => ~ InHash(u, d)'
      BY <1>10, <3>2 DEF InHash
    <3>7. CASE d \in hash'[t]
      <4>1. Owns(<<"hash", t>>, d)'
        BY <3>7 DEF Owns, InHash
      <4> QED BY <3>3, <3>4, <3>5, <3>6, <3>7, <4>1, OnlyOwner
    <3>8. CASE d \notin hash'[t]
      <4>1. Owns(<<"heap">>, d)'
        BY <3>5, <3>8 DEF Owns
      <4>2. \A u \in Thread : ~ InHash(u, d)'
        BY <3>6, <3>8 DEF InHash
      <4> QED BY <3>3, <3>4, <4>1, <4>2, OnlyOwner
    <3> QED BY <3>7, <3>8
  <2>5. CASE d = c \/ d \in D
    <3>1. /\ d \notin heap
          /\ \A u \in Thread : d \notin hash[u]
          /\ \A r \in Slot : r # s => ~ Defers(r, d)
          /\ \A a \in Alias : ~ InEntry(a, d)
          /\ \A u \in Thread : u # t => ~ Freeing(u, d)
          /\ \A u \in Thread, l \in Class, i \in Nat : ~ Reuses(u, l, i, d)
          /\ d = c => d \notin D
      <4>1. CASE d = c
        <5>1. o[1] = "freeing" /\ o[2] = t
          BY <1>8, <2>2, <4>1 DEF Only
        <5>2. ~ Defers(s, d)
          BY <1>1, <2>2, <5>1 DEF Only
        <5> QED BY <1>7, <2>2, <5>1, <5>2 DEF Only, InHash
      <4>2. CASE d \in D /\ d # c
        <5>1. o[1] = "deferred" /\ o[2] = s
          BY <1>1, <1>7, <2>2, <4>2 DEF Only
        <5> QED BY <2>2, <4>2, <5>1 DEF Only, InHash
      <4> QED BY <2>5, <4>1, <4>2
    <3>2. /\ \A u \in Thread : u # t => ~ InHash(u, d)'
          /\ \A r \in Slot : r # s => ~ Defers(r, d)'
          /\ \A a \in Alias : ~ InEntry(a, d)'
          /\ \A u \in Thread : ~ Freeing(u, d)'
      <4>1. \A u \in Thread : u # t => ~ InHash(u, d)'
        BY <1>10, <3>1 DEF InHash
      <4>2. \A r \in Slot : r # s => ~ Defers(r, d)'
        BY <1>11, <3>1 DEF Defers
      <4> QED BY <1>12, <1>13, <3>1, <4>1, <4>2
    <3>3. CASE room /\ d = c
      <4>1. d \notin R /\ d \notin Deferred(m4)
        BY <1>1, <3>1, <3>3 DEF kept
      <4>2. /\ d \notin heap' /\ ~ InHash(t, d)' /\ ~ Defers(s, d)'
        BY <1>1, <1>10, <1>11, <3>1, <4>1 DEF InHash, Defers
      <4>3. \A u \in Thread, l \in Class, i \in Nat :
              Reuses(u, l, i, d)' <=> (u = t /\ l = k /\ i = n + 1)
        BY <1>20, <3>1, <3>3
      <4>4. PICK l \in Class, i \in Nat : l = k /\ i = n + 1
        BY <1>1, <1>15
      <4>5. Owns(<<"reuse", t, l, i>>, d)'
        BY <4>3, <4>4 DEF Owns
      <4>6. \A v \in Thread, m \in Class, j \in Nat :
              Reuses(v, m, j, d)' => <<"reuse", t, l, i>> = <<"reuse", v, m, j>>
        BY <4>3, <4>4
      <4> QED BY <3>2, <4>2, <4>5, <4>6, OnlyOwner
    <3>4. CASE ~ (room /\ d = c) /\ d \in Deferred(m4)
      <4>1. d \notin R
        BY <3>4 DEF kept
      <4>2. d \notin heap' /\ ~ InHash(t, d)' /\ Defers(s, d)'
        BY <1>1, <1>10, <1>11, <3>1, <3>4, <4>1 DEF InHash, Defers
      <4>3. \A u \in Thread, l \in Class, i \in Nat : ~ Reuses(u, l, i, d)'
        BY <1>20, <3>1, <3>4
      <4>4. Owns(<<"deferred", s>>, d)'
        BY <1>1, <4>2 DEF Owns
      <4> QED BY <3>2, <4>2, <4>3, <4>4, OnlyOwner
    <3>5. CASE ~ (room /\ d = c) /\ d \notin Deferred(m4)
      <4>1. d \in R
        BY <2>5, <3>5 DEF kept
      <4>2. (d \in hash'[t] <=> d \notin heap') /\ ~ Defers(s, d)'
        BY <1>1, <1>10, <1>11, <3>1, <3>5, <4>1 DEF Defers
      <4>3. \A u \in Thread, l \in Class, i \in Nat : ~ Reuses(u, l, i, d)'
        BY <1>20, <3>1, <3>5
      <4>4. CASE d \in hash'[t]
        <5>1. Owns(<<"hash", t>>, d)'
          BY <4>4 DEF Owns, InHash
        <5> QED BY <3>2, <4>2, <4>3, <4>4, <5>1, OnlyOwner
      <4>5. CASE d \notin hash'[t]
        <5>1. Owns(<<"heap">>, d)'
          BY <4>2, <4>5 DEF Owns
        <5>2. \A u \in Thread : ~ InHash(u, d)'
          BY <3>2, <4>5 DEF InHash
        <5> QED BY <3>2, <4>2, <4>3, <5>1, <5>2, OnlyOwner
      <4> QED BY <4>4, <4>5
    <3> QED BY <3>3, <3>4, <3>5
  <2> QED BY <2>3, <2>4, <2>5
<1> QED BY <1>18, <1>19, <1>21 DEF Stock

(* Each block that waits in the reservation, and each block taken from     *)
(* mimalloc, gets an entry of its own, in a place that had none.           *)
LEMMA MallocRefillStock ==
  ASSUME IInv, Stock, NEW t \in Thread, NEW k \in Class, MallocRefill(t, k) PROVE Stock'
<1> DEFINE reuse == resv[t][k].reuse
           n == ResvLen[k]
           L == Len(reuse)
           T == [ready : Seq(Alias), reuse : Seq(Entry)]
<1>1. PICK start \in Alias,
           fresh \in [(L + 1) .. n -> {c \in heap : ClassOf[c] = k}] :
        /\ \A i, j \in DOMAIN fresh : fresh[i] = fresh[j] => i = j
        /\ AllocAlias(t, n, start)
        /\ entry' = [a \in Alias |->
             IF a \notin start .. start + n - 1 THEN entry[a]
             ELSE IF a - start < L THEN reuse[a - start + 1]
             ELSE FreshEntry(fresh[a - start + 1])]
        /\ heap' = heap \ {fresh[i] : i \in DOMAIN fresh}
        /\ resv' = [resv EXCEPT ![t][k] =
             [ready |-> [i \in 1 .. n - 1 |-> start + i], reuse |-> <<>>]]
  BY DEF MallocRefill
<1>2. UNCHANGED <<mpt, hash, pc, victim>> /\ resv[t][k].ready = <<>>
  BY DEF MallocRefill
<1>3. n \in 1 .. L1Len /\ L1Len \in Nat \ {0}
  BY BatchedFreeAssumption
<1> DEFINE range == start .. start + n - 1
<1>4. \A a \in range : a \in Alias /\ Unused(a) /\ ~ Unused(a)'
  <2>1. /\ \A a \in range : a \in Alias /\ a <= Top' /\ \A u \in Thread : a \notin Rest(u)'
        /\ \A a \in Alias : a \in range \/ Unused(a)' => Unused(a)
    <3> HIDE DEF n, reuse
    <3> QED BY <1>1, <1>3, AllocAliasFresh
  <2>2. \A a \in range : ~ Unused(a)'
    BY <2>1 DEF Unused
  <2> QED BY <2>1, <2>2
<1>5. \A a \in Alias : Unused(a)' => Unused(a)
  <2> HIDE DEF n, reuse
  <2> QED BY <1>1, <1>3, AllocAliasFresh
<1>6. /\ reuse \in Seq(Entry) /\ entry \in [Alias -> Entry \cup {None}]
      /\ resv \in [Thread -> [Class -> T]] /\ heap \in SUBSET Canon
  BY DEF IInv, Types
<1>7. start \in Nat /\ n \in Nat /\ n >= 1 /\ L \in Nat /\ L <= n
  <2>1. Places(t, k) /\ Len(<<>>) = 0
    BY DEF Stock
  <2>2. start \in Nat /\ n \in Nat /\ n >= 1 /\ L \in Nat
    BY <1>3, <1>6, TableOf
  <2>3. L + 0 <= n
    BY <1>2, <2>1 DEF Places
  <2> QED BY <2>2, <2>3
<1>8. DOMAIN reuse = 1 .. L /\ \A i \in 1 .. L : reuse[i] \in Entry
  BY <1>6
<1>9. ASSUME NEW i \in (L + 1) .. n PROVE fresh[i] \in heap /\ fresh[i] \in Canon
  BY <1>1, <1>6, <1>9
<1> DEFINE ready == [i \in 1 .. n - 1 |-> start + i]
<1>10. Len(ready) = n - 1
  BY <1>7
<1>11. /\ resv'[t][k] = [ready |-> ready, reuse |-> <<>>]
       /\ \A u \in Thread, l \in Class : ~ (u = t /\ l = k) => resv'[u][l] = resv[u][l]
  <2> HIDE DEF ready, n, reuse
  <2> DEFINE w == [ready |-> ready, reuse |-> <<>>]
  <2>1. resv' = [resv EXCEPT ![t] = [resv[t] EXCEPT ![k] = w]]
    BY <1>1 DEF ready, n
  <2> HIDE DEF w
  <2>2. \A u \in Thread : resv'[u] = IF u = t THEN [resv[t] EXCEPT ![k] = w] ELSE resv[u]
    BY <1>6, <2>1
  <2>3. resv[t] \in [Class -> T]
    BY <1>6
  <2> QED BY <2>2, <2>3 DEF w
<1> DEFINE blk(i) == IF i <= L THEN reuse[i].canon ELSE fresh[i]
<1>12. ASSUME NEW i \in 1 .. n
       PROVE  start + i - 1 \in range /\ entry'[start + i - 1] # None
              /\ entry'[start + i - 1].canon = blk(i)
  <2> DEFINE x == start + i - 1
  <2>1. i \in Nat /\ 1 <= i /\ i <= n
    BY <1>7
  <2>2. x \in range /\ x - start + 1 = i /\ (x - start < L <=> i <= L)
    <3>1. x \in range
      BY <1>7, <2>1
    <3>2. x - start = i - 1 /\ x - start + 1 = i
      BY <1>7, <2>1
    <3>3. i - 1 < L <=> i <= L
      BY <1>7, <2>1
    <3> QED BY <3>1, <3>2, <3>3
  <2>3. x \in Alias
    BY <1>4, <2>2
  <2>4. entry'[x] = IF i <= L THEN reuse[i] ELSE FreshEntry(fresh[i])
    <3> HIDE DEF x
    <3> QED BY <1>1, <2>2, <2>3
  <2>5. i <= L => reuse[i] \in Entry
    BY <1>8, <2>1
  <2>6. ~ (i <= L) => FreshEntry(fresh[i]) \in Entry /\ FreshEntry(fresh[i]).canon = fresh[i]
    <3> SUFFICES ASSUME ~ (i <= L)
                 PROVE  FreshEntry(fresh[i]) \in Entry /\ FreshEntry(fresh[i]).canon = fresh[i]
      OBVIOUS
    <3>1. i \in (L + 1) .. n
      BY <1>7, <2>1
    <3>2. fresh[i] \in Canon
      BY <1>9, <3>1
    <3> QED BY <3>2, FreeBufferAssumption DEF FreshEntry, Entry
  <2> HIDE DEF x
  <2> QED BY <2>2, <2>4, <2>5, <2>6, NoneIsNoEntry DEF x
<1>13. ASSUME NEW x \in range PROVE \E i \in 1 .. n : x = start + i - 1
  <2>1. x - start + 1 \in 1 .. n /\ x = start + (x - start + 1) - 1
    BY <1>7
  <2> QED BY <2>1
<1> HIDE DEF n, reuse, L, ready
<1>14. ASSUME NEW x \in Alias, NEW d \in Canon
       PROVE  InEntry(x, d)' <=> \/ x \notin range /\ InEntry(x, d)
                                 \/ \E i \in 1 .. n : x = start + i - 1 /\ blk(i) = d
  <2>1. CASE x \in range
    <3>1. PICK i \in 1 .. n : x = start + i - 1
      BY <1>13, <2>1
    <3>2. \A j \in 1 .. n : x = start + j - 1 => j = i
      BY <1>7, <3>1
    <3>3. InEntry(x, d)' <=> blk(i) = d
      <4> HIDE DEF blk
      <4> QED BY <1>12, <3>1 DEF InEntry
    <3> HIDE DEF blk
    <3> QED BY <2>1, <3>1, <3>2, <3>3
  <2>2. CASE x \notin range
    <3>1. entry'[x] = entry[x]
      BY <1>1, <2>2 DEF n
    <3>2. \A i \in 1 .. n : x # start + i - 1
      BY <1>12, <2>2
    <3> QED BY <2>2, <3>1, <3>2 DEF InEntry
  <2> QED BY <2>1, <2>2
<1>15. \A x \in range, d \in Canon : ~ InEntry(x, d)
  BY <1>4 DEF Stock, Blank, InEntry
<1>16. Blank'
  <2>1. ASSUME NEW a \in Alias, Unused(a)' PROVE entry'[a] = None
    <3>1. a \notin range /\ entry[a] = None
      BY <1>4, <1>5, <2>1 DEF Stock, Blank
    <3> QED BY <1>1, <3>1 DEF n
  <2> QED BY <2>1 DEF Blank
<1>17. ASSUME NEW u \in Thread, NEW l \in Class PROVE Places(u, l)'
  <2>1. CASE u = t /\ l = k
    <3>1. Len(resv'[u][l].reuse) = 0 /\ Len(resv'[u][l].ready) = n - 1
      BY <1>10, <1>11, <2>1
    <3> QED BY <1>7, <2>1, <3>1 DEF Places, n
  <2>2. CASE ~ (u = t /\ l = k)
    BY <1>11, <2>2 DEF Stock, Places
  <2> QED BY <2>1, <2>2
<1>18. \A d \in Canon, i \in Nat : Reuses(t, k, i, d) <=> i \in 1 .. L /\ reuse[i].canon = d
  BY <1>8 DEF Reuses, reuse
<1>19. /\ \A d \in Canon, i \in Nat : ~ Reuses(t, k, i, d)'
       /\ \A d \in Canon, u \in Thread, l \in Class, i \in Nat :
            ~ (u = t /\ l = k) => (Reuses(u, l, i, d)' <=> Reuses(u, l, i, d))
  <2>1. resv'[t][k].reuse = <<>> /\ DOMAIN <<>> = {}
    BY <1>11
  <2> QED BY <1>11, <2>1 DEF Reuses
<1>20. \A d \in Canon : /\ \A u \in Thread : InHash(u, d)' <=> InHash(u, d)
                        /\ \A r \in Slot : Defers(r, d)' <=> Defers(r, d)
                        /\ \A u \in Thread : Freeing(u, d)' <=> Freeing(u, d)
  BY <1>2 DEF InHash, Defers, Deferred, Freeing
<1>21. \A d : d \in heap' <=> d \in heap /\ \A i \in (L + 1) .. n : fresh[i] # d
  BY <1>1
<1>22. ASSUME NEW d \in Canon PROVE Single(d)'
  <2>1. PICK o : \A p : Owns(p, d) <=> p = o
    BY DEF Stock, Single
  <2>2. Only(o, d)
    BY <2>1, Alone
  <2>3. ASSUME NEW i \in 1 .. n, blk(i) = d,
               \A j \in 1 .. n : blk(j) = d => j = i,
               d \notin heap',
               \A u \in Thread : ~ InHash(u, d) /\ ~ Freeing(u, d),
               \A r \in Slot : ~ Defers(r, d),
               \A a \in Alias : ~ InEntry(a, d),
               \A u \in Thread, l \in Class, j \in Nat : ~ (u = t /\ l = k) => ~ Reuses(u, l, j, d)
        PROVE  Single(d)'
    <3> HIDE DEF blk
    <3>1. PICK b \in Alias : b = start + i - 1
      BY <1>4, <1>12
    <3>2. InEntry(b, d)'
      BY <1>14, <2>3, <3>1
    <3>3. \A a \in Alias : InEntry(a, d)' => a = b
      BY <1>14, <2>3, <3>1
    <3>4. Owns(<<"entry", b>>, d)'
      BY <3>2 DEF Owns
    <3>5. /\ \A u \in Thread : ~ InHash(u, d)' /\ ~ Freeing(u, d)'
          /\ \A r \in Slot : ~ Defers(r, d)'
          /\ \A u \in Thread, l \in Class, j \in Nat : ~ Reuses(u, l, j, d)'
      BY <1>19, <1>20, <2>3
    <3> QED BY <2>3, <3>3, <3>4, <3>5, OnlyOwner
  <2>4. CASE \E i \in 1 .. L : reuse[i].canon = d
    <3>1. PICK i \in 1 .. L : reuse[i].canon = d
      BY <2>4
    <3>2. i \in Nat /\ i \in 1 .. n /\ i <= L
      BY <1>7
    <3>3. Reuses(t, k, i, d)
      BY <1>18, <3>1, <3>2
    <3>4. o[1] = "reuse" /\ o[2] = t /\ o[3] = k /\ o[4] = i
      BY <2>2, <3>2, <3>3 DEF Only
    <3>5. d \notin heap
      BY <2>2, <3>4 DEF Only
    <3>6. ASSUME NEW j \in 1 .. n, blk(j) = d PROVE j = i
      <4>1. CASE j <= L
        <5>1. j \in Nat /\ j \in 1 .. L
          BY <1>7, <4>1
        <5>2. Reuses(t, k, j, d)
          BY <1>18, <3>6, <4>1, <5>1
        <5> QED BY <2>2, <3>4, <5>1, <5>2 DEF Only
      <4>2. CASE ~ (j <= L)
        <5>1. j \in (L + 1) .. n
          BY <1>7, <4>2
        <5> QED BY <1>9, <3>5, <3>6, <4>2, <5>1
      <4> QED BY <4>1, <4>2
    <3>7. blk(i) = d /\ d \notin heap'
      BY <1>21, <3>1, <3>2, <3>5
    <3>8. /\ \A u \in Thread : ~ InHash(u, d) /\ ~ Freeing(u, d)
          /\ \A r \in Slot : ~ Defers(r, d)
          /\ \A a \in Alias : ~ InEntry(a, d)
          /\ \A u \in Thread, l \in Class, j \in Nat : ~ (u = t /\ l = k) => ~ Reuses(u, l, j, d)
      BY <2>2, <3>4 DEF Only
    <3> HIDE DEF blk
    <3> QED BY <2>3, <3>2, <3>6, <3>7, <3>8
  <2>5. CASE /\ \A i \in 1 .. L : reuse[i].canon # d
             /\ \E i \in (L + 1) .. n : fresh[i] = d
    <3>1. PICK i \in (L + 1) .. n : fresh[i] = d
      BY <2>5
    <3>2. d \in heap /\ d \notin heap'
      BY <1>9, <1>21, <3>1
    <3>3. o[1] = "heap"
      BY <2>2, <3>2 DEF Only
    <3>4. i \in 1 .. n /\ ~ (i <= L)
      BY <1>7
    <3>5. ASSUME NEW j \in 1 .. n, blk(j) = d PROVE j = i
      <4>1. CASE j <= L
        <5>1. j \in 1 .. L
          BY <1>7, <4>1
        <5> QED BY <2>5, <3>5, <4>1, <5>1
      <4>2. CASE ~ (j <= L)
        <5>1. j \in (L + 1) .. n
          BY <1>7, <4>2
        <5>2. DOMAIN fresh = (L + 1) .. n
          BY <1>1
        <5> QED BY <1>1, <3>1, <3>5, <4>2, <5>1, <5>2
      <4> QED BY <4>1, <4>2
    <3>6. blk(i) = d
      BY <3>1, <3>4
    <3>7. /\ \A u \in Thread : ~ InHash(u, d) /\ ~ Freeing(u, d)
          /\ \A r \in Slot : ~ Defers(r, d)
          /\ \A a \in Alias : ~ InEntry(a, d)
          /\ \A u \in Thread, l \in Class, j \in Nat : ~ (u = t /\ l = k) => ~ Reuses(u, l, j, d)
      BY <2>2, <3>3 DEF Only
    <3> HIDE DEF blk
    <3> QED BY <2>3, <3>2, <3>4, <3>5, <3>6, <3>7
  <2>6. CASE /\ \A i \in 1 .. L : reuse[i].canon # d
             /\ \A i \in (L + 1) .. n : fresh[i] # d
    <3>1. d \in heap' <=> d \in heap
      BY <1>21, <2>6
    <3>2. \A j \in 1 .. n : blk(j) # d
      <4> SUFFICES ASSUME NEW j \in 1 .. n PROVE blk(j) # d
        OBVIOUS
      <4>1. j \in 1 .. L \/ (~ (j <= L) /\ j \in (L + 1) .. n)
        BY <1>7
      <4>2. j \in 1 .. L => j <= L
        BY <1>7
      <4> QED BY <2>6, <4>1, <4>2
    <3> HIDE DEF blk
    <3>3. \A a \in Alias : InEntry(a, d)' <=> InEntry(a, d)
      BY <1>14, <1>15, <3>2
    <3>4. \A u \in Thread, l \in Class, i \in Nat : Reuses(u, l, i, d)' <=> Reuses(u, l, i, d)
      BY <1>18, <1>19, <2>6
    <3>5. Single(d)
      BY DEF Stock
    <3> QED BY <1>20, <3>1, <3>3, <3>4, <3>5, OwnerKept
  <2> QED BY <2>4, <2>5, <2>6
<1> QED BY <1>16, <1>17, <1>22 DEF Stock

LEMMA InitStock == Init => Stock
<1> SUFFICES ASSUME Init PROVE Stock
  OBVIOUS
<1>1. Blank
  BY DEF Init, Blank
<1>2. ASSUME NEW t \in Thread, NEW k \in Class PROVE Places(t, k)
  <2>1. resv[t][k].ready = <<>> /\ resv[t][k].reuse = <<>> /\ Len(<<>>) = 0
    BY DEF Init
  <2>2. ResvLen[k] \in 1 .. L1Len /\ L1Len \in Nat
    BY BatchedFreeAssumption
  <2>3. 0 + 0 <= ResvLen[k]
    BY <2>2
  <2> QED BY <2>1, <2>3 DEF Places
<1>3. ASSUME NEW d \in Canon PROVE Single(d)
  <2>1. d \in heap /\ Owns(<<"heap">>, d)
    BY DEF Init, Owns
  <2>2. /\ \A u \in Thread : ~ InHash(u, d) /\ ~ Freeing(u, d)
        /\ \A a \in Alias : ~ InEntry(a, d)
    BY DEF Init, InHash, Freeing, InEntry
  <2>3. \A r \in Slot : ~ Defers(r, d)
    <3>1. InitialBuffer.small = {} /\ InitialBuffer.large = {}
      BY DEF InitialBuffer
    <3> QED BY <3>1 DEF Init, Defers, Deferred
  <2>4. \A u \in Thread, l \in Class, i \in Nat : ~ Reuses(u, l, i, d)
    <3>1. \A u \in Thread, l \in Class : resv[u][l].reuse = <<>>
      BY DEF Init
    <3>2. DOMAIN <<>> = {}
      OBVIOUS
    <3> QED BY <3>1, <3>2 DEF Reuses
  <2>5. \A p : Owns(p, d) => p = <<"heap">>
    BY <2>2, <2>3, <2>4 DEF Owns
  <2> QED BY <2>1, <2>5 DEF Single
<1> QED BY <1>1, <1>2, <1>3 DEF Stock

LEMMA NextStock == IInv /\ Stock /\ [Next]_vars => Stock'
<1> SUFFICES ASSUME IInv, Stock, [Next]_vars PROVE Stock'
  OBVIOUS
<1>1. CASE UNCHANGED vars \/ Quiescent
  <2>1. UNCHANGED <<entry, mpt, resv, region, nextL1, hash, heap, pc, victim>>
    BY <1>1 DEF Quiescent, vars
  <2>2. /\ \A d \in Canon : \A r \in Slot : Defers(r, d)' <=> Defers(r, d)
        /\ \A d \in Canon : \A b \in Alias : InEntry(b, d)' <=> InEntry(b, d)
        /\ \A d \in Canon : \A u \in Thread : Freeing(u, d)' <=> Freeing(u, d)
    BY <2>1 DEF Defers, Deferred, InEntry, Freeing
  <2> QED BY <2>1, <2>2, StockKept
<1>2. ASSUME NEW t \in Thread, NEW k \in Class, MallocReserved(t, k) \/ MallocRefill(t, k)
      PROVE  Stock'
  BY <1>2, MallocReservedStock, MallocRefillStock
<1>3. ASSUME NEW t \in Thread, NEW a \in Alias, FreeClear(t, a) \/ PageFault(t, a) PROVE Stock'
  BY <1>3, FreeClearStock, PageFaultStock
<1>4. ASSUME NEW t \in Thread, Finish(t) PROVE Stock'
  BY <1>4, FreeLockStock, FreeBodyStock DEF Finish
<1>5. ASSUME NEW t \in Thread, Handler(t) PROVE Stock'
  BY <1>5, HandlerStock
<1> QED BY <1>1, <1>2, <1>3, <1>4, <1>5 DEF Next

(* A canonical block is never lost and never handed to two objects: at     *)
(* every moment it has one owner among mimalloc, the hash of a thread, the *)
(* deferral list of a slot, the entry of an object, a running free and the *)
(* reservation of a thread.                                                *)
THEOREM OneOwnerHolds == Spec => []OneOwner
<1>1. IInv /\ Stock => OneOwner
  <2> SUFFICES ASSUME IInv, Stock, NEW c \in Canon PROVE Cardinality(Owners(c)) = 1
    BY DEF OneOwner
  <2>1. PICK o : \A p : Owns(p, c) <=> p = o
    BY DEF Stock, Single
  <2> DEFINE Hash == {<<"hash", t>> : t \in {u \in Thread : c \in hash[u]}}
             Late == {<<"deferred", s>> : s \in {u \in Slot : c \in Deferred(mpt[u])}}
             Entries == {<<"entry", a>> : a \in {b \in Alias : entry[b] # None /\ entry[b].canon = c}}
             Frees == {<<"freeing", t>> : t \in {u \in Thread : pc[u] \in {"lock", "body"} /\ victim[u].canon = c}}
             Waits(t, k) == {<<"reuse", t, k, i>> : i \in {j \in DOMAIN resv[t][k].reuse :
                               resv[t][k].reuse[j].canon = c}}
  <2>2. Owners(c) = {<<"heap">> : x \in {c} \cap heap} \cup Hash \cup Late \cup Entries \cup Frees
                      \cup UNION {Waits(t, k) : t \in Thread, k \in Class}
    BY DEF Owners
  <2>3. \A p : p \in Hash <=> \E u \in Thread : p = <<"hash", u>> /\ InHash(u, c)
    BY DEF InHash
  <2>4. \A p : p \in Late <=> \E r \in Slot : p = <<"deferred", r>> /\ Defers(r, c)
    BY DEF Defers
  <2>5. \A p : p \in Entries <=> \E a \in Alias : p = <<"entry", a>> /\ InEntry(a, c)
    BY DEF InEntry
  <2>6. \A p : p \in Frees <=> \E u \in Thread : p = <<"freeing", u>> /\ Freeing(u, c)
    BY DEF Freeing
  <2>7. ASSUME NEW p
        PROVE  (\E t \in Thread, k \in Class : p \in Waits(t, k)) <=>
                 \E u \in Thread, l \in Class, i \in Nat : p = <<"reuse", u, l, i>> /\ Reuses(u, l, i, c)
    <3>1. \A u \in Thread, l \in Class : DOMAIN resv[u][l].reuse \subseteq Nat
      <4> SUFFICES ASSUME NEW u \in Thread, NEW l \in Class PROVE DOMAIN resv[u][l].reuse \subseteq Nat
        OBVIOUS
      <4>1. resv[u][l].reuse \in Seq(Entry)
        BY DEF IInv, Types
      <4> QED BY <4>1
    <3>2. ASSUME NEW u \in Thread, NEW l \in Class
          PROVE  p \in Waits(u, l) <=> \E i \in Nat : p = <<"reuse", u, l, i>> /\ Reuses(u, l, i, c)
      <4>1. p \in Waits(u, l) <=>
              \E i \in DOMAIN resv[u][l].reuse : p = <<"reuse", u, l, i>> /\ resv[u][l].reuse[i].canon = c
        OBVIOUS
      <4> HIDE DEF Waits
      <4> QED BY <3>1, <4>1 DEF Reuses
    <3> HIDE DEF Waits
    <3> QED BY <3>2
  <2>8. \A p : p \in UNION {Waits(t, k) : t \in Thread, k \in Class}
                 <=> \E t \in Thread, k \in Class : p \in Waits(t, k)
    <3> HIDE DEF Waits
    <3> QED OBVIOUS
  <2>9. \A p : p \in {<<"heap">> : x \in {c} \cap heap} <=> p = <<"heap">> /\ c \in heap
    OBVIOUS
  <2> HIDE DEF Hash, Late, Entries, Frees, Waits
  <2>10. \A p : p \in Owners(c) <=> Owns(p, c)
    BY <2>2, <2>3, <2>4, <2>5, <2>6, <2>7, <2>8, <2>9 DEF Owns
  <2>11. Owners(c) = {o}
    BY <2>1, <2>10
  <2> QED BY <2>11, FS_Singleton
<1> QED BY <1>1, Invariant, InitStock, NextStock, PTL DEF Spec
=============================================================================
