----------------------------- MODULE KmallocProofs -----------------------------
(***************************************************************************)
(* The kernel allocator for any number of threads and blocks and any sizes *)
(* of pages, headers and requests: the minors of a block lie one behind    *)
(* the other, its usage is what they take, and every minor is held.        *)
(***************************************************************************)
EXTENDS Kmalloc, SequenceTheorems, FiniteSetTheorems, WellFoundedInduction, TLAPS

MinorType == [at : Nat, size : Nat, req : Nat]

(* The space behind the i-th of some minors in a block of n bytes, and     *)
(* that none of them overlap.                                              *)
From(mins, i) == IF i = 0 THEN MajHdr ELSE End(mins[i])
To(mins, n, i) == IF i = Len(mins) THEN n ELSE mins[i + 1].at
Apart(mins, n) == \A i \in 0 .. Len(mins) : From(mins, i) <= To(mins, n, i)

Start(mins, i) == mins[i].at
Room(mins, i) == mins[i].size

TakenBy(mins) == Taken(mins)[Len(mins)]

LEMMA Constants ==
  /\ NBlock \in Nat \ {0} /\ PageSize \in Nat \ {0} /\ PageCount \in Nat \ {0}
  /\ MajHdr \in Nat \ {0} /\ MinHdr \in Nat \ {0} /\ AlignRoom \in Nat \ {0}
  /\ Requests \subseteq Nat /\ Nil \notin Block
BY KmallocAssumption

LEMMA HeaderIs == MinHdr \in Nat /\ 0 < MinHdr
BY KmallocAssumption

(* Induction on numbers: a set of them that has a member has a least one.  *)
LEMMA Least ==
  ASSUME NEW S \in SUBSET Nat, S # {}
  PROVE  \E r \in S : \A q \in S : r <= q
<1> DEFINE Below == {ss \in Nat \X Nat : ss[1] < ss[2]}
<1>1. IsWellFoundedOn(Below, Nat)
  BY NatLessThanWellFounded DEF OpToRel
<1>2. PICK s \in S : TRUE
  OBVIOUS
<1>3. PICK r \in S : \A q \in S : ~ (<<q, r>> \in Below)
  <2> HIDE DEF Below
  <2> QED BY <1>1, <1>2, WFMin
<1>4. ASSUME NEW q \in S PROVE r <= q
  <2>1. q \in Nat /\ r \in Nat
    OBVIOUS
  <2>2. ~ (q < r)
    BY <1>3, <2>1
  <2> QED BY <2>1, <2>2
<1> QED BY <1>4

LEMMA Upwards ==
  ASSUME NEW a \in Nat, NEW b \in Nat, NEW P, a \in P,
         \A i \in a .. b - 1 : i \in P => i + 1 \in P
  PROVE  \A i \in a .. b : i \in P
<1> DEFINE S == (a .. b) \ P
<1>1. S \in SUBSET Nat
  OBVIOUS
<1>2. ASSUME S # {} PROVE FALSE
  <2>1. PICK k \in S : \A q \in S : k <= q
    <3> HIDE DEF S
    <3> QED BY <1>1, <1>2, Least
  <2>2. k - 1 \in a .. b - 1 /\ k - 1 \notin S
    BY <2>1
  <2>3. k - 1 \in P
    BY <2>2
  <2>4. (k - 1) + 1 = k
    OBVIOUS
  <2> QED BY <2>2, <2>3, <2>4
<1> QED BY <1>2

LEMMA MinIs ==
  ASSUME NEW S \in SUBSET Nat, S # {}
  PROVE  Min(S) \in S /\ \A q \in S : Min(S) <= q
<1>1. PICK r \in S : \A q \in S : r <= q
  BY Least
<1> QED BY Zenon, <1>1 DEF Min

LEMMA MaxIs ==
  ASSUME NEW a \in Nat, NEW b \in Nat
  PROVE  Max({a, b}) \in {a, b} /\ Max({a, b}) >= a /\ Max({a, b}) >= b
<1>1. \E x \in {a, b} : \A y \in {a, b} : x >= y
  OBVIOUS
<1>2. Max({a, b}) \in {a, b} /\ \A y \in {a, b} : Max({a, b}) >= y
  BY Zenon, <1>1 DEF Max
<1> QED BY <1>2
-----------------------------------------------------------------------------
(***************************************************************************)
(* Sequences of minors.                                                    *)
(***************************************************************************)
LEMMA MinorIs ==
  ASSUME NEW mins \in Seq(MinorType)
  PROVE  /\ Len(mins) \in Nat /\ DOMAIN mins = 1 .. Len(mins)
         /\ \A i \in 1 .. Len(mins) :
              /\ mins[i] \in MinorType /\ Start(mins, i) \in Nat /\ Room(mins, i) \in Nat
              /\ End(mins[i]) = Start(mins, i) + MinHdr + Room(mins, i)
<1>1. \A i \in 1 .. Len(mins) : mins[i] \in MinorType
  BY ElementOfSeq
<1>2. \A m \in MinorType : m.at \in Nat /\ m.size \in Nat
  BY DEF MinorType
<1>3. Len(mins) \in Nat /\ DOMAIN mins = 1 .. Len(mins)
  BY LenProperties
<1>4. \A i \in 1 .. Len(mins) : End(mins[i]) = Start(mins, i) + MinHdr + Room(mins, i)
  BY DEF End, Start, Room
<1>5. ASSUME NEW i \in 1 .. Len(mins) PROVE Start(mins, i) \in Nat /\ Room(mins, i) \in Nat
  BY Zenon, <1>1, <1>2 DEF Start, Room
<1> QED BY <1>1, <1>3, <1>4, <1>5

LEMMA InsertIs ==
  ASSUME NEW s \in Seq(MinorType), NEW k \in 0 .. Len(s), NEW e \in MinorType
  PROVE  /\ InsertAt(s, k + 1, e) \in Seq(MinorType)
         /\ Len(InsertAt(s, k + 1, e)) = Len(s) + 1
         /\ \A i \in 1 .. k : InsertAt(s, k + 1, e)[i] = s[i]
         /\ InsertAt(s, k + 1, e)[k + 1] = e
         /\ \A i \in k + 2 .. Len(s) + 1 : InsertAt(s, k + 1, e)[i] = s[i - 1]
<1> DEFINE a == SubSeq(s, 1, k)
           c == SubSeq(s, k + 1, Len(s))
<1>1. Len(s) \in Nat /\ \A i \in 1 .. Len(s) : s[i] \in MinorType
  BY LenProperties, ElementOfSeq
<1>2. a \in Seq(MinorType) /\ Len(a) = k /\ \A i \in 1 .. k : a[i] = s[i]
  BY <1>1, SubSeqProperties
<1>3. c \in Seq(MinorType) /\ Len(c) = Len(s) - k /\ \A i \in 1 .. Len(s) - k : c[i] = s[k + i]
  BY <1>1, SubSeqProperties
<1>4. <<e>> \in Seq(MinorType) /\ Len(<<e>>) = 1 /\ <<e>>[1] = e
  OBVIOUS
<1> DEFINE ae == a \o <<e>>
<1> HIDE DEF a, c
<1>5. /\ ae \in Seq(MinorType) /\ Len(ae) = k + 1 /\ ae[k + 1] = e
      /\ \A i \in 1 .. k : ae[i] = s[i]
  BY <1>2, <1>4, ConcatProperties
<1> HIDE DEF ae
<1>6. /\ ae \o c \in Seq(MinorType) /\ Len(ae \o c) = Len(s) + 1
      /\ \A i \in 1 .. Len(s) + 1 : (ae \o c)[i] = IF i <= k + 1 THEN ae[i] ELSE c[i - (k + 1)]
  BY <1>1, <1>3, <1>5, ConcatProperties
<1> DEFINE t == InsertAt(s, k + 1, e)
<1>7. t = ae \o c
  <2>1. (k + 1) - 1 = k
    OBVIOUS
  <2> QED BY Zenon, <2>1 DEF InsertAt, a, c, ae
<1> HIDE DEF t
<1>8. \A i \in k + 2 .. Len(s) + 1 : t[i] = s[i - 1]
  <2> SUFFICES ASSUME NEW i \in k + 2 .. Len(s) + 1 PROVE t[i] = s[i - 1]
    OBVIOUS
  <2>1. i \in 1 .. Len(s) + 1 /\ ~ (i <= k + 1) /\ i - (k + 1) \in 1 .. Len(s) - k
    BY <1>1
  <2>2. t[i] = c[i - (k + 1)]
    BY <1>6, <1>7, <2>1
  <2>3. k + (i - (k + 1)) = i - 1
    OBVIOUS
  <2> QED BY <1>3, <2>1, <2>2, <2>3
<1>9. t \in Seq(MinorType) /\ Len(t) = Len(s) + 1
  BY <1>6, <1>7
<1>10. \A i \in 1 .. k + 1 : t[i] = ae[i]
  <2> SUFFICES ASSUME NEW i \in 1 .. k + 1 PROVE t[i] = ae[i]
    OBVIOUS
  <2>1. i \in 1 .. Len(s) + 1 /\ i <= k + 1
    BY <1>1
  <2> QED BY <1>6, <1>7, <2>1
<1>11. t[k + 1] = e /\ \A i \in 1 .. k : t[i] = s[i]
  BY <1>5, <1>10
<1> QED BY <1>8, <1>9, <1>11 DEF t

LEMMA RemoveIs ==
  ASSUME NEW S, NEW s \in Seq(S), NEW k \in 1 .. Len(s)
  PROVE  LET t == RemoveAt(s, k)
         IN /\ t \in Seq(S) /\ Len(t) = Len(s) - 1
            /\ \A i \in 1 .. k - 1 : t[i] = s[i]
            /\ \A i \in k .. Len(s) - 1 : t[i] = s[i + 1]
<1> DEFINE a == SubSeq(s, 1, k - 1)
           c == SubSeq(s, k + 1, Len(s))
<1>1. Len(s) \in Nat /\ \A i \in 1 .. Len(s) : s[i] \in S
  BY LenProperties, ElementOfSeq
<1>2. a \in Seq(S) /\ Len(a) = k - 1 /\ \A i \in 1 .. k - 1 : a[i] = s[i]
  BY <1>1, SubSeqProperties
<1>3. c \in Seq(S) /\ Len(c) = Len(s) - k /\ \A i \in 1 .. Len(s) - k : c[i] = s[k + i]
  BY <1>1, SubSeqProperties
<1> HIDE DEF a, c
<1>4. /\ a \o c \in Seq(S) /\ Len(a \o c) = Len(s) - 1
      /\ \A i \in 1 .. Len(s) - 1 : (a \o c)[i] = IF i <= k - 1 THEN a[i] ELSE c[i - (k - 1)]
  <2>1. Len(a) + Len(c) = Len(s) - 1
    BY <1>1, <1>2, <1>3
  <2>2. /\ a \o c \in Seq(S) /\ Len(a \o c) = Len(a) + Len(c)
        /\ \A i \in 1 .. Len(a) + Len(c) : (a \o c)[i] = IF i <= Len(a) THEN a[i] ELSE c[i - Len(a)]
    BY <1>2, <1>3, ConcatProperties
  <2> QED BY <1>2, <2>1, <2>2
<1> DEFINE t == RemoveAt(s, k)
<1>5. t = a \o c
  BY DEF RemoveAt, a, c
<1> HIDE DEF t
<1>6. \A i \in k .. Len(s) - 1 : t[i] = s[i + 1]
  <2> SUFFICES ASSUME NEW i \in k .. Len(s) - 1 PROVE t[i] = s[i + 1]
    OBVIOUS
  <2>1. i \in 1 .. Len(s) - 1 /\ ~ (i <= k - 1) /\ i - (k - 1) \in 1 .. Len(s) - k
    BY <1>1
  <2>2. t[i] = c[i - (k - 1)]
    BY <1>4, <1>5, <2>1
  <2>3. k + (i - (k - 1)) = i + 1
    OBVIOUS
  <2> QED BY <1>3, <2>1, <2>2, <2>3
<1> QED BY <1>1, <1>2, <1>4, <1>5, <1>6 DEF t

(* What the first i minors take: the recursion has a solution, since the   *)
(* least length without one would be one more than a length that has one.  *)
Adds(f, mins, n) ==
  f = [i \in 0 .. n |-> IF i = 0 THEN MajHdr ELSE f[i - 1] + mins[i].size + MinHdr]

LEMMA SumExists ==
  ASSUME NEW mins \in Seq(MinorType)
  PROVE  \E f : Adds(f, mins, Len(mins))
<1> DEFINE P == {n \in Nat : \E f : Adds(f, mins, n)}
<1>1. Len(mins) \in Nat
  BY LenProperties
<1>2. 0 \in P
  <2>1. Adds([i \in 0 .. 0 |-> MajHdr], mins, 0)
    BY DEF Adds
  <2> QED BY <2>1
<1>3. ASSUME NEW k \in 0 .. Len(mins) - 1, k \in P PROVE k + 1 \in P
  <2>1. PICK f : Adds(f, mins, k)
    BY <1>3
  <2> DEFINE n == k + 1
             g == [i \in 0 .. n |-> IF i = n THEN f[k] + mins[n].size + MinHdr ELSE f[i]]
  <2>2. \A i \in 0 .. k : f[i] = IF i = 0 THEN MajHdr ELSE f[i - 1] + mins[i].size + MinHdr
    BY <2>1 DEF Adds
  <2>3. ASSUME NEW i \in 0 .. n
        PROVE  g[i] = IF i = 0 THEN MajHdr ELSE g[i - 1] + mins[i].size + MinHdr
    <3>1. CASE i = n
      <4>1. k \in 0 .. n /\ k # n /\ i - 1 = k /\ i # 0
        BY <3>1
      <4>2. g[i - 1] = f[k]
        BY <4>1
      <4> QED BY <3>1, <4>1, <4>2
    <3>2. CASE i # n
      <4>1. i \in 0 .. k /\ (i # 0 => i - 1 \in 0 .. n /\ i - 1 # n)
        BY <3>2
      <4>2. g[i] = f[i] /\ (i # 0 => g[i - 1] = f[i - 1])
        BY <3>2, <4>1
      <4> HIDE DEF g
      <4> QED BY <2>2, <4>1, <4>2
    <3> QED BY <3>1, <3>2
  <2>4. g = [i \in 0 .. n |-> IF i = 0 THEN MajHdr ELSE g[i - 1] + mins[i].size + MinHdr]
    <3>1. g = [i \in 0 .. n |-> g[i]]
      OBVIOUS
    <3> HIDE DEF g
    <3> QED BY <2>3, <3>1
  <2>5. n \in Nat
    OBVIOUS
  <2> HIDE DEF g, n
  <2>6. Adds(g, mins, n)
    BY <2>4 DEF Adds
  <2> QED BY <2>5, <2>6 DEF n
<1> HIDE DEF P
<1>4. \A k \in 0 .. Len(mins) : k \in P
  BY <1>1, <1>2, <1>3, Upwards
<1>5. Len(mins) \in P
  BY <1>1, <1>4
<1> QED BY <1>5 DEF P

LEMMA TakenIs ==
  ASSUME NEW mins \in Seq(MinorType)
  PROVE  /\ Taken(mins)[0] = MajHdr
         /\ \A i \in 1 .. Len(mins) : Taken(mins)[i] = Taken(mins)[i - 1] + Room(mins, i) + MinHdr
         /\ \A i \in 0 .. Len(mins) : Taken(mins)[i] \in Nat
<1> DEFINE f == Taken(mins)
<1>1. Len(mins) \in Nat
  BY LenProperties
<1>2. \E g : Adds(g, mins, Len(mins))
  BY <1>1, SumExists
<1>3. f = CHOOSE g : Adds(g, mins, Len(mins))
  BY DEF Taken, Adds
<1>4. Adds(f, mins, Len(mins))
  <2> HIDE DEF f
  <2> QED BY <1>2, <1>3
<1> HIDE DEF f
<1>5. \A i \in 0 .. Len(mins) : f[i] = IF i = 0 THEN MajHdr ELSE f[i - 1] + Room(mins, i) + MinHdr
  BY <1>4 DEF Adds, Room
<1>6. f[0] = MajHdr /\ \A i \in 1 .. Len(mins) : f[i] = f[i - 1] + Room(mins, i) + MinHdr
  BY <1>1, <1>5
<1>7. \A i \in 0 .. Len(mins) : f[i] \in Nat
  <2> DEFINE P == {i \in Nat : f[i] \in Nat}
  <2>1. 0 \in P
    BY <1>6, Constants
  <2>2. ASSUME NEW i \in 0 .. Len(mins) - 1, i \in P PROVE i + 1 \in P
    <3>1. i + 1 \in 1 .. Len(mins) /\ (i + 1) - 1 = i
      BY <1>1
    <3>2. Room(mins, i + 1) \in Nat
      BY <3>1, MinorIs
    <3>3. f[i + 1] = f[i] + Room(mins, i + 1) + MinHdr
      BY <1>6, <3>1
    <3> QED BY <2>2, <3>2, <3>3, Constants
  <2> HIDE DEF P
  <2>3. \A i \in 0 .. Len(mins) : i \in P
    BY <1>1, <2>1, <2>2, Upwards
  <2> QED BY <2>3 DEF P
<1> QED BY <1>6, <1>7 DEF f

-----------------------------------------------------------------------------
(***************************************************************************)
(* The minors of a block in order.                                         *)
(***************************************************************************)
(* Ends and gaps, as numbers.                                              *)
LEMMA GapIs ==
  ASSUME NEW mins \in Seq(MinorType), NEW n \in Nat
  PROVE  /\ From(mins, 0) = MajHdr /\ To(mins, n, Len(mins)) = n
         /\ \A i \in 1 .. Len(mins) :
              /\ From(mins, i) = Start(mins, i) + MinHdr + Room(mins, i)
              /\ To(mins, n, i - 1) = Start(mins, i)
         /\ \A i \in 0 .. Len(mins) : From(mins, i) \in Nat /\ To(mins, n, i) \in Nat
<1>1. Len(mins) \in Nat
  BY LenProperties
<1>2. ASSUME NEW i \in 1 .. Len(mins)
      PROVE  /\ From(mins, i) = Start(mins, i) + MinHdr + Room(mins, i) /\ From(mins, i) \in Nat
             /\ To(mins, n, i - 1) = Start(mins, i) /\ Start(mins, i) \in Nat
  <2>1. i # 0 /\ i - 1 # Len(mins) /\ (i - 1) + 1 = i
    BY <1>1
  <2>2. Start(mins, i) \in Nat /\ Room(mins, i) \in Nat
    BY MinorIs
  <2>3. From(mins, i) = Start(mins, i) + MinHdr + Room(mins, i) /\ To(mins, n, i - 1) = Start(mins, i)
    BY <2>1 DEF From, To, End, Start, Room
  <2> QED BY <2>2, <2>3, HeaderIs
<1>3. From(mins, 0) = MajHdr /\ To(mins, n, Len(mins)) = n
  BY DEF From, To
<1>4. ASSUME NEW i \in 0 .. Len(mins) PROVE From(mins, i) \in Nat /\ To(mins, n, i) \in Nat
  <2>1. CASE i = 0 /\ Len(mins) = 0
    BY <1>3, <2>1, Constants
  <2>2. CASE i = 0 /\ Len(mins) # 0
    <3>1. 1 \in 1 .. Len(mins) /\ 1 - 1 = 0
      BY <1>1, <2>2
    <3> QED BY <1>2, <1>3, <2>2, <3>1, Constants
  <2>3. CASE i # 0 /\ i = Len(mins)
    <3>1. i \in 1 .. Len(mins)
      BY <2>3
    <3> QED BY <1>2, <1>3, <2>3, <3>1
  <2>4. CASE i # 0 /\ i # Len(mins)
    <3>1. i \in 1 .. Len(mins) /\ i + 1 \in 1 .. Len(mins) /\ (i + 1) - 1 = i
      BY <1>1, <2>4
    <3> QED BY <1>2, <3>1
  <2> QED BY <2>1, <2>2, <2>3, <2>4
<1> QED BY <1>2, <1>3, <1>4

(* Every minor lies behind the earlier ones.                               *)
LEMMA Rising ==
  ASSUME NEW mins \in Seq(MinorType), NEW n \in Nat, Apart(mins, n), NEW i \in 0 .. Len(mins)
  PROVE  \A j \in i + 1 .. Len(mins) : From(mins, i) <= Start(mins, j)
<1> DEFINE P == {j \in Nat : From(mins, i) <= Start(mins, j)}
<1>1. Len(mins) \in Nat /\ From(mins, i) \in Nat
  BY LenProperties, GapIs
<1>2. \A j \in 1 .. Len(mins) : From(mins, j - 1) <= Start(mins, j) /\ Start(mins, j) \in Nat
  <2> SUFFICES ASSUME NEW j \in 1 .. Len(mins)
               PROVE  From(mins, j - 1) <= Start(mins, j) /\ Start(mins, j) \in Nat
    OBVIOUS
  <2>1. j - 1 \in 0 .. Len(mins)
    BY <1>1
  <2> QED BY <2>1, GapIs, MinorIs DEF Apart
<1>3. CASE i = Len(mins)
  BY <1>1, <1>3
<1>4. CASE i # Len(mins)
  <2>1. i + 1 \in 1 .. Len(mins) /\ (i + 1) - 1 = i
    BY <1>1, <1>4
  <2>2. i + 1 \in P
    BY <1>2, <2>1
  <2>3. ASSUME NEW j \in i + 1 .. Len(mins) - 1, j \in P PROVE j + 1 \in P
    <3>1. j \in 1 .. Len(mins) /\ j + 1 \in 1 .. Len(mins) /\ (j + 1) - 1 = j
      BY <1>1
    <3>2. From(mins, j) <= Start(mins, j + 1) /\ Start(mins, j + 1) \in Nat
      BY <1>2, <3>1
    <3>3. From(mins, j) = Start(mins, j) + MinHdr + Room(mins, j) /\ Start(mins, j) \in Nat /\ Room(mins, j) \in Nat
      BY <3>1, GapIs, MinorIs
    <3>4. From(mins, i) <= Start(mins, j)
      BY <2>3
    <3>5. From(mins, i) <= Start(mins, j + 1)
      BY <1>1, <3>2, <3>3, <3>4, HeaderIs
    <3> QED BY <3>1, <3>5
  <2>4. i + 1 \in Nat
    OBVIOUS
  <2> HIDE DEF P
  <2>5. \A j \in i + 1 .. Len(mins) : j \in P
    BY <1>1, <2>2, <2>3, <2>4, Upwards
  <2> QED BY <2>5 DEF P
<1> QED BY <1>3, <1>4

LEMMA OneAt ==
  ASSUME NEW mins \in Seq(MinorType), NEW n \in Nat, Apart(mins, n),
         NEW i \in 1 .. Len(mins), NEW j \in 1 .. Len(mins), Start(mins, i) = Start(mins, j)
  PROVE  i = j
<1>1. Len(mins) \in Nat
  BY LenProperties
<1>2. ASSUME NEW a \in 1 .. Len(mins), NEW b \in 1 .. Len(mins), a < b
      PROVE  Start(mins, a) < Start(mins, b)
  <2>1. a \in 0 .. Len(mins) /\ b \in a + 1 .. Len(mins)
    BY <1>1, <1>2
  <2>2. From(mins, a) <= Start(mins, b)
    BY <2>1, Rising
  <2>3. From(mins, a) = Start(mins, a) + MinHdr + Room(mins, a)
    BY GapIs
  <2>4. Start(mins, a) \in Nat /\ Room(mins, a) \in Nat /\ Start(mins, b) \in Nat
    BY MinorIs
  <2>5. Start(mins, a) < From(mins, a) /\ From(mins, a) \in Nat
    BY <2>3, <2>4, HeaderIs
  <2> QED BY <2>2, <2>4, <2>5
<1>3. Start(mins, i) \in Nat
  BY MinorIs
<1>4. ~ (i < j) /\ ~ (j < i)
  BY <1>2, <1>3
<1> QED BY <1>4

(* What the minors take, with any one of the gaps, fits into the block.    *)
LEMMA TakenFits ==
  ASSUME NEW mins \in Seq(MinorType), NEW n \in Nat, Apart(mins, n)
  PROVE  \A i \in 0 .. Len(mins) : Taken(mins)[i] <= From(mins, i)
<1> DEFINE f == Taken(mins)
           P == {i \in Nat : f[i] <= From(mins, i)}
<1>1. Len(mins) \in Nat
  BY LenProperties
<1>2. /\ f[0] = MajHdr /\ \A i \in 0 .. Len(mins) : f[i] \in Nat
      /\ \A i \in 1 .. Len(mins) : f[i] = f[i - 1] + Room(mins, i) + MinHdr
  BY TakenIs
<1> HIDE DEF f
<1>3. 0 \in P
  BY <1>2, GapIs, Constants
<1>4. ASSUME NEW i \in 0 .. Len(mins) - 1, i \in P PROVE i + 1 \in P
  <2>1. i \in 0 .. Len(mins) /\ i + 1 \in 1 .. Len(mins) /\ (i + 1) - 1 = i
    BY <1>1
  <2>2. /\ From(mins, i) <= Start(mins, i + 1) /\ From(mins, i) \in Nat
        /\ From(mins, i + 1) = Start(mins, i + 1) + MinHdr + Room(mins, i + 1)
    BY <2>1, GapIs DEF Apart
  <2>3. Start(mins, i + 1) \in Nat /\ Room(mins, i + 1) \in Nat
    BY <2>1, MinorIs
  <2>4. f[i + 1] = f[i] + Room(mins, i + 1) + MinHdr /\ f[i] \in Nat
    BY <1>2, <2>1
  <2>5. f[i] <= From(mins, i)
    BY <1>4
  <2>6. f[i + 1] <= From(mins, i + 1)
    <3> HIDE DEF P
    <3> QED BY <2>2, <2>3, <2>4, <2>5, HeaderIs
  <2> QED BY <2>1, <2>6
<1> HIDE DEF P
<1>5. \A i \in 0 .. Len(mins) : i \in P
  BY <1>1, <1>3, <1>4, Upwards
<1> QED BY <1>5 DEF P, f

LEMMA GapFits ==
  ASSUME NEW mins \in Seq(MinorType), NEW n \in Nat, Apart(mins, n), NEW i \in 0 .. Len(mins)
  PROVE  TakenBy(mins) + (To(mins, n, i) - From(mins, i)) <= n
<1> DEFINE f == Taken(mins)
           gap == To(mins, n, i) - From(mins, i)
           P == {j \in Nat : f[j] + gap <= To(mins, n, j)}
<1>1. Len(mins) \in Nat
  BY LenProperties
<1>2. /\ \A j \in 0 .. Len(mins) : f[j] \in Nat
      /\ \A j \in 1 .. Len(mins) : f[j] = f[j - 1] + Room(mins, j) + MinHdr
  BY TakenIs
<1>3. f[i] <= From(mins, i) /\ From(mins, i) \in Nat /\ To(mins, n, i) \in Nat
  BY TakenFits, GapIs
<1> HIDE DEF f
<1>4. gap \in Int /\ i \in P
  BY <1>2, <1>3
<1> HIDE DEF gap
<1>5. ASSUME NEW j \in i .. Len(mins) - 1, j \in P PROVE j + 1 \in P
  <2>1. j \in 0 .. Len(mins) /\ j + 1 \in 0 .. Len(mins) /\ j + 1 \in 1 .. Len(mins) /\ (j + 1) - 1 = j
    BY <1>1
  <2>2. To(mins, n, j) = Start(mins, j + 1)
    <3>1. To(mins, n, (j + 1) - 1) = Start(mins, j + 1)
      BY <2>1, GapIs
    <3> QED BY <2>1, <3>1
  <2>3. /\ From(mins, j + 1) = Start(mins, j + 1) + MinHdr + Room(mins, j + 1)
        /\ From(mins, j + 1) <= To(mins, n, j + 1) /\ To(mins, n, j + 1) \in Nat
    BY <2>1, GapIs DEF Apart
  <2>4. Start(mins, j + 1) \in Nat /\ Room(mins, j + 1) \in Nat
    BY <2>1, MinorIs
  <2>5. f[j + 1] = f[j] + Room(mins, j + 1) + MinHdr /\ f[j] \in Nat
    BY <1>2, <2>1
  <2>6. f[j] + gap <= To(mins, n, j)
    BY <1>5
  <2>7. f[j + 1] + gap <= To(mins, n, j + 1)
    <3> HIDE DEF P
    <3>1. f[j] + gap <= Start(mins, j + 1)
      BY Zenon, <2>2, <2>6
    <3> QED BY <1>4, <2>3, <2>4, <2>5, <3>1, HeaderIs
  <2> QED BY <2>1, <2>7
<1> HIDE DEF P
<1>6. \A j \in i .. Len(mins) : j \in P
  <2>1. i \in Nat /\ Len(mins) \in Nat
    BY <1>1
  <2> QED BY <1>4, <1>5, <2>1, Upwards
<1>7. Len(mins) \in i .. Len(mins)
  BY <1>1
<1>8. f[Len(mins)] + gap <= To(mins, n, Len(mins))
  BY <1>6, <1>7 DEF P
<1> QED BY <1>8, GapIs DEF gap, f, TakenBy
-----------------------------------------------------------------------------
(***************************************************************************)
(* One minor comes into a block or leaves it.                              *)
(***************************************************************************)
Addresses(mins) == {Start(mins, i) : i \in 1 .. Len(mins)}

(* more is less with a minor behind its k-th.                              *)
Splice(less, more, k) ==
  /\ Len(more) = Len(less) + 1
  /\ \A i \in 1 .. k : more[i] = less[i]
  /\ \A i \in k + 1 .. Len(less) : more[i + 1] = less[i]

LEMMA SpliceGaps ==
  ASSUME NEW less \in Seq(MinorType), NEW more \in Seq(MinorType), NEW n \in Nat,
         NEW k \in 0 .. Len(less), Splice(less, more, k)
  PROVE  /\ \A i \in 0 .. k : From(more, i) = From(less, i)
         /\ \A i \in k + 1 .. Len(less) : From(more, i + 1) = From(less, i)
         /\ \A i \in 0 .. k - 1 : To(more, n, i) = To(less, n, i)
         /\ \A i \in k .. Len(less) : To(more, n, i + 1) = To(less, n, i)
<1>1. Len(less) \in Nat /\ Len(more) = Len(less) + 1
  BY LenProperties DEF Splice
<1>2. ASSUME NEW i \in 0 .. k PROVE From(more, i) = From(less, i)
  <2>1. CASE i = 0
    BY <2>1 DEF From
  <2>2. CASE i # 0
    <3>1. more[i] = less[i]
      BY <2>2 DEF Splice
    <3> QED BY Zenon, <3>1 DEF From
  <2> QED BY <2>1, <2>2
<1>3. ASSUME NEW i \in k + 1 .. Len(less) PROVE From(more, i + 1) = From(less, i)
  <2>1. more[i + 1] = less[i]
    BY DEF Splice
  <2>2. i # 0 /\ i + 1 # 0
    BY <1>1
  <2> QED BY Zenon, <2>1, <2>2 DEF From
<1>4. ASSUME NEW i \in 0 .. k - 1 PROVE To(more, n, i) = To(less, n, i)
  <2>1. i + 1 \in 1 .. k /\ i # Len(less) /\ i # Len(more)
    BY <1>1
  <2>2. more[i + 1] = less[i + 1]
    BY Zenon, <2>1 DEF Splice
  <2> QED BY Zenon, <2>1, <2>2 DEF To
<1>5. ASSUME NEW i \in k .. Len(less) PROVE To(more, n, i + 1) = To(less, n, i)
  <2>1. CASE i = Len(less)
    <3>1. i + 1 = Len(more)
      BY <1>1, <2>1
    <3> QED BY Zenon, <2>1, <3>1 DEF To
  <2>2. CASE i # Len(less)
    <3>1. i + 1 \in k + 1 .. Len(less) /\ i + 1 # Len(more)
      BY <1>1, <2>2
    <3>2. more[(i + 1) + 1] = less[i + 1]
      BY Zenon, <3>1 DEF Splice
    <3> QED BY Zenon, <2>2, <3>1, <3>2 DEF To
  <2> QED BY <2>1, <2>2
<1> QED BY <1>2, <1>3, <1>4, <1>5

LEMMA SpliceTaken ==
  ASSUME NEW less \in Seq(MinorType), NEW more \in Seq(MinorType),
         NEW k \in 0 .. Len(less), Splice(less, more, k)
  PROVE  TakenBy(more) = TakenBy(less) + Room(more, k + 1) + MinHdr
<1> DEFINE f == Taken(less)
           g == Taken(more)
           P == {i \in Nat : g[i] = f[i]}
           d == Room(more, k + 1) + MinHdr
           Q == {i \in Nat : g[i + 1] = f[i] + d}
<1>1. Len(less) \in Nat /\ Len(more) = Len(less) + 1
  BY LenProperties DEF Splice
<1>2. /\ f[0] = MajHdr /\ \A i \in 0 .. Len(less) : f[i] \in Nat
      /\ \A i \in 1 .. Len(less) : f[i] = f[i - 1] + Room(less, i) + MinHdr
  BY TakenIs
<1>3. /\ g[0] = MajHdr /\ \A i \in 0 .. Len(more) : g[i] \in Nat
      /\ \A i \in 1 .. Len(more) : g[i] = g[i - 1] + Room(more, i) + MinHdr
  BY TakenIs
<1> HIDE DEF f, g
<1>4. /\ \A i \in 1 .. k : Room(more, i) = Room(less, i)
      /\ \A i \in k + 1 .. Len(less) : Room(more, i + 1) = Room(less, i)
  BY Zenon DEF Splice, Room
<1>5. k + 1 \in 1 .. Len(more) /\ Room(more, k + 1) \in Nat
  BY <1>1, MinorIs
<1>6. d \in Nat
  BY <1>5, HeaderIs
<1>7. \A i \in 0 .. k : i \in P
  <2>1. 0 \in P
    BY <1>2, <1>3
  <2>2. ASSUME NEW i \in 0 .. k - 1, i \in P PROVE i + 1 \in P
    <3>1. i + 1 \in 1 .. k /\ i + 1 \in 1 .. Len(less) /\ i + 1 \in 1 .. Len(more) /\ (i + 1) - 1 = i
      BY <1>1
    <3>2. g[i] = f[i]
      BY <2>2
    <3>3. g[i + 1] = g[i] + Room(more, i + 1) + MinHdr /\ f[i + 1] = f[i] + Room(less, i + 1) + MinHdr
      BY <1>2, <1>3, <3>1
    <3>4. g[i + 1] = f[i + 1]
      BY <1>4, <3>1, <3>2, <3>3
    <3> QED BY <3>1, <3>4
  <2>3. k \in Nat
    BY <1>1
  <2> HIDE DEF P
  <2> QED BY <2>1, <2>2, <2>3, Upwards
<1>8. g[k] = f[k]
  <2>1. k \in P
    <3> HIDE DEF P
    <3> QED BY <1>7
  <2> QED BY <2>1
<1>9. k \in Q
  <2>1. g[k + 1] = g[(k + 1) - 1] + Room(more, k + 1) + MinHdr /\ (k + 1) - 1 = k
    BY <1>3, <1>5
  <2>2. f[k] \in Nat
    BY <1>2
  <2>3. g[k + 1] = f[k] + d
    BY <1>5, <1>8, <2>1, <2>2, HeaderIs
  <2> HIDE DEF d
  <2> QED BY <2>3
<1> HIDE DEF d
<1>10. ASSUME NEW i \in k .. Len(less) - 1, i \in Q PROVE i + 1 \in Q
  <2>1. /\ i + 1 \in k + 1 .. Len(less) /\ i + 1 \in 1 .. Len(less) /\ (i + 1) - 1 = i
        /\ (i + 1) + 1 \in 1 .. Len(more) /\ ((i + 1) + 1) - 1 = i + 1
        /\ i \in 0 .. Len(less)
    BY <1>1
  <2>2. g[i + 1] = f[i] + d
    BY <1>10
  <2>3. /\ g[(i + 1) + 1] = g[i + 1] + Room(more, (i + 1) + 1) + MinHdr
        /\ f[i + 1] = f[i] + Room(less, i + 1) + MinHdr /\ f[i] \in Nat
    BY <1>2, <1>3, <2>1
  <2>4. Room(more, (i + 1) + 1) = Room(less, i + 1) /\ Room(less, i + 1) \in Nat
    BY <1>4, <2>1, MinorIs
  <2>5. g[(i + 1) + 1] = f[i + 1] + d
    BY <1>6, <2>2, <2>3, <2>4, HeaderIs
  <2> QED BY <2>1, <2>5
<1> HIDE DEF P, Q
<1>11. \A i \in k .. Len(less) : i \in Q
  <2>1. k \in Nat /\ Len(less) \in Nat
    BY <1>1
  <2> QED BY <1>9, <1>10, <2>1, Upwards
<1>12. Len(less) \in Q
  BY <1>1, <1>11
<1>13. g[Len(more)] = f[Len(less)] + d
  BY <1>1, <1>12 DEF Q
<1>14. f[Len(less)] \in Nat
  BY <1>1, <1>2
<1>15. TakenBy(more) = TakenBy(less) + d /\ TakenBy(less) \in Nat
  BY <1>13, <1>14 DEF TakenBy, f, g
<1> QED BY <1>5, <1>15, HeaderIs DEF d

LEMMA SpliceApart ==
  ASSUME NEW less \in Seq(MinorType), NEW more \in Seq(MinorType), NEW n \in Nat,
         NEW k \in 0 .. Len(less), Splice(less, more, k)
  PROVE  /\ Apart(more, n) => Apart(less, n)
         /\ Apart(less, n) /\ From(less, k) <= Start(more, k + 1) /\ From(more, k + 1) <= To(less, n, k)
              => Apart(more, n)
<1>1. Len(less) \in Nat /\ Len(more) = Len(less) + 1
  BY LenProperties DEF Splice
<1>2. /\ \A i \in 0 .. k : From(more, i) = From(less, i)
      /\ \A i \in k + 1 .. Len(less) : From(more, i + 1) = From(less, i)
      /\ \A i \in 0 .. k - 1 : To(more, n, i) = To(less, n, i)
      /\ \A i \in k .. Len(less) : To(more, n, i + 1) = To(less, n, i)
  BY SpliceGaps
<1>3. k \in 0 .. Len(more) /\ k + 1 \in 1 .. Len(more) /\ (k + 1) - 1 = k /\ k + 1 \in 0 .. Len(more)
  BY <1>1
<1>4. /\ From(more, k + 1) = Start(more, k + 1) + MinHdr + Room(more, k + 1)
      /\ To(more, n, k) = Start(more, k + 1)
      /\ Start(more, k + 1) \in Nat /\ Room(more, k + 1) \in Nat
  <2>1. Start(more, k + 1) \in Nat /\ Room(more, k + 1) \in Nat
    BY <1>3, MinorIs
  <2>2. /\ From(more, k + 1) = Start(more, k + 1) + MinHdr + Room(more, k + 1)
        /\ To(more, n, (k + 1) - 1) = Start(more, k + 1)
    BY <1>3, GapIs
  <2> QED BY <1>3, <2>1, <2>2
<1>5. ASSUME Apart(more, n), NEW i \in 0 .. Len(less) PROVE From(less, i) <= To(less, n, i)
  <2>1. CASE i < k
    <3>1. i \in 0 .. k /\ i \in 0 .. k - 1 /\ i \in 0 .. Len(more)
      BY <1>1, <2>1
    <3> QED BY <1>2, <1>5, <3>1 DEF Apart
  <2>2. CASE i = k
    <3>1. From(less, k) <= Start(more, k + 1)
      BY <1>2, <1>3, <1>4, <1>5 DEF Apart
    <3>2. From(more, k + 1) <= To(less, n, k)
      BY <1>2, <1>3, <1>5 DEF Apart
    <3>3. From(less, k) \in Nat /\ To(less, n, k) \in Nat
      BY GapIs
    <3> QED BY <1>4, <2>2, <3>1, <3>2, <3>3, HeaderIs
  <2>3. CASE i > k
    <3>1. i \in k + 1 .. Len(less) /\ i \in k .. Len(less) /\ i + 1 \in 0 .. Len(more)
      BY <1>1, <2>3
    <3> QED BY <1>2, <1>5, <3>1 DEF Apart
  <2> QED BY <2>1, <2>2, <2>3
<1>6. ASSUME Apart(less, n), From(less, k) <= Start(more, k + 1), From(more, k + 1) <= To(less, n, k),
             NEW i \in 0 .. Len(more)
      PROVE  From(more, i) <= To(more, n, i)
  <2>1. CASE i < k
    <3>1. i \in 0 .. k /\ i \in 0 .. k - 1 /\ i \in 0 .. Len(less)
      BY <1>1, <2>1
    <3> QED BY <1>2, <1>6, <3>1 DEF Apart
  <2>2. CASE i = k
    BY <1>2, <1>4, <1>6, <2>2
  <2>3. CASE i = k + 1
    BY <1>2, <1>6, <2>3
  <2>4. CASE i > k + 1
    <3>1. /\ i - 1 \in k + 1 .. Len(less) /\ i - 1 \in k .. Len(less) /\ i - 1 \in 0 .. Len(less)
          /\ (i - 1) + 1 = i
      BY <1>1, <2>4
    <3>2. From(more, (i - 1) + 1) = From(less, i - 1) /\ To(more, n, (i - 1) + 1) = To(less, n, i - 1)
      BY <1>2, <3>1
    <3>3. From(less, i - 1) <= To(less, n, i - 1)
      BY <1>6, <3>1 DEF Apart
    <3> QED BY <3>1, <3>2, <3>3
  <2> QED BY <2>1, <2>2, <2>3, <2>4
<1>7. Apart(more, n) => Apart(less, n)
  BY <1>5 DEF Apart
<1> QED BY <1>6, <1>7 DEF Apart

LEMMA SpliceAddresses ==
  ASSUME NEW less \in Seq(MinorType), NEW more \in Seq(MinorType), NEW n \in Nat,
         NEW k \in 0 .. Len(less), Splice(less, more, k), Apart(more, n)
  PROVE  /\ Addresses(more) = Addresses(less) \cup {Start(more, k + 1)}
         /\ Start(more, k + 1) \notin Addresses(less)
<1>1. Len(less) \in Nat /\ Len(more) = Len(less) + 1
  BY LenProperties DEF Splice
<1>2. /\ \A i \in 1 .. k : Start(more, i) = Start(less, i)
      /\ \A i \in k + 1 .. Len(less) : Start(more, i + 1) = Start(less, i)
  BY Zenon DEF Splice, Start
<1>3. ASSUME NEW i \in 1 .. Len(less)
      PROVE  \E j \in 1 .. Len(more) : j # k + 1 /\ Start(less, i) = Start(more, j)
  <2>1. CASE i <= k
    <3>1. i \in 1 .. k /\ i \in 1 .. Len(more) /\ i # k + 1
      BY <1>1, <2>1
    <3> QED BY <1>2, <3>1
  <2>2. CASE ~ (i <= k)
    <3>1. i \in k + 1 .. Len(less) /\ i + 1 \in 1 .. Len(more) /\ i + 1 # k + 1
      BY <1>1, <2>2
    <3> QED BY <1>2, <3>1
  <2> QED BY <2>1, <2>2
<1>4. ASSUME NEW j \in 1 .. Len(more), j # k + 1
      PROVE  \E i \in 1 .. Len(less) : Start(less, i) = Start(more, j)
  <2>1. CASE j <= k
    <3>1. j \in 1 .. k /\ j \in 1 .. Len(less)
      BY <1>1, <2>1
    <3> QED BY <1>2, <3>1
  <2>2. CASE ~ (j <= k)
    <3>1. j - 1 \in k + 1 .. Len(less) /\ j - 1 \in 1 .. Len(less) /\ (j - 1) + 1 = j
      BY <1>1, <1>4, <2>2
    <3>2. Start(more, (j - 1) + 1) = Start(less, j - 1)
      BY <1>2, <3>1
    <3> QED BY <3>1, <3>2
  <2> QED BY <2>1, <2>2
<1>5. k + 1 \in 1 .. Len(more)
  BY <1>1
<1>6. Start(more, k + 1) \notin Addresses(less)
  <2> SUFFICES ASSUME NEW i \in 1 .. Len(less), Start(more, k + 1) = Start(less, i) PROVE FALSE
    BY DEF Addresses
  <2>1. PICK j \in 1 .. Len(more) : j # k + 1 /\ Start(less, i) = Start(more, j)
    BY <1>3
  <2>2. j = k + 1
    BY <1>5, <2>1, OneAt
  <2> QED BY <2>1, <2>2
<1>7. Addresses(more) \subseteq Addresses(less) \cup {Start(more, k + 1)}
  BY <1>4 DEF Addresses
<1>8. Addresses(less) \cup {Start(more, k + 1)} \subseteq Addresses(more)
  BY <1>3, <1>5 DEF Addresses
<1> QED BY <1>6, <1>7, <1>8

(* A new minor at the front of the space behind the k-th one.              *)
LEMMA Inserted ==
  ASSUME NEW mins \in Seq(MinorType), NEW n \in Nat, Apart(mins, n), NEW k \in 0 .. Len(mins),
         NEW m \in MinorType, m.at = From(mins, k), m.at + MinHdr + m.size <= To(mins, n, k)
  PROVE  LET new == InsertAt(mins, k + 1, m)
         IN /\ new \in Seq(MinorType) /\ Len(new) = Len(mins) + 1 /\ Apart(new, n)
            /\ TakenBy(new) = TakenBy(mins) + m.size + MinHdr
            /\ Addresses(new) = Addresses(mins) \cup {m.at} /\ m.at \notin Addresses(mins)
<1> DEFINE new == InsertAt(mins, k + 1, m)
<1>1. Len(mins) \in Nat
  BY LenProperties
<1>2. /\ new \in Seq(MinorType) /\ Len(new) = Len(mins) + 1
      /\ \A i \in 1 .. k : new[i] = mins[i]
      /\ new[k + 1] = m
      /\ \A i \in k + 2 .. Len(mins) + 1 : new[i] = mins[i - 1]
  BY ZenonT(40), InsertIs
<1> HIDE DEF new
<1>3. ASSUME NEW i \in k + 1 .. Len(mins) PROVE new[i + 1] = mins[i]
  <2>1. i + 1 \in k + 2 .. Len(mins) + 1 /\ (i + 1) - 1 = i
    BY <1>1
  <2>2. new[i + 1] = mins[(i + 1) - 1]
    BY <1>2, <2>1
  <2> QED BY Zenon, <2>1, <2>2
<1>4. Splice(mins, new, k)
  BY <1>2, <1>3 DEF Splice
<1>5. Start(new, k + 1) = m.at /\ Room(new, k + 1) = m.size
  BY Zenon, <1>2 DEF Start, Room
<1>6. k + 1 \in 1 .. Len(new)
  BY <1>1, <1>2
<1>7. From(new, k + 1) = m.at + MinHdr + m.size
  BY <1>2, <1>5, <1>6, GapIs
<1>8. From(mins, k) \in Nat
  BY GapIs
<1>9. Apart(new, n)
  BY <1>2, <1>4, <1>5, <1>7, <1>8, SpliceApart
<1>10. TakenBy(new) = TakenBy(mins) + m.size + MinHdr
  BY <1>2, <1>4, <1>5, SpliceTaken
<1>11. Addresses(new) = Addresses(mins) \cup {m.at} /\ m.at \notin Addresses(mins)
  BY <1>2, <1>4, <1>5, <1>9, SpliceAddresses
<1> QED BY <1>2, <1>9, <1>10, <1>11 DEF new

(* The k-th minor leaves.                                                  *)
LEMMA Removed ==
  ASSUME NEW mins \in Seq(MinorType), NEW n \in Nat, Apart(mins, n), NEW k \in 1 .. Len(mins)
  PROVE  LET new == RemoveAt(mins, k)
         IN /\ new \in Seq(MinorType) /\ Len(new) = Len(mins) - 1 /\ Apart(new, n)
            /\ TakenBy(mins) = TakenBy(new) + Room(mins, k) + MinHdr
            /\ Addresses(mins) = Addresses(new) \cup {Start(mins, k)}
            /\ Start(mins, k) \notin Addresses(new)
<1> DEFINE new == RemoveAt(mins, k)
<1>1. Len(mins) \in Nat
  BY LenProperties
<1>2. /\ new \in Seq(MinorType) /\ Len(new) = Len(mins) - 1
      /\ \A i \in 1 .. k - 1 : new[i] = mins[i]
      /\ \A i \in k .. Len(mins) - 1 : new[i] = mins[i + 1]
  BY RemoveIs
<1> HIDE DEF new
<1>3. k - 1 \in 0 .. Len(new) /\ (k - 1) + 1 = k /\ Len(mins) = Len(new) + 1
  BY <1>1, <1>2
<1>4. Splice(new, mins, k - 1)
  BY <1>1, <1>2, <1>3 DEF Splice
<1>5. Apart(new, n)
  BY <1>2, <1>3, <1>4, SpliceApart
<1>6. TakenBy(mins) = TakenBy(new) + Room(mins, k) + MinHdr
  <2>1. TakenBy(mins) = TakenBy(new) + Room(mins, (k - 1) + 1) + MinHdr
    BY <1>2, <1>3, <1>4, SpliceTaken
  <2> QED BY <1>3, <2>1
<1>7. /\ Addresses(mins) = Addresses(new) \cup {Start(mins, k)}
      /\ Start(mins, k) \notin Addresses(new)
  <2>1. /\ Addresses(mins) = Addresses(new) \cup {Start(mins, (k - 1) + 1)}
        /\ Start(mins, (k - 1) + 1) \notin Addresses(new)
    BY <1>2, <1>3, <1>4, SpliceAddresses
  <2> QED BY <1>3, <2>1
<1> QED BY <1>2, <1>5, <1>6, <1>7 DEF new

(* A minor gets another req and stays where it is.                         *)
LEMMA Resized ==
  ASSUME NEW mins \in Seq(MinorType), NEW n \in Nat, Apart(mins, n),
         NEW k \in 1 .. Len(mins), NEW r \in Nat
  PROVE  LET new == [mins EXCEPT ![k].req = r]
         IN /\ new \in Seq(MinorType) /\ Len(new) = Len(mins) /\ Apart(new, n)
            /\ TakenBy(new) = TakenBy(mins) /\ Addresses(new) = Addresses(mins)
<1> DEFINE new == [mins EXCEPT ![k].req = r]
<1>1. Len(mins) \in Nat /\ DOMAIN mins = 1 .. Len(mins) /\ \A i \in 1 .. Len(mins) : mins[i] \in MinorType
  BY MinorIs
<1>2. [mins[k] EXCEPT !.req = r] \in MinorType /\ [mins[k] EXCEPT !.req = r].at = mins[k].at
      /\ [mins[k] EXCEPT !.req = r].size = mins[k].size
  BY <1>1 DEF MinorType
<1>3. new = [mins EXCEPT ![k] = [mins[k] EXCEPT !.req = r]]
  OBVIOUS
<1> DEFINE m == [mins[k] EXCEPT !.req = r]
<1> HIDE DEF new, m
<1>4. new \in Seq(MinorType) /\ Len(new) = Len(mins) /\ \A i \in 1 .. Len(mins) : new[i] = IF i = k THEN m ELSE mins[i]
  <2>1. new = [mins EXCEPT ![k] = m] /\ m \in MinorType
    BY <1>2, <1>3 DEF m
  <2>2. new \in Seq(MinorType) /\ Len(new) = Len(mins)
    BY <2>1, ExceptSeq
  <2> QED BY <1>1, <2>1, <2>2
<1>5. \A i \in 1 .. Len(mins) : Start(new, i) = Start(mins, i) /\ Room(new, i) = Room(mins, i)
  <2> SUFFICES ASSUME NEW i \in 1 .. Len(mins)
               PROVE  Start(new, i) = Start(mins, i) /\ Room(new, i) = Room(mins, i)
    OBVIOUS
  <2>1. m.at = mins[k].at /\ m.size = mins[k].size
    BY <1>2 DEF m
  <2>2. CASE i = k
    BY Zenon, <1>4, <2>1, <2>2 DEF Start, Room
  <2>3. CASE i # k
    BY Zenon, <1>4, <2>3 DEF Start, Room
  <2> QED BY <2>2, <2>3
<1>6. Apart(new, n)
  <2> SUFFICES ASSUME NEW i \in 0 .. Len(mins) PROVE From(new, i) <= To(new, n, i)
    BY <1>4 DEF Apart
  <2>1. From(mins, i) <= To(mins, n, i)
    BY DEF Apart
  <2>2. From(new, i) = From(mins, i)
    <3>1. CASE i = 0
      BY <3>1 DEF From
    <3>2. CASE i # 0
      <4>1. Len(new) = Len(mins) /\ Len(mins) \in Nat
        BY <1>1, <1>4
      <4>2. i \in 1 .. Len(mins) /\ i \in 1 .. Len(new)
        BY <3>2, <4>1
      <4>3. From(new, i) = Start(new, i) + MinHdr + Room(new, i)
        BY <1>4, <4>2, GapIs
      <4>4. From(mins, i) = Start(mins, i) + MinHdr + Room(mins, i)
        BY <4>2, GapIs
      <4> QED BY <1>5, <4>2, <4>3, <4>4
    <3> QED BY <3>1, <3>2
  <2>3. To(new, n, i) = To(mins, n, i)
    <3>1. CASE i = Len(mins)
      BY <1>4, <3>1 DEF To
    <3>2. CASE i # Len(mins)
      <4>1. i + 1 \in 1 .. Len(mins) /\ i + 1 \in 1 .. Len(new) /\ (i + 1) - 1 = i
        <5>1. Len(new) = Len(mins) /\ Len(mins) \in Nat
          BY <1>1, <1>4
        <5> QED BY <3>2, <5>1
      <4>2. To(new, n, (i + 1) - 1) = Start(new, i + 1) /\ To(mins, n, (i + 1) - 1) = Start(mins, i + 1)
        BY <1>4, <4>1, GapIs
      <4> QED BY <1>5, <4>1, <4>2
    <3> QED BY <3>1, <3>2
  <2> QED BY <2>1, <2>2, <2>3
<1>7. Addresses(new) = Addresses(mins)
  BY <1>4, <1>5 DEF Addresses
<1>8. TakenBy(new) = TakenBy(mins)
  <2> DEFINE f == Taken(mins)
             g == Taken(new)
             P == {i \in Nat : g[i] = f[i]}
  <2>1. f[0] = MajHdr /\ \A i \in 1 .. Len(mins) : f[i] = f[i - 1] + Room(mins, i) + MinHdr
    BY TakenIs
  <2>2. g[0] = MajHdr /\ \A i \in 1 .. Len(mins) : g[i] = g[i - 1] + Room(new, i) + MinHdr
    BY <1>4, TakenIs
  <2> HIDE DEF f, g
  <2>3. 0 \in P
    BY <2>1, <2>2
  <2>4. ASSUME NEW i \in 0 .. Len(mins) - 1, i \in P PROVE i + 1 \in P
    <3>1. i + 1 \in 1 .. Len(mins) /\ (i + 1) - 1 = i /\ i + 1 \in Nat
      BY <1>1
    <3>2. g[i] = f[i]
      BY <2>4
    <3>3. g[i + 1] = f[i + 1]
      BY <1>5, <2>1, <2>2, <3>1, <3>2
    <3> QED BY <3>1, <3>3
  <2> HIDE DEF P
  <2>5. \A i \in 0 .. Len(mins) : i \in P
    BY <1>1, <2>3, <2>4, Upwards
  <2>6. g[Len(mins)] = f[Len(mins)]
    BY <1>1, <2>5 DEF P
  <2> QED BY <1>4, <2>6 DEF TakenBy, f, g
<1> QED BY <1>4, <1>6, <1>7, <1>8 DEF new
-----------------------------------------------------------------------------
(***************************************************************************)
(* The inductive invariant: listed blocks are in order and count what      *)
(* their minors take, the pointers that are held are the minors, each held *)
(* by one thread, and what krealloc is about to free is still held.        *)
(***************************************************************************)
Listed == ToSet(majors)
BlockType == [pages : Nat, usage : Nat, minors : Seq(MinorType)]
Extent(r) == r.pages * PageSize

Sound(r) ==
  /\ r \in BlockType /\ Extent(r) \in Nat /\ Len(r.minors) > 0
  /\ Apart(r.minors, Extent(r)) /\ r.usage = TakenBy(r.minors)

Blocks ==
  /\ majors \in Seq(Block) /\ IsInjective(majors) /\ Len(majors) <= NBlock
  /\ DOMAIN block = Block /\ block = [b \in Block |-> block[b]]
  /\ \A b \in Listed : Sound(block[b])
  /\ \A b \in Block \ Listed : block[b] = Nil
  /\ best # Nil => best \in Listed

(* The pointers into the listed blocks.                                    *)
Places(blocks, blk) == {p \in blocks \X Nat : p[2] \in Addresses(blk[p[1]].minors)}
Holdings == [Thread -> SUBSET (Block \X Nat)]
HeldIn(hld) == UNION {hld[t] : t \in Thread}
Alone(hld) == \A t, u \in Thread : t # u => hld[t] \cap hld[u] = {}

Owned ==
  /\ held \in Holdings
  /\ Places(Listed, block) = HeldIn(held) /\ Alone(held)

Growing ==
  /\ DOMAIN grow = Thread /\ grow = [t \in Thread |-> grow[t]]
  /\ \A t \in Thread : grow[t] # Nil =>
       /\ grow[t] \in [old : Block \X Nat, req : Requests, moved : BOOLEAN]
       /\ grow[t].old \in held[t]

Flags == lost \in BOOLEAN /\ crashed \in BOOLEAN

KInv == Blocks /\ Owned /\ Growing /\ Flags

(* What the definitions of the allocator say of a listed block.            *)
LEMMA BlockIs ==
  ASSUME Blocks, NEW b \in Listed
  PROVE  /\ b \in Block /\ block[b] \in BlockType
         /\ Minors(b) \in Seq(MinorType) /\ Len(Minors(b)) > 0 /\ Len(Minors(b)) \in Nat
         /\ Bytes(b) = Extent(block[b]) /\ Bytes(b) \in Nat /\ Apart(Minors(b), Bytes(b))
         /\ block[b].usage = TakenBy(Minors(b)) /\ block[b].usage \in Nat /\ block[b].usage <= Bytes(b)
         /\ Free(b) = Bytes(b) - block[b].usage /\ Free(b) \in Nat
<1>1. Sound(block[b])
  BY DEF Blocks
<1>2. b \in Block
  <2>1. DOMAIN majors = 1 .. Len(majors) /\ \A i \in 1 .. Len(majors) : majors[i] \in Block
    BY LenProperties, ElementOfSeq DEF Blocks
  <2> QED BY <2>1 DEF Listed, ToSet
<1>3. block[b] \in BlockType
  BY <1>1 DEF Sound
<1>4. block[b].minors \in Seq(MinorType) /\ block[b].usage \in Nat
  BY <1>3 DEF BlockType
<1>5. Minors(b) = block[b].minors /\ Bytes(b) = Extent(block[b])
  BY DEF Minors, Bytes, Extent
<1>6. Minors(b) \in Seq(MinorType) /\ Len(Minors(b)) > 0 /\ Len(Minors(b)) \in Nat
  <2>1. Minors(b) \in Seq(MinorType)
    BY Zenon, <1>4, <1>5
  <2>2. Len(Minors(b)) > 0
    BY Zenon, <1>1, <1>5 DEF Sound
  <2> QED BY <2>1, <2>2, LenProperties
<1>7. Bytes(b) \in Nat /\ Apart(Minors(b), Bytes(b)) /\ block[b].usage = TakenBy(Minors(b))
  BY Zenon, <1>1, <1>5 DEF Sound
<1> DEFINE u == block[b].usage
<1>8. u <= Bytes(b)
  <2> DEFINE mins == Minors(b)
             n == Bytes(b)
  <2>1. mins \in Seq(MinorType) /\ n \in Nat /\ Apart(mins, n) /\ u = TakenBy(mins) /\ u \in Nat /\ 0 \in 0 .. Len(mins)
    BY <1>4, <1>6, <1>7
  <2> HIDE DEF mins, n, u
  <2>2. TakenBy(mins) + (To(mins, n, 0) - From(mins, 0)) <= n
    BY <2>1, GapFits
  <2>3. From(mins, 0) <= To(mins, n, 0) /\ From(mins, 0) \in Nat /\ To(mins, n, 0) \in Nat
    BY <2>1, GapIs DEF Apart
  <2>4. u <= n
    BY <2>1, <2>2, <2>3
  <2> QED BY <2>4 DEF n
<1>9. Free(b) = Bytes(b) - u
  BY DEF Free
<1>10. u \in Nat
  BY <1>4
<1> HIDE DEF u
<1>11. Free(b) \in Nat
  BY <1>7, <1>8, <1>9, <1>10
<1> QED BY <1>2, <1>3, <1>6, <1>7, <1>5, <1>8, <1>9, <1>10, <1>11 DEF u

(* No gap is larger than what is free in all.                              *)
LEMMA GapsOf ==
  ASSUME Blocks, NEW b \in Listed
  PROVE  /\ \A i \in 0 .. Len(Minors(b)) :
              /\ GapStart(b, i) = From(Minors(b), i) /\ GapEnd(b, i) = To(Minors(b), Bytes(b), i)
              /\ GapStart(b, i) \in Nat /\ GapEnd(b, i) \in Nat /\ GapStart(b, i) <= GapEnd(b, i)
              /\ GapEnd(b, i) - GapStart(b, i) <= Free(b)
         /\ \A need \in Nat : Gaps(b, need) \in SUBSET Nat
<1> DEFINE mins == Minors(b)
           n == Bytes(b)
           u == block[b].usage
<1>1. /\ mins \in Seq(MinorType) /\ Len(mins) \in Nat /\ n \in Nat /\ Apart(mins, n)
      /\ u = TakenBy(mins) /\ u \in Nat /\ Free(b) = n - u
  BY BlockIs
<1>2. ASSUME NEW i \in 0 .. Len(Minors(b))
      PROVE  GapStart(b, i) = From(mins, i) /\ GapEnd(b, i) = To(mins, n, i)
  BY DEF GapStart, GapEnd, From, To
<1>3. ASSUME NEW i \in 0 .. Len(mins)
      PROVE  /\ From(mins, i) \in Nat /\ To(mins, n, i) \in Nat /\ From(mins, i) <= To(mins, n, i)
             /\ To(mins, n, i) - From(mins, i) <= Free(b)
  <2> HIDE DEF mins, n, u
  <2>1. From(mins, i) \in Nat /\ To(mins, n, i) \in Nat
    BY <1>1, GapIs
  <2>2. From(mins, i) <= To(mins, n, i)
    BY <1>1 DEF Apart
  <2>3. TakenBy(mins) + (To(mins, n, i) - From(mins, i)) <= n
    BY <1>1, GapFits
  <2> QED BY <1>1, <2>1, <2>2, <2>3
<1>4. \A need \in Nat : Gaps(b, need) \in SUBSET Nat
  BY <1>1 DEF Gaps
<1> HIDE DEF n
<1>5. \A i \in 0 .. Len(Minors(b)) :
        /\ GapStart(b, i) = From(mins, i) /\ GapEnd(b, i) = To(mins, n, i)
        /\ GapStart(b, i) \in Nat /\ GapEnd(b, i) \in Nat /\ GapStart(b, i) <= GapEnd(b, i)
        /\ GapEnd(b, i) - GapStart(b, i) <= Free(b)
  <2> SUFFICES ASSUME NEW i \in 0 .. Len(Minors(b))
               PROVE  /\ GapStart(b, i) = From(mins, i) /\ GapEnd(b, i) = To(mins, n, i)
                      /\ GapStart(b, i) \in Nat /\ GapEnd(b, i) \in Nat /\ GapStart(b, i) <= GapEnd(b, i)
                      /\ GapEnd(b, i) - GapStart(b, i) <= Free(b)
    OBVIOUS
  <2>1. GapStart(b, i) = From(mins, i) /\ GapEnd(b, i) = To(mins, n, i)
    BY <1>2
  <2>2. /\ From(mins, i) \in Nat /\ To(mins, n, i) \in Nat /\ From(mins, i) <= To(mins, n, i)
        /\ To(mins, n, i) - From(mins, i) <= Free(b)
    BY <1>3
  <2> HIDE DEF mins
  <2> QED BY <2>1, <2>2
<1> QED BY <1>4, <1>5 DEF n

(***************************************************************************)
(* The order of the search.                                                *)
(***************************************************************************)
LEMMA MajorsIs ==
  ASSUME Blocks
  PROVE  /\ Len(majors) \in Nat /\ DOMAIN majors = 1 .. Len(majors)
         /\ majors \in Seq(Listed) /\ Listed \subseteq Block
         /\ \A b \in Listed : \E i \in 1 .. Len(majors) : majors[i] = b
<1>1. majors \in Seq(Block)
  BY DEF Blocks
<1>2. /\ Len(majors) \in Nat /\ DOMAIN majors = 1 .. Len(majors)
      /\ \A i \in 1 .. Len(majors) : majors[i] \in Block
  BY <1>1, LenProperties, ElementOfSeq
<1>3. \A i \in 1 .. Len(majors) : majors[i] \in Listed
  BY <1>2 DEF Listed, ToSet
<1>4. majors \in Seq(Listed)
  <2> HIDE DEF Listed
  <2>1. majors = [i \in 1 .. Len(majors) |-> majors[i]]
    BY <1>1, LenProperties
  <2>2. [i \in 1 .. Len(majors) |-> majors[i]] \in Seq(Listed)
    BY <1>2, <1>3, IsASeq
  <2> QED BY <2>1, <2>2
<1> QED BY <1>2, <1>3, <1>4 DEF Listed, ToSet

LEMMA OrderIs ==
  ASSUME Blocks, NEW need
  PROVE  /\ Order(need) \in Seq(Listed)
         /\ \A b \in Listed : \E i \in 1 .. Len(Order(need)) : Order(need)[i] = b
<1> USE MajorsIs
<1>1. CASE ~ StartsAtBest(need)
  <2>1. Order(need) = majors
    BY <1>1 DEF Order
  <2> QED BY <2>1
<1>2. CASE StartsAtBest(need)
  <2> DEFINE k == CHOOSE i \in DOMAIN majors : majors[i] = best
             front == SubSeq(majors, k, Len(majors))
  <2>1. best \in Listed
    BY <1>2 DEF StartsAtBest, Blocks
  <2>2. k \in 1 .. Len(majors)
    <3>1. \E i \in DOMAIN majors : majors[i] = best
      BY <2>1
    <3> QED BY <3>1
  <2> HIDE DEF k
  <2>3. \A i \in k .. Len(majors) : majors[i] \in Listed
    BY <2>2, ElementOfSeq
  <2>4. front \in Seq(Listed) /\ Len(front) \in Nat
    <3>1. front \in Seq(Listed)
      BY <2>2, <2>3, SubSeqProperties
    <3> QED BY <3>1, LenProperties
  <2>5. Order(need) = front \o majors
    BY <1>2 DEF Order, k
  <2> HIDE DEF front
  <2>6. /\ front \o majors \in Seq(Listed)
        /\ Len(front \o majors) = Len(front) + Len(majors)
        /\ \A i \in 1 .. Len(front) + Len(majors) :
             (front \o majors)[i] = IF i <= Len(front) THEN front[i] ELSE majors[i - Len(front)]
    BY <2>4, ConcatProperties
  <2>7. ASSUME NEW b \in Listed PROVE \E i \in 1 .. Len(Order(need)) : Order(need)[i] = b
    <3>1. PICK i \in 1 .. Len(majors) : majors[i] = b
      OBVIOUS
    <3> DEFINE j == Len(front) + i
    <3>2. j \in 1 .. Len(front) + Len(majors) /\ ~ (j <= Len(front)) /\ j - Len(front) = i
      BY <2>4
    <3> HIDE DEF j
    <3>3. (front \o majors)[j] = majors[i]
      BY <2>6, <3>2
    <3> QED BY <2>5, <2>6, <3>1, <3>2, <3>3
  <2> QED BY <2>5, <2>6, <2>7
<1> QED BY <1>1, <1>2

LEMMA FirstFitIs ==
  ASSUME Blocks, NEW need \in Nat
  PROVE  /\ FirstFit(need) = 0 => \A b \in Listed : ~ Fits(b, need)
         /\ FirstFit(need) # 0 =>
              /\ FirstFit(need) \in 1 .. Len(Order(need))
              /\ Fits(Order(need)[FirstFit(need)], need)
              /\ Order(need)[FirstFit(need)] \in Listed
<1> DEFINE order == Order(need)
           fit == {i \in DOMAIN order : Fits(order[i], need)}
<1>1. order \in Seq(Listed) /\ \A b \in Listed : \E i \in 1 .. Len(order) : order[i] = b
  BY OrderIs
<1>2. FirstFit(need) = IF fit = {} THEN 0 ELSE Min(fit)
  BY DEF FirstFit
<1> HIDE DEF order
<1>3. /\ Len(order) \in Nat /\ DOMAIN order = 1 .. Len(order)
      /\ \A i \in 1 .. Len(order) : order[i] \in Listed
  BY <1>1, LenProperties, ElementOfSeq
<1>4. CASE fit = {}
  <2>1. \A b \in Listed : ~ Fits(b, need)
    BY <1>1, <1>3, <1>4
  <2> QED BY <1>2, <1>4, <2>1
<1>5. CASE fit # {}
  <2>1. fit \in SUBSET Nat
    BY <1>3
  <2>2. Min(fit) \in fit
    <3> HIDE DEF fit
    <3> QED BY <1>5, <2>1, MinIs
  <2>3. /\ Min(fit) \in 1 .. Len(order) /\ Fits(order[Min(fit)], need) /\ order[Min(fit)] \in Listed
    <3> DEFINE m == Min(fit)
    <3>1. m \in fit
      BY <2>2
    <3> HIDE DEF m
    <3> QED BY <1>3, <3>1 DEF m
  <2>4. FirstFit(need) = Min(fit)
    BY <1>2, <1>5
  <2> HIDE DEF fit
  <2>5. FirstFit(need) # 0
    BY <1>3, <2>3, <2>4
  <2> QED BY <2>3, <2>4, <2>5 DEF order
<1> QED BY <1>4, <1>5

LEMMA BestOfIs ==
  ASSUME Blocks, NEW seen \in Seq(Listed)
  PROVE  BestOf(seen) # Nil => BestOf(seen) \in Listed
<1> DEFINE size == IF best = Nil THEN 0 ELSE Free(best)
           better == {i \in DOMAIN seen :
                        /\ size < Free(seen[i])
                        /\ \A j \in DOMAIN seen : Free(seen[j]) <= Free(seen[i])
                        /\ \A j \in 1 .. i - 1 : Free(seen[j]) < Free(seen[i])}
<1>1. BestOf(seen) = IF better = {} THEN best ELSE seen[CHOOSE i \in better : TRUE]
  BY Zenon DEF BestOf
<1>2. better \subseteq DOMAIN seen
  OBVIOUS
<1>3. DOMAIN seen = 1 .. Len(seen) /\ \A i \in 1 .. Len(seen) : seen[i] \in Listed
  BY LenProperties, ElementOfSeq
<1>4. best # Nil => best \in Listed
  BY DEF Blocks
<1> HIDE DEF better
<1>5. CASE better = {}
  BY Zenon, <1>1, <1>4, <1>5
<1>6. CASE better # {}
  <2> DEFINE k == CHOOSE i \in better : TRUE
  <2>1. k \in better
    BY <1>6
  <2>2. BestOf(seen) = seen[k]
    BY Zenon, <1>1, <1>6
  <2> HIDE DEF k
  <2>3. k \in 1 .. Len(seen)
    BY <1>2, <1>3, <2>1
  <2>4. seen[k] \in Listed
    BY <1>3, <2>3
  <2> QED BY Zenon, <2>2, <2>4
<1> QED BY <1>5, <1>6
-----------------------------------------------------------------------------
(***************************************************************************)
(* Blocks that get a minor or lose one.                                    *)
(***************************************************************************)
LEMMA Times ==
  ASSUME NEW a \in Nat, NEW b \in Nat, NEW c \in Nat, a <= b
  PROVE  a * c \in Nat /\ b * c \in Nat /\ a * c <= b * c
OBVIOUS

LEMMA Ceiling ==
  ASSUME NEW x \in Nat, NEW c \in Nat \ {0}
  PROVE  (x + c - 1) \div c \in Nat /\ x <= ((x + c - 1) \div c) * c
<1> DEFINE y == x + c - 1
           q == y \div c
<1>1. y \in Nat /\ y = x + c - 1 /\ c \in Nat /\ c > 0
  OBVIOUS
<1> HIDE DEF y
<1>2. q \in Nat
  BY <1>1
<1>3. y < c * q + c
  BY <1>1
<1> DEFINE p == c * q
<1> HIDE DEF q
<1>4. p \in Nat /\ p = q * c
  BY <1>1, <1>2
<1> HIDE DEF p
<1>5. y < p + c
  BY <1>3 DEF p
<1>6. x <= p
  BY <1>1, <1>4, <1>5
<1> QED BY <1>2, <1>4, <1>6 DEF q, y

LEMMA PagesAreEnough ==
  ASSUME NEW req \in Nat
  PROVE  /\ Size(req) \in Nat /\ Need(req) = Size(req) + MinHdr /\ Need(req) \in Nat
         /\ PagesFor(req) \in Nat /\ PagesFor(req) * PageSize \in Nat
         /\ MajHdr + Need(req) <= PagesFor(req) * PageSize
<1> DEFINE x == Size(req) + MajHdr + MinHdr
           q == (x + PageSize - 1) \div PageSize
           p == PagesFor(req)
<1>1. Size(req) \in Nat
  BY Constants DEF Size
<1>2. Need(req) = Size(req) + MinHdr /\ Need(req) \in Nat /\ x \in Nat /\ x = MajHdr + Need(req)
  BY <1>1, Constants DEF Need
<1>3. p = Max({PageCount, q})
  BY DEF PagesFor
<1> HIDE DEF x
<1>4. q \in Nat /\ x <= q * PageSize
  BY <1>2, Constants, Ceiling
<1> HIDE DEF q, p
<1>5. PageCount \in Nat /\ PageSize \in Nat
  BY Constants
<1>6. p \in Nat /\ q <= p
  BY <1>3, <1>4, <1>5, MaxIs
<1>7. q * PageSize \in Nat /\ p * PageSize \in Nat /\ q * PageSize <= p * PageSize
  BY <1>4, <1>5, <1>6, Times
<1>8. x <= p * PageSize
  BY <1>2, <1>4, <1>7
<1> QED BY <1>1, <1>2, <1>6, <1>7, <1>8 DEF p

LEMMA MinorOf ==
  ASSUME NEW at \in Nat, NEW req \in Nat
  PROVE  /\ Minor(at, req) \in MinorType
         /\ Minor(at, req).at = at /\ Minor(at, req).size = Size(req)
BY PagesAreEnough DEF Minor, MinorType

LEMMA NewIs ==
  ASSUME NEW req \in Nat
  PROVE  /\ Sound(NewBlock(req)) /\ NewBlock(req).usage = MajHdr + Need(req)
         /\ Addresses(NewBlock(req).minors) = {MajHdr}
<1> DEFINE m == Minor(MajHdr, req)
           mins == <<m>>
           n == PagesFor(req) * PageSize
           new == NewBlock(req)
<1>1. MajHdr \in Nat
  BY Constants
<1>2. m \in MinorType /\ m.at = MajHdr /\ m.size = Size(req)
  BY <1>1, MinorOf
<1>3. /\ Size(req) \in Nat /\ Need(req) = Size(req) + MinHdr /\ Need(req) \in Nat
      /\ PagesFor(req) \in Nat /\ n \in Nat /\ MajHdr + Need(req) <= n
  BY PagesAreEnough
<1>4. new = [pages |-> PagesFor(req), usage |-> MajHdr + Need(req), minors |-> mins]
  BY DEF NewBlock
<1> HIDE DEF m, new
<1>5. mins \in Seq(MinorType) /\ Len(mins) = 1 /\ mins[1] = m
  BY <1>2
<1> HIDE DEF mins
<1>6. new.pages = PagesFor(req) /\ new.usage = MajHdr + Need(req) /\ new.minors = mins
  BY <1>4
<1>7. MajHdr + Need(req) \in Nat
  BY <1>1, <1>3
<1>8. new \in BlockType
  BY <1>3, <1>4, <1>5, <1>7 DEF BlockType
<1>9. Start(mins, 1) = MajHdr /\ Room(mins, 1) = Size(req)
  BY Zenon, <1>2, <1>5 DEF Start, Room
<1>10. Extent(new) = n
  BY <1>6 DEF Extent
<1> HIDE DEF n
<1>11. Apart(mins, n)
  <2>1. /\ From(mins, 0) = MajHdr /\ To(mins, n, 1) = n /\ To(mins, n, 1 - 1) = Start(mins, 1)
        /\ From(mins, 1) = Start(mins, 1) + MinHdr + Room(mins, 1)
    <3>1. 1 \in 1 .. Len(mins)
      BY <1>5
    <3> QED BY <1>3, <1>5, <3>1, GapIs
  <2>2. From(mins, 0) <= To(mins, n, 0)
    BY <1>1, <1>9, <2>1
  <2>3. From(mins, 1) <= To(mins, n, 1)
    BY <1>1, <1>3, <1>9, <2>1, HeaderIs
  <2>4. 0 .. Len(mins) = {0, 1}
    BY <1>5
  <2> QED BY <2>2, <2>3, <2>4 DEF Apart
<1>12. TakenBy(mins) = MajHdr + Need(req)
  <2>1. 1 \in 1 .. Len(mins) /\ 1 - 1 = 0
    BY <1>5
  <2>2. Taken(mins)[0] = MajHdr /\ Taken(mins)[1] = Taken(mins)[1 - 1] + Room(mins, 1) + MinHdr
    BY <1>5, <2>1, TakenIs
  <2>3. Taken(mins)[1] = MajHdr + Size(req) + MinHdr
    BY <1>9, <2>1, <2>2
  <2>4. TakenBy(mins) = Taken(mins)[1]
    BY <1>5 DEF TakenBy
  <2> QED BY <1>1, <1>3, <2>3, <2>4, HeaderIs
<1>13. Sound(new)
  <2>1. Len(mins) > 0
    BY <1>5
  <2> QED BY Zenon, <1>3, <1>6, <1>8, <1>10, <1>11, <1>12, <2>1 DEF Sound
<1>14. Addresses(mins) = {MajHdr}
  <2>1. 1 .. Len(mins) = {1}
    BY <1>5
  <2> QED BY <1>9, <2>1 DEF Addresses
<1> QED BY Zenon, <1>6, <1>13, <1>14 DEF new

LEMMA PlacedIs ==
  ASSUME Blocks, NEW b \in Listed, NEW req \in Nat, Fits(b, Need(req))
  PROVE  LET at == GapStart(b, Min(Gaps(b, Need(req))))
         IN /\ Sound(PlacedIn(b, req)) /\ at \in Nat
            /\ Addresses(PlacedIn(b, req).minors) = Addresses(Minors(b)) \cup {at}
            /\ at \notin Addresses(Minors(b))
<1> DEFINE need == Need(req)
           k == Min(Gaps(b, need))
           at == GapStart(b, k)
           m == Minor(at, req)
           mins == Minors(b)
           n == Bytes(b)
           old == block[b]
           more == InsertAt(mins, k + 1, m)
           new == PlacedIn(b, req)
<1>1. /\ Size(req) \in Nat /\ need = Size(req) + MinHdr /\ need \in Nat
  BY PagesAreEnough
<1>2. k \in Gaps(b, need)
  <2>1. Gaps(b, need) # {}
    BY DEF Fits
  <2>2. Gaps(b, need) \in SUBSET Nat
    BY <1>1, GapsOf
  <2> HIDE DEF need
  <2> QED BY <2>1, <2>2, MinIs
<1> HIDE DEF k
<1>3. k \in 0 .. Len(mins) /\ GapEnd(b, k) - GapStart(b, k) >= need
  BY <1>2 DEF Gaps
<1>4. /\ GapStart(b, k) = From(mins, k) /\ GapEnd(b, k) = To(mins, n, k)
      /\ GapStart(b, k) \in Nat /\ GapEnd(b, k) \in Nat
  BY <1>3, GapsOf
<1>5. /\ old \in BlockType /\ mins \in Seq(MinorType) /\ n = Extent(old) /\ n \in Nat /\ Apart(mins, n)
      /\ old.usage = TakenBy(mins) /\ old.usage \in Nat /\ Len(mins) \in Nat
  BY BlockIs
<1>6. old.minors = mins
  BY DEF Minors
<1>7. new = [old EXCEPT !.usage = old.usage + need, !.minors = more]
  BY Zenon, <1>6 DEF PlacedIn, k
<1> HIDE DEF need, mins, n, old, new
<1>8. m \in MinorType /\ m.at = at /\ m.size = Size(req)
  BY <1>4, MinorOf
<1>9. at \in Nat /\ at = From(mins, k)
  BY <1>4
<1>10. at + MinHdr + Size(req) <= To(mins, n, k)
  <2> DEFINE e == GapEnd(b, k)
  <2>1. e - at >= need /\ e = To(mins, n, k) /\ e \in Nat /\ at \in Nat
    BY <1>3, <1>4
  <2> HIDE DEF e, at
  <2> QED BY <1>1, <2>1, HeaderIs
<1> HIDE DEF m, at
<1>11. /\ more \in Seq(MinorType) /\ Len(more) = Len(mins) + 1 /\ Apart(more, n)
       /\ TakenBy(more) = TakenBy(mins) + Size(req) + MinHdr
       /\ Addresses(more) = Addresses(mins) \cup {at} /\ at \notin Addresses(mins)
  <2>1. m.at = From(mins, k) /\ m.at + MinHdr + m.size <= To(mins, n, k)
    BY <1>8, <1>9, <1>10
  <2>2. /\ more \in Seq(MinorType) /\ Len(more) = Len(mins) + 1 /\ Apart(more, n)
        /\ TakenBy(more) = TakenBy(mins) + m.size + MinHdr
        /\ Addresses(more) = Addresses(mins) \cup {m.at} /\ m.at \notin Addresses(mins)
    BY <1>3, <1>5, <1>8, <2>1, Inserted
  <2> QED BY <1>8, <2>2
<1> HIDE DEF more
<1> DEFINE u == old.usage + need
<1>12. u \in Nat /\ u = TakenBy(more)
  BY <1>1, <1>5, <1>11, HeaderIs
<1> HIDE DEF u
<1>13. new = [old EXCEPT !.usage = u, !.minors = more]
  BY <1>7 DEF u
<1>14. new \in BlockType /\ new.usage = u /\ new.minors = more /\ new.pages = old.pages
  BY <1>5, <1>11, <1>12, <1>13 DEF BlockType
<1>15. Extent(new) = n
  BY <1>5, <1>14 DEF Extent
<1>16. Sound(new)
  BY <1>5, <1>11, <1>12, <1>14, <1>15 DEF Sound
<1> QED BY Zenon, <1>9, <1>11, <1>14, <1>16 DEF new, at, k, need, mins

(* The index of a pointer among the minors of its block.                   *)
LEMMA AtIs ==
  ASSUME Blocks, NEW b \in Listed, NEW a \in Addresses(Minors(b))
  PROVE  At(<<b, a>>) \in 1 .. Len(Minors(b)) /\ Start(Minors(b), At(<<b, a>>)) = a
<1> DEFINE mins == Minors(b)
           k == At(<<b, a>>)
<1>1. DOMAIN mins = 1 .. Len(mins)
  BY BlockIs, LenProperties
<1>2. \E i \in DOMAIN mins : mins[i].at = a
  BY <1>1 DEF Addresses, Start
<1>3. k = CHOOSE i \in DOMAIN mins : mins[i].at = a
  BY DEF At
<1>4. k \in DOMAIN mins /\ mins[k].at = a
  <2> HIDE DEF mins, k
  <2> QED BY Zenon, <1>2, <1>3
<1> QED BY <1>1, <1>4 DEF Start

LEMMA WithoutIs ==
  ASSUME Blocks, NEW b \in Listed, NEW a \in Addresses(Minors(b)), NEW new,
         LET k == At(<<b, a>>)
         IN new = [block[b] EXCEPT !.usage = UsageWithout(b, Minors(b)[k]),
                                   !.minors = RemoveAt(@, k)]
  PROVE  /\ Len(Minors(b)) # 1 => Sound(new)
         /\ Addresses(Minors(b)) = Addresses(new.minors) \cup {a}
         /\ a \notin Addresses(new.minors)
         /\ Len(Minors(b)) = 1 => Addresses(Minors(b)) = {a}
<1> DEFINE k == At(<<b, a>>)
           mins == Minors(b)
           n == Bytes(b)
           old == block[b]
           fewer == RemoveAt(mins, k)
           u == UsageWithout(b, mins[k])
<1>1. k \in 1 .. Len(mins) /\ Start(mins, k) = a
  BY AtIs
<1>2. /\ old \in BlockType /\ mins \in Seq(MinorType) /\ n = Extent(old) /\ n \in Nat /\ Apart(mins, n)
      /\ old.usage = TakenBy(mins) /\ old.usage \in Nat /\ Len(mins) \in Nat
  BY BlockIs
<1>3. old.minors = mins
  BY DEF Minors
<1>4. new = [old EXCEPT !.usage = u, !.minors = fewer]
  BY Zenon, <1>3
<1>5. u = old.usage - Room(mins, k) - MinHdr
  BY Zenon DEF UsageWithout, Room
<1> HIDE DEF k, mins, n, old, u
<1>6. /\ fewer \in Seq(MinorType) /\ Len(fewer) = Len(mins) - 1 /\ Apart(fewer, n)
      /\ TakenBy(mins) = TakenBy(fewer) + Room(mins, k) + MinHdr
      /\ Addresses(mins) = Addresses(fewer) \cup {Start(mins, k)}
      /\ Start(mins, k) \notin Addresses(fewer)
  BY <1>1, <1>2, Removed
<1> HIDE DEF fewer
<1>7. TakenBy(fewer) \in Nat /\ Room(mins, k) \in Nat /\ Len(fewer) \in Nat
  <2>1. Len(fewer) \in 0 .. Len(fewer)
    BY <1>6, LenProperties
  <2> QED BY <1>1, <1>2, <1>6, <2>1, TakenIs, MinorIs DEF TakenBy
<1>8. u \in Nat /\ u = TakenBy(fewer)
  BY <1>2, <1>5, <1>6, <1>7, HeaderIs
<1>9. new \in BlockType /\ new.usage = u /\ new.minors = fewer /\ new.pages = old.pages
  BY <1>2, <1>4, <1>6, <1>8 DEF BlockType
<1>10. Extent(new) = n
  BY <1>2, <1>9 DEF Extent
<1>11. ASSUME Len(mins) # 1 PROVE Sound(new)
  <2>1. Len(fewer) > 0
    BY <1>1, <1>2, <1>6, <1>7, <1>11
  <2> QED BY <1>2, <1>6, <1>8, <1>9, <1>10, <2>1 DEF Sound
<1>12. ASSUME Len(mins) = 1 PROVE Addresses(mins) = {a}
  <2>1. k = 1 /\ 1 .. Len(mins) = {1}
    BY <1>1, <1>12
  <2> QED BY <1>1, <2>1 DEF Addresses
<1>13. Addresses(mins) = Addresses(new.minors) \cup {a} /\ a \notin Addresses(new.minors)
  BY <1>1, <1>6, <1>9
<1> QED BY <1>11, <1>12, <1>13 DEF mins

LEMMA ResizedIs ==
  ASSUME Blocks, NEW b \in Listed, NEW a \in Addresses(Minors(b)), NEW r \in Nat, NEW new,
         new = [block[b] EXCEPT !.minors[At(<<b, a>>)].req = r]
  PROVE  Sound(new) /\ Addresses(new.minors) = Addresses(Minors(b))
<1> DEFINE k == At(<<b, a>>)
           mins == Minors(b)
           n == Bytes(b)
           old == block[b]
           same == [mins EXCEPT ![k].req = r]
<1>1. k \in 1 .. Len(mins)
  BY AtIs
<1>2. /\ old \in BlockType /\ mins \in Seq(MinorType) /\ n = Extent(old) /\ n \in Nat /\ Apart(mins, n)
      /\ old.usage = TakenBy(mins) /\ Len(mins) > 0
  BY BlockIs
<1>3. old.minors = mins
  BY DEF Minors
<1>4. new = [old EXCEPT !.minors = same]
  BY Zenon, <1>3
<1> HIDE DEF k, mins, n, old
<1>5. /\ same \in Seq(MinorType) /\ Len(same) = Len(mins) /\ Apart(same, n)
      /\ TakenBy(same) = TakenBy(mins) /\ Addresses(same) = Addresses(mins)
  BY <1>1, <1>2, Resized
<1> HIDE DEF same
<1>6. new \in BlockType /\ new.usage = old.usage /\ new.minors = same /\ new.pages = old.pages
  BY <1>2, <1>4, <1>5 DEF BlockType
<1>7. Extent(new) = n
  BY <1>2, <1>6 DEF Extent
<1> QED BY <1>2, <1>5, <1>6, <1>7 DEF Sound, mins
-----------------------------------------------------------------------------
(***************************************************************************)
(* Pointers that come and go.                                              *)
(***************************************************************************)
Give(hld, t, q) == [hld EXCEPT ![t] = @ \cup {q}]
Drop(hld, t, q) == [hld EXCEPT ![t] = @ \ {q}]
Pointer == Block \X Nat

LEMMA HoldMore ==
  ASSUME NEW hld \in Holdings, Alone(hld), NEW t \in Thread,
         NEW q \in Pointer, q \notin HeldIn(hld), NEW new, new = Give(hld, t, q)
  PROVE  /\ new \in Holdings /\ Alone(new)
         /\ HeldIn(new) = HeldIn(hld) \cup {q}
         /\ \A u \in Thread : hld[u] \subseteq new[u]
<1> DEFINE U == Block \X Nat
<1> HIDE DEF U
<1>1. hld \in [Thread -> SUBSET U] /\ q \in U
  BY DEF U, Holdings, Pointer
<1>2. new[t] = hld[t] \cup {q} /\ \A u \in Thread : u # t => new[u] = hld[u]
  BY <1>1 DEF Give
<1>3. new \in [Thread -> SUBSET U]
  BY <1>1 DEF Give
<1>4. HeldIn(new) = HeldIn(hld) \cup {q}
  BY <1>2 DEF HeldIn
<1>5. \A u \in Thread : q \notin hld[u]
  BY DEF HeldIn
<1>6. Alone(new)
  BY <1>2, <1>5 DEF Alone
<1> QED BY <1>2, <1>3, <1>4, <1>6 DEF U, Holdings

LEMMA HoldLess ==
  ASSUME NEW hld \in Holdings, Alone(hld), NEW t \in Thread,
         NEW q \in hld[t], NEW new, new = Drop(hld, t, q)
  PROVE  /\ new \in Holdings /\ Alone(new)
         /\ HeldIn(new) = HeldIn(hld) \ {q}
         /\ \A u \in Thread : u # t => new[u] = hld[u]
<1> DEFINE U == Block \X Nat
<1> HIDE DEF U
<1>1. hld \in [Thread -> SUBSET U]
  BY DEF U, Holdings
<1>2. new[t] = hld[t] \ {q} /\ \A u \in Thread : u # t => new[u] = hld[u]
  BY <1>1 DEF Drop
<1>3. new \in [Thread -> SUBSET U]
  BY <1>1 DEF Drop
<1>4. \A u \in Thread : u # t => q \notin hld[u]
  BY DEF Alone
<1>5. HeldIn(new) = HeldIn(hld) \ {q}
  BY <1>2, <1>4 DEF HeldIn
<1>6. Alone(new)
  BY <1>2 DEF Alone
<1> QED BY <1>2, <1>3, <1>5, <1>6 DEF U, Holdings

LEMMA PlaceIs ==
  ASSUME NEW ls, NEW blk, NEW b, NEW a \in Nat
  PROVE  <<b, a>> \in Places(ls, blk) <=> b \in ls /\ a \in Addresses(blk[b].minors)
BY DEF Places

LEMMA PlacesEqual ==
  ASSUME NEW V, NEW W, NEW ls, NEW ks, V \subseteq ls \X Nat, W \subseteq ks \X Nat,
         \A b \in ls \cup ks : \A a \in Nat : <<b, a>> \in V <=> <<b, a>> \in W
  PROVE  V = W
OBVIOUS

LEMMA PlacesMore ==
  ASSUME NEW ls, NEW blk, NEW new, NEW b, NEW a \in Nat,
         \A c \in ls \ {b} : new[c] = blk[c],
         \/ /\ b \in ls /\ a \notin Addresses(blk[b].minors)
            /\ Addresses(new[b].minors) = Addresses(blk[b].minors) \cup {a}
         \/ b \notin ls /\ Addresses(new[b].minors) = {a}
  PROVE  /\ Places(ls \cup {b}, new) = Places(ls, blk) \cup {<<b, a>>}
         /\ <<b, a>> \notin Places(ls, blk)
<1> DEFINE ks == ls \cup {b}
           V == Places(ks, new)
           W == Places(ls, blk) \cup {<<b, a>>}
<1>1. V \subseteq ks \X Nat /\ W \subseteq ks \X Nat
  BY DEF Places
<1>2. ASSUME NEW c \in ks, NEW e \in Nat PROVE <<c, e>> \in V <=> <<c, e>> \in W
  <2>1. <<c, e>> \in V <=> e \in Addresses(new[c].minors)
    BY PlaceIs
  <2>2. <<c, e>> \in W <=> (c \in ls /\ e \in Addresses(blk[c].minors)) \/ (c = b /\ e = a)
    BY PlaceIs
  <2>3. CASE c = b
    BY <2>1, <2>2, <2>3
  <2>4. CASE c # b
    BY <2>1, <2>2, <2>4
  <2> QED BY <2>3, <2>4
<1>3. V = W
  <2> HIDE DEF V, W
  <2> QED BY <1>1, <1>2, PlacesEqual
<1>4. <<b, a>> \notin Places(ls, blk)
  BY PlaceIs
<1> QED BY <1>3, <1>4

LEMMA PlacesNew ==
  ASSUME NEW ls, NEW blk, NEW new, NEW b, b \notin ls, NEW a \in Nat,
         \A c \in ls \ {b} : new[c] = blk[c], NEW one, one = {a}, Addresses(new[b].minors) = one
  PROVE  /\ Places(ls \cup {b}, new) = Places(ls, blk) \cup {<<b, a>>}
         /\ <<b, a>> \notin Places(ls, blk)
BY PlacesMore

LEMMA PlacesLess ==
  ASSUME NEW ls, NEW blk, NEW new, NEW b \in ls, NEW a \in Nat, NEW ks,
         \A c \in ls \ {b} : new[c] = blk[c],
         \/ /\ ks = ls /\ a \notin Addresses(new[b].minors)
            /\ Addresses(blk[b].minors) = Addresses(new[b].minors) \cup {a}
         \/ ks = ls \ {b} /\ Addresses(blk[b].minors) = {a}
  PROVE  Places(ks, new) = Places(ls, blk) \ {<<b, a>>}
<1> DEFINE V == Places(ks, new)
           W == Places(ls, blk) \ {<<b, a>>}
<1>1. V \subseteq ls \X Nat /\ W \subseteq ls \X Nat
  BY DEF Places
<1>2. ASSUME NEW c \in ls \cup ls, NEW e \in Nat PROVE <<c, e>> \in V <=> <<c, e>> \in W
  <2>1. <<c, e>> \in V <=> c \in ks /\ e \in Addresses(new[c].minors)
    BY PlaceIs
  <2>2. <<c, e>> \in W <=> e \in Addresses(blk[c].minors) /\ ~ (c = b /\ e = a)
    BY PlaceIs
  <2>3. CASE c = b
    BY <2>1, <2>2, <2>3
  <2>4. CASE c # b
    BY <2>1, <2>2, <2>4
  <2> QED BY <2>3, <2>4
<1>3. V = W
  <2> HIDE DEF V, W
  <2> QED BY <1>1, <1>2, PlacesEqual
<1> QED BY <1>3

LEMMA PlacesSame ==
  ASSUME NEW ls, NEW blk, NEW new, \A c \in ls : Addresses(new[c].minors) = Addresses(blk[c].minors)
  PROVE  Places(ls, new) = Places(ls, blk)
<1> DEFINE V == Places(ls, new)
           W == Places(ls, blk)
<1>1. V \subseteq ls \X Nat /\ W \subseteq ls \X Nat
  BY DEF Places
<1>2. \A c \in ls \cup ls : \A e \in Nat : <<c, e>> \in V <=> <<c, e>> \in W
  BY PlaceIs
<1>3. V = W
  <2> HIDE DEF V, W
  <2> QED BY <1>1, <1>2, PlacesEqual
<1> QED BY <1>3

(* A pointer that is held is a minor of a listed block.                    *)
LEMMA HeldIs ==
  ASSUME Blocks, Owned, NEW t \in Thread, NEW p \in held[t]
  PROVE  /\ p[1] \in Listed /\ p[2] \in Addresses(Minors(p[1])) /\ p[2] \in Nat
         /\ p = <<p[1], p[2]>>
<1>1. p \in HeldIn(held)
  BY DEF HeldIn
<1>2. p \in Places(Listed, block)
  BY <1>1 DEF Owned
<1> QED BY <1>2 DEF Places, Minors

(* A block of the list changes.                                            *)
LEMMA BlocksSet ==
  ASSUME Blocks, NEW b \in Listed, NEW r, Sound(r), majors' = majors,
         block' = [block EXCEPT ![b] = r], best' # Nil => best' \in Listed
  PROVE  /\ Blocks' /\ Listed' = Listed /\ block'[b] = r
         /\ \A c \in Listed \ {b} : block'[c] = block[c]
<1>1. Listed' = Listed
  BY DEF Listed
<1>2. b \in Block /\ Listed \subseteq Block
  BY MajorsIs
<1> HIDE DEF Listed
<1>3. /\ DOMAIN block' = Block /\ block'[b] = r
      /\ \A c \in Block : c # b => block'[c] = block[c]
  BY <1>2 DEF Blocks
<1>4. block' = [c \in Block |-> block'[c]]
  BY <1>2 DEF Blocks
<1>5. \A c \in Listed : Sound(block'[c])
  BY <1>2, <1>3 DEF Blocks
<1>6. \A c \in Block \ Listed : block'[c] = Nil
  BY <1>3 DEF Blocks
<1>7. majors' \in Seq(Block) /\ IsInjective(majors') /\ Len(majors') <= NBlock
  BY Zenon DEF Blocks
<1>8. Blocks'
  BY <1>1, <1>3, <1>4, <1>5, <1>6, <1>7 DEF Blocks
<1> QED BY <1>1, <1>2, <1>3, <1>8

(* A block joins the list.                                                 *)
LEMMA BlocksAdd ==
  ASSUME Blocks, NEW b \in Block \ Listed, Len(majors) < NBlock, NEW r, Sound(r),
         majors' = Append(majors, b), block' = [block EXCEPT ![b] = r],
         best' # Nil => best' \in Listed \cup {b}
  PROVE  /\ Blocks' /\ Listed' = Listed \cup {b} /\ block'[b] = r
         /\ \A c \in Listed : block'[c] = block[c]
<1>1. /\ Len(majors) \in Nat /\ DOMAIN majors = 1 .. Len(majors) /\ Listed \subseteq Block
      /\ majors \in Seq(Block)
  BY MajorsIs DEF Blocks
<1>2. /\ majors' \in Seq(Block) /\ Len(majors') = Len(majors) + 1
      /\ \A i \in 1 .. Len(majors) : majors'[i] = majors[i]
      /\ majors'[Len(majors) + 1] = b
  BY <1>1, AppendProperties
<1>3. DOMAIN majors' = 1 .. Len(majors) + 1
  BY <1>2, LenProperties
<1>4. Listed' = Listed \cup {b}
  <2>1. ASSUME NEW i \in 1 .. Len(majors) + 1 PROVE majors'[i] \in Listed \cup {b}
    <3>1. CASE i = Len(majors) + 1
      BY <1>2, <3>1
    <3>2. CASE i # Len(majors) + 1
      <4>1. i \in 1 .. Len(majors)
        BY <1>1, <3>2
      <4> QED BY <1>1, <1>2, <4>1 DEF Listed, ToSet
    <3> QED BY <3>1, <3>2
  <2>2. ASSUME NEW c \in Listed PROVE \E i \in 1 .. Len(majors) + 1 : majors'[i] = c
    <3>1. PICK i \in 1 .. Len(majors) : majors[i] = c
      BY MajorsIs
    <3>2. i \in 1 .. Len(majors) + 1
      BY <1>1
    <3> QED BY <1>2, <3>1, <3>2
  <2>3. Len(majors) + 1 \in 1 .. Len(majors) + 1
    BY <1>1
  <2>4. Listed' = {majors'[i] : i \in 1 .. Len(majors) + 1}
    BY <1>3 DEF Listed, ToSet
  <2> HIDE DEF Listed
  <2> QED BY <1>2, <2>1, <2>2, <2>3, <2>4
<1>5. IsInjective(majors')
  <2> SUFFICES ASSUME NEW i \in 1 .. Len(majors) + 1, NEW j \in 1 .. Len(majors) + 1,
                      majors'[i] = majors'[j]
               PROVE  i = j
    BY <1>3 DEF IsInjective
  <2>1. \A l \in 1 .. Len(majors) : majors'[l] = majors[l] /\ majors[l] # b
    BY <1>1, <1>2 DEF Listed, ToSet
  <2>2. CASE i \in 1 .. Len(majors) /\ j \in 1 .. Len(majors)
    BY <1>1, <2>1, <2>2 DEF Blocks, IsInjective
  <2>3. CASE i = Len(majors) + 1 /\ j = Len(majors) + 1
    BY <2>3
  <2>4. CASE i \in 1 .. Len(majors) /\ j = Len(majors) + 1
    BY <1>2, <2>1, <2>4
  <2>5. CASE i = Len(majors) + 1 /\ j \in 1 .. Len(majors)
    BY <1>2, <2>1, <2>5
  <2>6. \A l \in 1 .. Len(majors) + 1 : l \in 1 .. Len(majors) \/ l = Len(majors) + 1
    BY <1>1
  <2> QED BY <2>2, <2>3, <2>4, <2>5, <2>6
<1>6. Len(majors') <= NBlock
  BY <1>1, <1>2, Constants
<1> HIDE DEF Listed
<1>7. DOMAIN block' = Block /\ block'[b] = r /\ \A c \in Block : c # b => block'[c] = block[c]
  BY DEF Blocks
<1>8. block' = [c \in Block |-> block'[c]]
  BY DEF Blocks
<1>9. \A c \in Listed \cup {b} : Sound(block'[c])
  BY <1>1, <1>7 DEF Blocks
<1>10. \A c \in Block \ (Listed \cup {b}) : block'[c] = Nil
  BY <1>7 DEF Blocks
<1>11. Blocks'
  BY <1>2, <1>4, <1>5, <1>6, <1>7, <1>8, <1>9, <1>10 DEF Blocks
<1>12. \A c \in Listed : block'[c] = block[c]
  BY <1>1, <1>7
<1> QED BY <1>4, <1>7, <1>11, <1>12

(* A block leaves the list.                                                *)
LEMMA BlocksDrop ==
  ASSUME Blocks, NEW b \in Listed,
         majors' = RemoveAt(majors, CHOOSE i \in DOMAIN majors : majors[i] = b),
         block' = [block EXCEPT ![b] = Nil], best' # Nil => best' \in Listed \ {b}
  PROVE  /\ Blocks' /\ Listed' = Listed \ {b}
         /\ \A c \in Listed \ {b} : block'[c] = block[c]
<1> DEFINE k == CHOOSE i \in DOMAIN majors : majors[i] = b
<1>1. /\ Len(majors) \in Nat /\ DOMAIN majors = 1 .. Len(majors) /\ Listed \subseteq Block
      /\ majors \in Seq(Block) /\ Len(majors) <= NBlock
  BY MajorsIs DEF Blocks
<1>2. k \in 1 .. Len(majors) /\ majors[k] = b
  <2>1. \E i \in DOMAIN majors : majors[i] = b
    BY MajorsIs
  <2> QED BY <1>1, <2>1
<1>3. majors' = RemoveAt(majors, k)
  OBVIOUS
<1> HIDE DEF k
<1>4. /\ majors' \in Seq(Block) /\ Len(majors') = Len(majors) - 1
      /\ \A i \in 1 .. k - 1 : majors'[i] = majors[i]
      /\ \A i \in k .. Len(majors) - 1 : majors'[i] = majors[i + 1]
  <2> DEFINE fewer == RemoveAt(majors, k)
  <2>1. /\ fewer \in Seq(Block) /\ Len(fewer) = Len(majors) - 1
        /\ \A i \in 1 .. k - 1 : fewer[i] = majors[i]
        /\ \A i \in k .. Len(majors) - 1 : fewer[i] = majors[i + 1]
    BY <1>1, <1>2, RemoveIs
  <2>2. majors' = fewer
    BY <1>3
  <2> HIDE DEF fewer
  <2> QED BY <2>1, <2>2
<1>5. DOMAIN majors' = 1 .. Len(majors) - 1
  BY <1>4, LenProperties
<1> DEFINE from(i) == IF i < k THEN i ELSE i + 1
<1>6. \A i \in 1 .. Len(majors) - 1 :
        from(i) \in 1 .. Len(majors) /\ from(i) # k /\ majors'[i] = majors[from(i)]
  <2> SUFFICES ASSUME NEW i \in 1 .. Len(majors) - 1
               PROVE  from(i) \in 1 .. Len(majors) /\ from(i) # k /\ majors'[i] = majors[from(i)]
    OBVIOUS
  <2>1. CASE i < k
    <3>1. i \in 1 .. k - 1 /\ i \in 1 .. Len(majors) /\ i # k
      BY <1>2, <2>1
    <3>2. from(i) = i
      BY <2>1
    <3>3. majors'[i] = majors[i]
      BY <1>4, <3>1
    <3> HIDE DEF from
    <3> QED BY <3>1, <3>2, <3>3
  <2>2. CASE ~ (i < k)
    <3>1. i \in k .. Len(majors) - 1 /\ i + 1 \in 1 .. Len(majors) /\ i + 1 # k
      BY <1>2, <2>2
    <3>2. from(i) = i + 1
      BY <2>2
    <3>3. majors'[i] = majors[i + 1]
      BY <1>4, <3>1
    <3> HIDE DEF from
    <3> QED BY <3>1, <3>2, <3>3
  <2> QED BY <2>1, <2>2
<1>7. \A i, j \in DOMAIN majors : majors[i] = majors[j] => i = j
  BY DEF Blocks, IsInjective
<1>8. \A i \in 1 .. Len(majors) : i # k => majors[i] # b
  BY <1>1, <1>2, <1>7
<1>9. ASSUME NEW c \in Listed \ {b} PROVE \E i \in 1 .. Len(majors) - 1 : majors'[i] = c
  <2>1. PICK j \in 1 .. Len(majors) : majors[j] = c
    BY MajorsIs
  <2>2. j # k
    BY <1>2, <2>1
  <2>3. CASE j < k
    <3>1. j \in 1 .. Len(majors) - 1 /\ j \in 1 .. k - 1
      BY <1>2, <2>3
    <3> QED BY <1>4, <2>1, <3>1
  <2>4. CASE ~ (j < k)
    <3>1. j - 1 \in 1 .. Len(majors) - 1 /\ j - 1 \in k .. Len(majors) - 1 /\ (j - 1) + 1 = j
      BY <1>2, <2>2, <2>4
    <3>2. majors'[j - 1] = majors[(j - 1) + 1]
      BY <1>4, <3>1
    <3> QED BY <2>1, <3>1, <3>2
  <2> QED BY <2>3, <2>4
<1>10. Listed' = Listed \ {b}
  <2>1. Listed' = {majors'[i] : i \in 1 .. Len(majors) - 1}
    BY <1>5 DEF Listed, ToSet
  <2>2. \A i \in 1 .. Len(majors) : majors[i] \in Listed
    BY <1>1 DEF Listed, ToSet
  <2>3. \A i \in 1 .. Len(majors) - 1 : majors'[i] \in Listed \ {b}
    <3> HIDE DEF Listed, from
    <3> QED BY <1>6, <1>8, <2>2
  <2> HIDE DEF Listed
  <2> QED BY <1>9, <2>1, <2>3
<1>11. IsInjective(majors')
  <2> SUFFICES ASSUME NEW i \in 1 .. Len(majors) - 1, NEW j \in 1 .. Len(majors) - 1,
                      majors'[i] = majors'[j]
               PROVE  i = j
    BY <1>5 DEF IsInjective
  <2>1. from(i) = from(j)
    <3> HIDE DEF from
    <3> QED BY <1>1, <1>6, <1>7
  <2> QED BY <1>2, <2>1
<1>12. Len(majors') <= NBlock
  <2> DEFINE old == Len(majors)
             new == Len(majors')
  <2>1. NBlock \in Nat /\ old \in Nat /\ old <= NBlock /\ new = old - 1
    BY <1>1, <1>4, Constants
  <2> HIDE DEF old, new
  <2>2. new <= NBlock
    BY <2>1
  <2> QED BY <2>2 DEF new
<1> HIDE DEF Listed
<1>13. DOMAIN block' = Block /\ block'[b] = Nil /\ \A c \in Block : c # b => block'[c] = block[c]
  BY <1>1 DEF Blocks
<1>14. block' = [c \in Block |-> block'[c]]
  BY <1>1 DEF Blocks
<1>15. \A c \in Listed \ {b} : Sound(block'[c])
  BY <1>1, <1>13 DEF Blocks
<1>16. \A c \in Block \ (Listed \ {b}) : block'[c] = Nil
  BY <1>13 DEF Blocks
<1>17. Blocks'
  BY <1>4, <1>10, <1>11, <1>12, <1>13, <1>14, <1>15, <1>16 DEF Blocks
<1>18. \A c \in Listed \ {b} : block'[c] = block[c]
  BY <1>1, <1>13
<1> QED BY <1>10, <1>17, <1>18
-----------------------------------------------------------------------------
(***************************************************************************)
(* Each action keeps the invariant.                                        *)
(***************************************************************************)
LEMMA FitsKeeps ==
  ASSUME Blocks, Owned, NEW t \in Thread, NEW req \in Nat, MallocFits(t, req)
  PROVE  /\ Blocks' /\ Owned' /\ \A u \in Thread : held[u] \subseteq held'[u]
         /\ Listed' = Listed /\ UNCHANGED <<lost, crashed>>
<1> DEFINE need == Need(req)
           order == Order(need)
           i == FirstFit(need)
           seen == SubSeq(order, 1, i)
           b == Last(seen)
           at == GapStart(b, Min(Gaps(b, need)))
           r == PlacedIn(b, req)
<1>1. /\ i # 0 /\ block' = [block EXCEPT ![b] = r] /\ best' = BestOf(seen)
      /\ held' = [held EXCEPT ![t] = @ \cup {<<b, at>>}]
      /\ majors' = majors /\ lost' = lost /\ crashed' = crashed
  BY Zenon DEF MallocFits
<1>2. need \in Nat
  BY PagesAreEnough
<1> HIDE DEF need
<1>3. i \in 1 .. Len(order) /\ Fits(order[i], need) /\ order[i] \in Listed /\ order \in Seq(Listed)
  BY <1>1, <1>2, FirstFitIs, OrderIs
<1> HIDE DEF order, i
<1>4. seen \in Seq(Listed) /\ Len(seen) = i /\ seen[i] = order[i]
  <2>1. /\ Len(order) \in Nat /\ i \in 1 .. i /\ i \in Int /\ 1 <= i /\ (i - 1) + 1 = i /\ (1 + i) - 1 = i
        /\ \A j \in 1 .. i : order[j] \in Listed
    BY <1>3, LenProperties, ElementOfSeq
  <2> QED BY <2>1, SubSeqProperties
<1>5. b = order[i]
  BY <1>4 DEF Last
<1> HIDE DEF seen, b
<1>6. b \in Listed /\ Fits(b, need)
  BY <1>3, <1>5
<1>7. /\ Sound(r) /\ at \in Nat /\ Addresses(r.minors) = Addresses(Minors(b)) \cup {at}
      /\ at \notin Addresses(Minors(b))
  BY <1>6, PlacedIs DEF need
<1>8. best' # Nil => best' \in Listed
  BY <1>1, <1>4, BestOfIs
<1> HIDE DEF r, at
<1>9. /\ Blocks' /\ Listed' = Listed /\ block'[b] = r
      /\ \A c \in Listed \ {b} : block'[c] = block[c]
  BY <1>1, <1>6, <1>7, <1>8, BlocksSet
<1>10. /\ Places(Listed, block') = Places(Listed, block) \cup {<<b, at>>}
       /\ <<b, at>> \notin Places(Listed, block)
  <2>1. Listed \cup {b} = Listed
    BY <1>6
  <2>2. /\ b \in Listed /\ at \notin Addresses(block[b].minors)
        /\ Addresses(block'[b].minors) = Addresses(block[b].minors) \cup {at}
    BY <1>6, <1>7, <1>9 DEF Minors
  <2>3. /\ Places(Listed \cup {b}, block') = Places(Listed, block) \cup {<<b, at>>}
        /\ <<b, at>> \notin Places(Listed, block)
    <3> DEFINE ls == Listed
               blk == block
               new == block'
    <3>1. /\ \A c \in ls \ {b} : new[c] = blk[c]
          /\ b \in ls /\ at \notin Addresses(blk[b].minors)
          /\ Addresses(new[b].minors) = Addresses(blk[b].minors) \cup {at}
      BY <1>9, <2>2
    <3> HIDE DEF ls, blk, new
    <3>2. /\ Places(ls \cup {b}, new) = Places(ls, blk) \cup {<<b, at>>}
          /\ <<b, at>> \notin Places(ls, blk)
      BY <1>7, <3>1, PlacesMore
    <3> QED BY <3>2 DEF ls, blk, new
  <2> QED BY <2>1, <2>3
<1>11. <<b, at>> \in Block \X Nat /\ <<b, at>> \notin HeldIn(held)
  BY <1>6, <1>7, <1>10, MajorsIs DEF Owned
<1>12. /\ held' \in Holdings /\ Alone(held')
       /\ HeldIn(held') = HeldIn(held) \cup {<<b, at>>}
       /\ \A u \in Thread : held[u] \subseteq held'[u]
  <2> DEFINE hld == held
             new == held'
             q == <<b, at>>
  <2>1. hld \in Holdings /\ Alone(hld) /\ new = Give(hld, t, q)
    BY <1>1 DEF Owned, Give
  <2>2. q \in Pointer /\ q \notin HeldIn(hld)
    BY <1>11 DEF Pointer
  <2> HIDE DEF hld, new, q
  <2>3. /\ new \in Holdings /\ Alone(new)
        /\ HeldIn(new) = HeldIn(hld) \cup {q}
        /\ \A u \in Thread : hld[u] \subseteq new[u]
    BY <2>1, <2>2, HoldMore
  <2> QED BY <2>3 DEF hld, new, q
<1>13. Owned'
  BY <1>9, <1>10, <1>12 DEF Owned
<1> QED BY <1>1, <1>9, <1>12, <1>13

(* There is a block left while the list is shorter than their number.      *)
LEMMA BlockLeft ==
  ASSUME Blocks, Len(majors) < NBlock
  PROVE  Min(Block \ Listed) \in Block \ Listed
<1>1. Block \in SUBSET Nat /\ NBlock \in Nat
  BY Constants DEF Block
<1>2. ASSUME Block \ Listed = {} PROVE FALSE
  <2> DEFINE n == Len(majors)
  <2>1. /\ n \in Nat /\ n < NBlock /\ majors \in [1 .. n -> Block]
        /\ \A b \in Block : \E i \in 1 .. n : majors[i] = b
    BY <1>2, MajorsIs, LenProperties DEF Blocks
  <2> HIDE DEF n
  <2>2. majors \in Surjection(1 .. n, Block)
    BY <2>1 DEF Surjection
  <2>3. IsFiniteSet(1 .. n) /\ Cardinality(1 .. n) = IF 1 > n THEN 0 ELSE n - 1 + 1
    BY <2>1, FS_Interval
  <2>4. Cardinality(Block) <= Cardinality(1 .. n)
    BY <2>2, <2>3, FS_Surjection
  <2>5. Cardinality(Block) = NBlock
    <3>1. 1 \in Int /\ NBlock \in Int /\ ~ (1 > NBlock) /\ NBlock - 1 + 1 = NBlock
      BY Constants
    <3>2. Cardinality(1 .. NBlock) = NBlock
      BY <3>1, FS_Interval
    <3> QED BY <3>2 DEF Block
  <2>6. Cardinality(1 .. n) = n
    BY <2>1, <2>3
  <2> QED BY <1>1, <2>1, <2>4, <2>5, <2>6
<1> DEFINE left == Block \ Listed
<1>3. left \in SUBSET Nat /\ left # {}
  BY <1>1, <1>2
<1> HIDE DEF left
<1>4. Min(left) \in left
  BY <1>3, MinIs
<1> QED BY <1>4 DEF left

LEMMA GrowsKeeps ==
  ASSUME Blocks, Owned, NEW t \in Thread, NEW req \in Nat, MallocGrows(t, req)
  PROVE  /\ Blocks' /\ Owned' /\ \A u \in Thread : held[u] \subseteq held'[u]
         /\ UNCHANGED <<lost, crashed>>
         /\ \E b \in Block \ Listed : /\ Listed' = Listed \cup {b}
                                      /\ block'[b].usage = MajHdr + Need(req)
         /\ \A b \in Listed : ~ Fits(b, Need(req))
<1> DEFINE need == Need(req)
           before == BestOf(Order(need))
           looksAtNew == majors = <<>> \/ Free(Last(majors)) >= need
           space == PagesFor(req) * PageSize - MajHdr
           b == Min(Block \ ToSet(majors))
           r == NewBlock(req)
<1>1. /\ FirstFit(need) = 0 /\ Len(majors) < NBlock
      /\ majors' = Append(majors, b) /\ block' = [block EXCEPT ![b] = r]
      /\ best' = IF looksAtNew /\ (IF before = Nil THEN TRUE ELSE Free(before) < space)
                 THEN b ELSE before
      /\ held' = [held EXCEPT ![t] = @ \cup {<<b, MajHdr>>}]
      /\ lost' = lost /\ crashed' = crashed
  BY Zenon DEF MallocGrows
<1>2. need \in Nat
  BY PagesAreEnough
<1>3. Sound(r) /\ r.usage = MajHdr + need /\ Addresses(r.minors) = {MajHdr}
  BY NewIs
<1> HIDE DEF need, r, looksAtNew, space
<1>4. b \in Block \ Listed
  BY <1>1, BlockLeft DEF Listed
<1> HIDE DEF b
<1>5. best' # Nil => best' \in Listed \cup {b}
  <2>1. before # Nil => before \in Listed
    BY OrderIs, BestOfIs
  <2> HIDE DEF before
  <2>2. best' = b \/ best' = before
    BY <1>1
  <2> QED BY <2>1, <2>2
<1>6. /\ Blocks' /\ Listed' = Listed \cup {b} /\ block'[b] = r
      /\ \A c \in Listed : block'[c] = block[c]
  BY <1>1, <1>3, <1>4, <1>5, BlocksAdd
<1>7. MajHdr \in Nat
  BY Constants
<1>8. /\ Places(Listed \cup {b}, block') = Places(Listed, block) \cup {<<b, MajHdr>>}
      /\ <<b, MajHdr>> \notin Places(Listed, block)
  <2>1. b \notin Listed /\ Addresses(block'[b].minors) = {MajHdr}
    BY <1>3, <1>4, <1>6
  <2>2. \A c \in Listed \ {b} : block'[c] = block[c]
    BY <1>6
  <2> DEFINE ls == Listed
             blk == block
             new == block'
             one == {MajHdr}
  <2>3. (\A c \in ls \ {b} : new[c] = blk[c]) /\ b \notin ls /\ Addresses(new[b].minors) = one
    BY <2>1, <2>2
  <2> HIDE DEF ls, blk, new, one
  <2>4. /\ Places(ls \cup {b}, new) = Places(ls, blk) \cup {<<b, MajHdr>>}
        /\ <<b, MajHdr>> \notin Places(ls, blk)
    BY <1>7, <2>3, PlacesNew DEF one
  <2> QED BY <2>4 DEF ls, blk, new
<1>9. <<b, MajHdr>> \in Block \X Nat /\ <<b, MajHdr>> \notin HeldIn(held)
  BY <1>4, <1>7, <1>8 DEF Owned
<1>10. /\ held' \in Holdings /\ Alone(held')
       /\ HeldIn(held') = HeldIn(held) \cup {<<b, MajHdr>>}
       /\ \A u \in Thread : held[u] \subseteq held'[u]
  <2> DEFINE hld == held
             new == held'
             q == <<b, MajHdr>>
  <2>1. hld \in Holdings /\ Alone(hld) /\ new = Give(hld, t, q)
    BY <1>1 DEF Owned, Give
  <2>2. q \in Pointer /\ q \notin HeldIn(hld)
    BY <1>9 DEF Pointer
  <2> HIDE DEF hld, new, q
  <2>3. /\ new \in Holdings /\ Alone(new)
        /\ HeldIn(new) = HeldIn(hld) \cup {q}
        /\ \A u \in Thread : hld[u] \subseteq new[u]
    BY <2>1, <2>2, HoldMore
  <2> QED BY <2>3 DEF hld, new, q
<1>11. Owned'
  BY <1>6, <1>8, <1>10 DEF Owned
<1>12. \A c \in Listed : ~ Fits(c, need)
  BY <1>1, <1>2, FirstFitIs
<1>13. block'[b].usage = MajHdr + need
  BY <1>3, <1>6
<1> QED BY <1>1, <1>4, <1>6, <1>10, <1>11, <1>12, <1>13 DEF need

LEMMA MallocKeeps ==
  ASSUME Blocks, Owned, Flags, NEW t \in Thread, NEW req \in Nat, Malloc(t, req)
  PROVE  Blocks' /\ Owned' /\ Flags' /\ \A u \in Thread : held[u] \subseteq held'[u]
<1>1. CASE MallocFits(t, req)
  BY <1>1, FitsKeeps DEF Flags
<1>2. CASE MallocGrows(t, req)
  BY <1>2, GrowsKeeps DEF Flags
<1>3. CASE MallocCrashes(req)
  <2>1. crashed' = TRUE /\ UNCHANGED <<majors, block, best, held, lost>>
    BY <1>3 DEF MallocCrashes, heap
  <2>2. Listed' = Listed
    BY <2>1 DEF Listed
  <2>3. Blocks'
    BY <2>1, <2>2 DEF Blocks
  <2>4. Owned'
    BY <2>1, <2>2 DEF Owned
  <2> QED BY <2>1, <2>3, <2>4 DEF Flags
<1> QED BY <1>1, <1>2, <1>3 DEF Malloc

LEMMA ReleaseKeeps ==
  ASSUME Blocks, Owned, Flags, NEW t \in Thread, NEW p \in held[t], Release(t, p)
  PROVE  /\ Blocks' /\ Owned' /\ Flags' /\ \A u \in Thread : u # t => held'[u] = held[u]
         /\ Listed' \subseteq Listed
<1> DEFINE b == p[1]
           a == p[2]
           mins == Minors(b)
           k == At(p)
<1>1. b \in Listed /\ a \in Addresses(mins) /\ a \in Nat /\ p = <<b, a>>
  BY HeldIs
<1>2. held' = [held EXCEPT ![t] = @ \ {p}] /\ crashed' = crashed
  BY DEF Release
<1>3. /\ held' \in Holdings /\ Alone(held')
      /\ HeldIn(held') = HeldIn(held) \ {p}
      /\ \A u \in Thread : u # t => held'[u] = held[u]
  <2> DEFINE hld == held
             new == held'
  <2>1. /\ hld \in Holdings /\ Alone(hld) /\ p \in hld[t]
        /\ new = Drop(hld, t, p)
    BY <1>2 DEF Owned, Drop
  <2> HIDE DEF hld, new
  <2>2. /\ new \in Holdings /\ Alone(new)
        /\ HeldIn(new) = HeldIn(hld) \ {p}
        /\ \A u \in Thread : u # t => new[u] = hld[u]
    BY <2>1, HoldLess
  <2> QED BY <2>2 DEF hld, new
<1>4. best # Nil => best \in Listed
  BY DEF Blocks
<1> DEFINE r == [block[b] EXCEPT !.usage = UsageWithout(b, mins[k]), !.minors = RemoveAt(@, k)]
<1>5. /\ Len(mins) # 1 => Sound(r)
      /\ Addresses(mins) = Addresses(r.minors) \cup {a} /\ a \notin Addresses(r.minors)
      /\ Len(mins) = 1 => Addresses(mins) = {a}
  BY <1>1, WithoutIs
<1>6. CASE FreeEmpties(t, p)
  <2>1. /\ Len(mins) = 1
        /\ majors' = RemoveAt(majors, CHOOSE i \in DOMAIN majors : majors[i] = b)
        /\ block' = [block EXCEPT ![b] = Nil] /\ best' = IF best = b THEN Nil ELSE best
        /\ lost' = (lost \/ Unmapped(block[b].pages) < block[b].pages)
    BY <1>6 DEF FreeEmpties, Empties, Forget
  <2> HIDE DEF r, mins, b, a, k
  <2>2. /\ Blocks' /\ Listed' = Listed \ {b}
        /\ \A c \in Listed \ {b} : block'[c] = block[c]
    <3>1. best' # Nil => best' \in Listed \ {b}
      BY <1>4, <2>1
    <3> QED BY <1>1, <2>1, <3>1, BlocksDrop
  <2>3. Places(Listed \ {b}, block') = Places(Listed, block) \ {<<b, a>>}
    <3>1. Addresses(block[b].minors) = {a}
      BY <1>5, <2>1 DEF Minors, mins
    <3> QED BY <1>1, <2>2, <3>1, PlacesLess
  <2>4. Owned'
    BY <1>1, <1>3, <2>2, <2>3 DEF Owned
  <2>5. lost' \in BOOLEAN
    BY <2>1
  <2> QED BY <1>2, <1>3, <2>2, <2>4, <2>5 DEF Flags
<1>7. CASE FreeLeaves(t, p)
  <2> DEFINE usage == UsageWithout(b, mins[k])
  <2>1. /\ Len(mins) # 1
        /\ block' = [block EXCEPT ![b].usage = usage, ![b].minors = RemoveAt(@, k)]
        /\ best' = IF best = Nil THEN Nil ELSE IF Bytes(b) - usage > Free(best) THEN b ELSE best
        /\ majors' = majors /\ lost' = lost
    BY Zenon, <1>7 DEF FreeLeaves, Empties
  <2>2. block' = [block EXCEPT ![b] = r]
    <3>1. b \in DOMAIN block
      BY <1>1, MajorsIs DEF Blocks
    <3> HIDE DEF b, usage, k
    <3>2. block' = [block EXCEPT ![b] = [block[b] EXCEPT !.usage = usage, !.minors = RemoveAt(@, k)]]
      BY <2>1, <3>1
    <3> QED BY <3>2 DEF usage
  <2> HIDE DEF r, usage, mins, b, a, k
  <2>3. /\ Blocks' /\ Listed' = Listed /\ block'[b] = r
        /\ \A c \in Listed \ {b} : block'[c] = block[c]
    <3>1. best' # Nil => best' \in Listed
      BY <1>1, <1>4, <2>1
    <3> QED BY <1>1, <1>5, <2>1, <2>2, <3>1, BlocksSet
  <2>4. Places(Listed, block') = Places(Listed, block) \ {<<b, a>>}
    <3>1. /\ a \notin Addresses(block'[b].minors)
          /\ Addresses(block[b].minors) = Addresses(block'[b].minors) \cup {a}
      BY <1>5, <2>3 DEF Minors, mins
    <3> DEFINE ls == Listed
               blk == block
               new == block'
    <3>2. /\ (\A c \in ls \ {b} : new[c] = blk[c]) /\ b \in ls /\ a \notin Addresses(new[b].minors)
          /\ Addresses(blk[b].minors) = Addresses(new[b].minors) \cup {a}
      BY <1>1, <2>3, <3>1
    <3> HIDE DEF ls, blk, new
    <3>3. Places(ls, new) = Places(ls, blk) \ {<<b, a>>}
      BY <1>1, <3>2, PlacesLess
    <3> QED BY <3>3 DEF ls, blk, new
  <2>5. Owned'
    BY <1>1, <1>3, <2>3, <2>4 DEF Owned
  <2> QED BY <1>2, <1>3, <2>1, <2>3, <2>5 DEF Flags
<1> QED BY <1>6, <1>7 DEF Release
LEMMA ResizeKeeps ==
  ASSUME Blocks, Owned, NEW t \in Thread, NEW p \in held[t], NEW req \in Nat, ReallocInPlace(t, p, req)
  PROVE  Blocks' /\ Owned' /\ Listed' = Listed
<1> DEFINE b == p[1]
           a == p[2]
           k == At(p)
           r == [block[b] EXCEPT !.minors[k].req = req]
<1>1. b \in Listed /\ a \in Addresses(Minors(b)) /\ a \in Nat /\ p = <<b, a>>
  BY HeldIs
<1>2. /\ block' = [block EXCEPT ![b].minors[k].req = req]
      /\ majors' = majors /\ best' = best /\ held' = held
  BY DEF ReallocInPlace
<1>3. Sound(r) /\ Addresses(r.minors) = Addresses(Minors(b))
  BY <1>1, ResizedIs
<1>4. block' = [block EXCEPT ![b] = r]
  BY <1>2
<1> HIDE DEF r, b, a, k
<1>5. /\ Blocks' /\ Listed' = Listed /\ block'[b] = r
      /\ \A c \in Listed \ {b} : block'[c] = block[c]
  <2>1. best' # Nil => best' \in Listed
    BY <1>2 DEF Blocks
  <2> QED BY <1>1, <1>2, <1>3, <1>4, <2>1, BlocksSet
<1>6. Places(Listed, block') = Places(Listed, block)
  <2> DEFINE ls == Listed
             blk == block
             new == block'
  <2>1. \A c \in ls : Addresses(new[c].minors) = Addresses(blk[c].minors)
    BY <1>3, <1>5 DEF Minors
  <2> HIDE DEF ls, blk, new
  <2>2. Places(ls, new) = Places(ls, blk)
    BY <2>1, PlacesSame
  <2> QED BY <2>2 DEF ls, blk, new
<1>7. Owned'
  BY <1>2, <1>5, <1>6 DEF Owned
<1> QED BY <1>5, <1>7

-----------------------------------------------------------------------------
(***************************************************************************)
(* The invariant is inductive.                                             *)
(***************************************************************************)
LEMMA InitInv ==
  ASSUME Init
  PROVE  KInv
<1>1. /\ majors = <<>> /\ block = [b \in Block |-> Nil] /\ best = Nil
      /\ held = [t \in Thread |-> {}] /\ grow = [t \in Thread |-> Nil]
      /\ lost = FALSE /\ crashed = FALSE
  BY DEF Init
<1>2. Listed = {}
  BY <1>1 DEF Listed, ToSet
<1>3. Blocks
  <2>1. majors \in Seq(Block) /\ Len(majors) = 0 /\ DOMAIN majors = {}
    BY <1>1
  <2>2. IsInjective(majors)
    BY <2>1 DEF IsInjective
  <2>3. Len(majors) <= NBlock
    BY <2>1, Constants
  <2>4. DOMAIN block = Block /\ \A b \in Block : block[b] = Nil
    BY <1>1
  <2>5. block = [b \in Block |-> block[b]]
    BY <1>1
  <2> QED BY <1>1, <1>2, <2>1, <2>2, <2>3, <2>4, <2>5 DEF Blocks
<1>4. Owned
  <2>1. held \in Holdings /\ \A t \in Thread : held[t] = {}
    BY <1>1 DEF Holdings
  <2>2. Alone(held) /\ HeldIn(held) = {}
    BY <2>1 DEF Alone, HeldIn
  <2>3. Places(Listed, block) = {}
    BY <1>2 DEF Places
  <2> QED BY <2>1, <2>2, <2>3 DEF Owned
<1>5. Growing
  BY <1>1 DEF Growing
<1>6. Flags
  BY <1>1 DEF Flags
<1> QED BY <1>3, <1>4, <1>5, <1>6 DEF KInv

LEMMA GrowStays ==
  ASSUME Growing, grow' = grow, \A u \in Thread : grow[u] # Nil => held[u] \subseteq held'[u]
  PROVE  Growing'
BY DEF Growing

LEMMA KmallocKeeps ==
  ASSUME KInv, NEW t \in Thread, NEW req \in Requests, Kmalloc(t, req)
  PROVE  KInv'
<1>1. Malloc(t, req) /\ grow' = grow /\ req \in Nat
  BY Constants DEF Kmalloc
<1>2. Blocks' /\ Owned' /\ Flags' /\ \A u \in Thread : held[u] \subseteq held'[u]
  BY <1>1, MallocKeeps DEF KInv
<1>3. Growing'
  BY <1>1, <1>2, GrowStays DEF KInv
<1> QED BY <1>2, <1>3 DEF KInv

LEMMA KfreeKeeps ==
  ASSUME KInv, NEW t \in Thread, NEW p \in held[t], Kfree(t, p)
  PROVE  KInv' /\ Listed' \subseteq Listed
<1>1. Release(t, p) /\ grow' = grow /\ grow[t] = Nil
  BY DEF Kfree
<1>2. /\ Blocks' /\ Owned' /\ Flags' /\ \A u \in Thread : u # t => held'[u] = held[u]
      /\ Listed' \subseteq Listed
  BY <1>1, ReleaseKeeps DEF KInv
<1>3. Growing'
  BY <1>1, <1>2, GrowStays DEF KInv
<1> QED BY <1>2, <1>3 DEF KInv

LEMMA ReallocInPlaceKeeps ==
  ASSUME KInv, NEW t \in Thread, NEW p \in held[t], NEW req \in Requests, ReallocInPlace(t, p, req)
  PROVE  KInv' /\ Listed' = Listed
<1>1. Blocks' /\ Owned' /\ Listed' = Listed
  BY ResizeKeeps, Constants DEF KInv
<1>2. held' = held /\ grow' = grow /\ lost' = lost /\ crashed' = crashed
  BY DEF ReallocInPlace
<1>3. Growing'
  BY <1>2, GrowStays DEF KInv
<1> QED BY <1>1, <1>2, <1>3 DEF KInv, Flags

(* A step that leaves the blocks and the pointers as they are.             *)
LEMMA HeapStays ==
  ASSUME Blocks, Owned, UNCHANGED <<majors, block, best, held>>
  PROVE  Blocks' /\ Owned' /\ Listed' = Listed
<1>1. Listed' = Listed
  BY DEF Listed
<1> QED BY <1>1 DEF Blocks, Owned

LEMMA ReallocUnlockKeeps ==
  ASSUME KInv, NEW t \in Thread, NEW p \in held[t], NEW req \in Requests, ReallocUnlock(t, p, req)
  PROVE  KInv' /\ Listed' = Listed
<1>1. /\ grow' = [grow EXCEPT ![t] = [old |-> p, req |-> req, moved |-> FALSE]]
      /\ UNCHANGED <<majors, block, best, held, lost, crashed>>
  BY DEF ReallocUnlock, heap
<1>2. Blocks' /\ Owned' /\ Listed' = Listed
  BY <1>1, HeapStays DEF KInv
<1>3. p \in Block \X Nat
  BY DEF KInv, Owned, Holdings
<1> DEFINE new == [old |-> p, req |-> req, moved |-> FALSE]
<1>4. new \in [old : Block \X Nat, req : Requests, moved : BOOLEAN] /\ new.old \in held[t]
  BY <1>3
<1>5. grow' = [grow EXCEPT ![t] = new]
  BY <1>1
<1> HIDE DEF new
<1>6. Growing'
  BY <1>1, <1>4, <1>5 DEF KInv, Growing
<1> QED BY <1>1, <1>2, <1>6 DEF KInv, Flags

LEMMA ReallocMallocKeeps ==
  ASSUME KInv, NEW t \in Thread, ReallocMalloc(t)
  PROVE  KInv' /\ grow[t].req \in Nat
<1> DEFINE g == grow[t]
           new == [g EXCEPT !.moved = TRUE]
<1>1. g # Nil /\ Malloc(t, g.req) /\ grow' = [grow EXCEPT ![t] = new]
  BY DEF ReallocMalloc
<1>2. g \in [old : Block \X Nat, req : Requests, moved : BOOLEAN] /\ g.old \in held[t]
  BY <1>1 DEF KInv, Growing
<1>3. new \in [old : Block \X Nat, req : Requests, moved : BOOLEAN] /\ new.old = g.old
  BY <1>2
<1>4. g.req \in Nat
  BY <1>2, Constants
<1> HIDE DEF new, g
<1>5. Blocks' /\ Owned' /\ Flags' /\ \A u \in Thread : held[u] \subseteq held'[u]
  BY <1>1, <1>4, MallocKeeps DEF KInv
<1>6. grow'[t] = new /\ \A u \in Thread : u # t => grow'[u] = grow[u]
  BY <1>1 DEF KInv, Growing
<1>7. DOMAIN grow' = Thread /\ grow' = [u \in Thread |-> grow'[u]]
  BY <1>1 DEF KInv, Growing
<1>8. ASSUME NEW u \in Thread, grow'[u] # Nil
      PROVE  /\ grow'[u] \in [old : Block \X Nat, req : Requests, moved : BOOLEAN]
             /\ grow'[u].old \in held'[u]
  <2>1. CASE u = t
    BY <1>2, <1>3, <1>5, <1>6, <2>1
  <2>2. CASE u # t
    <3>1. grow'[u] = grow[u]
      BY <1>6, <2>2
    <3>2. /\ grow[u] \in [old : Block \X Nat, req : Requests, moved : BOOLEAN]
          /\ grow[u].old \in held[u]
      BY Zenon, <1>8, <3>1 DEF KInv, Growing
    <3> QED BY Zenon, <1>5, <3>1, <3>2
  <2> QED BY <2>1, <2>2
<1>9. Growing'
  BY Zenon, <1>7, <1>8 DEF Growing
<1> QED BY <1>4, <1>5, <1>9 DEF KInv, g

LEMMA ReallocFreeKeeps ==
  ASSUME KInv, NEW t \in Thread, ReallocFree(t)
  PROVE  KInv' /\ Listed' \subseteq Listed
<1> DEFINE p == grow[t].old
<1>1. grow[t] # Nil /\ Release(t, p) /\ grow' = [grow EXCEPT ![t] = Nil]
  BY DEF ReallocFree
<1>2. p \in held[t]
  BY <1>1 DEF KInv, Growing
<1> HIDE DEF p
<1>3. /\ Blocks' /\ Owned' /\ Flags' /\ \A u \in Thread : u # t => held'[u] = held[u]
      /\ Listed' \subseteq Listed
  BY <1>1, <1>2, ReleaseKeeps DEF KInv
<1>4. grow'[t] = Nil /\ \A u \in Thread : u # t => grow'[u] = grow[u]
  BY <1>1 DEF KInv, Growing
<1>5. DOMAIN grow' = Thread /\ grow' = [u \in Thread |-> grow'[u]]
  BY <1>1 DEF KInv, Growing
<1>6. ASSUME NEW u \in Thread, grow'[u] # Nil
      PROVE  /\ grow'[u] \in [old : Block \X Nat, req : Requests, moved : BOOLEAN]
             /\ grow'[u].old \in held'[u]
  <2>1. u # t /\ grow'[u] = grow[u] /\ held'[u] = held[u]
    BY <1>3, <1>4, <1>6
  <2> QED BY Zenon, <1>6, <2>1 DEF KInv, Growing
<1>7. Growing'
  BY Zenon, <1>5, <1>6 DEF Growing
<1> QED BY <1>3, <1>7 DEF KInv

(* No step but kmalloc of a block lengthens the list.                      *)
LEMMA NextInv ==
  ASSUME KInv, [Next]_vars
  PROVE  /\ KInv'
         /\ \/ Listed' \subseteq Listed
            \/ \E t \in Thread : \E req \in Nat : Malloc(t, req)
<1>1. ASSUME NEW t \in Thread, NEW req \in Requests, Kmalloc(t, req)
      PROVE  KInv' /\ \E u \in Thread : \E r \in Nat : Malloc(u, r)
  <2>1. Malloc(t, req) /\ req \in Nat
    BY <1>1, Constants DEF Kmalloc
  <2> QED BY <1>1, <2>1, KmallocKeeps
<1>2. ASSUME NEW t \in Thread, NEW p \in held[t], Kfree(t, p)
      PROVE  KInv' /\ Listed' \subseteq Listed
  BY <1>2, KfreeKeeps
<1>3. ASSUME NEW t \in Thread, NEW p \in held[t], NEW req \in Requests \ {0}, ReallocInPlace(t, p, req)
      PROVE  KInv' /\ Listed' \subseteq Listed
  BY <1>3, ReallocInPlaceKeeps
<1>4. ASSUME NEW t \in Thread, NEW p \in held[t], NEW req \in Requests \ {0}, ReallocUnlock(t, p, req)
      PROVE  KInv' /\ Listed' \subseteq Listed
  BY <1>4, ReallocUnlockKeeps
<1>5. ASSUME NEW t \in Thread, ReallocMalloc(t)
      PROVE  KInv' /\ \E u \in Thread : \E r \in Nat : Malloc(u, r)
  <2>1. Malloc(t, grow[t].req)
    BY <1>5 DEF ReallocMalloc
  <2> QED BY <1>5, <2>1, ReallocMallocKeeps
<1>6. ASSUME NEW t \in Thread, ReallocFree(t) PROVE KInv' /\ Listed' \subseteq Listed
  BY <1>6, ReallocFreeKeeps
<1>7. ASSUME UNCHANGED vars PROVE KInv' /\ Listed' \subseteq Listed
  <2>1. UNCHANGED <<majors, block, best, held, grow, lost, crashed>>
    BY <1>7 DEF vars
  <2>2. Blocks' /\ Owned' /\ Listed' = Listed
    BY <2>1, HeapStays DEF KInv
  <2>3. Growing'
    BY <2>1, GrowStays DEF KInv
  <2> QED BY <2>1, <2>2, <2>3 DEF KInv, Flags
<1>8. CASE Next
  <2> HIDE DEF Listed
  <2> QED BY Zenon, <1>1, <1>2, <1>3, <1>4, <1>5, <1>6, <1>7, <1>8 DEF Next
<1> QED BY <1>7, <1>8

(* The inductive invariant of the kernel allocator.                        *)
THEOREM KmallocInvariant == Spec => []KInv
<1>1. Init => KInv
  BY InitInv
<1>2. KInv /\ [Next]_vars => KInv'
  BY NextInv
<1> QED BY <1>1, <1>2, PTL DEF Spec
-----------------------------------------------------------------------------
(***************************************************************************)
(* The properties of the run.                                              *)
(***************************************************************************)
(* Everything has its type, and a block never counts more than it has.     *)
THEOREM TypeOKHolds == Spec => []TypeOK
<1>1. ASSUME KInv PROVE TypeOK
  <2>1. Blocks /\ Owned /\ Flags
    BY <1>1 DEF KInv
  <2>2. majors \in SeqOf(Block, NBlock) /\ IsInjective(majors)
    <3>1. majors \in [1 .. Len(majors) -> Block] /\ Len(majors) \in 0 .. NBlock
      BY <2>1, LenProperties, Constants DEF Blocks
    <3> QED BY <2>1, <3>1 DEF SeqOf, Blocks
  <2>3. ASSUME NEW b \in Listed
        PROVE  /\ block[b].pages \in Nat /\ block[b].usage \in 0 .. Bytes(b)
               /\ \A i \in DOMAIN Minors(b) : Minors(b)[i] \in [at : Nat, size : Nat, req : Nat]
    <3>1. /\ block[b] \in BlockType /\ Minors(b) \in Seq(MinorType)
          /\ Bytes(b) \in Nat /\ block[b].usage \in Nat /\ block[b].usage <= Bytes(b)
      BY <2>1, BlockIs
    <3>2. block[b].pages \in Nat
      BY <3>1 DEF BlockType
    <3>3. \A i \in DOMAIN Minors(b) : Minors(b)[i] \in MinorType
      BY <3>1, MinorIs
    <3>4. block[b].usage \in 0 .. Bytes(b)
      <4> DEFINE u == block[b].usage
                 n == Bytes(b)
      <4>1. u \in Nat /\ n \in Nat /\ u <= n
        BY <3>1
      <4> HIDE DEF u, n
      <4>2. u \in 0 .. n
        BY <4>1
      <4> QED BY <4>2 DEF u, n
    <3> QED BY <3>2, <3>3, <3>4 DEF MinorType
  <2>4. \A b \in Block \ Listed : block[b] = Nil
    BY <2>1 DEF Blocks
  <2>5. held \in [Thread -> SUBSET (Block \X Nat)]
    BY <2>1 DEF Owned, Holdings
  <2>6. lost \in BOOLEAN /\ crashed \in BOOLEAN
    BY <2>1 DEF Flags
  <2> QED BY Zenon, <2>2, <2>3, <2>4, <2>5, <2>6 DEF TypeOK, Listed
<1> QED BY <1>1, KmallocInvariant, PTL

(* Minors lie one behind the other inside their block.                     *)
THEOREM MinorsAreDisjointHolds == Spec => []MinorsAreDisjoint
<1>1. ASSUME KInv PROVE MinorsAreDisjoint
  <2>1. \A b \in Listed : \A i \in 0 .. Len(Minors(b)) : GapStart(b, i) <= GapEnd(b, i)
    BY <1>1, GapsOf DEF KInv
  <2> QED BY Zenon, <2>1 DEF MinorsAreDisjoint, Listed
<1> QED BY <1>1, KmallocInvariant, PTL

(* The usage of a block is its header and what its minors take.            *)
THEOREM UsageIsExactHolds == Spec => []UsageIsExact
<1>1. ASSUME KInv PROVE UsageIsExact
  <2>1. \A b \in Listed : block[b].usage = TakenBy(Minors(b))
    BY <1>1, BlockIs DEF KInv
  <2> QED BY Zenon, <2>1 DEF UsageIsExact, Listed, Used, TakenBy
<1> QED BY <1>1, KmallocInvariant, PTL

(* The best bet is a block of the list, and none of them is empty.         *)
THEOREM BestBetIsListedHolds == Spec => []BestBetIsListed
<1>1. ASSUME KInv PROVE BestBetIsListed
  <2>1. best # Nil => best \in Listed
    BY <1>1 DEF KInv, Blocks
  <2>2. ASSUME NEW b \in Listed PROVE Minors(b) # <<>>
    <3>1. Len(Minors(b)) > 0
      BY <1>1, BlockIs DEF KInv
    <3> QED BY <3>1
  <2> QED BY Zenon, <2>1, <2>2 DEF BestBetIsListed, Listed
<1> QED BY <1>1, KmallocInvariant, PTL

(* The minors are what the threads hold, each one thread.                  *)
THEOREM EveryMinorIsHeldHolds == Spec => []EveryMinorIsHeld
<1>1. ASSUME KInv PROVE EveryMinorIsHeld
  <2>1. Blocks /\ Owned
    BY <1>1 DEF KInv
  <2>2. ASSUME NEW b \in Listed
        PROVE  {<<b, Minors(b)[i].at>> : i \in DOMAIN Minors(b)} = {<<b, a>> : a \in Addresses(Minors(b))}
    <3>1. DOMAIN Minors(b) = 1 .. Len(Minors(b))
      BY <2>1, BlockIs, MinorIs
    <3> QED BY <3>1 DEF Addresses, Start
  <2>3. \A b \in Listed : Addresses(Minors(b)) \subseteq Nat
    BY <2>1, BlockIs, MinorIs DEF Addresses
  <2>4. Pointers = UNION {{<<b, a>> : a \in Addresses(Minors(b))} : b \in Listed}
    BY <2>2 DEF Pointers, Listed
  <2>5. Pointers = Places(Listed, block)
    <3> HIDE DEF Listed
    <3> QED BY <2>3, <2>4 DEF Places, Minors
  <2>6. Places(Listed, block) = HeldIn(held) /\ Alone(held)
    BY <2>1 DEF Owned
  <2> QED BY Zenon, <2>5, <2>6 DEF EveryMinorIsHeld, HeldIn, Alone
<1> QED BY <1>1, KmallocInvariant, PTL

(* A block is added only when no listed one has a gap for the request.     *)
Needed ==
  \A b \in Block : b \notin ToSet(majors) /\ b \in ToSet(majors') =>
    \A c \in ToSet(majors) : \A i \in 0 .. Len(Minors(c)) :
      GapEnd(c, i) - GapStart(c, i) < block[b]'.usage - MajHdr

(* A block that is passed over has no gap of that size.                    *)
LEMMA NoGap ==
  ASSUME Blocks, NEW req \in Nat, NEW c \in Listed, ~ Fits(c, Need(req)), NEW i \in 0 .. Len(Minors(c))
  PROVE  GapEnd(c, i) - GapStart(c, i) < Need(req)
<1> DEFINE need == Need(req)
           gap == GapEnd(c, i) - GapStart(c, i)
           free == Free(c)
<1>1. need \in Nat /\ gap \in Int /\ gap <= free /\ free \in Nat
  <2>1. need \in Nat /\ free \in Nat
    BY PagesAreEnough, BlockIs
  <2>2. GapStart(c, i) \in Nat /\ GapEnd(c, i) \in Nat /\ gap <= free
    BY GapsOf
  <2>3. gap \in Int
    BY <2>2
  <2> QED BY Zenon, <2>1, <2>2, <2>3
<1>2. free >= need => i \notin Gaps(c, need)
  BY DEF Fits
<1>3. i \notin Gaps(c, need) => ~ (gap >= need)
  BY DEF Gaps
<1> HIDE DEF need, gap, free
<1>4. gap < need
  BY <1>1, <1>2, <1>3
<1> QED BY <1>4 DEF gap, need

(* A new block is asked for only when no gap of any listed block is large  *)
(* enough for the request that the block is for.                           *)
THEOREM NewBlockOnlyWhenNeededHolds == Spec => NewBlockOnlyWhenNeeded
<1>1. ASSUME KInv, [Next]_vars PROVE Needed
  <2>1. Blocks /\ Owned
    BY <1>1 DEF KInv
  <2>2. CASE Listed' \subseteq Listed
    BY Zenon, <2>2 DEF Needed, Listed
  <2>3. ASSUME NEW t \in Thread, NEW req \in Nat, Malloc(t, req) PROVE Needed
    <3>1. CASE MallocFits(t, req)
      <4>1. Listed' = Listed
        BY <2>1, <3>1, FitsKeeps
      <4> QED BY Zenon, <4>1 DEF Needed, Listed
    <3>2. CASE MallocCrashes(req)
      <4>1. majors' = majors
        BY <3>2 DEF MallocCrashes, heap
      <4> QED BY Zenon, <4>1 DEF Needed
    <3>3. CASE MallocGrows(t, req)
      <4>1. PICK b \in Block \ Listed : Listed' = Listed \cup {b} /\ block'[b].usage = MajHdr + Need(req)
        BY <2>1, <3>3, GrowsKeeps
      <4>2. \A c \in Listed : ~ Fits(c, Need(req))
        BY <2>1, <3>3, GrowsKeeps
      <4>3. block'[b].usage - MajHdr = Need(req)
        BY <4>1, PagesAreEnough, Constants
      <4>4. ASSUME NEW c \in Listed, NEW i \in 0 .. Len(Minors(c))
            PROVE  GapEnd(c, i) - GapStart(c, i) < block'[b].usage - MajHdr
        <5>1. GapEnd(c, i) - GapStart(c, i) < Need(req)
          BY <2>1, <4>2, NoGap
        <5> QED BY Zenon, <4>3, <5>1
      <4>5. \A x \in Block : x \notin Listed /\ x \in Listed' => x = b
        <5> HIDE DEF Listed
        <5> QED BY <4>1
      <4> QED BY Zenon, <4>4, <4>5 DEF Needed, Listed
    <3> QED BY <2>3, <3>1, <3>2, <3>3 DEF Malloc
  <2> QED BY <1>1, <2>2, <2>3, NextInv
<1>2. KInv /\ [Next]_vars => [Needed]_vars
  BY <1>1
<1>3. NewBlockOnlyWhenNeeded <=> [][Needed]_vars
  BY PTL DEF NewBlockOnlyWhenNeeded, Needed
<1> QED BY <1>2, <1>3, KmallocInvariant, PTL DEF Spec
================================================================================
