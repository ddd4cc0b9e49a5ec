------------------------------ MODULE ApiProofs -------------------------------
(***************************************************************************)
(* The size classes for every size, and what the entry points do with the  *)
(* sizes of objects: the class of an object and the size the trie gives    *)
(* back cover the same pages, and a realloc that gives its lock up copies  *)
(* what it should, for any number of threads, pointers and sizes.          *)
(***************************************************************************)
EXTENDS ForkLockProofs

(***************************************************************************)
(* Size classes: a class is at least the size asked for and the trie,      *)
(* which keeps the index of the class, gives it back.                      *)
(***************************************************************************)
LEMMA Units ==
  /\ UnitOf(0) = 16 /\ UnitOf(1) = 32 /\ UnitOf(2) = 64 /\ UnitOf(3) = 128
  /\ UnitOf(4) = 256 /\ UnitOf(5) = 512 /\ UnitOf(6) = 1024 /\ UnitOf(7) = 2048
  /\ UnitOf(8) = 4096 /\ UnitOf(9) = 8192
BY DEF UnitOf, Unit

LEMMA Ends ==
  /\ BandEnd(0) = 128 /\ BandEnd(1) = 256 /\ BandEnd(2) = 512 /\ BandEnd(3) = 1024
  /\ BandEnd(4) = 2048 /\ BandEnd(5) = 4096 /\ BandEnd(6) = 8192 /\ BandEnd(7) = 16384
  /\ BandEnd(8) = 32768 /\ BandEnd(9) = 65536 /\ MaxClass = 65536
BY Units DEF BandEnd, MaxClass

(* A band, by what it says of its sizes and of its indices.                *)
LEMMA Bands ==
  ASSUME NEW k \in Band
  PROVE  /\ UnitOf(k) \in Nat \ {0} /\ BandEnd(k) = 8 * UnitOf(k)
         /\ k # 0 => k - 1 \in Band /\ BandEnd(k - 1) = 4 * UnitOf(k)
<1>1. k \in 0 .. 9
  BY DEF Band
<1>2. CASE k = 0
  BY <1>2, Units DEF BandEnd
<1>3. CASE k = 1
  BY <1>3, Units, Ends DEF Band
<1>4. CASE k = 2
  BY <1>4, Units, Ends DEF Band
<1>5. CASE k = 3
  BY <1>5, Units, Ends DEF Band
<1>6. CASE k = 4
  BY <1>6, Units, Ends DEF Band
<1>7. CASE k = 5
  BY <1>7, Units, Ends DEF Band
<1>8. CASE k = 6
  BY <1>8, Units, Ends DEF Band
<1>9. CASE k = 7
  BY <1>9, Units, Ends DEF Band
<1>10. CASE k = 8
  BY <1>10, Units, Ends DEF Band
<1>11. CASE k = 9
  BY <1>11, Units, Ends DEF Band
<1> QED BY <1>1, <1>2, <1>3, <1>4, <1>5, <1>6, <1>7, <1>8, <1>9, <1>10, <1>11

(* Rounding up to a multiple of the unit.                                  *)
LEMMA RoundedUp ==
  ASSUME NEW u \in {16, 32, 64, 128, 256, 512, 1024, 2048, 4096, 8192},
         NEW s \in Nat \ {0}, s <= 8 * u
  PROVE  \E m \in 1 .. 8 : /\ (s + u - 1) \div u = m /\ s <= u * m
                           /\ 4 * u < s => m > 4
<1>1. CASE u = 16
  BY <1>1
<1>2. CASE u = 32
  BY <1>2
<1>3. CASE u = 64
  BY <1>3
<1>4. CASE u = 128
  BY <1>4
<1>5. CASE u = 256
  BY <1>5
<1>6. CASE u = 512
  BY <1>6
<1>7. CASE u = 1024
  BY <1>7
<1>8. CASE u = 2048
  BY <1>8
<1>9. CASE u = 4096
  BY <1>9
<1>10. CASE u = 8192
  BY <1>10
<1> QED BY <1>1, <1>2, <1>3, <1>4, <1>5, <1>6, <1>7, <1>8, <1>9, <1>10

LEMMA ExactMultiple ==
  ASSUME NEW u \in {16, 32, 64, 128, 256, 512, 1024, 2048, 4096, 8192}, NEW m \in 1 .. 8
  PROVE  (u * m + (u - 1)) \div u = m
<1>1. CASE u = 16
  BY <1>1
<1>2. CASE u = 32
  BY <1>2
<1>3. CASE u = 64
  BY <1>3
<1>4. CASE u = 128
  BY <1>4
<1>5. CASE u = 256
  BY <1>5
<1>6. CASE u = 512
  BY <1>6
<1>7. CASE u = 1024
  BY <1>7
<1>8. CASE u = 2048
  BY <1>8
<1>9. CASE u = 4096
  BY <1>9
<1>10. CASE u = 8192
  BY <1>10
<1> QED BY <1>1, <1>2, <1>3, <1>4, <1>5, <1>6, <1>7, <1>8, <1>9, <1>10

LEMMA EndsGrow ==
  ASSUME NEW j \in Band, NEW k \in Band, j < k
  PROVE  BandEnd(j) <= BandEnd(k - 1)
<1>1. j \in 0 .. 9 /\ k \in 1 .. 9
  BY DEF Band
<1>2. CASE k = 1
  BY <1>1, <1>2, Ends
<1>3. CASE k = 2
  BY <1>1, <1>3, Ends
<1>4. CASE k = 3
  BY <1>1, <1>4, Ends
<1>5. CASE k = 4
  BY <1>1, <1>5, Ends
<1>6. CASE k = 5
  BY <1>1, <1>6, Ends
<1>7. CASE k = 6
  BY <1>1, <1>7, Ends
<1>8. CASE k = 7
  BY <1>1, <1>8, Ends
<1>9. CASE k = 8
  BY <1>1, <1>9, Ends
<1>10. CASE k = 9
  BY <1>1, <1>10, Ends
<1> QED BY <1>1, <1>2, <1>3, <1>4, <1>5, <1>6, <1>7, <1>8, <1>9, <1>10

(* Every size up to MaxClass is in exactly one band.                       *)
LEMMA OneBand ==
  ASSUME NEW s \in Nat, NEW k \in Band, InBand(s, k)
  PROVE  BandOf(s) = k
<1>1. ASSUME NEW j \in Band, InBand(s, j) PROVE j = k
  <2>1. j \in 0 .. 9 /\ k \in 0 .. 9
    BY DEF Band
  <2>2. CASE j < k
    <3>1. BandEnd(j) <= BandEnd(k - 1)
      BY <2>2, EndsGrow
    <3>2. s <= BandEnd(j) /\ BandEnd(k - 1) < s
      BY <1>1, <2>1, <2>2 DEF InBand
    <3>3. BandEnd(j) \in Nat /\ BandEnd(k - 1) \in Nat
      BY <2>1, <2>2, Bands
    <3> QED BY <3>1, <3>2, <3>3
  <2>3. CASE k < j
    <3>1. BandEnd(k) <= BandEnd(j - 1)
      BY <2>3, EndsGrow
    <3>2. s <= BandEnd(k) /\ BandEnd(j - 1) < s
      BY <1>1, <2>1, <2>3 DEF InBand
    <3>3. BandEnd(k) \in Nat /\ BandEnd(j - 1) \in Nat
      BY <2>1, <2>3, Bands
    <3> QED BY <3>1, <3>2, <3>3
  <2> QED BY <2>1, <2>2, <2>3
<1> QED BY <1>1 DEF BandOf

LEMMA SomeBand ==
  ASSUME NEW s \in Nat, s <= MaxClass
  PROVE  \E k \in Band : InBand(s, k)
<1>1. CASE s <= 128
  <2>1. 0 \in Band /\ InBand(s, 0)
    BY <1>1, Ends DEF Band, InBand
  <2> QED BY <2>1
<1>2. CASE 128 < s /\ s <= 256
  <2>1. 1 \in Band /\ InBand(s, 1)
    BY <1>2, Ends DEF Band, InBand
  <2> QED BY <2>1
<1>3. CASE 256 < s /\ s <= 512
  <2>1. 2 \in Band /\ InBand(s, 2)
    BY <1>3, Ends DEF Band, InBand
  <2> QED BY <2>1
<1>4. CASE 512 < s /\ s <= 1024
  <2>1. 3 \in Band /\ InBand(s, 3)
    BY <1>4, Ends DEF Band, InBand
  <2> QED BY <2>1
<1>5. CASE 1024 < s /\ s <= 2048
  <2>1. 4 \in Band /\ InBand(s, 4)
    BY <1>5, Ends DEF Band, InBand
  <2> QED BY <2>1
<1>6. CASE 2048 < s /\ s <= 4096
  <2>1. 5 \in Band /\ InBand(s, 5)
    BY <1>6, Ends DEF Band, InBand
  <2> QED BY <2>1
<1>7. CASE 4096 < s /\ s <= 8192
  <2>1. 6 \in Band /\ InBand(s, 6)
    BY <1>7, Ends DEF Band, InBand
  <2> QED BY <2>1
<1>8. CASE 8192 < s /\ s <= 16384
  <2>1. 7 \in Band /\ InBand(s, 7)
    BY <1>8, Ends DEF Band, InBand
  <2> QED BY <2>1
<1>9. CASE 16384 < s /\ s <= 32768
  <2>1. 8 \in Band /\ InBand(s, 8)
    BY <1>9, Ends DEF Band, InBand
  <2> QED BY <2>1
<1>10. CASE 32768 < s /\ s <= 65536
  <2>1. 9 \in Band /\ InBand(s, 9)
    BY <1>10, Ends DEF Band, InBand
  <2> QED BY <2>1
<1> QED BY <1>1, <1>2, <1>3, <1>4, <1>5, <1>6, <1>7, <1>8, <1>9, <1>10, Ends

LEMMA OneClassBand ==
  ASSUME NEW i \in Nat, NEW k \in Band, InClasses(i, k)
  PROVE  (CHOOSE j \in Band : InClasses(i, j)) = k
<1>1. ASSUME NEW j \in Band, InClasses(i, j) PROVE j = k
  BY <1>1 DEF InClasses, Band
<1> QED BY <1>1

LEMMA ClassSize ==
  ASSUME NEW i \in Nat \ {0}, i <= 44, NEW k \in Band, InClasses(i, k)
  PROVE  index_to_max_usable_size(i) = (i - 4 * k) * UnitOf(k)
<1>1. ~(i = 0) /\ ~(i > 44) /\ (CHOOSE j \in Band : InClasses(i, j)) = k
  BY OneClassBand
<1> QED BY Zenon, <1>1 DEF index_to_max_usable_size

(* The class of a size beyond 8, by its band and its place there.          *)
LEMMA ClassOf ==
  ASSUME NEW s \in Nat, 8 < s, s <= MaxClass
  PROVE  \E k \in Band, m \in 1 .. 8 :
           /\ size_to_usable_size(s) = UnitOf(k) * m
           /\ s <= UnitOf(k) * m
           /\ k # 0 => m > 4
<1>1. PICK k \in Band : InBand(s, k)
  BY SomeBand
<1>2. BandOf(s) = k
  BY <1>1, OneBand
<1>3. UnitOf(k) \in {16, 32, 64, 128, 256, 512, 1024, 2048, 4096, 8192}
  BY Units DEF Band
<1>4. s <= 8 * UnitOf(k) /\ (k # 0 => 4 * UnitOf(k) < s)
  BY <1>1, Bands DEF InBand
<1>5. PICK m \in 1 .. 8 : /\ (s + UnitOf(k) - 1) \div UnitOf(k) = m /\ s <= UnitOf(k) * m
                          /\ 4 * UnitOf(k) < s => m > 4
  BY <1>3, <1>4, RoundedUp
<1>6. size_to_usable_size(s) = UnitOf(k) * ((s + UnitOf(k) - 1) \div UnitOf(k))
  BY <1>2, Ends DEF size_to_usable_size
<1>7. size_to_usable_size(s) = UnitOf(k) * m /\ s <= UnitOf(k) * m /\ (k # 0 => m > 4)
  BY <1>4, <1>5, <1>6
<1> QED BY Zenon, <1>7

(* The index of a class, and the class of that index.                      *)
LEMMA IndexOf ==
  ASSUME NEW k \in Band, NEW m \in 1 .. 8, k # 0 => m > 4
  PROVE  /\ size_to_reservation_index(UnitOf(k) * m) = 4 * k + m
         /\ index_to_max_usable_size(4 * k + m) = UnitOf(k) * m
<1> DEFINE c == UnitOf(k) * m
<1>1. UnitOf(k) \in {16, 32, 64, 128, 256, 512, 1024, 2048, 4096, 8192}
  BY Units DEF Band
<1>2. c \in Nat /\ 8 < c /\ c <= 8 * UnitOf(k) /\ (k # 0 => 4 * UnitOf(k) < c) /\ c <= MaxClass
  BY <1>1, Ends
<1>3. InBand(c, k)
  BY <1>2, Bands DEF InBand
<1>4. BandOf(c) = k
  BY <1>2, <1>3, OneBand
<1>5. (c + RoundUp(k)) \div UnitOf(k) = m
  <2>1. CASE k = 9
    BY <2>1, Units DEF RoundUp
  <2>2. CASE k # 9
    <3>1. (c + (UnitOf(k) - 1)) \div UnitOf(k) = m
      BY <1>1, ExactMultiple
    <3> QED BY <2>2, <3>1 DEF RoundUp
  <2> QED BY <2>1, <2>2
<1>6. size_to_reservation_index(c) = 4 * k + m
  <2> HIDE DEF c
  <2>1. c \in Nat /\ ~(c <= 8) /\ ~(c > MaxClass)
    BY <1>2, Ends
  <2>2. size_to_reservation_index(c)
          = 4 * BandOf(c) + (c + RoundUp(BandOf(c))) \div UnitOf(BandOf(c))
    BY Zenon, <2>1 DEF size_to_reservation_index
  <2> QED BY <1>4, <1>5, <2>2
<1>7. 4 * k + m \in Nat \ {0} /\ 4 * k + m <= 44 /\ InClasses(4 * k + m, k)
  BY DEF InClasses, Band
<1>8. index_to_max_usable_size(4 * k + m) = (4 * k + m - 4 * k) * UnitOf(k)
  BY <1>7, ClassSize DEF Band
<1>9. (4 * k + m - 4 * k) * UnitOf(k) = c
  BY <1>1 DEF Band
<1> QED BY <1>6, <1>8, <1>9
-----------------------------------------------------------------------------
(* size_to_usable_size (ota.h): no class is smaller than the size asked    *)
(* for, and rounding a class up again changes nothing.                     *)
THEOREM ClassIsLargeEnough ==
  ASSUME NEW s \in Nat, s <= MaxClass
  PROVE  s <= size_to_usable_size(s) /\ size_to_usable_size(s) <= MaxClass
<1>1. CASE s <= 8
  BY <1>1, Ends DEF size_to_usable_size
<1>2. CASE 8 < s
  <2>1. PICK k \in Band, m \in 1 .. 8 : /\ size_to_usable_size(s) = UnitOf(k) * m
                                        /\ s <= UnitOf(k) * m
    BY <1>2, ClassOf
  <2>2. UnitOf(k) \in {16, 32, 64, 128, 256, 512, 1024, 2048, 4096, 8192}
    BY Units DEF Band
  <2>3. UnitOf(k) * m <= MaxClass
    BY <2>2, Ends
  <2> QED BY <2>1, <2>3
<1> QED BY <1>1, <1>2

(* The trie keeps only the index of a class: __ota_free and get_canonical  *)
(* get the size of the class back from it exactly, although the last band  *)
(* of size_to_reservation_index rounds by too little (ota.h:116).          *)
THEOREM IndexGivesClassBack ==
  ASSUME NEW s \in Nat, s <= MaxClass
  PROVE  index_to_max_usable_size(size_to_reservation_index(size_to_usable_size(s)))
           = size_to_usable_size(s)
<1>1. CASE s <= 8
  BY <1>1, Ends DEF size_to_usable_size, size_to_reservation_index, index_to_max_usable_size
<1>2. CASE 8 < s
  <2>1. PICK k \in Band, m \in 1 .. 8 : /\ size_to_usable_size(s) = UnitOf(k) * m
                                        /\ k # 0 => m > 4
    BY <1>2, ClassOf
  <2>2. /\ size_to_reservation_index(UnitOf(k) * m) = 4 * k + m
        /\ index_to_max_usable_size(4 * k + m) = UnitOf(k) * m
    BY <2>1, IndexOf
  <2> QED BY <2>1, <2>2
<1> QED BY <1>1, <1>2
-----------------------------------------------------------------------------
(***************************************************************************)
(* The values of the variables.  A pointer that the allocator handed out   *)
(* points to an object whose pages and bytes are covered by the size that  *)
(* the trie gives back for it (Sized).                                     *)
(***************************************************************************)
Lost == {"nothing", "kmalloc", "libc"}
Boot == [by : {"kmalloc", "libc"}, size : Nat, lost : Lost]
Ota == [by : {"malloc", "memalign"}, size : Nat, off : Nat, alloc : Nat, index : Int,
        n : Nat, lost : Lost]
Abandoned == [by |-> "abandoned"]
Value == {Nothing, Abandoned} \cup Boot \cup Ota

Usable(o) ==
  IF index_to_max_usable_size(o.index) = TooLarge THEN o.alloc
  ELSE index_to_max_usable_size(o.index)

Sized(o) ==
  /\ Usable(o) \in Nat /\ Usable(o) >= o.size
  /\ Pages(o.off, Usable(o)) = o.n

ByOta(o) == o.by \in {"malloc", "memalign"}
Heaped == heap \in [Ptr -> Value] /\ \A p \in Ptr : ByOta(heap[p]) => Sized(heap[p])

CallType ==
  {Idle} \cup [op : {"malloc"}, size : Sizes] \cup [op : {"memalign"}, size : Sizes, align : Aligns]
    \cup [op : {"touch"}] \cup [op : {"free", "size"}, ptr : Ptr]
    \cup [op : {"realloc"}, ptr : Ptr, size : Sizes \ {Huge}]
    \cup [op : {"copy"}, ptr : Ptr, ret : Ptr, size : Sizes, n : Nat]
    \cup [op : {"free"}, ptr : Ptr, ret : Ptr]

(***************************************************************************)
(* A call holds its pointer, until it has freed it, and the result of a    *)
(* realloc.  What one call holds is live and no other call holds it, so    *)
(* that the size that realloc read before it gave the lock up is still     *)
(* that of the object when it copies.                                      *)
(***************************************************************************)
HoldsBy(c, l, p) ==
  \/ "ptr" \in DOMAIN c /\ c.ptr = p /\ ~ (c.op = "free" /\ l = "leave")
  \/ "ret" \in DOMAIN c /\ c.ret = p

Holds(t, p) == HoldsBy(call[t], pc[t], p)

Away == {"idle", "load", "cas", "flag", "wait", "forking", "release", "gone"}

Copies(t) ==
  call[t].op = "copy" /\ ByOta(heap[call[t].ptr]) => call[t].n >= heap[call[t].ptr].size

CallIs(t) ==
  /\ call[t] \in CallType
  /\ pc[t] \in Away => call[t] = Idle
  /\ pc[t] = "bare" => call[t].op = "memalign"
  /\ "ret" \in DOMAIN call[t] => call[t].ret # call[t].ptr
  /\ Copies(t)

Held ==
  /\ \A t \in Thread, p \in Ptr : Holds(t, p) => Live(p)
  /\ \A t, u \in Thread, p \in Ptr : Holds(t, p) /\ Holds(u, p) => t = u

Started ==
  /\ phase \in {"early", "libc", "kernel"} /\ initDone \in [Thread -> BOOLEAN]
  /\ phase # "kernel" => \A t \in Thread : pc[t] = "idle" /\ ~ initDone[t]

(* Every realloc that runs may leave its hold of the lock behind.          *)
LeaksFit == leaks + InCall({"realloc"}) <= MaxLeaks

Owned ==
  Heaped /\ call \in [Thread -> CallType] /\ (\A t \in Thread : CallIs(t)) /\ Held

AInv == Owned /\ Started /\ LeaksFit

-----------------------------------------------------------------------------
(***************************************************************************)
(* Objects.  A block of a class lies at a multiple of the class in its     *)
(* page.  What is cut off its front to align it is a multiple of the unit  *)
(* of the class, so that what is left is the size of a class again.        *)
(***************************************************************************)
LEMMA DivMod ==
  ASSUME NEW x \in Nat, NEW p \in Nat \ {0}
  PROVE  /\ x \div p \in Nat /\ x % p \in Nat /\ x % p < p
         /\ x = p * (x \div p) + (x % p)
OBVIOUS

LEMMA RoundUpPage ==
  ASSUME NEW s \in Nat, NEW p \in Nat \ {0}
  PROVE  (s + p - 1) \div p \in Nat /\ s <= p * ((s + p - 1) \div p)
<1>1. s + p - 1 \in Nat
  OBVIOUS
<1> QED BY <1>1, DivMod

Multiple(u, x) == \E j \in Nat : x = u * j

(* The rest of a multiple by a multiple is a multiple.                     *)
LEMMA RestOfMultiple ==
  ASSUME NEW u \in Nat \ {0}, NEW x \in Nat, NEW p \in Nat \ {0},
         Multiple(u, x), Multiple(u, p)
  PROVE  Multiple(u, x % p)
<1> DEFINE q == x \div p
<1>1. PICK i \in Nat : x = u * i
  BY DEF Multiple
<1>2. PICK r \in Nat : p = u * r
  BY DEF Multiple
<1>3. q \in Nat /\ x % p \in Nat /\ x = p * q + (x % p)
  BY DivMod
<1> HIDE DEF q
<1> DEFINE j == i - r * q
<1>4. x % p = u * j
  BY <1>1, <1>2, <1>3
<1>5. j \in Nat
  <2>1. j \in Int /\ u * j >= 0
    BY <1>3, <1>4
  <2> HIDE DEF j
  <2> QED BY <2>1
<1> HIDE DEF j
<1> QED BY <1>4, <1>5 DEF Multiple

LEMMA Multiples ==
  ASSUME NEW u \in Nat \ {0}, NEW x \in Nat, NEW y \in Nat,
         Multiple(u, x), Multiple(u, y), y <= x
  PROVE  Multiple(u, x - y) /\ (y < x => y + u <= x)
<1>1. PICK i \in Nat : x = u * i
  BY DEF Multiple
<1>2. PICK j \in Nat : y = u * j
  BY DEF Multiple
<1>3. i - j \in Nat /\ x - y = u * (i - j)
  BY <1>1, <1>2
<1>4. y < x => i - j >= 1
  BY <1>1, <1>2
<1>5. i - j >= 1 => u * (i - j) >= u
  BY <1>3
<1>6. Multiple(u, x - y)
  BY <1>3 DEF Multiple
<1>7. ASSUME y < x PROVE y + u <= x
  BY <1>3, <1>4, <1>5, <1>7
<1> QED BY <1>6, <1>7

(* One of two numbers that fit is a multiple of the other.                 *)
LEMMA OneIsMultiple ==
  ASSUME NEW a \in Nat \ {0}, NEW u \in Nat \ {0}, Fits(a, u)
  PROVE  Multiple(u, a) \/ Multiple(a, u)
<1>1. ASSUME a % u = 0 PROVE Multiple(u, a)
  <2>1. a \div u \in Nat /\ a = u * (a \div u)
    BY <1>1, DivMod
  <2> QED BY <2>1 DEF Multiple
<1>2. ASSUME u % a = 0 PROVE Multiple(a, u)
  <2>1. u \div a \in Nat /\ u = a * (u \div a)
    BY <1>2, DivMod
  <2> QED BY <2>1 DEF Multiple
<1> QED BY <1>1, <1>2 DEF Fits

LEMMA NoRest ==
  ASSUME NEW p \in Nat \ {0}, NEW x \in Nat, Multiple(p, x) PROVE x % p = 0
<1>1. x % p \in Nat /\ x % p < p
  BY DivMod
<1>2. p = p * 1
  OBVIOUS
<1>3. Multiple(p, p)
  BY <1>2 DEF Multiple
<1>4. PICK j \in Nat : x % p = p * j
  BY <1>3, RestOfMultiple DEF Multiple
<1>5. j = 0
  <2>1. p * j < p
    BY <1>1, <1>4
  <2> QED BY <2>1
<1> QED BY <1>4, <1>5

LEMMA Further ==
  ASSUME NEW p \in Nat \ {0}, NEW u \in Nat, NEW x \in Nat, Multiple(p, u), Multiple(u, x)
  PROVE  Multiple(p, x)
<1>1. PICK i \in Nat : u = p * i
  BY DEF Multiple
<1>2. PICK j \in Nat : x = u * j
  BY DEF Multiple
<1>3. i * j \in Nat /\ x = p * (i * j)
  BY <1>1, <1>2
<1> QED BY <1>3 DEF Multiple

LEMMA ZeroIsMultiple == ASSUME NEW u \in Nat PROVE Multiple(u, 0)
<1>1. 0 = u * 0
  OBVIOUS
<1> QED BY <1>1 DEF Multiple

(* A multiple of u lies at a multiple of u in its page, or at its start.   *)
LEMMA OffsetIsMultiple ==
  ASSUME NEW u \in Nat \ {0}, NEW x \in Nat, NEW p \in Nat \ {0},
         Multiple(u, x), Fits(p, u)
  PROVE  Multiple(u, x % p) /\ x % p \in Nat
<1>1. CASE Multiple(u, p)
  BY <1>1, RestOfMultiple, DivMod
<1>2. CASE Multiple(p, u)
  <2>1. x % p = 0
    BY <1>2, Further, NoRest
  <2> QED BY <2>1, ZeroIsMultiple
<1> QED BY <1>1, <1>2, OneIsMultiple

(* What is cut off to align an offset that is a multiple of u: a multiple  *)
(* of u, and room for one more u is left in the alignment.                 *)
LEMMA SkipIsMultiple ==
  ASSUME NEW u \in Nat \ {0}, NEW x \in Nat, NEW a \in Nat \ {0},
         Multiple(u, x), Fits(a, u)
  PROVE  LET skip == (a - (x % a)) % a
         IN skip \in Nat /\ skip < a /\ Multiple(u, skip) /\ (skip + u <= a \/ skip = 0)
<1> DEFINE y == x % a
           z == a - y
           skip == z % a
<1>1. y \in Nat /\ y < a /\ z \in Nat
  BY DivMod
<1>2. skip \in Nat /\ skip < a
  <2> HIDE DEF z
  <2> QED BY <1>1, DivMod
<1>3. CASE Multiple(u, a)
  <2>1. Multiple(u, y)
    BY <1>3, RestOfMultiple
  <2>2. Multiple(u, z)
    BY <1>1, <1>3, <2>1, Multiples
  <2>3. Multiple(u, skip)
    <3> HIDE DEF z
    <3> QED BY <1>1, <1>3, <2>2, RestOfMultiple
  <2> HIDE DEF skip
  <2>4. skip + u <= a
    BY <1>2, <1>3, <2>3, Multiples
  <2> QED BY <1>2, <2>3, <2>4 DEF skip
<1>4. CASE Multiple(a, u)
  <2>1. y = 0
    BY <1>4, Further, NoRest
  <2>2. skip = 0
    BY <2>1
  <2> QED BY <2>2, ZeroIsMultiple
<1> QED BY <1>3, <1>4, OneIsMultiple

(* A multiple of a unit up to eight times is the size of a class, which    *)
(* the trie gives back for it.                                             *)
LEMMA MultipleIsClass ==
  ASSUME NEW k \in Band, NEW m \in 1 .. 8
  PROVE  LET s == UnitOf(k) * m
         IN /\ s \in Nat /\ s <= MaxClass /\ size_to_reservation_index(s) \in Nat
            /\ index_to_max_usable_size(size_to_reservation_index(s)) = s
<1> DEFINE Same(s) == /\ size_to_reservation_index(s) \in Nat
                      /\ index_to_max_usable_size(size_to_reservation_index(s)) = s
<1>1. ASSUME NEW j \in Band, NEW n \in 1 .. 8, j # 0 => n > 4 PROVE Same(UnitOf(j) * n)
  <2>1. 4 * j + n \in Nat
    BY DEF Band
  <2> QED BY <1>1, <2>1, IndexOf
<1>2. ASSUME NEW j \in Band, NEW n \in 1 .. 4, j # 0,
             \A i \in 1 .. 8 : Same(UnitOf(j - 1) * i)
      PROVE  Same(UnitOf(j) * n)
  <2>1. UnitOf(j) = 2 * UnitOf(j - 1) /\ UnitOf(j - 1) \in Nat /\ j - 1 \in Band
    BY <1>2, Bands
  <2>2. 2 * n \in 1 .. 8 /\ UnitOf(j) * n = UnitOf(j - 1) * (2 * n)
    BY <2>1
  <2> HIDE DEF Same
  <2> QED BY <1>2, <2>2
<1> HIDE DEF Same
<1> DEFINE All(j) == \A n \in 1 .. 8 : Same(UnitOf(j) * n)
<1>3. ASSUME NEW j \in Band, j = 0 \/ All(j - 1) PROVE All(j)
  <2> SUFFICES ASSUME NEW n \in 1 .. 8 PROVE Same(UnitOf(j) * n)
    OBVIOUS
  <2>1. CASE j = 0 \/ n > 4
    BY <1>1, <2>1
  <2>2. CASE j # 0 /\ n \in 1 .. 4
    BY <1>2, <1>3, <2>2
  <2> QED BY <2>1, <2>2
<1>4. \A j \in 0 .. 9 : j \in Band /\ (j # 0 => j - 1 \in Band)
  BY DEF Band
<1> HIDE DEF All
<1>5. All(0)
  BY <1>3, <1>4
<1>6. All(1)
  BY <1>3, <1>4, <1>5
<1>7. All(2)
  BY <1>3, <1>4, <1>6
<1>8. All(3)
  BY <1>3, <1>4, <1>7
<1>9. All(4)
  BY <1>3, <1>4, <1>8
<1>10. All(5)
  BY <1>3, <1>4, <1>9
<1>11. All(6)
  BY <1>3, <1>4, <1>10
<1>12. All(7)
  BY <1>3, <1>4, <1>11
<1>13. All(8)
  BY <1>3, <1>4, <1>12
<1>14. All(9)
  BY <1>3, <1>4, <1>13
<1>15. k \in 0 .. 9
  BY DEF Band
<1>16. All(k)
  BY <1>5, <1>6, <1>7, <1>8, <1>9, <1>10, <1>11, <1>12, <1>13, <1>14, <1>15
<1>17. UnitOf(k) \in {16, 32, 64, 128, 256, 512, 1024, 2048, 4096, 8192}
  BY Units DEF Band
<1>18. UnitOf(k) * m \in Nat /\ UnitOf(k) * m <= 65536
  BY <1>17
<1> QED BY <1>16, <1>18, Ends DEF All, Same

(* A block of a class, or one beyond the classes.                          *)
Small(b, u, size) ==
  /\ u \in Nat \ {0} /\ b.off \in Nat /\ b.alloc \in Nat
  /\ Multiple(u, b.off) /\ Multiple(u, b.alloc) /\ b.alloc <= 8 * u /\ b.alloc >= size
  /\ b.alloc > 0

LEMMA BlocksAre ==
  ASSUME NEW size \in Nat, NEW b \in Blocks(size)
  PROVE  \/ size <= 8 /\ Small(b, 8, size) /\ b.alloc = 8
         \/ 8 < size /\ size <= MaxClass /\ \E k \in Band : Small(b, UnitOf(k), size)
         \/ /\ size > MaxClass /\ b.off = 0 /\ b.alloc \in Nat /\ b.alloc >= size
<1> DEFINE class == size_to_usable_size(size)
<1>1. MaxClass = 65536 /\ PageSize \in Nat \ {0}
  BY Ends, ApiAssumption
<1>2. ASSUME NEW u \in Nat \ {0}, NEW m \in 1 .. 8, class = u * m, class >= size, Fits(PageSize, u)
      PROVE  Small(b, u, size)
  <2>1. class \in Nat /\ Multiple(u, class) /\ class <= 8 * u /\ class > 0
    BY <1>2 DEF Multiple
  <2>2. class # TooLarge
    BY <2>1 DEF TooLarge
  <2> HIDE DEF class
  <2>3. PICK i \in {0, 1} : b.off = (i * class) % PageSize /\ b.alloc = class
    BY <2>2 DEF Blocks, class
  <2>4. i * class \in Nat /\ (i * class = 0 \/ i * class = class)
    BY <2>1
  <2> DEFINE x == i * class
  <2>5. x \in Nat /\ Multiple(u, x) /\ b.off = x % PageSize
    BY <2>1, <2>3, <2>4, ZeroIsMultiple
  <2> HIDE DEF x
  <2>6. Multiple(u, b.off) /\ b.off \in Nat
    BY <1>1, <1>2, <2>5, OffsetIsMultiple
  <2> QED BY <1>2, <2>1, <2>3, <2>6 DEF Small
<1>3. CASE size <= 8
  <2>1. class = 8 * 1 /\ class >= size /\ class # TooLarge
    BY <1>3 DEF size_to_usable_size, TooLarge
  <2>2. Fits(PageSize, 8)
    BY AlignAssumption
  <2> HIDE DEF class
  <2>3. b.alloc = 8
    BY <2>1 DEF Blocks, class
  <2>4. Small(b, 8, size)
    BY <1>2, <2>1, <2>2
  <2> QED BY <1>3, <2>3, <2>4
<1>4. CASE 8 < size /\ size <= MaxClass
  <2>1. PICK k \in Band, m \in 1 .. 8 : class = UnitOf(k) * m /\ size <= UnitOf(k) * m
    BY <1>4, ClassOf
  <2>2. UnitOf(k) \in Nat \ {0} /\ Fits(PageSize, UnitOf(k))
    BY Bands, AlignAssumption
  <2> HIDE DEF class
  <2>3. class >= size
    BY <2>1, <2>2
  <2>4. Small(b, UnitOf(k), size)
    BY <1>2, <2>1, <2>2, <2>3
  <2> QED BY <1>4, <2>4
<1>5. CASE size > MaxClass
  <2>1. class = TooLarge
    BY <1>1, <1>5 DEF size_to_usable_size
  <2>2. b.off = 0 /\ b.alloc = PageSize * ((size + PageSize - 1) \div PageSize)
    BY <1>1, <2>1 DEF Blocks, Pages
  <2> DEFINE q == (size + PageSize - 1) \div PageSize
  <2>3. q \in Nat /\ size <= PageSize * q
    BY <1>1, RoundUpPage
  <2> HIDE DEF q
  <2>4. PageSize * q \in Nat
    BY <1>1, <2>3
  <2> QED BY <1>1, <1>5, <2>2, <2>3, <2>4 DEF q
<1> QED BY <1>1, <1>3, <1>4, <1>5

(* Cutting the front off a block to align it leaves a block of the kind.   *)
LEMMA AlignedBlocksAre ==
  ASSUME NEW size \in Nat, NEW align \in Aligns, NEW b \in AlignedBlocks(size, align)
  PROVE  /\ b.off \in Nat /\ b.alloc \in Nat /\ b.alloc >= size
         /\ \/ b.alloc = 8
            \/ \E k \in Band, m \in 1 .. 8 : b.alloc = UnitOf(k) * m
            \/ b.off = 0 /\ b.alloc > MaxClass
<1> DEFINE want == size + align - 1
           skip(c) == (align - (c.off % align)) % align
<1>1. align \in Nat \ {0} /\ want \in Nat /\ PageSize \in Nat \ {0} /\ MaxClass = 65536
  BY ApiAssumption, Ends
<1>2. PICK c \in Blocks(want) :
        b.off = (c.off + skip(c)) % PageSize /\ b.alloc = c.alloc - skip(c)
  BY DEF AlignedBlocks
<1> DEFINE s == skip(c)
<1>3. Fits(align, 8) /\ \A k \in Band : Fits(align, UnitOf(k))
  BY AlignAssumption
<1>4. ASSUME NEW u \in Nat, u > 1, Small(c, u, want), Fits(align, u)
      PROVE  /\ b.off \in Nat /\ b.alloc >= size /\ b.alloc <= c.alloc
             /\ \E m \in 1 .. 8 : b.alloc = u * m
  <2>1. /\ c.off \in Nat /\ c.alloc \in Nat /\ Multiple(u, c.off) /\ Multiple(u, c.alloc)
        /\ c.alloc <= 8 * u /\ c.alloc >= want /\ c.alloc > 0
    BY <1>4 DEF Small
  <2>2. s \in Nat /\ s < align /\ Multiple(u, s) /\ (s + u <= align \/ s = 0)
    <3> DEFINE x == c.off
           rest == (align - (x % align)) % align
    <3>1. x \in Nat /\ Multiple(u, x) /\ s = rest /\ u \in Nat \ {0} /\ align \in Nat \ {0}
      BY <1>1, <1>4, <2>1
    <3> HIDE DEF x, s
    <3>2. /\ rest \in Nat /\ rest < align /\ Multiple(u, rest)
          /\ (rest + u <= align \/ rest = 0)
      BY <1>4, <3>1, SkipIsMultiple
    <3> HIDE DEF rest
    <3> QED BY <3>1, <3>2
  <2> HIDE DEF s
  <2>3. b.off = (c.off + s) % PageSize /\ b.alloc = c.alloc - s
    BY <1>2 DEF s
  <2>4. b.off \in Nat
    <3> DEFINE x == c.off + s
    <3>1. x \in Nat /\ b.off = x % PageSize
      BY <2>1, <2>2, <2>3
    <3> HIDE DEF x
    <3> QED BY <1>1, <3>1, DivMod
  <2>5. b.alloc >= size /\ s <= c.alloc /\ b.alloc > 0 /\ b.alloc <= 8 * u
    BY <1>1, <1>4, <2>1, <2>2, <2>3
  <2>6. Multiple(u, b.alloc)
    BY <1>4, <2>1, <2>2, <2>3, <2>5, Multiples
  <2>7. PICK m \in Nat : b.alloc = u * m
    BY <2>6 DEF Multiple
  <2>8. m # 0
    BY <1>4, <2>5, <2>7
  <2>9. ~ (m >= 9)
    <3> SUFFICES ASSUME m >= 9 PROVE FALSE
      OBVIOUS
    <3>1. u * m >= u * 9
      BY <1>4
    <3> QED BY <1>4, <2>5, <2>7, <3>1
  <2> QED BY <2>2, <2>1, <2>3, <2>4, <2>5, <2>7, <2>8, <2>9
<1> HIDE DEF want, s
<1>5. CASE want <= 8 /\ Small(c, 8, want) /\ c.alloc = 8
  <2>1. /\ b.off \in Nat /\ b.alloc >= size /\ b.alloc <= 8
        /\ \E m \in 1 .. 8 : b.alloc = 8 * m
    BY <1>3, <1>4, <1>5
  <2> QED BY <2>1
<1>6. ASSUME NEW k \in Band, Small(c, UnitOf(k), want) PROVE
        /\ b.off \in Nat /\ b.alloc \in Nat /\ b.alloc >= size
        /\ \E m \in 1 .. 8 : b.alloc = UnitOf(k) * m
  <2>1. UnitOf(k) \in Nat /\ UnitOf(k) > 1
    BY Units DEF Band
  <2>2. /\ b.off \in Nat /\ b.alloc >= size
        /\ \E m \in 1 .. 8 : b.alloc = UnitOf(k) * m
    BY <1>3, <1>4, <1>6, <2>1
  <2> QED BY <2>1, <2>2
<1>7. CASE want > MaxClass /\ c.off = 0 /\ c.alloc \in Nat /\ c.alloc >= want
  <2>1. 0 % align = 0 /\ align % align = 0 /\ 0 % PageSize = 0
    BY <1>1
  <2>2. s = 0
    BY <1>1, <1>7, <2>1 DEF s
  <2>3. b.off = 0 /\ b.alloc = c.alloc
    BY <1>2, <1>7, <2>1, <2>2 DEF s
  <2> QED BY <1>1, <1>7, <2>3 DEF want
<1> QED BY <1>1, <1>2, <1>5, <1>6, <1>7, BlocksAre

(* What a call may allocate: the size that the trie gives back covers the  *)
(* object, and the pages that were written for it.                         *)
LEMMA ObjectIs ==
  ASSUME NEW by \in {"malloc", "memalign"}, NEW size \in Nat, NEW off \in Nat, NEW alloc \in Nat,
         alloc >= size,
         \/ alloc = 8
         \/ \E k \in Band, m \in 1 .. 8 : alloc = UnitOf(k) * m
         \/ off = 0 /\ alloc > MaxClass
  PROVE  LET o == Object(by, size, off, alloc)
         IN o \in Ota /\ Sized(o) /\ o.lost = "nothing"
<1> DEFINE o == Object(by, size, off, alloc)
           r == size_to_reservation_index(alloc)
<1>1. MaxClass = 65536
  BY Ends
<1>2. /\ o.by = by /\ o.size = size /\ o.off = off /\ o.alloc = alloc /\ o.lost = "nothing"
      /\ o.index = IF r = TooLarge THEN 63 ELSE r
      /\ o.n = Pages(off, alloc)
      /\ o = [by |-> by, size |-> size, off |-> off, alloc |-> alloc, index |-> o.index,
              n |-> o.n, lost |-> "nothing"]
  BY DEF Object, TRIE_INDEX_LARGE
<1>3. Pages(off, alloc) \in Nat
  BY ApiAssumption, DivMod DEF Pages
<1>4. r \in Int /\ (o.index = r \/ o.index = 63) /\ Usable(o) = alloc
  <2>1. CASE alloc = 8
    <3>1. r = 0 /\ r # TooLarge /\ index_to_max_usable_size(0) = 8
      BY <2>1 DEF size_to_reservation_index, index_to_max_usable_size, TooLarge
    <3> HIDE DEF o, r
    <3> QED BY <1>2, <2>1, <3>1 DEF Usable, TooLarge
  <2>2. ASSUME NEW k \in Band, NEW m \in 1 .. 8, alloc = UnitOf(k) * m
        PROVE  r \in Int /\ (o.index = r \/ o.index = 63) /\ Usable(o) = alloc
    <3>1. r \in Nat /\ index_to_max_usable_size(r) = alloc
      BY <2>2, MultipleIsClass
    <3>2. r \in Int /\ r # TooLarge
      BY <3>1 DEF TooLarge
    <3> HIDE DEF o, r
    <3> QED BY <1>2, <3>1, <3>2 DEF Usable, TooLarge
  <2>3. CASE off = 0 /\ alloc > MaxClass
    <3>1. r = TooLarge /\ TooLarge = -1
      BY <1>1, <2>3 DEF size_to_reservation_index, TooLarge
    <3>2. index_to_max_usable_size(63) = TooLarge
      BY DEF index_to_max_usable_size
    <3> HIDE DEF o, r
    <3> QED BY <1>2, <3>1, <3>2 DEF Usable
  <2> QED BY <2>1, <2>2, <2>3
<1> HIDE DEF o, r
<1>5. o.index \in Int
  BY <1>4
<1>6. o \in Ota
  BY <1>2, <1>3, <1>5 DEF Ota, Lost
<1>7. Sized(o)
  BY <1>2, <1>4 DEF Sized
<1> QED BY <1>2, <1>6, <1>7 DEF o
-----------------------------------------------------------------------------
(* The values of the heap and the calls, by their kinds.                   *)
LEMMA ValueIs ==
  ASSUME NEW v \in Value
  PROVE  /\ v.by \in {"none", "abandoned", "kmalloc", "libc", "malloc", "memalign"}
         /\ v.by = "none" <=> v = Nothing
         /\ v.by \in {"kmalloc", "libc"} <=> v \in Boot
         /\ ByOta(v) <=> v \in Ota
BY DEF Value, Nothing, Abandoned, Boot, Ota, ByOta

LEMMA CallFacts ==
  ASSUME NEW c \in CallType
  PROVE  /\ "ptr" \in DOMAIN c => c.op \in {"free", "size", "realloc", "copy"} /\ c.ptr \in Ptr
         /\ c.op \in {"free", "size", "realloc", "copy"} => "ptr" \in DOMAIN c
         /\ "ret" \in DOMAIN c => c.op \in {"free", "copy"} /\ c.ret \in Ptr
         /\ c.op = "copy" => "ret" \in DOMAIN c /\ c.n \in Nat
         /\ c.op \in {"malloc", "memalign", "realloc", "copy"} => c.size \in Sizes
         /\ c.op = "realloc" => c.size # Huge
         /\ c.op = "memalign" => c.align \in Aligns
<1>1. CASE c = Idle
  BY <1>1 DEF Idle
<1>2. CASE c \in [op : {"malloc"}, size : Sizes] \/ c \in [op : {"memalign"}, size : Sizes, align : Aligns]
  BY <1>2
<1>3. CASE c \in [op : {"touch"}] \/ c \in [op : {"free", "size"}, ptr : Ptr]
  BY <1>3
<1>4. CASE c \in [op : {"realloc"}, ptr : Ptr, size : Sizes \ {Huge}]
  BY <1>4
<1>5. CASE c \in [op : {"copy"}, ptr : Ptr, ret : Ptr, size : Sizes, n : Nat]
  BY <1>5
<1>6. CASE c \in [op : {"free"}, ptr : Ptr, ret : Ptr]
  BY <1>6
<1> QED BY <1>1, <1>2, <1>3, <1>4, <1>5, <1>6 DEF CallType

(* What a call may allocate.                                               *)
LEMMA ObjectsAre ==
  ASSUME NEW c, c.size \in Sizes, c.op = "memalign" => c.align \in Aligns, NEW o \in Objects(c)
  PROVE  o \in Ota /\ Sized(o) /\ o.lost = "nothing"
<1>1. c.size \in Nat /\ c.size # Huge
  BY ApiAssumption DEF Objects
<1>2. CASE c.op = "memalign"
  <2>1. PICK b \in AlignedBlocks(c.size, c.align) : o = Object("memalign", c.size, b.off, b.alloc)
    BY <1>1, <1>2 DEF Objects, AlignedObjects
  <2>2. /\ b.off \in Nat /\ b.alloc \in Nat /\ b.alloc >= c.size
        /\ \/ b.alloc = 8
           \/ \E k \in Band, m \in 1 .. 8 : b.alloc = UnitOf(k) * m
           \/ b.off = 0 /\ b.alloc > MaxClass
    BY <1>1, <1>2, AlignedBlocksAre
  <2> QED BY <1>1, <2>1, <2>2, ObjectIs
<1>3. CASE c.op # "memalign"
  <2>1. PICK b \in Blocks(c.size) : o = Object("malloc", c.size, b.off, b.alloc)
    BY <1>1, <1>3 DEF Objects, MallocObjects
  <2>2. ASSUME NEW k \in Band, Small(b, UnitOf(k), c.size)
        PROVE  \E m \in 1 .. 8 : b.alloc = UnitOf(k) * m
    <3> DEFINE u == UnitOf(k)
    <3>1. u \in Nat \ {0}
      BY Bands
    <3>2. b.alloc \in Nat /\ b.alloc > 0 /\ b.alloc <= 8 * u /\ Multiple(u, b.alloc)
      BY <2>2 DEF Small
    <3> HIDE DEF u
    <3>3. PICK m \in Nat : b.alloc = u * m
      BY <3>2 DEF Multiple
    <3>4. m # 0
      BY <3>1, <3>2, <3>3
    <3>5. ~ (m >= 9)
      <4> SUFFICES ASSUME m >= 9 PROVE FALSE
        OBVIOUS
      <4>1. u * m >= u * 9
        BY <3>1
      <4> QED BY <3>1, <3>2, <3>3, <4>1
    <3> QED BY <3>3, <3>4, <3>5 DEF u
  <2>3. /\ b.off \in Nat /\ b.alloc \in Nat /\ b.alloc >= c.size
        /\ \/ b.alloc = 8
           \/ \E k \in Band, m \in 1 .. 8 : b.alloc = UnitOf(k) * m
           \/ b.off = 0 /\ b.alloc > MaxClass
    BY <1>1, <2>2, BlocksAre, Ends DEF Small
  <2> QED BY <1>1, <2>1, <2>3, ObjectIs
<1> QED BY <1>2, <1>3
-----------------------------------------------------------------------------
(***************************************************************************)
(* A step of one thread.  It leaves alone what other calls hold, and takes *)
(* hold only of what none of them holds.                                   *)
(***************************************************************************)
LEMMA Step ==
  ASSUME Owned, pc \in [Thread -> Spots], NEW t \in Thread, NEW l, Goto(t, l),
         NEW c \in CallType, call' = [call EXCEPT ![t] = c],
         heap' \in [Ptr -> Value], \A p \in Ptr : ByOta(heap'[p]) => Sized(heap'[p]),
         l \in Away => c = Idle, l = "bare" => c.op = "memalign",
         "ret" \in DOMAIN c => c.ret # c.ptr,
         c.op = "copy" /\ ByOta(heap'[c.ptr]) => c.n >= heap'[c.ptr].size,
         \A p \in Ptr : HoldsBy(c, l, p) =>
           Live(p)' /\ (Holds(t, p) \/ \A u \in Thread \ {t} : ~ Holds(u, p)),
         \A u \in Thread \ {t}, p \in Ptr : Holds(u, p) => heap'[p] = heap[p]
  PROVE  Owned'
<1>1. /\ pc'[t] = l /\ call'[t] = c
      /\ \A u \in Thread \ {t} : pc'[u] = pc[u] /\ call'[u] = call[u]
  BY DEF Owned, Goto
<1>2. call \in [Thread -> CallType] /\ call' \in [Thread -> CallType]
  BY DEF Owned
<1>3. /\ \A p \in Ptr : Holds(t, p)' <=> HoldsBy(c, l, p)
      /\ \A u \in Thread \ {t}, p \in Ptr : Holds(u, p)' <=> Holds(u, p)
  BY <1>1 DEF Holds, HoldsBy
<1>4. \A u \in Thread \ {t}, p \in Ptr : Holds(u, p) => Live(p)'
  BY DEF Owned, Held, Live
<1>5. Held'
  <2>1. ASSUME NEW u \in Thread, NEW p \in Ptr, Holds(u, p)' PROVE Live(p)'
    BY <1>3, <1>4, <2>1
  <2>2. ASSUME NEW u \in Thread, NEW v \in Thread, NEW p \in Ptr, Holds(u, p)', Holds(v, p)'
        PROVE  u = v
    BY <1>3, <2>2 DEF Owned, Held
  <2> QED BY <2>1, <2>2 DEF Held
<1>6. CallIs(t)'
  BY <1>1 DEF CallIs, Copies
<1>7. ASSUME NEW u \in Thread \ {t} PROVE CallIs(u)'
  <2>1. CallIs(u) /\ pc'[u] = pc[u] /\ call'[u] = call[u]
    BY <1>1 DEF Owned
  <2>2. Copies(u)'
    <3> SUFFICES ASSUME call[u].op = "copy", ByOta(heap'[call[u].ptr])
                 PROVE  call[u].n >= heap'[call[u].ptr].size
      BY <2>1 DEF Copies
    <3>1. call[u].ptr \in Ptr /\ "ptr" \in DOMAIN call[u]
      BY <1>2, CallFacts
    <3>2. Holds(u, call[u].ptr)
      BY <3>1 DEF Holds, HoldsBy
    <3>3. heap'[call[u].ptr] = heap[call[u].ptr]
      BY <3>1, <3>2
    <3> QED BY <2>1, <3>3 DEF CallIs, Copies
  <2> QED BY <2>1, <2>2 DEF CallIs
<1>8. Heaped'
  BY DEF Heaped
<1> QED BY <1>2, <1>5, <1>6, <1>7, <1>8 DEF Owned

(* A step that changes neither the heap nor the call.                      *)
LEMMA StepOfLock ==
  ASSUME Owned, pc \in [Thread -> Spots], NEW t \in Thread, NEW l, Goto(t, l),
         pc[t] # "leave", l \in Away => pc[t] \in Away \/ call[t] = Idle, l # "bare",
         UNCHANGED <<heap, call>>
  PROVE  Owned'
<1> DEFINE c == call[t]
<1>1. c \in CallType /\ call' = [call EXCEPT ![t] = c] /\ CallIs(t)
  BY DEF Owned
<1>2. heap' \in [Ptr -> Value] /\ \A p \in Ptr : ByOta(heap'[p]) => Sized(heap'[p])
  BY DEF Owned, Heaped
<1>3. l \in Away => c = Idle
  BY <1>1 DEF CallIs
<1>4. "ret" \in DOMAIN c => c.ret # c.ptr
  BY <1>1 DEF CallIs
<1>5. c.op = "copy" /\ ByOta(heap'[c.ptr]) => c.n >= heap'[c.ptr].size
  BY <1>1 DEF CallIs, Copies
<1>6. ASSUME NEW p \in Ptr, HoldsBy(c, l, p) PROVE Live(p)' /\ Holds(t, p)
  <2>1. Holds(t, p)
    BY <1>6 DEF HoldsBy, Holds
  <2> QED BY <2>1 DEF Owned, Held, Live
<1> HIDE DEF c
<1> QED BY <1>1, <1>2, <1>3, <1>4, <1>5, <1>6, Step

(* A call begins: it holds the pointer that it is about, which no other    *)
(* call is about.                                                          *)
LEMMA Claimed ==
  ASSUME Owned, NEW p \in Ptr, Available(p)
  PROVE  Live(p) /\ \A u \in Thread : ~ Holds(u, p)
BY DEF Available, Uses, Holds, HoldsBy

LEMMA StepOfCall ==
  ASSUME Owned, pc \in [Thread -> Spots], NEW t \in Thread, NEW c, NEW l, Begin(t, c, l),
         c \in CallType, l \in {"spin", "bare", "load", "touch"},
         l = "load" => c = Idle, l = "bare" => c.op = "memalign",
         "ret" \notin DOMAIN c, "ptr" \in DOMAIN c => Available(c.ptr)
  PROVE  Owned'
<1>1. Goto(t, l) /\ call' = [call EXCEPT ![t] = c] /\ UNCHANGED heap
  BY DEF Begin
<1>2. heap' \in [Ptr -> Value] /\ \A p \in Ptr : ByOta(heap'[p]) => Sized(heap'[p])
  BY <1>1 DEF Owned, Heaped
<1>3. c.op # "copy" /\ (l \in Away => c = Idle)
  BY CallFacts DEF Away
<1>4. ASSUME NEW p \in Ptr, HoldsBy(c, l, p)
      PROVE  Live(p)' /\ \A u \in Thread \ {t} : ~ Holds(u, p)
  <2>1. Available(p)
    BY <1>4 DEF HoldsBy
  <2> QED BY <1>1, <2>1, Claimed DEF Live
<1> QED BY <1>1, <1>2, <1>3, <1>4, Step

LEMMA StepCalls ==
  ASSUME Owned, pc \in [Thread -> Spots], NEW t \in Thread, Calls(t)
  PROVE  Owned'
<1> USE DEF CallType
<1>1. CASE CallMalloc(t)
  BY <1>1, StepOfCall DEF CallMalloc
<1>2. CASE CallMemalign(t)
  BY <1>2, StepOfCall DEF CallMemalign
<1>3. CASE CallAlignedAlloc(t)
  BY <1>3, StepOfCall DEF CallAlignedAlloc
<1>4. CASE CallFree(t)
  BY <1>4, StepOfCall DEF CallFree
<1>5. CASE CallUsableSize(t)
  BY <1>5, StepOfCall DEF CallUsableSize
<1>6. CASE CallRealloc(t)
  BY <1>6, StepOfCall DEF CallRealloc
<1>7. CASE CallFork(t)
  BY <1>7, StepOfCall DEF CallFork, Idle
<1>8. CASE Access(t)
  BY <1>8, StepOfCall DEF Access
<1> QED BY <1>1, <1>2, <1>3, <1>4, <1>5, <1>6, <1>7, <1>8 DEF Calls
-----------------------------------------------------------------------------
(***************************************************************************)
(* Steps that allocate, free, or give a call up.                           *)
(***************************************************************************)
(* A new object: nobody holds the pointer yet.                             *)
LEMMA Allocated ==
  ASSUME Owned, NEW t \in Thread, NEW p \in Ptr, AllocateInto(p, t),
         call[t].op \in {"malloc", "memalign", "realloc"}
  PROVE  /\ heap' \in [Ptr -> Value] /\ \A q \in Ptr : ByOta(heap'[q]) => Sized(heap'[q])
         /\ ~ Live(p) /\ Live(p)' /\ \A q \in Ptr \ {p} : heap'[q] = heap[q]
         /\ \A u \in Thread : ~ Holds(u, p)
<1>1. call[t] \in CallType
  BY DEF Owned
<1>2. PICK o \in Objects(call[t]) : heap' = [heap EXCEPT ![p] = o]
  BY DEF AllocateInto, Put
<1>3. o \in Ota /\ Sized(o)
  BY <1>1, CallFacts, ObjectsAre
<1>4. o \in Value /\ o.by \notin {"none", "abandoned"}
  BY <1>3 DEF Value, Ota
<1>5. heap \in [Ptr -> Value]
  BY DEF Owned, Heaped
<1>6. /\ heap' \in [Ptr -> Value] /\ heap'[p] = o
      /\ \A q \in Ptr \ {p} : heap'[q] = heap[q]
  BY <1>2, <1>4, <1>5
<1>7. ~ Live(p) /\ Live(p)'
  BY <1>4, <1>6 DEF Live, AllocateInto, Nothing
<1>8. \A u \in Thread : ~ Holds(u, p)
  BY <1>7 DEF Owned, Held
<1>9. \A q \in Ptr : ByOta(heap'[q]) => Sized(heap'[q])
  BY <1>3, <1>6 DEF Owned, Heaped
<1> QED BY <1>6, <1>7, <1>8, <1>9

(* malloc, memalign and aligned_alloc.                                     *)
LEMMA StepAllocate ==
  ASSUME Owned, pc \in [Thread -> Spots], NEW t \in Thread, Malloc(t) \/ AlignedAlloc(t)
  PROVE  Owned'
<1>1. PICK l \in {"leave", "idle"}, c \in {call[t], Idle} :
        Allocate(t, l) /\ call' = [call EXCEPT ![t] = c] /\ (l = "idle" => c = Idle)
  BY DEF Malloc, AlignedAlloc, Owned
<1>2. call[t] \in CallType /\ CallIs(t)
  BY DEF Owned
<1>3. call[t].op \in {"malloc", "memalign"}
  BY <1>2 DEF Malloc, AlignedAlloc, Inside, CallIs
<1>4. c \in CallType /\ "ptr" \notin DOMAIN c /\ "ret" \notin DOMAIN c /\ c.op # "copy"
  <2>1. CASE c = Idle
    BY <2>1 DEF Idle, CallType
  <2>2. CASE c = call[t]
    BY <1>2, <1>3, <2>2, CallFacts
  <2> QED BY <2>1, <2>2
<1>5. \A p \in Ptr : ~ HoldsBy(c, l, p)
  BY <1>4 DEF HoldsBy
<1>6. /\ heap' \in [Ptr -> Value] /\ \A q \in Ptr : ByOta(heap'[q]) => Sized(heap'[q])
      /\ \A u \in Thread \ {t}, q \in Ptr : Holds(u, q) => heap'[q] = heap[q]
  <2>1. CASE UNCHANGED heap
    BY <2>1 DEF Owned, Heaped
  <2>2. ASSUME NEW p \in Ptr, AllocateInto(p, t)
        PROVE  /\ heap' \in [Ptr -> Value] /\ \A q \in Ptr : ByOta(heap'[q]) => Sized(heap'[q])
               /\ \A u \in Thread \ {t}, q \in Ptr : Holds(u, q) => heap'[q] = heap[q]
    BY <1>3, <2>2, Allocated
  <2> QED BY <1>1, <2>1, <2>2 DEF Allocate
<1>7. Goto(t, l) /\ (l \in Away => c = Idle) /\ l # "bare"
  BY <1>1 DEF Allocate, Away
<1> QED BY <1>1, <1>4, <1>5, <1>6, <1>7, Step

(* A call that is over, or goes on with the pointers that it has.          *)
LEMMA StepIdle ==
  ASSUME Owned, pc \in [Thread -> Spots], NEW t \in Thread, NEW l, Goto(t, l), l # "bare",
         call' = [call EXCEPT ![t] = Idle],
         heap' \in [Ptr -> Value], \A q \in Ptr : ByOta(heap'[q]) => Sized(heap'[q]),
         \A u \in Thread \ {t}, q \in Ptr : Holds(u, q) => heap'[q] = heap[q]
  PROVE  Owned'
<1>1. Idle \in CallType /\ Idle.op # "copy" /\ "ret" \notin DOMAIN Idle /\ "ptr" \notin DOMAIN Idle
  BY DEF Idle, CallType
<1>2. \A p \in Ptr : ~ HoldsBy(Idle, l, p)
  BY <1>1 DEF HoldsBy
<1> QED BY <1>1, <1>2, Step

(* The pointer that a call is about is live, and no other call holds it.   *)
LEMMA Mine ==
  ASSUME Owned, NEW t \in Thread, NEW p \in Ptr, Holds(t, p)
  PROVE  Live(p) /\ \A u \in Thread \ {t} : ~ Holds(u, p)
BY DEF Owned, Held

LEMMA StepFree ==
  ASSUME Owned, pc \in [Thread -> Spots], NEW t \in Thread, Free(t)
  PROVE  Owned'
<1> DEFINE c == call[t]
           p == c.ptr
<1>1. /\ pc[t] = "body" /\ c.op = "free" /\ heap' = [heap EXCEPT ![p] = Freed(p)]
      /\ Goto(t, "leave") /\ UNCHANGED call
  BY DEF Free, Inside, Put
<1>2. /\ c \in CallType /\ CallIs(t) /\ call' = [call EXCEPT ![t] = c]
      /\ heap \in [Ptr -> Value] /\ \A q \in Ptr : ByOta(heap[q]) => Sized(heap[q])
  BY <1>1 DEF Owned, Heaped
<1>3. p \in Ptr /\ "ptr" \in DOMAIN c
  BY <1>1, <1>2, CallFacts
<1>4. Holds(t, p)
  BY <1>1, <1>3 DEF Holds, HoldsBy
<1>5. Freed(p) \in Value /\ ~ ByOta(Freed(p))
  BY DEF Freed, Value, Nothing, Abandoned, ByOta
<1>6. "ret" \in DOMAIN c => c.ret # p
  BY <1>2 DEF CallIs
<1> HIDE DEF p, c
<1>7. /\ heap' \in [Ptr -> Value] /\ heap'[p] = Freed(p)
      /\ \A q \in Ptr \ {p} : heap'[q] = heap[q]
  BY <1>1, <1>2, <1>3, <1>5
<1>8. \A q \in Ptr : ByOta(heap'[q]) => Sized(heap'[q])
  BY <1>2, <1>5, <1>7
<1>9. \A u \in Thread \ {t}, q \in Ptr : Holds(u, q) => heap'[q] = heap[q]
  BY <1>3, <1>4, <1>7, Mine
<1>10. ASSUME NEW q \in Ptr, HoldsBy(c, "leave", q) PROVE Live(q)' /\ Holds(t, q)
  <2>1. "ret" \in DOMAIN c /\ c.ret = q
    BY <1>1, <1>10 DEF HoldsBy
  <2>2. Holds(t, q) /\ q # p
    BY <1>6, <2>1 DEF Holds, HoldsBy, c
  <2> QED BY <1>7, <2>2, Mine DEF Live
<1> QED BY <1>1, <1>2, <1>6, <1>7, <1>8, <1>9, <1>10, Step DEF p, Away

(* A realloc in place, and one that has to move.  The size that it read is *)
(* at least that of the object it copies from.                             *)
LEMMA StepReallocInPlace ==
  ASSUME Owned, pc \in [Thread -> Spots], NEW t \in Thread, ReallocInPlace(t)
  PROVE  Owned'
<1> DEFINE c == call[t]
           p == c.ptr
           o == [heap[p] EXCEPT !.size = c.size]
<1>1. /\ pc[t] = "body" /\ c.op = "realloc" /\ heap' = [heap EXCEPT ![p] = o]
      /\ UsableSize(p) >= c.size
      /\ Goto(t, "idle") /\ call' = [call EXCEPT ![t] = Idle]
  BY DEF ReallocInPlace, Inside
<1>2. /\ c \in CallType
      /\ heap \in [Ptr -> Value] /\ \A q \in Ptr : ByOta(heap[q]) => Sized(heap[q])
  BY DEF Owned, Heaped
<1>3. p \in Ptr /\ "ptr" \in DOMAIN c /\ c.size \in Nat
  BY <1>1, <1>2, CallFacts, ApiAssumption
<1>4. Holds(t, p)
  BY <1>1, <1>3 DEF Holds, HoldsBy
<1>5. heap[p] \in Boot \/ heap[p] \in Ota
  BY <1>2, <1>3, <1>4, Mine, ValueIs DEF Live, ByOta
<1>6. o \in Value /\ (ByOta(o) => Sized(o))
  <2>1. CASE heap[p] \in Boot
    BY <1>3, <2>1 DEF Boot, Value, ByOta
  <2>2. CASE heap[p] \in Ota
    <3>1. ByOta(heap[p]) /\ Sized(heap[p]) /\ UsableSize(p) = Usable(heap[p])
      BY <1>2, <1>3, <2>2 DEF ByOta, Ota, UsableSize, IsOta, Usable
    <3>2. Usable(o) = Usable(heap[p]) /\ o.off = heap[p].off /\ o.n = heap[p].n /\ o.size = c.size
      BY <2>2 DEF Ota, Usable
    <3>3. Sized(o)
      BY <1>1, <3>1, <3>2 DEF Sized
    <3>4. o \in Ota
      BY <1>3, <2>2 DEF Ota
    <3> QED BY <3>3, <3>4 DEF Value
  <2> QED BY <1>5, <2>1, <2>2
<1> HIDE DEF p, c, o
<1>7. /\ heap' \in [Ptr -> Value] /\ heap'[p] = o
      /\ \A q \in Ptr \ {p} : heap'[q] = heap[q]
  BY <1>1, <1>2, <1>3, <1>6
<1>8. \A q \in Ptr : ByOta(heap'[q]) => Sized(heap'[q])
  BY <1>2, <1>6, <1>7
<1>9. \A u \in Thread \ {t}, q \in Ptr : Holds(u, q) => heap'[q] = heap[q]
  BY <1>3, <1>4, <1>7, Mine
<1> QED BY <1>1, <1>7, <1>8, <1>9, StepIdle

LEMMA StepReallocMalloc ==
  ASSUME Owned, pc \in [Thread -> Spots], NEW t \in Thread, ReallocMalloc(t)
  PROVE  Owned'
<1> DEFINE p == call[t].ptr
<1>1. /\ pc[t] = "body" /\ call[t].op = "realloc" /\ Goto(t, "leave")
  BY DEF ReallocMalloc, Inside
<1>2. PICK r \in Ptr :
        /\ AllocateInto(r, t)
        /\ call' = [call EXCEPT ![t] = [op |-> "copy", ptr |-> p, ret |-> r,
                                        size |-> call[t].size, n |-> UsableSize(p)]]
  BY DEF ReallocMalloc
<1> DEFINE c == [op |-> "copy", ptr |-> p, ret |-> r, size |-> call[t].size, n |-> UsableSize(p)]
<1>3. /\ call[t] \in CallType
      /\ heap \in [Ptr -> Value] /\ \A q \in Ptr : ByOta(heap[q]) => Sized(heap[q])
  BY DEF Owned, Heaped
<1>4. p \in Ptr /\ "ptr" \in DOMAIN call[t] /\ call[t].size \in Sizes
  BY <1>1, <1>3, CallFacts
<1>5. Holds(t, p)
  BY <1>1, <1>4 DEF Holds, HoldsBy
<1>6. UsableSize(p) \in Nat /\ (ByOta(heap[p]) => UsableSize(p) >= heap[p].size)
  <2>1. CASE ByOta(heap[p])
    <3>1. Sized(heap[p]) /\ UsableSize(p) = Usable(heap[p])
      BY <1>3, <1>4, <2>1 DEF ByOta, UsableSize, IsOta, Usable
    <3> QED BY <3>1 DEF Sized
  <2>2. CASE ~ ByOta(heap[p])
    BY <2>2 DEF ByOta, UsableSize, IsOta
  <2> QED BY <2>1, <2>2
<1>7. /\ heap' \in [Ptr -> Value] /\ \A q \in Ptr : ByOta(heap'[q]) => Sized(heap'[q])
      /\ ~ Live(r) /\ Live(r)' /\ \A q \in Ptr \ {r} : heap'[q] = heap[q]
      /\ \A u \in Thread : ~ Holds(u, r)
  BY <1>1, <1>2, Allocated
<1>8. r # p /\ Live(p)
  BY <1>4, <1>5, <1>7, Mine
<1>9. /\ c \in CallType /\ c.op = "copy" /\ c.ptr = p /\ c.ret = r /\ c.n = UsableSize(p)
      /\ DOMAIN c = {"op", "ptr", "ret", "size", "n"} /\ call' = [call EXCEPT ![t] = c]
  BY <1>2, <1>4, <1>6 DEF CallType
<1> HIDE DEF c, p
<1>10. c.op = "copy" /\ ByOta(heap'[c.ptr]) => c.n >= heap'[c.ptr].size
  BY <1>4, <1>6, <1>7, <1>8, <1>9
<1>11. ASSUME NEW q \in Ptr, HoldsBy(c, "leave", q)
       PROVE  Live(q)' /\ (Holds(t, q) \/ \A u \in Thread \ {t} : ~ Holds(u, q))
  <2>1. q = p \/ q = r
    BY <1>9, <1>11 DEF HoldsBy
  <2> QED BY <1>4, <1>5, <1>7, <1>8, <2>1 DEF Live
<1>12. \A u \in Thread \ {t}, q \in Ptr : Holds(u, q) => heap'[q] = heap[q]
  BY <1>7
<1>13. "leave" \notin Away /\ "leave" # "bare" /\ ("ret" \in DOMAIN c => c.ret # c.ptr)
  BY <1>8, <1>9 DEF Away
<1> QED BY <1>1, <1>7, <1>9, <1>10, <1>11, <1>12, <1>13, Step

(* Giving the lock up: a realloc goes on with its copy, the others return. *)
LEMMA StepLeave ==
  ASSUME Owned, pc \in [Thread -> Spots], NEW t \in Thread, Leave(t)
  PROVE  Owned'
<1>1. UNCHANGED heap /\ heap \in [Ptr -> Value] /\ \A q \in Ptr : ByOta(heap[q]) => Sized(heap[q])
  BY DEF Leave, Owned, Heaped
<1>2. CASE call[t].op # "copy"
  <2>1. Goto(t, "idle") /\ call' = [call EXCEPT ![t] = Idle]
    BY <1>2 DEF Leave, ReadUnlock
  <2> QED BY <1>1, <2>1, StepIdle
<1>3. CASE call[t].op = "copy"
  <2> DEFINE c == call[t]
  <2>1. PICK l \in {"touch", "touched"} : Goto(t, l)
    BY <1>3 DEF Leave, ReadUnlock
  <2>2. c \in CallType /\ CallIs(t) /\ call' = [call EXCEPT ![t] = c]
    BY <1>3 DEF Leave, Owned
  <2>3. /\ "ret" \in DOMAIN c => c.ret # c.ptr
        /\ c.op = "copy" /\ ByOta(heap'[c.ptr]) => c.n >= heap'[c.ptr].size
    BY <1>1, <2>2 DEF CallIs, Copies
  <2>4. ASSUME NEW q \in Ptr, HoldsBy(c, l, q) PROVE Live(q)' /\ Holds(t, q)
    <3>1. Holds(t, q)
      BY <1>3, <2>4 DEF Holds, HoldsBy
    <3> QED BY <1>1, <3>1, Mine DEF Live
  <2> HIDE DEF c
  <2>5. l \notin Away /\ l # "bare"
    BY <2>1 DEF Away
  <2> QED BY <1>1, <2>1, <2>2, <2>3, <2>4, <2>5, Step
<1> QED BY <1>2, <1>3

(* What the copy brings along: all of an object of the allocator, nothing  *)
(* of one that is older.                                                   *)
LEMMA LiveValue ==
  ASSUME Owned, NEW p \in Ptr, Live(p)
  PROVE  /\ heap[p] \in Boot \/ heap[p] \in Ota
         /\ heap[p].size \in Nat
         /\ ByOta(heap[p]) \/ heap[p].by \in {"kmalloc", "libc"}
<1>1. heap[p] \in Value
  BY DEF Owned, Heaped
<1>2. heap[p] \in Boot \/ heap[p] \in Ota
  BY <1>1, ValueIs DEF Live, ByOta
<1> QED BY <1>2 DEF Boot, Ota, ByOta

LEMMA StepTouched ==
  ASSUME Owned, pc \in [Thread -> Spots], NEW t \in Thread, Touched(t)
  PROVE  Owned'
<1>1. heap \in [Ptr -> Value] /\ \A q \in Ptr : ByOta(heap[q]) => Sized(heap[q])
  BY DEF Owned, Heaped
<1>2. CASE call[t].op = "touch"
  <2>1. Goto(t, "idle") /\ call' = [call EXCEPT ![t] = Idle] /\ UNCHANGED heap
    BY <1>2 DEF Touched
  <2> QED BY <1>1, <2>1, StepIdle
<1>3. CASE call[t].op = "copy"
  <2> DEFINE p == call[t].ptr
             r == call[t].ret
             n == call[t].n
             c == [op |-> "free", ptr |-> p, ret |-> r]
             lost == IF n < Lesser(heap[p].size, heap[r].size) THEN heap[p].by ELSE "nothing"
             o == [heap[r] EXCEPT !.lost = lost]
  <2>1. /\ Goto(t, "spin") /\ call' = [call EXCEPT ![t] = c]
        /\ heap' = [heap EXCEPT ![r] = o]
    BY <1>3 DEF Touched, Copied
  <2>2. call[t] \in CallType /\ CallIs(t)
    BY DEF Owned
  <2>3. /\ p \in Ptr /\ r \in Ptr /\ n \in Nat /\ r # p
        /\ "ptr" \in DOMAIN call[t] /\ "ret" \in DOMAIN call[t]
    BY <1>3, <2>2, CallFacts DEF CallIs
  <2>4. Holds(t, p) /\ Holds(t, r)
    BY <1>3, <2>3 DEF Holds, HoldsBy
  <2>5. Live(p) /\ Live(r)
    BY <2>3, <2>4, Mine
  <2>6. lost \in Lost
    <3>1. CASE ByOta(heap[p])
      <4>1. n >= heap[p].size
        BY <1>3, <2>2, <3>1 DEF CallIs, Copies
      <4>2. heap[p].size \in Nat /\ heap[r].size \in Nat
        BY <2>3, <2>5, LiveValue
      <4>3. ~ (n < Lesser(heap[p].size, heap[r].size))
        BY <2>3, <4>1, <4>2 DEF Lesser
      <4> QED BY <4>3 DEF Lost
    <3>2. CASE heap[p].by \in {"kmalloc", "libc"}
      BY <3>2 DEF Lost
    <3> QED BY <2>3, <2>5, <3>1, <3>2, LiveValue
  <2> HIDE DEF lost
  <2>7. /\ o \in Value /\ (ByOta(o) => Sized(o))
        /\ o.by = heap[r].by /\ o.size = heap[r].size
    <3>1. CASE heap[r] \in Boot
      BY <2>6, <3>1 DEF Boot, Value, ByOta
    <3>2. CASE heap[r] \in Ota
      <4>1. /\ o \in Ota /\ Usable(o) = Usable(heap[r]) /\ o.off = heap[r].off
            /\ o.n = heap[r].n /\ o.size = heap[r].size /\ o.by = heap[r].by
        BY <2>6, <3>2 DEF Ota, Usable
      <4>2. Sized(heap[r])
        BY <1>1, <2>3, <3>2 DEF ByOta, Ota
      <4> QED BY <4>1, <4>2 DEF Sized, Value
    <3> QED BY <2>3, <2>5, <3>1, <3>2, LiveValue
  <2>8. /\ c \in CallType /\ c.op = "free" /\ c.ptr = p /\ c.ret = r
        /\ DOMAIN c = {"op", "ptr", "ret"}
    BY <2>3 DEF CallType
  <2> HIDE DEF c, o, p, r
  <2>9. /\ heap' \in [Ptr -> Value] /\ heap'[r] = o
        /\ \A q \in Ptr \ {r} : heap'[q] = heap[q]
    BY <1>1, <2>1, <2>3, <2>7
  <2>10. \A q \in Ptr : ByOta(heap'[q]) => Sized(heap'[q])
    BY <1>1, <2>7, <2>9
  <2>11. \A u \in Thread \ {t}, q \in Ptr : Holds(u, q) => heap'[q] = heap[q]
    BY <2>3, <2>4, <2>9, Mine
  <2>12. ASSUME NEW q \in Ptr, HoldsBy(c, "spin", q) PROVE Live(q)' /\ Holds(t, q)
    <3>1. q = p \/ q = r
      BY <2>8, <2>12 DEF HoldsBy
    <3> QED BY <2>3, <2>4, <2>5, <2>7, <2>9, <3>1 DEF Live
  <2>13. "spin" \notin Away /\ "spin" # "bare" /\ c.op # "copy" /\ c.ret # c.ptr
    BY <2>3, <2>8 DEF Away
  <2> QED BY <2>1, <2>8, <2>9, <2>10, <2>11, <2>12, <2>13, Step
<1> QED BY <1>2, <1>3 DEF Touched

(* The lock, and the queries, change neither an object nor a call.         *)
LEMMA StepLock ==
  ASSUME Owned, pc \in [Thread -> Spots], NEW t \in Thread,
         LockStep(t) \/ MallocUsableSize(t)
  PROVE  Owned'
<1>1. CASE MallocUsableSize(t)
  BY <1>1, StepOfLock DEF MallocUsableSize, Inside, Away
<1>2. CASE LockStep(t)
  <2>1. UNCHANGED <<heap, call>>
    BY <1>2 DEF LockStep
  <2>2. PICK l : Goto(t, l) /\ pc[t] # "leave" /\ (l \in Away => pc[t] \in Away) /\ l # "bare"
    BY <1>2 DEF LockStep, ReadSpin, ReadAdd, ReadBack, TryCheck, TryAdd, TryBack, HandlerUnlock,
                WriteLoad, WriteCas, WriteFlag, WriteSpin, WriteUnlock, ForkInParent, Away
  <2> QED BY <2>1, <2>2, StepOfLock
<1> QED BY <1>1, <1>2

(* While nobody is in a call nothing is held.                              *)
LEMMA NoCalls ==
  ASSUME Heaped', call' \in [Thread -> {Idle}], pc' \in [Thread -> Spots \ {"bare"}]
  PROVE  Owned'
<1>1. Idle \in CallType /\ Idle.op = "none" /\ DOMAIN Idle = {"op"}
  BY DEF Idle, CallType
<1>2. \A t \in Thread : call'[t] = Idle /\ pc'[t] # "bare"
  OBVIOUS
<1>3. \A t \in Thread : CallIs(t)'
  BY <1>1, <1>2 DEF CallIs, Copies
<1>4. \A t \in Thread, p \in Ptr : ~ Holds(t, p)'
  BY <1>1, <1>2 DEF Holds, HoldsBy
<1>5. call' \in [Thread -> CallType]
  BY <1>1
<1> QED BY <1>3, <1>4, <1>5 DEF Owned, Held

LEMMA StepChild ==
  ASSUME Owned, NEW t \in Thread, Child(t)
  PROVE  Owned'
<1>1. Heaped'
  BY DEF Child, Owned, Heaped
<1>2. call' \in [Thread -> {Idle}] /\ pc' \in [Thread -> Spots \ {"bare"}]
  BY DEF Child, ForkInChild, Spots
<1> QED BY <1>1, <1>2, NoCalls

(* Before main: kmalloc and libc answer, and there are no calls.           *)
LEMMA StepBoot ==
  ASSUME Owned, Started, pc \in [Thread -> Spots], EarlyCalls \/ LibcCalls
  PROVE  Owned'
<1>1. PICK by \in {"kmalloc", "libc"} : BootMalloc(by) \/ BootFree(by)
  BY DEF EarlyCalls, LibcCalls
<1>2. UNCHANGED <<pc, call>> /\ \A t \in Thread : pc[t] = "idle" /\ call[t] = Idle
  BY <1>1 DEF EarlyCalls, LibcCalls, Started, Owned, CallIs, Away, BootMalloc, BootFree, forkLockVars
<1>3. PICK p \in Ptr, o \in Value : heap' = [heap EXCEPT ![p] = o] /\ ~ ByOta(o)
  <2>1. ASSUME NEW p \in Ptr, NEW s \in Sizes
        PROVE  LET o == [by |-> by, size |-> s, lost |-> "nothing"]
               IN o \in Value /\ ~ ByOta(o)
    BY ApiAssumption DEF Value, Boot, Lost, ByOta
  <2>2. Nothing \in Value /\ ~ ByOta(Nothing)
    BY DEF Value, Nothing, ByOta
  <2> QED BY <1>1, <2>1, <2>2 DEF BootMalloc, BootFree, Put
<1>4. Heaped'
  BY <1>3 DEF Owned, Heaped
<1>5. call' \in [Thread -> {Idle}] /\ pc' \in [Thread -> Spots \ {"bare"}]
  BY <1>2 DEF Owned, Spots
<1> QED BY <1>4, <1>5, NoCalls

LEMMA StepStill ==
  ASSUME Owned, UNCHANGED <<pc, heap, call>>
  PROVE  Owned'
BY DEF Owned, Heaped, CallIs, Copies, Held, Holds, Live

LEMMA OwnedStep ==
  ASSUME Owned, Started, pc \in [Thread -> Spots], [Next]_vars
  PROVE  Owned'
<1>1. CASE UNCHANGED vars
  BY <1>1, StepStill DEF vars
<1>2. CASE FindLibc \/ EnterKernel \/ \E t \in Thread : ThreadInit(t)
  <2>1. UNCHANGED <<pc, heap, call>>
    BY <1>2 DEF FindLibc, EnterKernel, ThreadInit, forkLockVars
  <2> QED BY <2>1, StepStill
<1>3. CASE EarlyCalls \/ LibcCalls
  BY <1>3, StepBoot
<1>4. ASSUME NEW t \in Thread, Calls(t) PROVE Owned'
  BY <1>4, StepCalls
<1>5. ASSUME NEW t \in Thread, Proceed(t) PROVE Owned'
  BY <1>2, <1>5, StepAllocate, StepFree, StepReallocInPlace, StepReallocMalloc, StepLeave,
     StepTouched, StepLock, StepChild DEF Proceed
<1> QED BY <1>1, <1>2, <1>3, <1>4, <1>5 DEF Next
-----------------------------------------------------------------------------
(* The phases: nothing but main runs before the allocator is set up.       *)
LEMMA StartedStep ==
  ASSUME Started, [Next]_vars PROVE Started'
<1>1. CASE UNCHANGED vars
  BY <1>1 DEF vars, Started
<1>2. CASE EarlyCalls \/ LibcCalls \/ FindLibc \/ EnterKernel
  BY <1>2 DEF EarlyCalls, LibcCalls, BootMalloc, BootFree, FindLibc, EnterKernel, forkLockVars,
              Started
<1>3. ASSUME NEW t \in Thread, Calls(t) PROVE Started'
  <2>1. phase = "kernel" /\ UNCHANGED <<phase, initDone>>
    BY <1>3 DEF Calls, CallMalloc, CallMemalign, CallAlignedAlloc, CallFree, CallUsableSize,
                CallRealloc, CallFork, Access, Begin
  <2> QED BY <2>1 DEF Started
<1>4. ASSUME NEW t \in Thread, Proceed(t) PROVE Started'
  <2>1. pc[t] # "idle" /\ UNCHANGED phase
    <3>1. CASE LockStep(t)
      BY <3>1 DEF LockStep, ReadSpin, ReadAdd, ReadBack, TryCheck, TryAdd, TryBack, HandlerUnlock,
                  WriteLoad, WriteCas, WriteFlag, WriteSpin, WriteUnlock, ForkInParent
    <3>2. CASE ~ LockStep(t)
      BY <1>4, <3>2 DEF Proceed, ThreadInit, Malloc, AlignedAlloc, Free, MallocUsableSize,
                        ReallocInPlace, ReallocMalloc, Leave, Touched, Child, Allocate, Inside,
                        ReadUnlock, ForkInChild
    <3> QED BY <3>1, <3>2
  <2>2. phase = "kernel"
    BY <2>1 DEF Started
  <2>3. initDone' = initDone \/ initDone' = [initDone EXCEPT ![t] = TRUE]
    BY <1>4 DEF Proceed, ThreadInit, Malloc, AlignedAlloc, Free, MallocUsableSize,
                ReallocInPlace, ReallocMalloc, Leave, Touched, Child, Allocate, LockStep
  <2> QED BY <2>1, <2>2, <2>3 DEF Started
<1> QED BY <1>1, <1>2, <1>3, <1>4 DEF Next

(* Every realloc that runs has room for the hold it may leave behind.      *)
Reallocs == {t \in Thread : call[t].op = "realloc"}

LEMMA InReallocs ==
  /\ IsFiniteSet(Reallocs) /\ Cardinality(Reallocs) \in Nat
  /\ LeaksFit <=> leaks + Cardinality(Reallocs) <= MaxLeaks
  /\ LeakRoom <=> leaks + Cardinality(Reallocs) < MaxLeaks
<1>1. Reallocs = {t \in Thread : call[t].op \in {"realloc"}} /\ Reallocs \subseteq Thread
  BY DEF Reallocs
<1>2. InCall({"realloc"}) = Cardinality(Reallocs)
  BY <1>1 DEF InCall
<1> QED BY <1>1, <1>2, FS_Subset, FS_CardinalityType, ApiAssumption DEF LeaksFit, LeakRoom

LEMMA ReallocsMove ==
  ASSUME call \in [Thread -> CallType], NEW t \in Thread, NEW c, call' = [call EXCEPT ![t] = c]
  PROVE  Reallocs' = IF c.op = "realloc" THEN Reallocs \cup {t} ELSE Reallocs \ {t}
BY DEF Reallocs

(* A step that starts no realloc and keeps no hold.                        *)
LEMMA LeaksStay ==
  ASSUME LeaksFit, leaks \in Nat, UNCHANGED leaks, Reallocs' \subseteq Reallocs
  PROVE  LeaksFit'
<1>1. Cardinality(Reallocs') <= Cardinality(Reallocs) /\ Cardinality(Reallocs') \in Nat
  BY InReallocs, FS_Subset, FS_CardinalityType
<1>2. LeaksFit' <=> leaks' + Cardinality(Reallocs') <= MaxLeaks
  <2>1. Reallocs' = {t \in Thread : call'[t].op \in {"realloc"}}
    BY DEF Reallocs
  <2> QED BY <2>1 DEF LeaksFit, InCall
<1> QED BY <1>1, <1>2, InReallocs, ApiAssumption

LEMMA LeaksStep ==
  ASSUME Owned, LeaksFit, leaks \in Nat, [Next]_vars PROVE LeaksFit'
<1>1. CASE UNCHANGED <<call, leaks>>
  BY <1>1, LeaksStay DEF Reallocs
<1>2. ASSUME NEW t \in Thread, NEW c, call' = [call EXCEPT ![t] = c], c.op # "realloc",
             UNCHANGED leaks
      PROVE  LeaksFit'
  BY <1>2, ReallocsMove, LeaksStay DEF Owned
<1>3. LeaksFit' <=> leaks' + Cardinality(Reallocs') <= MaxLeaks
  <2>1. Reallocs' = {t \in Thread : call'[t].op \in {"realloc"}}
    BY DEF Reallocs
  <2> QED BY <2>1 DEF LeaksFit, InCall
<1>4. ASSUME NEW t \in Thread, Calls(t) PROVE LeaksFit'
  <2>1. CASE CallRealloc(t)
    <3>1. PICK c : call' = [call EXCEPT ![t] = c] /\ c.op = "realloc" /\ UNCHANGED leaks /\ LeakRoom
      BY <2>1 DEF CallRealloc, Begin
    <3>2. Reallocs' = Reallocs \cup {t}
      BY <3>1, ReallocsMove DEF Owned
    <3>3. Cardinality(Reallocs') <= Cardinality(Reallocs) + 1 /\ Cardinality(Reallocs') \in Nat
      <4>1. CASE t \in Reallocs
        <5>1. Reallocs' = Reallocs
          BY <3>2, <4>1
        <5> QED BY <5>1, InReallocs
      <4>2. CASE t \notin Reallocs
        <5>1. Cardinality(Reallocs \cup {t}) = Cardinality(Reallocs) + 1
          BY <4>2, InReallocs, Gain
        <5> QED BY <3>2, <5>1, InReallocs
      <4> QED BY <4>1, <4>2
    <3> QED BY <1>3, <3>1, <3>3, InReallocs, ApiAssumption
  <2>2. CASE ~ CallRealloc(t)
    <3>1. ASSUME NEW c, NEW l, Begin(t, c, l), c.op # "realloc" PROVE LeaksFit'
      BY <1>2, <3>1 DEF Begin
    <3>2. CASE CallMalloc(t)
      BY <3>1, <3>2 DEF CallMalloc
    <3>3. CASE CallMemalign(t) \/ CallAlignedAlloc(t)
      BY <3>1, <3>3 DEF CallMemalign, CallAlignedAlloc
    <3>4. CASE CallFree(t) \/ CallUsableSize(t)
      BY <3>1, <3>4 DEF CallFree, CallUsableSize
    <3>5. CASE CallFork(t) \/ Access(t)
      BY <3>1, <3>5 DEF CallFork, Access, Idle
    <3> QED BY <1>4, <2>2, <3>2, <3>3, <3>4, <3>5 DEF Calls
  <2> QED BY <2>1, <2>2
<1>5. ASSUME NEW t \in Thread, ReallocInPlace(t) PROVE LeaksFit'
  <2>1. /\ call' = [call EXCEPT ![t] = Idle] /\ leaks' = leaks + 1 /\ t \in Reallocs
        /\ Idle.op # "realloc"
    BY <1>5 DEF ReallocInPlace, Inside, Reallocs, Idle
  <2>2. Reallocs' = Reallocs \ {t}
    BY <2>1, ReallocsMove DEF Owned
  <2>3. Cardinality(Reallocs') = Cardinality(Reallocs) - 1
    BY <2>1, <2>2, InReallocs, FS_RemoveElement
  <2> QED BY <1>3, <2>1, <2>3, InReallocs, ApiAssumption
<1>6. ASSUME NEW t \in Thread, Child(t) PROVE LeaksFit'
  <2>1. Reallocs' = {} /\ leaks' = 0
    BY <1>6 DEF Child, Reallocs, Idle
  <2> QED BY <1>3, <2>1, FS_EmptySet, ApiAssumption
<1>7. ASSUME NEW t \in Thread, Malloc(t) \/ Free(t) \/ MallocUsableSize(t) \/ LockStep(t) \/ ThreadInit(t)
      PROVE  LeaksFit'
  BY <1>1, <1>7 DEF Malloc, Allocate, Free, MallocUsableSize, LockStep, ThreadInit
<1>8. ASSUME NEW t \in Thread, AlignedAlloc(t) \/ ReallocMalloc(t) \/ Leave(t) \/ Touched(t)
      PROVE  LeaksFit'
  <2>1. UNCHANGED leaks /\ Idle.op # "realloc"
    BY <1>8 DEF AlignedAlloc, Allocate, ReallocMalloc, Leave, Touched, Idle
  <2>2. CASE UNCHANGED call
    BY <1>1, <2>1, <2>2
  <2>3. CASE call' = [call EXCEPT ![t] = Idle]
    BY <1>2, <2>1, <2>3
  <2>4. CASE ReallocMalloc(t)
    <3>1. PICK r \in Ptr :
            call' = [call EXCEPT ![t] = [op |-> "copy", ptr |-> call[t].ptr, ret |-> r,
                                         size |-> call[t].size, n |-> UsableSize(call[t].ptr)]]
      BY <2>4 DEF ReallocMalloc
    <3> DEFINE c == [op |-> "copy", ptr |-> call[t].ptr, ret |-> r,
                     size |-> call[t].size, n |-> UsableSize(call[t].ptr)]
    <3>2. call' = [call EXCEPT ![t] = c] /\ c.op # "realloc"
      BY <3>1
    <3> HIDE DEF c
    <3> QED BY <1>2, <2>1, <3>2
  <2>5. CASE Touched(t) /\ call[t].op = "copy"
    <3> DEFINE c == [op |-> "free", ptr |-> call[t].ptr, ret |-> call[t].ret]
    <3>1. call' = [call EXCEPT ![t] = c] /\ c.op # "realloc"
      BY <2>5 DEF Touched
    <3> HIDE DEF c
    <3> QED BY <1>2, <2>1, <3>1
  <2> QED BY <1>8, <2>2, <2>3, <2>4, <2>5 DEF AlignedAlloc, Leave, Touched
<1>9. CASE EarlyCalls \/ LibcCalls \/ FindLibc \/ EnterKernel \/ UNCHANGED vars
  BY <1>1, <1>9 DEF EarlyCalls, LibcCalls, BootMalloc, BootFree, FindLibc, EnterKernel, vars
<1> QED BY <1>4, <1>5, <1>6, <1>7, <1>8, <1>9 DEF Next, Proceed
-----------------------------------------------------------------------------
LEMMA InitOwned == Init => AInv
<1> SUFFICES ASSUME Init PROVE AInv
  OBVIOUS
<1>1. \A p \in Ptr : heap[p] = Nothing
  BY DEF Init
<1>2. /\ heap \in [Ptr -> Value] /\ \A t \in Thread : pc[t] = "idle" /\ call[t] = Idle
      /\ call \in [Thread -> CallType]
  BY DEF Init, Value, CallType
<1>3. Heaped
  BY <1>1, <1>2 DEF Heaped, ByOta, Nothing
<1>4. Idle.op = "none" /\ DOMAIN Idle = {"op"}
  BY DEF Idle
<1>5. \A t \in Thread, p \in Ptr : ~ Holds(t, p)
  BY <1>2, <1>4 DEF Holds, HoldsBy
<1>6. \A t \in Thread : CallIs(t)
  BY <1>2, <1>4 DEF CallIs, Copies
<1>7. Started
  BY DEF Init, Started
<1>8. LeaksFit
  <2>1. Reallocs = {} /\ leaks = 0
    BY <1>2, <1>4 DEF Reallocs, Init
  <2> QED BY <2>1, InReallocs, FS_EmptySet, ApiAssumption
<1> QED BY <1>2, <1>3, <1>5, <1>6, <1>7, <1>8 DEF AInv, Owned, Held

THEOREM ApiInvariant == Spec => [](IInv /\ AInv)
<1>1. Init => IInv /\ AInv
  BY InitInv, InitOwned
<1>2. IInv /\ AInv /\ [Next]_vars => (IInv /\ AInv)'
  <2> SUFFICES ASSUME IInv, AInv, [Next]_vars PROVE IInv' /\ AInv'
    OBVIOUS
  <2>1. pc \in [Thread -> Spots] /\ leaks \in Nat
    BY DEF IInv, LockType
  <2> QED BY <2>1, StepInv, OwnedStep, StartedStep, LeaksStep DEF AInv
<1> QED BY <1>1, <1>2, PTL DEF Spec

(* alloc_entry.c, vmem.c: the counter stays a number, and until            *)
(* kernel_entry has run only main runs, outside of every entry point.      *)
THEOREM TypeOKHolds == Spec => []TypeOK
<1>1. IInv /\ AInv => TypeOK
  <2> SUFFICES ASSUME IInv, AInv PROVE TypeOK
    OBVIOUS
  <2>1. cnt \in Nat /\ leaks \in Nat /\ pc \in [Thread -> Spots] /\ seen \in [Thread -> Nat]
    BY DEF IInv, LockType
  <2>2. leaks \in 0 .. MaxLeaks
    BY <2>1, InReallocs, ApiAssumption DEF AInv
  <2>3. DOMAIN heap = Ptr /\ DOMAIN call = Thread
    BY DEF AInv, Owned, Heaped
  <2> QED BY <2>1, <2>2, <2>3 DEF TypeOK, AInv, Started
<1> QED BY <1>1, ApiInvariant, PTL

(* alloc_alias.c:599: the size that the trie gives back for an object, of  *)
(* which it keeps only the class, covers the bytes the program asked for   *)
(* and exactly the alias pages that were written, whatever the sizes and   *)
(* the alignments.                                                         *)
THEOREM FreesItsPagesHolds == Spec => []FreesItsPages
<1>1. AInv => FreesItsPages
  <2> SUFFICES ASSUME AInv, NEW p \in Ptr, Live(p), IsOta(p)
               PROVE  UsableSize(p) >= heap[p].size
                      /\ Pages(heap[p].off, UsableSize(p)) = heap[p].n
    BY DEF FreesItsPages
  <2>1. Sized(heap[p]) /\ UsableSize(p) = Usable(heap[p])
    BY DEF AInv, Owned, Heaped, IsOta, ByOta, UsableSize, Usable
  <2> QED BY <2>1 DEF Sized
<1> QED BY <1>1, ApiInvariant, PTL

(* alloc_alias.c:914: realloc gives the lock up while it copies, and still *)
(* copies all that the object has of an object of the allocator.           *)
THEOREM ReallocKeepsHolds == Spec => []ReallocKeeps
<1>1. AInv => ReallocKeeps
  <2> SUFFICES ASSUME AInv, NEW p \in Ptr, Live(p) PROVE heap[p].lost \notin {"malloc", "memalign"}
    BY DEF ReallocKeeps
  <2>1. heap[p] \in Boot \/ heap[p] \in Ota
    BY LiveValue DEF AInv
  <2> QED BY <2>1 DEF Boot, Ota, Lost
<1> QED BY <1>1, ApiInvariant, PTL
=============================================================================
