------------------------------- MODULE TrieProofs -------------------------------
(***************************************************************************)
(* The upper levels of the trie, for any number of user threads, page      *)
(* fault handlers and tables.  First the node cache: an unlinked table     *)
(* stays in it only while the thread that unlinked it, or a handler that   *)
(* stored it, is about to look.  Then, from the line of dashes after       *)
(* CacheIsFreshHolds on, the counts: they are exact, so a table that       *)
(* somebody works in stays, and one is reclaimed if and only if everything *)
(* below it is gone; what this says of a handler that holds a page which   *)
(* is no table any more; and the bounds.                                   *)
(***************************************************************************)
EXTENDS Trie, FiniteSetTheorems, TLAPS

IterType ==
  [op : {"idle", "alloc", "free", "probe"},
   at : {"idle", "touch", "write", "acquire", "lock", "body",
         "release", "unlink", "invalidate", "reclaim"},
   lv : 0 .. 3, p : Nat, end : Nat, by : 0 .. 3,
   last : BOOLEAN, sub : BOOLEAN, start : Nat]

WalkType ==
  [at : {"idle", "cache", "map", "check", "load", "store", "verify", "try", "hold"},
   lv : 0 .. 3, p : Nat, first : BOOLEAN, cached : BOOLEAN,
   k : [Level -> Node \cup {None, Foreign} \cup (Level \X Nat)]]

(* The steps that work on a table of level lv.                             *)
IterLevel(i) == i.at \in {"acquire", "release", "unlink", "invalidate", "reclaim"} => i.lv \in Level
WalkLevel(w) == w.at \in {"cache", "map", "check", "load", "store", "verify"} => w.lv \in Level

Iters == it \in [User -> IterType] /\ \A u \in User : IterLevel(it[u])
Walks == pf \in [Handler -> WalkType] /\ \A h \in Handler : WalkLevel(pf[h])
Objects == high \in Nat /\ objs \subseteq [start : Nat, end : Nat] /\ dead \subseteq [start : Nat, end : Nat]

(* What the cache of a level may hold, and the domain of link.             *)
Tables ==
  /\ link \in [Node -> BOOLEAN]
  /\ cache \in [Level -> (Level \X Nat) \cup {None}]
  /\ \A lv \in Level : cache[lv] # None => cache[lv][1] = lv

IInv == Iters /\ Walks /\ Objects /\ Tables /\ CacheIsFresh
-----------------------------------------------------------------------------
LEMMA UpIs ==
  ASSUME NEW lv \in Level, NEW p \in Nat
  PROVE  Up(lv, p) \in Level \X Nat /\ Up(lv, p)[1] = lv
<1>1. ASSUME NEW F \in Nat \ {0}
      PROVE  p \div F \in Nat
  BY <1>1
<1>2. Fan2 \in Nat \ {0} /\ Fan2 * Fan3 \in Nat \ {0}
  BY TrieAssumption
<1>3. p \div Fan2 \in Nat /\ p \div (Fan2 * Fan3) \in Nat
  BY <1>1, <1>2
<1> QED BY <1>3 DEF Up, Level

LEMMA NodeLevel == ASSUME NEW x \in Node PROVE x[1] \in Level
BY DEF Node, Level

LEMMA StepIs == ASSUME NEW p \in Nat PROVE Step(p) \in 1 .. 3
BY DEF Step

(* An iterator stays one when a field is assigned a value of its type.     *)
LEMMA SetIter ==
  ASSUME NEW i \in IterType
  PROVE  /\ \A a \in {"idle", "touch", "write", "acquire", "lock", "body",
                      "release", "unlink", "invalidate", "reclaim"} :
              [i EXCEPT !.at = a] \in IterType
         /\ \A a \in {"alloc", "free", "probe"} : [i EXCEPT !.op = a] \in IterType
         /\ \A n \in 0 .. 3 : [i EXCEPT !.lv = n] \in IterType /\ [i EXCEPT !.by = n] \in IterType
         /\ \A n \in Nat : /\ [i EXCEPT !.p = n] \in IterType
                           /\ [i EXCEPT !.end = n] \in IterType
                           /\ [i EXCEPT !.start = n] \in IterType
         /\ \A b \in BOOLEAN : [i EXCEPT !.last = b] \in IterType /\ [i EXCEPT !.sub = b] \in IterType
<1>1. ASSUME NEW a \in {"idle", "touch", "write", "acquire", "lock", "body",
                        "release", "unlink", "invalidate", "reclaim"}
      PROVE  [i EXCEPT !.at = a] \in IterType
  BY <1>1 DEF IterType
<1>2. ASSUME NEW a \in {"alloc", "free", "probe"} PROVE [i EXCEPT !.op = a] \in IterType
  BY <1>2 DEF IterType
<1>3. ASSUME NEW n \in 0 .. 3 PROVE [i EXCEPT !.lv = n] \in IterType
  BY <1>3 DEF IterType
<1>4. ASSUME NEW n \in 0 .. 3 PROVE [i EXCEPT !.by = n] \in IterType
  BY <1>4 DEF IterType
<1>5. ASSUME NEW n \in Nat PROVE [i EXCEPT !.p = n] \in IterType
  BY <1>5 DEF IterType
<1>6. ASSUME NEW n \in Nat PROVE [i EXCEPT !.end = n] \in IterType
  BY <1>6 DEF IterType
<1>7. ASSUME NEW n \in Nat PROVE [i EXCEPT !.start = n] \in IterType
  BY <1>7 DEF IterType
<1>8. ASSUME NEW b \in BOOLEAN PROVE [i EXCEPT !.last = b] \in IterType
  BY <1>8 DEF IterType
<1>9. ASSUME NEW b \in BOOLEAN PROVE [i EXCEPT !.sub = b] \in IterType
  BY <1>9 DEF IterType
<1> QED BY <1>1, <1>2, <1>3, <1>4, <1>5, <1>6, <1>7, <1>8, <1>9

LEMMA NoIterIs == NoIter \in IterType /\ IterLevel(NoIter)
BY DEF NoIter, IterType, IterLevel

LEMMA Numbers == 0 \in 0 .. 3 /\ 1 \in 0 .. 3 /\ 2 \in 0 .. 3 /\ 3 \in 0 .. 3
OBVIOUS

(* A step of a user thread that unlinks no table, leaves the cache alone   *)
(* and has no table to invalidate.                                         *)
LEMMA QuietUser ==
  ASSUME IInv, NEW u \in User, NEW i \in IterType, IterLevel(i),
         it' = [it EXCEPT ![u] = i], it[u].at # "invalidate",
         link' \in [Node -> BOOLEAN], \A x \in Node : link[x] => link'[x],
         Objects', UNCHANGED <<cache, pf>>
  PROVE  IInv'
<1>1. Iters'
  BY DEF IInv, Iters
<1>2. Walks' /\ Tables'
  BY DEF IInv, Walks, Tables
<1>3. ASSUME NEW v \in User, it[v].at = "invalidate" PROVE it'[v] = it[v]
  BY <1>3 DEF IInv, Iters
<1>4. CacheIsFresh'
  BY <1>3, <1>2 DEF IInv, CacheIsFresh, Walks
<1> QED BY <1>1, <1>2, <1>4 DEF IInv

(* A step of a handler that leaves the cache alone and has nothing to      *)
(* verify.                                                                 *)
LEMMA QuietHandler ==
  ASSUME IInv, NEW h \in Handler, NEW w \in WalkType, WalkLevel(w),
         pf' = [pf EXCEPT ![h] = w], pf[h].at # "verify",
         UNCHANGED <<link, cache, it, high, objs, dead>>
  PROVE  IInv'
<1>1. Walks'
  BY DEF IInv, Walks
<1>2. Iters' /\ Tables' /\ Objects'
  BY DEF IInv, Iters, Tables, Objects
<1>3. ASSUME NEW g \in Handler, pf[g].at = "verify" PROVE pf'[g] = pf[g]
  BY <1>3 DEF IInv, Walks
<1>4. CacheIsFresh'
  BY <1>3 DEF IInv, CacheIsFresh
<1> QED BY <1>1, <1>2, <1>4 DEF IInv

-----------------------------------------------------------------------------
(* The steps of a user thread.                                             *)
LEMMA IterOf ==
  ASSUME Iters, NEW u \in User
  PROVE  it[u] \in IterType /\ IterLevel(it[u])
BY DEF Iters

LEMMA AfterType ==
  ASSUME NEW i \in IterType, NEW b \in BOOLEAN, i.lv \in Level
  PROVE  After(i, b) \in IterType /\ IterLevel(After(i, b))
<1>1. i.p + 1 \in Nat
  BY DEF IterType
<1>2. CASE i.sub /\ i.lv = 2
  <2>1. [i EXCEPT !.at = "body", !.lv = 1, !.sub = FALSE, !.last = b] \in IterType
    BY SetIter, Numbers
  <2>2. IterLevel([i EXCEPT !.at = "body", !.lv = 1, !.sub = FALSE, !.last = b])
    BY DEF IterLevel, IterType
  <2> QED BY <1>2, <2>1, <2>2 DEF After
<1>3. CASE i.sub /\ i.lv # 2
  <2>1. [i EXCEPT !.at = "lock", !.lv = 1, !.sub = FALSE, !.last = b] \in IterType
    BY SetIter, Numbers
  <2>2. IterLevel([i EXCEPT !.at = "lock", !.lv = 1, !.sub = FALSE, !.last = b])
    BY DEF IterLevel, IterType
  <2> QED BY <1>3, <2>1, <2>2 DEF After
<1>4. CASE ~i.sub /\ i.lv = 2
  <2>1. /\ [i EXCEPT !.at = "acquire", !.lv = 2, !.by = 2, !.last = b, !.p = @ + 1] \in IterType
        /\ [i EXCEPT !.at = "release", !.lv = 3, !.last = b] \in IterType
    BY <1>1, SetIter, Numbers
  <2>2. /\ IterLevel([i EXCEPT !.at = "acquire", !.lv = 2, !.by = 2, !.last = b, !.p = @ + 1])
        /\ IterLevel([i EXCEPT !.at = "release", !.lv = 3, !.last = b])
    BY DEF IterLevel, IterType, Level
  <2> QED BY <1>4, <2>1, <2>2 DEF After
<1>5. CASE ~i.sub /\ i.lv # 2
  <2>1. [i EXCEPT !.at = "acquire", !.lv = 3, !.by = 3, !.p = @ + 1] \in IterType
    BY <1>1, SetIter, Numbers
  <2>2. IterLevel([i EXCEPT !.at = "acquire", !.lv = 3, !.by = 3, !.p = @ + 1])
    BY DEF IterLevel, IterType, Level
  <2> QED BY <1>5, <2>1, <2>2, NoIterIs DEF After
<1> QED BY <1>2, <1>3, <1>4, <1>5

LEMMA AllocStep ==
  ASSUME IInv, NEW u \in User, NEW n \in Sizes, Alloc(u, n) PROVE IInv'
<1> DEFINE i == [NoIter EXCEPT !.op = "alloc", !.at = "touch", !.lv = 3,
                               !.p = high, !.start = high, !.end = high + n - 1]
<1>1. n \in Nat \ {0} /\ high \in Nat
  BY TrieAssumption DEF IInv, Objects
<1>2. high + n - 1 \in Nat
  BY <1>1
<1>3. i \in IterType
  BY <1>1, <1>2, NoIterIs, SetIter, Numbers
<1>4. IterLevel(i)
  BY <1>1 DEF IterLevel, NoIter
<1>5. Objects' /\ link' \in [Node -> BOOLEAN]
  BY <1>1 DEF IInv, Objects, Alloc, Tables
<1>6. it' = [it EXCEPT ![u] = i] /\ it[u].at # "invalidate" /\ UNCHANGED <<link, cache, pf>>
  BY DEF Alloc, walk
<1> HIDE DEF i
<1> QED BY <1>3, <1>4, <1>5, <1>6, QuietUser

LEMMA TouchStep ==
  ASSUME IInv, NEW u \in User, Touch(u) PROVE IInv'
<1> DEFINE i == [it[u] EXCEPT !.lv = @ - 1]
<1>1. it[u] \in IterType /\ it[u].lv \in Level /\ it[u].at = "touch"
  BY IterOf DEF IInv, Touch
<1>2. i \in IterType /\ IterLevel(i)
  BY <1>1 DEF IterType, IterLevel, Level
<1>3. link' \in [Node -> BOOLEAN] /\ \A x \in Node : link[x] => link'[x]
  BY DEF IInv, Tables, Touch
<1>4. Objects'
  BY DEF IInv, Objects, Touch
<1>5. it' = [it EXCEPT ![u] = i] /\ UNCHANGED <<cache, pf>>
  BY DEF Touch, walk
<1> HIDE DEF i
<1> QED BY <1>1, <1>2, <1>3, <1>4, <1>5, QuietUser

LEMMA TouchLeafStep ==
  ASSUME IInv, NEW u \in User, TouchLeaf(u) PROVE IInv'
<1> DEFINE i == [it[u] EXCEPT !.at = "write"]
<1>1. it[u] \in IterType /\ it[u].at = "touch"
  BY IterOf DEF IInv, TouchLeaf
<1>2. i \in IterType /\ IterLevel(i)
  BY <1>1 DEF IterType, IterLevel
<1>3. Objects' /\ link' \in [Node -> BOOLEAN]
  BY DEF IInv, Objects, Tables, TouchLeaf
<1>4. it' = [it EXCEPT ![u] = i] /\ UNCHANGED <<link, cache, pf>>
  BY DEF TouchLeaf, walk
<1> HIDE DEF i
<1> QED BY <1>1, <1>2, <1>3, <1>4, QuietUser

LEMMA WriteStep ==
  ASSUME IInv, NEW u \in User, Write(u) PROVE IInv'
<1>1. it[u] \in IterType /\ it[u].at = "write"
  BY IterOf DEF IInv, Write
<1>2. it[u].start \in Nat /\ it[u].end \in Nat /\ it[u].p \in Nat
  BY <1>1 DEF IterType
<1>3. Objects' /\ link' \in [Node -> BOOLEAN]
  BY <1>2 DEF IInv, Objects, Tables, Write
<1>4. UNCHANGED <<link, cache, pf>>
  BY DEF Write, walk
<1>5. CASE it[u].p = it[u].end
  <2>1. it' = [it EXCEPT ![u] = NoIter]
    BY <1>5 DEF Write
  <2> QED BY <1>1, <1>3, <1>4, <2>1, NoIterIs, QuietUser
<1>6. CASE it[u].p # it[u].end
  <2> DEFINE i == [it[u] EXCEPT !.p = @ + 1, !.at = "touch", !.lv = Step(it[u].p)]
  <2>1. it' = [it EXCEPT ![u] = i]
    BY <1>6 DEF Write
  <2>2. Step(it[u].p) \in 0 .. 3 /\ it[u].p + 1 \in Nat
    BY <1>2, StepIs
  <2>3. i \in IterType
    BY <1>1, <2>2, SetIter
  <2>4. IterLevel(i)
    BY <1>1 DEF IterType, IterLevel
  <2> HIDE DEF i
  <2> QED BY <1>1, <1>3, <1>4, <2>1, <2>3, <2>4, QuietUser
<1> QED BY <1>5, <1>6

LEMMA IterIs ==
  ASSUME NEW op \in {"free", "probe"}, NEW p \in Nat, NEW e \in Nat
  PROVE  Iter(op, p, e) \in IterType /\ IterLevel(Iter(op, p, e))
<1>1. Iter(op, p, e) \in IterType
  BY NoIterIs, SetIter, Numbers DEF Iter
<1>2. IterLevel(Iter(op, p, e))
  BY DEF Iter, NoIter, IterLevel, Level
<1> QED BY <1>1, <1>2

LEMMA FreeStep ==
  ASSUME IInv, NEW u \in User, NEW o \in objs, Free(u, o) PROVE IInv'
<1>1. o.start \in Nat /\ o.end \in Nat
  BY DEF IInv, Objects
<1>2. Iter("free", o.start, o.end) \in IterType /\ IterLevel(Iter("free", o.start, o.end))
  BY <1>1, IterIs
<1>3. Objects' /\ link' \in [Node -> BOOLEAN]
  BY DEF IInv, Objects, Tables, Free
<1>4. /\ it' = [it EXCEPT ![u] = Iter("free", o.start, o.end)]
      /\ it[u].at # "invalidate" /\ UNCHANGED <<link, cache, pf>>
  BY DEF Free, walk
<1> QED BY <1>2, <1>3, <1>4, QuietUser

LEMMA ProbeStep ==
  ASSUME IInv, NEW u \in User, NEW o \in Pointers, Probe(u, o) PROVE IInv'
<1>1. o.start \in Nat /\ o.end \in Nat
  BY DEF IInv, Objects, Pointers
<1>2. Iter("probe", o.start, o.start) \in IterType /\ IterLevel(Iter("probe", o.start, o.start))
  BY <1>1, IterIs
<1>3. Objects' /\ link' \in [Node -> BOOLEAN]
  BY DEF IInv, Objects, Tables, Probe
<1>4. /\ it' = [it EXCEPT ![u] = Iter("probe", o.start, o.start)]
      /\ it[u].at # "invalidate" /\ UNCHANGED <<link, cache, pf>>
  BY DEF Probe, walk
<1> QED BY <1>2, <1>3, <1>4, QuietUser

(* The same where no table is linked and no object changes hands.          *)
LEMMA Moves ==
  ASSUME IInv, NEW u \in User, NEW i \in IterType, IterLevel(i),
         it' = [it EXCEPT ![u] = i], it[u].at # "invalidate",
         UNCHANGED <<link, high, objs, dead, cache, pf>>
  PROVE  IInv'
<1>1. Objects' /\ link' \in [Node -> BOOLEAN]
  BY DEF IInv, Objects, Tables
<1> QED BY <1>1, QuietUser

LEMMA AcquireStep ==
  ASSUME IInv, NEW u \in User, Acquire(u) PROVE IInv'
<1>1. it[u] \in IterType /\ it[u].at = "acquire" /\ it[u].lv \in Level
  BY IterOf DEF IInv, Acquire, IterLevel
<1>2. UNCHANGED <<link, high, objs, dead, cache, pf>>
  BY DEF Acquire, walk
<1>3. CASE it[u].lv = 3
  <2> DEFINE i == [it[u] EXCEPT !.lv = 2]
  <2>1. it' = [it EXCEPT ![u] = i]
    BY <1>3 DEF Acquire
  <2>2. i \in IterType
    BY <1>1, SetIter, Numbers
  <2>3. IterLevel(i)
    BY <1>1 DEF IterType, IterLevel, Level
  <2> HIDE DEF i
  <2> QED BY <1>1, <1>2, <2>1, <2>2, <2>3, Moves
<1>4. CASE it[u].lv # 3 /\ it[u].by = 2 /\ it[u].last
  <2> DEFINE i == [it[u] EXCEPT !.at = "release", !.sub = TRUE, !.lv = 3]
  <2>1. it' = [it EXCEPT ![u] = i]
    BY <1>4 DEF Acquire
  <2>2. i \in IterType
    BY <1>1, SetIter, Numbers
  <2>3. IterLevel(i)
    BY <1>1 DEF IterType, IterLevel, Level
  <2> HIDE DEF i
  <2> QED BY <1>1, <1>2, <2>1, <2>2, <2>3, Moves
<1>5. CASE it[u].lv # 3 /\ ~(it[u].by = 2 /\ it[u].last)
  <2> DEFINE i == [it[u] EXCEPT !.at = "lock", !.lv = 1]
  <2>1. it' = [it EXCEPT ![u] = i]
    BY <1>5 DEF Acquire
  <2>2. i \in IterType
    BY <1>1, SetIter, Numbers
  <2>3. IterLevel(i)
    BY <1>1 DEF IterType, IterLevel
  <2> HIDE DEF i
  <2> QED BY <1>1, <1>2, <2>1, <2>2, <2>3, Moves
<1> QED BY <1>3, <1>4, <1>5

LEMMA AcquireFailsStep ==
  ASSUME IInv, NEW u \in User, AcquireFails(u) PROVE IInv'
<1>1. it[u] \in IterType /\ it[u].at = "acquire"
  BY IterOf DEF IInv, AcquireFails
<1>2. UNCHANGED <<link, high, objs, dead, cache, pf>>
  BY DEF AcquireFails, walk
<1>3. CASE it[u].lv = 3
  <2>1. it' = [it EXCEPT ![u] = NoIter]
    BY <1>3 DEF AcquireFails
  <2> QED BY <1>1, <1>2, <2>1, NoIterIs, Moves
<1>4. CASE it[u].lv # 3
  <2>1. PICK b \in BOOLEAN :
          it' = [it EXCEPT ![u] = [it[u] EXCEPT !.at = "release", !.lv = 3, !.last = b,
                                                !.end = it[u].p]]
    <3>1. it[u].last \in BOOLEAN /\ LastChoices \subseteq BOOLEAN
      BY <1>1, TrieAssumption DEF IterType
    <3> QED BY <1>4, <3>1 DEF AcquireFails
  <2> DEFINE i == [it[u] EXCEPT !.at = "release", !.lv = 3, !.last = b, !.end = it[u].p]
  <2>2. it[u].p \in Nat
    BY <1>1 DEF IterType
  <2>3. i \in IterType
    BY <1>1, <2>2, SetIter, Numbers
  <2>4. IterLevel(i)
    BY <1>1 DEF IterType, IterLevel, Level
  <2>5. it' = [it EXCEPT ![u] = i]
    BY <2>1
  <2> HIDE DEF i
  <2> QED BY <1>1, <1>2, <2>3, <2>4, <2>5, Moves
<1> QED BY <1>3, <1>4

LEMMA LockStep ==
  ASSUME IInv, NEW u \in User, Lock(u) PROVE IInv'
<1>1. it[u] \in IterType /\ it[u].at = "lock"
  BY IterOf DEF IInv, Lock
<1>2. UNCHANGED <<link, high, objs, dead, cache, pf>>
  BY DEF Lock, walk
<1>3. CASE it[u].by = 1 /\ it[u].last
  <2> DEFINE i == [it[u] EXCEPT !.at = "release", !.sub = TRUE, !.lv = 2]
  <2>1. it' = [it EXCEPT ![u] = i]
    BY <1>3 DEF Lock
  <2>2. i \in IterType
    BY <1>1, SetIter, Numbers
  <2>3. IterLevel(i)
    BY <1>1 DEF IterType, IterLevel, Level
  <2> HIDE DEF i
  <2> QED BY <1>1, <1>2, <2>1, <2>2, <2>3, Moves
<1>4. CASE ~(it[u].by = 1 /\ it[u].last)
  <2> DEFINE i == [it[u] EXCEPT !.at = "body"]
  <2>1. it' = [it EXCEPT ![u] = i]
    BY <1>4 DEF Lock
  <2>2. i \in IterType /\ IterLevel(i)
    BY <1>1 DEF IterType, IterLevel
  <2> HIDE DEF i
  <2> QED BY <1>1, <1>2, <2>1, <2>2, Moves
<1> QED BY <1>3, <1>4

LEMMA LockFailsStep ==
  ASSUME IInv, NEW u \in User, LockFails(u) PROVE IInv'
<1> DEFINE i == [it[u] EXCEPT !.at = "release", !.lv = 2, !.end = it[u].p]
<1>1. it[u] \in IterType /\ it[u].at = "lock"
  BY IterOf DEF IInv, LockFails
<1>2. UNCHANGED <<link, high, objs, dead, cache, pf>>
  BY DEF LockFails, walk
<1>3. it[u].p \in Nat
  BY <1>1 DEF IterType
<1>4. i \in IterType
  BY <1>1, <1>3, SetIter, Numbers
<1>5. IterLevel(i)
  BY <1>1 DEF IterType, IterLevel, Level
<1>6. it' = [it EXCEPT ![u] = i]
  BY DEF LockFails
<1> HIDE DEF i
<1> QED BY <1>1, <1>2, <1>4, <1>5, <1>6, Moves

LEMMA BodyStep ==
  ASSUME IInv, NEW u \in User, Body(u) PROVE IInv'
<1>1. it[u] \in IterType /\ it[u].at = "body"
  BY IterOf DEF IInv, Body
<1>2. UNCHANGED <<link, high, objs, dead, cache, pf>>
  BY DEF Body, walk
<1>3. it[u].p + 1 \in Nat /\ (it[u].op = "free") \in BOOLEAN
  BY <1>1 DEF IterType
<1>4. CASE it[u].p < it[u].end /\ Step(it[u].p) = 1
  <2> DEFINE i == [it[u] EXCEPT !.at = "lock", !.by = 1, !.last = it[u].op = "free", !.p = @ + 1]
  <2>1. it' = [it EXCEPT ![u] = i]
    BY <1>4 DEF Body
  <2>2. i \in IterType
    BY <1>1, <1>3, SetIter, Numbers
  <2>3. IterLevel(i)
    BY <1>1 DEF IterType, IterLevel
  <2> HIDE DEF i
  <2> QED BY <1>1, <1>2, <2>1, <2>2, <2>3, Moves
<1>5. CASE ~(it[u].p < it[u].end /\ Step(it[u].p) = 1)
  <2> DEFINE i == [it[u] EXCEPT !.at = "release", !.lv = 2, !.last = it[u].op = "free"]
  <2>1. it' = [it EXCEPT ![u] = i]
    BY <1>5 DEF Body
  <2>2. i \in IterType
    BY <1>1, <1>3, SetIter, Numbers
  <2>3. IterLevel(i)
    BY <1>1 DEF IterType, IterLevel, Level
  <2> HIDE DEF i
  <2> QED BY <1>1, <1>2, <2>1, <2>2, <2>3, Moves
<1> QED BY <1>4, <1>5

LEMMA ReleaseStep ==
  ASSUME IInv, NEW u \in User, Release(u) PROVE IInv'
<1>1. it[u] \in IterType /\ it[u].at = "release" /\ it[u].lv \in Level
  BY IterOf DEF IInv, Release, IterLevel
<1>2. UNCHANGED <<link, high, objs, dead, cache, pf>>
  BY DEF Release, walk
<1>3. ASSUME it' = [it EXCEPT ![u] = [it[u] EXCEPT !.at = "unlink"]] PROVE IInv'
  <2> DEFINE i == [it[u] EXCEPT !.at = "unlink"]
  <2>1. i \in IterType /\ IterLevel(i)
    BY <1>1 DEF IterType, IterLevel
  <2>2. it' = [it EXCEPT ![u] = i]
    BY <1>3
  <2> HIDE DEF i
  <2> QED BY <1>1, <1>2, <2>1, <2>2, Moves
<1>4. ASSUME it' = [it EXCEPT ![u] = After(it[u], FALSE)] PROVE IInv'
  BY <1>1, <1>2, <1>4, AfterType, Moves
<1> QED BY <1>3, <1>4 DEF Release

LEMMA ReclaimStep ==
  ASSUME IInv, NEW u \in User, Reclaim(u) PROVE IInv'
<1>1. it[u] \in IterType /\ it[u].at = "reclaim" /\ it[u].lv \in Level
  BY IterOf DEF IInv, Reclaim, IterLevel
<1>2. UNCHANGED <<link, high, objs, dead, cache, pf>>
  BY DEF Reclaim, walk
<1>3. it' = [it EXCEPT ![u] = After(it[u], TRUE)]
  BY DEF Reclaim
<1> QED BY <1>1, <1>2, <1>3, AfterType, Moves

(* The thread that unlinks a table is the one that will look at the cache. *)
LEMMA UnlinkStep ==
  ASSUME IInv, NEW u \in User, Unlink(u) PROVE IInv'
<1> DEFINE i == [it[u] EXCEPT !.at = "invalidate"]
           y == Up(it[u].lv, it[u].p)
<1>1. it[u] \in IterType /\ it[u].at = "unlink" /\ it[u].lv \in Level /\ it[u].p \in Nat
  BY IterOf DEF IInv, Unlink, IterLevel, IterType
<1>2. it' = [it EXCEPT ![u] = i] /\ link' = [link EXCEPT ![y] = FALSE]
      /\ UNCHANGED <<high, objs, dead, cache, pf>>
  BY DEF Unlink, walk
<1>3. i \in IterType /\ IterLevel(i) /\ i.at = "invalidate" /\ i.lv = it[u].lv /\ i.p = it[u].p
  BY <1>1 DEF IterType, IterLevel
<1>4. y[1] = it[u].lv
  BY <1>1, UpIs
<1> HIDE DEF i
<1>5. Iters'
  BY <1>2, <1>3 DEF IInv, Iters
<1>6. Walks' /\ Objects' /\ Tables'
  BY <1>2 DEF IInv, Walks, Objects, Tables
<1>7. ASSUME NEW lv \in Level, NEW x \in Node, cache'[lv] = x, ~link'[x]
      PROVE  \/ \E v \in User : it'[v].at = "invalidate" /\ it'[v].lv = lv /\ Up(lv, it'[v].p) = x
             \/ \E h \in Handler : pf'[h].at = "verify" /\ pf'[h].lv = lv /\ Up(lv, pf'[h].p) = x
  <2>1. it'[u] = i
    BY <1>2 DEF IInv, Iters
  <2>2. CASE x = y
    <3>1. x[1] = lv
      BY <1>2, <1>7, NoneIsNoTable DEF IInv, Tables
    <3> QED BY <1>3, <1>4, <2>1, <2>2, <3>1
  <2>3. CASE x # y
    <3>1. ~link[x] /\ cache[lv] = x
      BY <1>2, <1>7, <2>3 DEF IInv, Tables
    <3>2. ASSUME NEW v \in User, it[v].at = "invalidate" PROVE it'[v] = it[v]
      BY <1>1, <1>2, <3>2 DEF IInv, Iters
    <3> QED BY <1>2, <3>1, <3>2 DEF IInv, CacheIsFresh
  <2> QED BY <2>2, <2>3
<1> HIDE DEF y
<1>8. CacheIsFresh'
  BY <1>7 DEF CacheIsFresh
<1> QED BY <1>5, <1>6, <1>8 DEF IInv

LEMMA InvalidateStep ==
  ASSUME IInv, NEW u \in User, Invalidate(u) PROVE IInv'
<1> DEFINE i == [it[u] EXCEPT !.at = "reclaim"]
           l == it[u].lv
           y == Up(l, it[u].p)
<1>1. it[u] \in IterType /\ it[u].at = "invalidate" /\ l \in Level
  BY IterOf DEF IInv, Invalidate, IterLevel
<1>2. it' = [it EXCEPT ![u] = i] /\ UNCHANGED <<link, high, objs, dead, pf>>
      /\ cache' = [cache EXCEPT ![l] = IF @ = y THEN None ELSE @]
  BY DEF Invalidate
<1>3. i \in IterType /\ IterLevel(i)
  BY <1>1 DEF IterType, IterLevel
<1> HIDE DEF i
<1>4. Iters'
  BY <1>2, <1>3 DEF IInv, Iters
<1>5. Walks' /\ Objects' /\ Tables'
  BY <1>1, <1>2 DEF IInv, Walks, Objects, Tables
<1>6. ASSUME NEW lv \in Level, NEW x \in Node, cache'[lv] = x, ~link'[x]
      PROVE  \/ \E v \in User : it'[v].at = "invalidate" /\ it'[v].lv = lv /\ Up(lv, it'[v].p) = x
             \/ \E h \in Handler : pf'[h].at = "verify" /\ pf'[h].lv = lv /\ Up(lv, pf'[h].p) = x
  <2>1. cache[lv] = x /\ ~(lv = l /\ x = y) /\ ~link[x]
    BY <1>1, <1>2, <1>6, NoneIsNoTable DEF IInv, Tables
  <2>2. ASSUME NEW v \in User, v # u PROVE it'[v] = it[v]
    BY <1>2, <2>2 DEF IInv, Iters
  <2> QED BY <1>2, <2>1, <2>2 DEF IInv, CacheIsFresh
<1> HIDE DEF l, y
<1>7. CacheIsFresh'
  BY <1>6 DEF CacheIsFresh
<1> QED BY <1>4, <1>5, <1>7 DEF IInv

LEMMA UserStepInv ==
  ASSUME IInv, NEW u \in User, UserStep(u) PROVE IInv'
BY AllocStep, FreeStep, ProbeStep, TouchStep, TouchLeafStep, WriteStep, AcquireStep,
   AcquireFailsStep, LockStep, LockFailsStep, BodyStep, ReleaseStep, UnlinkStep,
   InvalidateStep, ReclaimStep DEF UserStep

-----------------------------------------------------------------------------
(* The steps of a handler.                                                 *)
LEMMA WalkOf ==
  ASSUME Walks, NEW h \in Handler
  PROVE  pf[h] \in WalkType /\ WalkLevel(pf[h])
BY DEF Walks

LEMMA SetWalk ==
  ASSUME NEW w \in WalkType
  PROVE  /\ \A a \in {"idle", "cache", "map", "check", "load", "store", "verify", "try", "hold"} :
              [w EXCEPT !.at = a] \in WalkType
         /\ \A n \in 0 .. 3 : [w EXCEPT !.lv = n] \in WalkType
         /\ \A n \in Nat : [w EXCEPT !.p = n] \in WalkType
         /\ \A b \in BOOLEAN : [w EXCEPT !.first = b] \in WalkType /\ [w EXCEPT !.cached = b] \in WalkType
<1>1. ASSUME NEW a \in {"idle", "cache", "map", "check", "load", "store", "verify", "try", "hold"}
      PROVE  [w EXCEPT !.at = a] \in WalkType
  BY <1>1 DEF WalkType
<1>2. ASSUME NEW n \in 0 .. 3 PROVE [w EXCEPT !.lv = n] \in WalkType
  BY <1>2 DEF WalkType
<1>3. ASSUME NEW n \in Nat PROVE [w EXCEPT !.p = n] \in WalkType
  BY <1>3 DEF WalkType
<1>4. ASSUME NEW b \in BOOLEAN PROVE [w EXCEPT !.first = b] \in WalkType
  BY <1>4 DEF WalkType
<1>5. ASSUME NEW b \in BOOLEAN PROVE [w EXCEPT !.cached = b] \in WalkType
  BY <1>5 DEF WalkType
<1> QED BY <1>1, <1>2, <1>3, <1>4, <1>5

LEMMA NoWalkIs == NoWalk \in WalkType /\ WalkLevel(NoWalk)
BY DEF NoWalk, WalkType, WalkLevel

LEMMA GotoIs ==
  ASSUME NEW w \in WalkType, NEW n \in 0 .. 3,
         NEW a \in {"idle", "cache", "map", "check", "load", "store", "verify", "try", "hold"},
         a \in {"cache", "map", "check", "load", "store", "verify"} => n \in Level
  PROVE  Goto(w, a, n) \in WalkType /\ WalkLevel(Goto(w, a, n))
<1>1. Goto(w, a, n) \in WalkType
  BY SetWalk DEF Goto
<1>2. Goto(w, a, n).at = a /\ Goto(w, a, n).lv = n
  BY DEF Goto, WalkType
<1> QED BY <1>1, <1>2 DEF WalkLevel

LEMMA BelowIs ==
  ASSUME NEW w \in WalkType
  PROVE  Below(w) \in WalkType /\ WalkLevel(Below(w))
<1>1. [w EXCEPT !.cached = FALSE] \in WalkType
  BY SetWalk
<1> QED BY <1>1, GotoIs, Numbers DEF Below, Level

(* A field that is not the place or the level does not matter.             *)
LEMMA SameLevel ==
  ASSUME NEW w \in WalkType, WalkLevel(w), NEW b \in BOOLEAN
  PROVE  /\ [w EXCEPT !.cached = b] \in WalkType
         /\ WalkLevel([w EXCEPT !.cached = b])
<1>1. [w EXCEPT !.cached = b] \in WalkType
  BY SetWalk
<1>2. WalkLevel([w EXCEPT !.cached = b])
  BY DEF WalkLevel, WalkType
<1> QED BY <1>1, <1>2

LEMMA FaultStep ==
  ASSUME IInv, NEW h \in Handler, NEW p \in Nat, Fault(h, p) PROVE IInv'
<1> DEFINE w == [NoWalk EXCEPT !.at = "cache", !.lv = 3, !.p = p]
<1>1. w \in WalkType
  BY NoWalkIs, SetWalk, Numbers
<1>2. WalkLevel(w)
  BY DEF WalkLevel, NoWalk, Level
<1>3. pf' = [pf EXCEPT ![h] = w] /\ pf[h].at # "verify"
      /\ UNCHANGED <<link, cache, it, high, objs, dead>>
  BY DEF Fault, user
<1> HIDE DEF w
<1> QED BY <1>1, <1>2, <1>3, QuietHandler

LEMMA ReadCacheStep ==
  ASSUME IInv, NEW h \in Handler, ReadCache(h) PROVE IInv'
<1>1. pf[h] \in WalkType /\ pf[h].at = "cache"
  BY WalkOf DEF IInv, ReadCache
<1>2. UNCHANGED <<link, cache, it, high, objs, dead>>
  BY DEF ReadCache, user
<1>3. ASSUME NEW a \in {"load", "cache"}, NEW n \in Level, pf' = [pf EXCEPT ![h] = Goto(pf[h], a, n)]
      PROVE  IInv'
  <2>1. n \in 0 .. 3
    BY DEF Level
  <2> QED BY <1>1, <1>2, <1>3, <2>1, GotoIs, QuietHandler
<1>4. ASSUME NEW n \in Level, pf' = [pf EXCEPT ![h] = [Goto(pf[h], "map", n) EXCEPT !.cached = TRUE]]
      PROVE  IInv'
  <2>1. n \in 0 .. 3
    BY DEF Level
  <2>2. Goto(pf[h], "map", n) \in WalkType /\ WalkLevel(Goto(pf[h], "map", n))
    BY <1>1, <2>1, GotoIs
  <2> QED BY <1>1, <1>2, <1>4, <2>2, SameLevel, QuietHandler
<1> QED BY <1>3, <1>4 DEF ReadCache, Level

LEMMA CheckStep ==
  ASSUME IInv, NEW h \in Handler, Check(h) PROVE IInv'
<1>1. pf[h] \in WalkType /\ pf[h].at = "check" /\ WalkLevel(pf[h])
  BY WalkOf DEF IInv, Check
<1>2. UNCHANGED <<link, cache, it, high, objs, dead>>
  BY DEF Check, user
<1>3. 3 \in Level /\ [pf[h] EXCEPT !.cached = FALSE] \in WalkType
  BY <1>1, SetWalk DEF Level
<1>4. ASSUME NEW w \in WalkType, WalkLevel(w), pf' = [pf EXCEPT ![h] = w] PROVE IInv'
  BY <1>1, <1>2, <1>4, QuietHandler
<1>5. CASE pf' = [pf EXCEPT ![h] = Below(pf[h])]
  BY <1>1, <1>4, <1>5, BelowIs
<1>6. CASE pf' = [pf EXCEPT ![h] = Goto(pf[h], "map", 3)]
  BY <1>1, <1>3, <1>4, <1>6, GotoIs, Numbers
<1>7. CASE pf' = [pf EXCEPT ![h] = Goto([pf[h] EXCEPT !.cached = FALSE], "load", 3)]
  BY <1>3, <1>4, <1>7, GotoIs, Numbers
<1> QED BY <1>5, <1>6, <1>7 DEF Check

LEMMA LoadStep ==
  ASSUME IInv, NEW h \in Handler, Load(h) PROVE IInv'
<1>1. pf[h] \in WalkType /\ pf[h].at = "load" /\ pf[h].lv \in Level
  BY WalkOf DEF IInv, Load, WalkLevel
<1>2. UNCHANGED <<link, cache, it, high, objs, dead>>
  BY DEF Load, user
<1>3. ASSUME NEW w \in WalkType, WalkLevel(w), pf' = [pf EXCEPT ![h] = w] PROVE IInv'
  BY <1>1, <1>2, <1>3, QuietHandler
<1>4. CASE pf' = [pf EXCEPT ![h] = Goto(pf[h], "map", pf[h].lv)]
  <2>1. pf[h].lv \in 0 .. 3
    BY <1>1 DEF Level
  <2> QED BY <1>1, <1>3, <1>4, <2>1, GotoIs
<1>5. CASE pf' = [pf EXCEPT ![h] = NoWalk]
  BY <1>3, <1>5, NoWalkIs
<1> QED BY <1>4, <1>5 DEF Load

LEMMA TryLockStep ==
  ASSUME IInv, NEW h \in Handler, TryLock(h) PROVE IInv'
<1> DEFINE w == [pf[h] EXCEPT !.at = "hold"]
<1>1. pf[h] \in WalkType /\ pf[h].at = "try"
  BY WalkOf DEF IInv, TryLock
<1>2. UNCHANGED <<link, cache, it, high, objs, dead>>
  BY DEF TryLock, user
<1>3. pf' = [pf EXCEPT ![h] = w] \/ pf' = [pf EXCEPT ![h] = NoWalk]
  BY DEF TryLock
<1>4. w \in WalkType /\ WalkLevel(w)
  BY <1>1 DEF WalkType, WalkLevel
<1> HIDE DEF w
<1> QED BY <1>1, <1>2, <1>3, <1>4, NoWalkIs, QuietHandler

LEMMA FinishStep ==
  ASSUME IInv, NEW h \in Handler, Finish(h) PROVE IInv'
<1>1. pf[h].at # "verify" /\ pf' = [pf EXCEPT ![h] = NoWalk]
      /\ UNCHANGED <<link, cache, it, high, objs, dead>>
  BY DEF Finish, user
<1> QED BY <1>1, NoWalkIs, QuietHandler

LEMMA NextTableStep ==
  ASSUME IInv, NEW h \in Handler, NextTable(h) PROVE IInv'
<1> DEFINE n == [pf[h] EXCEPT !.p = @ + 1, !.first = FALSE]
<1>1. pf[h] \in WalkType /\ pf[h].at = "hold" /\ pf[h].p \in Nat
  BY WalkOf DEF IInv, NextTable, WalkType
<1>2. UNCHANGED <<link, cache, it, high, objs, dead>>
  BY DEF NextTable, user
<1>3. n \in WalkType
  <2>1. pf[h].p + 1 \in Nat
    BY <1>1
  <2> QED BY <1>1, <2>1, SetWalk
<1>4. Step(pf[h].p) = 1 \/ Step(pf[h].p) = 2 \/ Step(pf[h].p) = 3
  BY <1>1, StepIs
<1>5. ASSUME NEW w \in WalkType, WalkLevel(w), pf' = [pf EXCEPT ![h] = w] PROVE IInv'
  BY <1>1, <1>2, <1>5, QuietHandler
<1>6. \/ pf' = [pf EXCEPT ![h] = Goto(n, "try", 1)]
      \/ pf' = [pf EXCEPT ![h] = Goto(n, "cache", 3)]
      \/ pf' = [pf EXCEPT ![h] = Goto(n, "load", 2)]
      \/ pf' = [pf EXCEPT ![h] = Goto(n, "load", 3)]
  <2>1. pf' = [pf EXCEPT ![h] =
          CASE Step(pf[h].p) = 1 -> Goto(n, "try", 1)
            [] Step(pf[h].p) = 2 -> IF pf[h].k[3] = None THEN Goto(n, "cache", 3) ELSE Goto(n, "load", 2)
            [] Step(pf[h].p) = 3 -> Goto(n, "load", 3)]
    BY DEF NextTable
  <2> HIDE DEF n
  <2>2. CASE Step(pf[h].p) = 1
    BY <2>1, <2>2
  <2>3. CASE Step(pf[h].p) = 2
    <3>1. CASE pf[h].k[3] = None
      BY <2>1, <2>3, <3>1
    <3>2. CASE pf[h].k[3] # None
      BY <2>1, <2>3, <3>2
    <3> QED BY <3>1, <3>2
  <2>4. CASE Step(pf[h].p) = 3
    BY <2>1, <2>4
  <2> QED BY <1>4, <2>2, <2>3, <2>4
<1>7. 2 \in Level /\ 3 \in Level
  BY DEF Level
<1> HIDE DEF n
<1> QED BY <1>3, <1>5, <1>6, <1>7, GotoIs, Numbers

LEMMA MapStep ==
  ASSUME IInv, NEW h \in Handler, Map(h) PROVE IInv'
<1> DEFINE x == Up(pf[h].lv, pf[h].p)
           Page == Node \cup {None, Foreign} \cup (Level \X Nat)
           mapped(k) == [pf[h] EXCEPT !.k[pf[h].lv] = k]
<1>1. /\ pf[h] \in WalkType /\ pf[h].at = "map" /\ pf[h].lv \in Level /\ pf[h].p \in Nat
  BY WalkOf DEF IInv, Map, WalkLevel, WalkType
<1>2. UNCHANGED <<link, cache, it, high, objs, dead>>
  BY DEF Map, user
<1>3. PICK k \in Translations(x) :
        pf' = [pf EXCEPT ![h] =
          IF k = None THEN NoWalk
          ELSE [pf[h] EXCEPT !.k[pf[h].lv] = k, !.at = IF pf[h].cached THEN "check" ELSE "store"]]
  BY DEF Map
<1>4. k \in Page
  BY <1>1, UpIs DEF Translations
<1>5. mapped(k) \in WalkType /\ mapped(k).lv = pf[h].lv
  BY <1>1, <1>4 DEF WalkType
<1>6. ASSUME NEW w \in WalkType, WalkLevel(w), pf' = [pf EXCEPT ![h] = w] PROVE IInv'
  BY <1>1, <1>2, <1>6, QuietHandler
<1>7. CASE k = None
  BY <1>3, <1>6, <1>7, NoWalkIs
<1>8. CASE k # None
  <2> DEFINE a == IF pf[h].cached THEN "check" ELSE "store"
             w == [mapped(k) EXCEPT !.at = a]
  <2>1. w \in WalkType /\ WalkLevel(w)
    BY <1>1, <1>5 DEF WalkType, WalkLevel
  <2>2. pf' = [pf EXCEPT ![h] = w]
    BY <1>3, <1>8
  <2> HIDE DEF w
  <2> QED BY <2>1, <2>2, <1>6
<1> QED BY <1>7, <1>8

(* The handler that stores a table in the cache looks at its entry again.  *)
LEMMA StoreStep ==
  ASSUME IInv, NEW h \in Handler, Store(h) PROVE IInv'
<1> DEFINE w == [pf[h] EXCEPT !.at = "verify"]
           l == pf[h].lv
           y == Up(l, pf[h].p)
<1>1. pf[h] \in WalkType /\ pf[h].at = "store" /\ l \in Level /\ pf[h].p \in Nat
  BY WalkOf DEF IInv, Store, WalkLevel, WalkType
<1>2. pf' = [pf EXCEPT ![h] = w] /\ cache' = [cache EXCEPT ![l] = y]
      /\ UNCHANGED <<link, it, high, objs, dead>>
  BY DEF Store, user
<1>3. w \in WalkType /\ WalkLevel(w) /\ w.at = "verify" /\ w.lv = l /\ w.p = pf[h].p
  BY <1>1 DEF WalkType, WalkLevel
<1>4. y \in Level \X Nat /\ y[1] = l
  BY <1>1, UpIs
<1> HIDE DEF w
<1>5. Walks'
  BY <1>2, <1>3 DEF IInv, Walks
<1>6. Iters' /\ Objects'
  BY <1>2 DEF IInv, Iters, Objects
<1>7. Tables'
  BY <1>1, <1>2, <1>4 DEF IInv, Tables
<1>8. ASSUME NEW lv \in Level, NEW x \in Node, cache'[lv] = x, ~link'[x]
      PROVE  \/ \E v \in User : it'[v].at = "invalidate" /\ it'[v].lv = lv /\ Up(lv, it'[v].p) = x
             \/ \E g \in Handler : pf'[g].at = "verify" /\ pf'[g].lv = lv /\ Up(lv, pf'[g].p) = x
  <2>1. pf'[h] = w
    BY <1>2 DEF IInv, Walks
  <2>2. CASE lv = l
    <3>1. x = y
      BY <1>2, <1>8, <2>2 DEF IInv, Tables
    <3> QED BY <1>3, <2>1, <2>2, <3>1
  <2>3. CASE lv # l
    <3>1. cache[lv] = x /\ ~link[x]
      BY <1>2, <1>8, <2>3 DEF IInv, Tables
    <3>2. ASSUME NEW g \in Handler, pf[g].at = "verify" PROVE pf'[g] = pf[g]
      BY <1>1, <1>2, <3>2 DEF IInv, Walks
    <3> QED BY <1>2, <3>1, <3>2 DEF IInv, CacheIsFresh
  <2> QED BY <2>2, <2>3
<1> HIDE DEF l, y
<1>9. CacheIsFresh'
  BY <1>8 DEF CacheIsFresh
<1> QED BY <1>5, <1>6, <1>7, <1>9 DEF IInv

LEMMA VerifyStep ==
  ASSUME IInv, NEW h \in Handler, Verify(h) PROVE IInv'
<1> DEFINE l == pf[h].lv
           y == Up(l, pf[h].p)
<1>1. pf[h] \in WalkType /\ pf[h].at = "verify" /\ l \in Level
  BY WalkOf DEF IInv, Verify, WalkLevel
<1>2. UNCHANGED <<link, it, high, objs, dead>>
  BY DEF Verify, user
<1>3. PICK w \in WalkType : WalkLevel(w) /\ pf' = [pf EXCEPT ![h] = w]
  BY <1>1, BelowIs, NoWalkIs DEF Verify
<1>4. IF link[y] THEN cache' = cache ELSE cache' = [cache EXCEPT ![l] = None]
  BY DEF Verify, Forget
<1>5. Walks'
  BY <1>3 DEF IInv, Walks
<1>6. Iters' /\ Objects'
  BY <1>2 DEF IInv, Iters, Objects
<1>7. Tables'
  BY <1>1, <1>2, <1>4 DEF IInv, Tables
<1>8. ASSUME NEW lv \in Level, NEW x \in Node, cache'[lv] = x, ~link'[x]
      PROVE  \/ \E v \in User : it'[v].at = "invalidate" /\ it'[v].lv = lv /\ Up(lv, it'[v].p) = x
             \/ \E g \in Handler : pf'[g].at = "verify" /\ pf'[g].lv = lv /\ Up(lv, pf'[g].p) = x
  <2>1. cache[lv] = x /\ ~link[x] /\ ~(lv = l /\ x = y)
    BY <1>1, <1>2, <1>4, <1>8, NoneIsNoTable DEF IInv, Tables
  <2>2. ASSUME NEW g \in Handler, g # h PROVE pf'[g] = pf[g]
    BY <1>3, <2>2 DEF IInv, Walks
  <2> QED BY <1>2, <2>1, <2>2 DEF IInv, CacheIsFresh
<1> HIDE DEF l, y
<1>9. CacheIsFresh'
  BY <1>8 DEF CacheIsFresh
<1> QED BY <1>5, <1>6, <1>7, <1>9 DEF IInv

LEMMA HandlerStepInv ==
  ASSUME IInv, NEW h \in Handler, HandlerStep(h) PROVE IInv'
<1>1. ASSUME NEW o \in Pointers, NEW p \in o.start .. o.end, Fault(h, p) PROVE IInv'
  <2>1. o.start \in Nat /\ o.end \in Nat
    BY DEF IInv, Objects, Pointers
  <2>2. p \in Nat
    BY <2>1
  <2> QED BY <1>1, <2>2, FaultStep
<1> QED BY <1>1, ReadCacheStep, MapStep, CheckStep, LoadStep, StoreStep, VerifyStep,
           TryLockStep, FinishStep, NextTableStep DEF HandlerStep
-----------------------------------------------------------------------------
LEMMA Stutter ==
  ASSUME IInv, UNCHANGED <<link, cache, it, pf, high, objs, dead>> PROVE IInv'
BY DEF IInv, Iters, Walks, Objects, Tables, CacheIsFresh

LEMMA InitIInv == ASSUME Init PROVE IInv
<1>1. Iters /\ Walks
  BY NoIterIs, NoWalkIs DEF Init, Iters, Walks
<1>2. Objects /\ Tables
  BY DEF Init, Objects, Tables
<1>3. CacheIsFresh
  BY NoneIsNoTable DEF Init, CacheIsFresh
<1> QED BY <1>1, <1>2, <1>3 DEF IInv

LEMMA NextIInv == ASSUME IInv, [Next]_vars PROVE IInv'
<1>1. CASE UNCHANGED vars
  BY <1>1, Stutter DEF vars
<1>2. CASE \E u \in User : UserStep(u)
  BY <1>2, UserStepInv
<1>3. CASE \E h \in Handler : HandlerStep(h)
  BY <1>3, HandlerStepInv
<1>4. CASE \E x \in Node : Unmap(x)
  BY <1>4, Stutter DEF Unmap, walk
<1>5. CASE Quiescent
  BY <1>5, Stutter DEF Quiescent, vars
<1> QED BY <1>1, <1>2, <1>3, <1>4, <1>5 DEF Next

(* Every reachable state satisfies the inductive invariant.                *)
THEOREM Invariant == Spec => []IInv
<1>1. Init => IInv
  BY InitIInv
<1>2. IInv /\ [Next]_vars => IInv'
  BY NextIInv
<1> QED BY <1>1, <1>2, PTL DEF Spec

(* trie.c:346, "unlink -> inv cache -> reclaim", together with the second  *)
(* look of page_fault.bpf.c: whatever the number of threads and handlers,  *)
(* an unlinked table is in the node cache only while the thread that       *)
(* unlinked it or a handler that stored it is about to look at the cache.  *)
THEOREM CacheIsFreshHolds == Spec => []CacheIsFresh
<1>1. IInv => CacheIsFresh
  BY DEF IInv
<1> QED BY <1>1, Invariant, PTL
-----------------------------------------------------------------------------
(* The counts.  Three layers: the L1 tables and who claims or locks them   *)
(* (Pages), what an iterator remembers (Flags), and the upper tables, which*)
(* rest on the other two (Counted, Life).                                  *)
LeafState == {"null", "free", "locked", "destroyed"}

Leaves(i) == i.at \in {"unlink", "invalidate", "reclaim"}
Rel(i) == i.at = "release" \/ Leaves(i)
Walking(i) == i.op \in {"free", "probe"}

(* The iterator holds the lock of its L1 table.                            *)
Holding(i) == i.at \in {"write", "body"} \/ (Rel(i) /\ i.sub /\ i.lv = 2)

(* The tables of its object that an iterator has not come to.              *)
Todo(i) ==
  IF i.op = "alloc" THEN i.p .. i.end
  ELSE IF i.op # "free" THEN {}
  ELSE IF Rel(i) /\ ~i.sub THEN i.p + 1 .. i.end ELSE i.p .. i.end

(* The tables that belong to what a thread allocates or has yet to free.   *)
Claim(i) == IF i.op = "alloc" THEN i.start .. i.end ELSE Todo(i)

Extent(o) == o.start .. o.end
Taken == {q \in L1 : leaf[q] \in {"free", "locked"}}

Ranges ==
  /\ high \in 0 .. NL1
  /\ \A q \in L1 : q >= high => leaf[q] = "null"
  /\ \A o \in objs \cup dead : o.start <= o.end /\ o.end < high
  /\ \A u \in User : it[u].op # "idle" => it[u].p <= it[u].end /\ it[u].end < high
  /\ \A h \in Handler : pf[h].p \in L1

Claims ==
  /\ \A o \in objs : Extent(o) \subseteq Taken
  /\ \A o, n \in objs : o # n => Extent(o) \cap Extent(n) = {}
  /\ \A o \in objs, u \in User : Extent(o) \cap Claim(it[u]) = {}
  /\ \A u, v \in User : u # v => Claim(it[u]) \cap Claim(it[v]) = {}
  /\ \A u \in User : it[u].op = "free" => Todo(it[u]) \subseteq Taken
  /\ \A u \in User : it[u].op = "alloc" =>
       /\ it[u].start <= it[u].p
       /\ it[u].start .. it[u].p - 1 \subseteq Taken
       /\ \A q \in it[u].p .. it[u].end : leaf[q] = IF q = it[u].p /\ it[u].at = "write" THEN "locked" ELSE "null"

Locks ==
  /\ \A u \in User : Holding(it[u]) => leaf[it[u].p] = "locked"
  /\ \A h \in Handler : pf[h].at = "hold" => leaf[pf[h].p] = "locked"
  /\ \A u, v \in User : u # v /\ Holding(it[u]) /\ Holding(it[v]) => it[u].p # it[v].p
  /\ \A h, g \in Handler : h # g /\ pf[h].at = "hold" /\ pf[g].at = "hold" => pf[h].p # pf[g].p
  /\ \A u \in User, h \in Handler : Holding(it[u]) /\ pf[h].at = "hold" => it[u].p # pf[h].p

Pages == leaf \in [L1 -> LeafState] /\ Ranges /\ Claims /\ Locks

(* What op, at and lv have to do with each other, and what by, last and    *)
(* sub remember.                                                           *)
Remembers(i) ==
  /\ i.op = "idle" <=> i.at = "idle"
  /\ i.op = "alloc" <=> i.at \in {"touch", "write"}
  /\ i.at \in {"write", "lock", "body"} => i.lv = 1
  /\ i.at = "touch" => i.lv \in 1 .. 3
  /\ i.sub => Rel(i) /\ i.last
  /\ i.op = "probe" => i.by = 0 /\ i.p = i.end
  /\ i.at = "acquire" => i.by # 1 /\ (i.lv = 3 => i.by # 2)
  /\ i.at = "acquire" /\ i.by = 0 => ~ i.last
  /\ i.at = "lock" /\ i.by \in {0, 2} => ~ i.last

Flags == \A u \in User : Remembers(it[u])

(* Inside, Owing and Writing of a single iterator.                         *)
In(i, x) ==
  /\ Walking(i) /\ Up(x[1], i.p) = x
  /\ \/ i.at \in {"lock", "body"}
     \/ i.at = "acquire" /\ x[1] = 3 /\ i.lv = 2
     \/ Rel(i) /\ (x[1] > i.lv \/ i.sub)
     \/ i.at = "release" /\ x[1] = i.lv

Owes(i, x) ==
  /\ In(i, x) /\ i.last
  /\ \/ i.at = "release" /\ i.lv = x[1]
     \/ x[1] = 2 /\ i.at = "lock" /\ i.by = 1
     \/ x[1] = 3 /\ i.at = "acquire" /\ i.by = 2

Writes(i, x) == i.op = "alloc" /\ i.lv < x[1] /\ Up(x[1], i.p) = x

Weight(i, x) == IF Owes(i, x) THEN 2 ELSE IF In(i, x) THEN 1 ELSE 0

Uses(x) == Cardinality(Inside(x)) + Cardinality(Owing(x))

Kids(x) == IF x[1] = 3 THEN {n \in Node : n[1] = 2 /\ n[2] \div Fan3 = x[2]}
           ELSE {p \in L1 : Up(2, p) = x}

Lost(x) == Kids(x) \subseteq Gone(x)

LeavesTable(i, x) == Leaves(i) /\ x[1] = i.lv /\ Up(x[1], i.p) = x

Counted ==
  /\ cnt \in [Node -> Int]
  /\ \A x \in Node : link[x] => cnt[x] = Fan(x) - Cardinality(Gone(x)) + Uses(x)

Valid == \A x \in Node, u \in User : In(it[u], x) \/ Writes(it[u], x) => link[x]

(* The life of a table: it is linked by the first allocation below it, and *)
(* the one thread that brings its count to zero unlinks and reclaims it.   *)
Life ==
  /\ mem \in [Node -> {"none", "used", "reclaimed", "unmapped"}]
  /\ \A x \in Node :
       /\ link[x] => mem[x] = "used"
       /\ \A u \in User : LeavesTable(it[u], x) =>
            /\ mem[x] = "used" /\ Lost(x)
            /\ IF it[u].at = "unlink" THEN link[x] /\ cnt[x] = 0 ELSE ~link[x]
       /\ \A u, v \in User : LeavesTable(it[u], x) /\ LeavesTable(it[v], x) => u = v
       /\ mem[x] = "used" /\ (link[x] => cnt[x] = 0) => \E u \in User : LeavesTable(it[u], x)
       /\ mem[x] \in {"reclaimed", "unmapped"} => Lost(x)
       /\ mem[x] = "none" => Gone(x) = {}

TInv == Pages /\ Flags /\ Counted /\ Valid /\ Life

-----------------------------------------------------------------------------
(* What each step makes of the iterator, in terms of its fields.           *)
LEMMA Frame ==
  ASSUME NEW u \in User, Iters, NEW j, it' = [it EXCEPT ![u] = j]
  PROVE  it'[u] = j /\ \A v \in User : v # u => it'[v] = it[v]
BY DEF Iters

LEMMA AllocTo ==
  ASSUME Iters, NEW u \in User, NEW n, Alloc(u, n)
  PROVE  /\ it[u].at = "idle" /\ \A v \in User : v # u => it'[v] = it[v]
         /\ it'[u].op = "alloc" /\ it'[u].at = "touch" /\ it'[u].lv = 3 /\ it'[u].by = 0
         /\ it'[u].p = high /\ it'[u].start = high /\ it'[u].end = high + n - 1
         /\ ~ it'[u].last /\ ~ it'[u].sub
<1> DEFINE j == [NoIter EXCEPT !.op = "alloc", !.at = "touch", !.lv = 3,
                               !.p = high, !.start = high, !.end = high + n - 1]
<1>1. it' = [it EXCEPT ![u] = j] /\ it[u].at = "idle"
  BY DEF Alloc
<1>2. /\ j.op = "alloc" /\ j.at = "touch" /\ j.lv = 3 /\ j.by = 0 /\ j.p = high
      /\ j.start = high /\ j.end = high + n - 1 /\ ~ j.last /\ ~ j.sub
  BY DEF NoIter
<1> HIDE DEF j
<1> QED BY <1>1, <1>2, Frame

LEMMA TouchTo ==
  ASSUME Iters, NEW u \in User, Touch(u)
  PROVE  /\ it[u].at = "touch" /\ it[u].lv \in Level /\ \A v \in User : v # u => it'[v] = it[v]
         /\ it'[u].op = it[u].op /\ it'[u].at = "touch" /\ it'[u].lv = it[u].lv - 1
         /\ it'[u].by = it[u].by /\ it'[u].p = it[u].p /\ it'[u].start = it[u].start
         /\ it'[u].end = it[u].end /\ it'[u].last = it[u].last /\ it'[u].sub = it[u].sub
<1>1. it'[u] = [it[u] EXCEPT !.lv = it[u].lv - 1] /\ \A v \in User : v # u => it'[v] = it[v]
  BY Frame DEF Touch
<1>2. it[u] \in IterType /\ it[u].at = "touch" /\ it[u].lv \in Level
  BY IterOf DEF Touch
<1> QED BY <1>1, <1>2 DEF IterType

LEMMA TouchLeafTo ==
  ASSUME Iters, NEW u \in User, TouchLeaf(u)
  PROVE  /\ it[u].at = "touch" /\ it[u].lv = 1 /\ \A v \in User : v # u => it'[v] = it[v]
         /\ it'[u].op = it[u].op /\ it'[u].at = "write" /\ it'[u].lv = 1
         /\ it'[u].by = it[u].by /\ it'[u].p = it[u].p /\ it'[u].start = it[u].start
         /\ it'[u].end = it[u].end /\ it'[u].last = it[u].last /\ it'[u].sub = it[u].sub
<1>1. it'[u] = [it[u] EXCEPT !.at = "write"] /\ \A v \in User : v # u => it'[v] = it[v]
  BY Frame DEF TouchLeaf
<1>2. it[u] \in IterType /\ it[u].at = "touch" /\ it[u].lv = 1
  BY IterOf DEF TouchLeaf
<1> QED BY <1>1, <1>2 DEF IterType

LEMMA WriteTo ==
  ASSUME Iters, NEW u \in User, Write(u)
  PROVE  /\ it[u].at = "write" /\ \A v \in User : v # u => it'[v] = it[v]
         /\ it[u].p = it[u].end => it'[u] = NoIter
         /\ it[u].p # it[u].end =>
              /\ it'[u].op = it[u].op /\ it'[u].at = "touch" /\ it'[u].lv = Step(it[u].p)
              /\ it'[u].by = it[u].by /\ it'[u].p = it[u].p + 1 /\ it'[u].start = it[u].start
              /\ it'[u].end = it[u].end /\ it'[u].last = it[u].last /\ it'[u].sub = it[u].sub
<1>1. it[u] \in IterType /\ it[u].at = "write"
  BY IterOf DEF Write
<1>2. CASE it[u].p = it[u].end
  BY <1>1, <1>2, Frame DEF Write
<1>3. CASE it[u].p # it[u].end
  <2> DEFINE j == [it[u] EXCEPT !.p = it[u].p + 1, !.at = "touch", !.lv = Step(it[u].p)]
  <2>1. it' = [it EXCEPT ![u] = j]
    BY <1>3 DEF Write
  <2>2. /\ j.op = it[u].op /\ j.at = "touch" /\ j.lv = Step(it[u].p) /\ j.by = it[u].by
        /\ j.p = it[u].p + 1 /\ j.start = it[u].start /\ j.end = it[u].end
        /\ j.last = it[u].last /\ j.sub = it[u].sub
    BY <1>1 DEF IterType
  <2> HIDE DEF j
  <2> QED BY <1>1, <1>3, <2>1, <2>2, Frame
<1> QED BY <1>2, <1>3

LEMMA IterTo ==
  ASSUME NEW op, NEW p, NEW e
  PROVE  /\ Iter(op, p, e).op = op /\ Iter(op, p, e).at = "acquire" /\ Iter(op, p, e).lv = 3
         /\ Iter(op, p, e).p = p /\ Iter(op, p, e).end = e /\ Iter(op, p, e).by = 0
         /\ ~ Iter(op, p, e).last /\ ~ Iter(op, p, e).sub
BY DEF Iter, NoIter

LEMMA FreeTo ==
  ASSUME Iters, NEW u \in User, NEW o, Free(u, o)
  PROVE  it[u].at = "idle" /\ it'[u] = Iter("free", o.start, o.end)
         /\ \A v \in User : v # u => it'[v] = it[v]
BY Frame DEF Free

LEMMA ProbeTo ==
  ASSUME Iters, NEW u \in User, NEW o, Probe(u, o)
  PROVE  it[u].at = "idle" /\ it'[u] = Iter("probe", o.start, o.start)
         /\ \A v \in User : v # u => it'[v] = it[v]
BY Frame DEF Probe

(* The fields that only the end of an object changes.                      *)
Keeps(i, j) == j.op = i.op /\ j.p = i.p /\ j.start = i.start

LEMMA AcquireTo ==
  ASSUME Iters, NEW u \in User, Acquire(u)
  PROVE  /\ it[u].at = "acquire" /\ it[u].lv \in Level /\ \A v \in User : v # u => it'[v] = it[v]
         /\ Keeps(it[u], it'[u]) /\ it'[u].end = it[u].end
         /\ it'[u].by = it[u].by /\ it'[u].last = it[u].last
         /\ \/ it[u].lv = 3 /\ it'[u].at = "acquire" /\ it'[u].lv = 2 /\ it'[u].sub = it[u].sub
            \/ /\ it[u].lv = 2 /\ it[u].by = 2 /\ it[u].last
               /\ it'[u].at = "release" /\ it'[u].lv = 3 /\ it'[u].sub
            \/ /\ it[u].lv = 2 /\ ~ (it[u].by = 2 /\ it[u].last)
               /\ it'[u].at = "lock" /\ it'[u].lv = 1 /\ it'[u].sub = it[u].sub
<1>1. it[u] \in IterType /\ it[u].at = "acquire" /\ it[u].lv \in Level
  BY IterOf DEF Acquire, IterLevel
<1> DEFINE j == IF it[u].lv = 3 THEN [it[u] EXCEPT !.lv = 2]
                ELSE IF it[u].by = 2 /\ it[u].last
                THEN [it[u] EXCEPT !.at = "release", !.sub = TRUE, !.lv = 3]
                ELSE [it[u] EXCEPT !.at = "lock", !.lv = 1]
<1>2. it'[u] = j /\ \A v \in User : v # u => it'[v] = it[v]
  <2>1. it' = [it EXCEPT ![u] = j]
    BY DEF Acquire
  <2> HIDE DEF j
  <2> QED BY <2>1, Frame
<1>3. CASE it[u].lv = 3
  BY <1>1, <1>2, <1>3 DEF IterType, Keeps
<1>4. CASE it[u].lv = 2 /\ it[u].by = 2 /\ it[u].last
  BY <1>1, <1>2, <1>4 DEF IterType, Keeps
<1>5. CASE it[u].lv = 2 /\ ~ (it[u].by = 2 /\ it[u].last)
  BY <1>1, <1>2, <1>5 DEF IterType, Keeps
<1> QED BY <1>1, <1>3, <1>4, <1>5 DEF Level

LEMMA AcquireFailsTo ==
  ASSUME Iters, NEW u \in User, AcquireFails(u)
  PROVE  /\ it[u].at = "acquire" /\ it[u].lv \in Level /\ \A v \in User : v # u => it'[v] = it[v]
         /\ \/ it[u].lv = 3 /\ it'[u] = NoIter
            \/ /\ it[u].lv = 2 /\ it'[u].at = "release" /\ it'[u].lv = 3
               /\ Keeps(it[u], it'[u]) /\ it'[u].end = it[u].p /\ it'[u].by = it[u].by
               /\ it'[u].sub = it[u].sub
               /\ it'[u].last \in (IF it[u].by = 0 THEN LastChoices
                                   ELSE IF it[u].by = 2 THEN {it[u].last} ELSE {FALSE})
<1>1. it[u] \in IterType /\ it[u].at = "acquire" /\ it[u].lv \in Level
  BY IterOf DEF AcquireFails, IterLevel
<1>2. CASE it[u].lv = 3
  BY <1>1, <1>2, Frame DEF AcquireFails
<1>3. CASE it[u].lv # 3
  <2> DEFINE B == IF it[u].by = 0 THEN LastChoices ELSE IF it[u].by = 2 THEN {it[u].last} ELSE {FALSE}
  <2>1. PICK b \in B :
          it' = [it EXCEPT ![u] = [it[u] EXCEPT !.at = "release", !.lv = 3, !.last = b,
                                                !.end = it[u].p]]
    BY <1>3, Zenon DEF AcquireFails
  <2> DEFINE j == [it[u] EXCEPT !.at = "release", !.lv = 3, !.last = b, !.end = it[u].p]
  <2>2. /\ j.at = "release" /\ j.lv = 3 /\ j.end = it[u].p /\ j.by = it[u].by
        /\ j.sub = it[u].sub /\ j.last = b /\ Keeps(it[u], j)
    BY <1>1 DEF IterType, Keeps
  <2>3. it' = [it EXCEPT ![u] = j]
    BY <2>1
  <2> HIDE DEF j, B
  <2>4. it'[u] = j /\ \A v \in User : v # u => it'[v] = it[v]
    BY <2>3, Frame
  <2> QED BY <1>1, <1>3, <2>1, <2>2, <2>4 DEF B, Level
<1> QED BY <1>2, <1>3

LEMMA LockTo ==
  ASSUME Iters, NEW u \in User, Lock(u)
  PROVE  /\ it[u].at = "lock" /\ \A v \in User : v # u => it'[v] = it[v]
         /\ Keeps(it[u], it'[u]) /\ it'[u].end = it[u].end
         /\ it'[u].by = it[u].by /\ it'[u].last = it[u].last
         /\ \/ it[u].by = 1 /\ it[u].last /\ it'[u].at = "release" /\ it'[u].lv = 2 /\ it'[u].sub
            \/ /\ ~ (it[u].by = 1 /\ it[u].last)
               /\ it'[u].at = "body" /\ it'[u].lv = it[u].lv /\ it'[u].sub = it[u].sub
<1> DEFINE j == IF it[u].by = 1 /\ it[u].last
                THEN [it[u] EXCEPT !.at = "release", !.sub = TRUE, !.lv = 2]
                ELSE [it[u] EXCEPT !.at = "body"]
<1>1. it[u] \in IterType /\ it[u].at = "lock"
  BY IterOf DEF Lock
<1>2. it'[u] = j /\ \A v \in User : v # u => it'[v] = it[v]
  <2>1. it' = [it EXCEPT ![u] = j]
    BY DEF Lock
  <2> HIDE DEF j
  <2> QED BY <2>1, Frame
<1>3. CASE it[u].by = 1 /\ it[u].last
  BY <1>1, <1>2, <1>3 DEF IterType, Keeps
<1>4. CASE ~ (it[u].by = 1 /\ it[u].last)
  BY <1>1, <1>2, <1>4 DEF IterType, Keeps
<1> QED BY <1>3, <1>4

LEMMA LockFailsTo ==
  ASSUME Iters, NEW u \in User, LockFails(u)
  PROVE  /\ it[u].at = "lock" /\ \A v \in User : v # u => it'[v] = it[v]
         /\ Keeps(it[u], it'[u]) /\ it'[u].end = it[u].p
         /\ it'[u].by = it[u].by /\ it'[u].last = it[u].last
         /\ it'[u].at = "release" /\ it'[u].lv = 2 /\ it'[u].sub = it[u].sub
<1> DEFINE j == [it[u] EXCEPT !.at = "release", !.lv = 2, !.end = it[u].p]
<1>1. it[u] \in IterType /\ it[u].at = "lock"
  BY IterOf DEF LockFails
<1>2. it'[u] = j /\ \A v \in User : v # u => it'[v] = it[v]
  <2>1. it' = [it EXCEPT ![u] = j]
    BY DEF LockFails
  <2> HIDE DEF j
  <2> QED BY <2>1, Frame
<1> QED BY <1>1, <1>2 DEF IterType, Keeps

LEMMA BodyTo ==
  ASSUME Iters, NEW u \in User, Body(u)
  PROVE  /\ it[u].at = "body" /\ \A v \in User : v # u => it'[v] = it[v]
         /\ it'[u].op = it[u].op /\ it'[u].end = it[u].end /\ it'[u].start = it[u].start
         /\ it'[u].last = (it[u].op = "free") /\ it'[u].sub = it[u].sub
         /\ \/ /\ it[u].p < it[u].end /\ Step(it[u].p) = 1
               /\ it'[u].at = "lock" /\ it'[u].lv = it[u].lv /\ it'[u].by = 1 /\ it'[u].p = it[u].p + 1
            \/ /\ ~ (it[u].p < it[u].end /\ Step(it[u].p) = 1)
               /\ it'[u].at = "release" /\ it'[u].lv = 2 /\ it'[u].by = it[u].by /\ it'[u].p = it[u].p
<1> DEFINE g == it[u].op = "free"
           j == IF it[u].p < it[u].end /\ Step(it[u].p) = 1
                THEN [it[u] EXCEPT !.at = "lock", !.by = 1, !.last = g, !.p = it[u].p + 1]
                ELSE [it[u] EXCEPT !.at = "release", !.lv = 2, !.last = g]
<1>1. it[u] \in IterType /\ it[u].at = "body"
  BY IterOf DEF Body
<1>2. it'[u] = j /\ \A v \in User : v # u => it'[v] = it[v]
  <2>1. it' = [it EXCEPT ![u] = j]
    BY DEF Body
  <2> HIDE DEF j
  <2> QED BY <2>1, Frame
<1> HIDE DEF g
<1>3. CASE it[u].p < it[u].end /\ Step(it[u].p) = 1
  <2>1. j = [it[u] EXCEPT !.at = "lock", !.by = 1, !.last = g, !.p = it[u].p + 1]
    BY <1>3
  <2> HIDE DEF j
  <2> QED BY <1>1, <1>2, <1>3, <2>1 DEF IterType, g
<1>4. CASE ~ (it[u].p < it[u].end /\ Step(it[u].p) = 1)
  <2>1. j = [it[u] EXCEPT !.at = "release", !.lv = 2, !.last = g]
    BY <1>4
  <2> HIDE DEF j
  <2> QED BY <1>1, <1>2, <1>4, <2>1 DEF IterType, g
<1> QED BY <1>3, <1>4

(* The places an iterator goes to when it has released a table.            *)
Goes(i, j, g) ==
  \/ /\ i.sub /\ i.lv = 2 /\ Keeps(i, j) /\ j.end = i.end /\ j.by = i.by
     /\ j.at = "body" /\ j.lv = 1 /\ ~ j.sub /\ j.last = g
  \/ /\ i.sub /\ i.lv = 3 /\ Keeps(i, j) /\ j.end = i.end /\ j.by = i.by
     /\ j.at = "lock" /\ j.lv = 1 /\ ~ j.sub /\ j.last = g
  \/ /\ ~ i.sub /\ i.lv = 2 /\ i.p < i.end /\ Step(i.p) = 2
     /\ j.op = i.op /\ j.start = i.start /\ j.end = i.end /\ j.by = 2
     /\ j.at = "acquire" /\ j.lv = 2 /\ ~ j.sub /\ j.last = g /\ j.p = i.p + 1
  \/ /\ ~ i.sub /\ i.lv = 2 /\ Keeps(i, j) /\ j.end = i.end /\ j.by = i.by
     /\ j.at = "release" /\ j.lv = 3 /\ ~ j.sub /\ j.last = g
  \/ /\ ~ i.sub /\ i.lv = 3 /\ i.p < i.end
     /\ j.op = i.op /\ j.start = i.start /\ j.end = i.end /\ j.by = 3
     /\ j.at = "acquire" /\ j.lv = 3 /\ ~ j.sub /\ j.last = i.last /\ j.p = i.p + 1
  \/ ~ i.sub /\ i.lv = 3 /\ j = NoIter

LEMMA AfterTo ==
  ASSUME NEW i \in IterType, i.lv \in Level, NEW g \in BOOLEAN
  PROVE  Goes(i, After(i, g), g)
<1> DEFINE a == After(i, g)
<1>1. CASE i.sub /\ i.lv = 2
  <2>1. a = [i EXCEPT !.at = "body", !.lv = 1, !.sub = FALSE, !.last = g]
    BY <1>1 DEF After
  <2> HIDE DEF a
  <2>2. Goes(i, a, g)
    BY <1>1, <2>1 DEF IterType, Goes, Keeps
  <2> QED BY <2>2 DEF a
<1>2. CASE i.sub /\ i.lv = 3
  <2>1. a = [i EXCEPT !.at = "lock", !.lv = 1, !.sub = FALSE, !.last = g]
    BY <1>2 DEF After
  <2> HIDE DEF a
  <2>2. Goes(i, a, g)
    BY <1>2, <2>1 DEF IterType, Goes, Keeps
  <2> QED BY <2>2 DEF a
<1>3. CASE ~ i.sub /\ i.lv = 2 /\ i.p < i.end /\ Step(i.p) = 2
  <2>1. a = [i EXCEPT !.at = "acquire", !.lv = 2, !.by = 2, !.last = g, !.p = i.p + 1]
    BY <1>3 DEF After
  <2> HIDE DEF a
  <2>2. Goes(i, a, g)
    BY <1>3, <2>1 DEF IterType, Goes, Keeps
  <2> QED BY <2>2 DEF a
<1>4. CASE ~ i.sub /\ i.lv = 2 /\ ~ (i.p < i.end /\ Step(i.p) = 2)
  <2>1. a = [i EXCEPT !.at = "release", !.lv = 3, !.last = g]
    BY <1>4 DEF After
  <2> HIDE DEF a
  <2>2. Goes(i, a, g)
    BY <1>4, <2>1 DEF IterType, Goes, Keeps
  <2> QED BY <2>2 DEF a
<1>5. CASE ~ i.sub /\ i.lv = 3 /\ i.p < i.end
  <2>1. a = [i EXCEPT !.at = "acquire", !.lv = 3, !.by = 3, !.p = i.p + 1]
    BY <1>5 DEF After
  <2> HIDE DEF a
  <2>2. Goes(i, a, g)
    BY <1>5, <2>1 DEF IterType, Goes, Keeps
  <2> QED BY <2>2 DEF a
<1>6. CASE ~ i.sub /\ i.lv = 3 /\ ~ (i.p < i.end)
  BY <1>6 DEF After, Goes
<1>7. i.sub \in BOOLEAN
  BY DEF IterType
<1> QED BY <1>1, <1>2, <1>3, <1>4, <1>5, <1>6, <1>7 DEF Level

LEMMA ReleaseTo ==
  ASSUME Iters, NEW u \in User, Release(u)
  PROVE  /\ it[u].at = "release" /\ it[u].lv \in Level /\ \A v \in User : v # u => it'[v] = it[v]
         /\ IF cnt[Up(it[u].lv, it[u].p)] - Released(it[u]) = 0
            THEN /\ Keeps(it[u], it'[u]) /\ it'[u].end = it[u].end /\ it'[u].by = it[u].by
                 /\ it'[u].last = it[u].last /\ it'[u].sub = it[u].sub /\ it'[u].lv = it[u].lv
                 /\ it'[u].at = "unlink"
            ELSE Goes(it[u], it'[u], FALSE)
<1> DEFINE z == cnt[Up(it[u].lv, it[u].p)] - Released(it[u]) = 0
           j == IF z THEN [it[u] EXCEPT !.at = "unlink"] ELSE After(it[u], FALSE)
<1>1. it[u] \in IterType /\ it[u].at = "release" /\ it[u].lv \in Level
  BY IterOf DEF Release, IterLevel
<1>2. it'[u] = j /\ \A v \in User : v # u => it'[v] = it[v]
  <2>1. it' = [it EXCEPT ![u] = j]
    BY DEF Release
  <2> HIDE DEF j
  <2> QED BY <2>1, Frame
<1> HIDE DEF z
<1>3. CASE z
  <2>1. it'[u] = [it[u] EXCEPT !.at = "unlink"]
    BY <1>2, <1>3
  <2>2. /\ Keeps(it[u], it'[u]) /\ it'[u].end = it[u].end /\ it'[u].by = it[u].by
        /\ it'[u].last = it[u].last /\ it'[u].sub = it[u].sub /\ it'[u].lv = it[u].lv
        /\ it'[u].at = "unlink"
    BY <1>1, <2>1 DEF IterType, Keeps
  <2> QED BY <1>1, <1>2, <1>3, <2>2 DEF z
<1>4. CASE ~ z
  <2>1. Goes(it[u], it'[u], FALSE)
    BY <1>1, <1>2, <1>4, AfterTo
  <2> QED BY <1>1, <1>2, <1>4, <2>1 DEF z
<1> QED BY <1>3, <1>4

LEMMA UnlinkTo ==
  ASSUME Iters, NEW u \in User, Unlink(u) \/ Invalidate(u)
  PROVE  /\ it[u].at \in {"unlink", "invalidate"} /\ \A v \in User : v # u => it'[v] = it[v]
         /\ Keeps(it[u], it'[u]) /\ it'[u].end = it[u].end /\ it'[u].by = it[u].by
         /\ it'[u].last = it[u].last /\ it'[u].sub = it[u].sub /\ it'[u].lv = it[u].lv
         /\ it'[u].at \in {"invalidate", "reclaim"}
         /\ it[u].lv \in Level
<1>1. it[u] \in IterType /\ it[u].at \in {"unlink", "invalidate"} /\ it[u].lv \in Level
  BY IterOf DEF Unlink, Invalidate, IterLevel
<1>2. PICK a \in {"invalidate", "reclaim"} : it' = [it EXCEPT ![u] = [it[u] EXCEPT !.at = a]]
  BY DEF Unlink, Invalidate
<1> DEFINE j == [it[u] EXCEPT !.at = a]
<1>3. /\ Keeps(it[u], j) /\ j.end = it[u].end /\ j.by = it[u].by
      /\ j.last = it[u].last /\ j.sub = it[u].sub /\ j.lv = it[u].lv /\ j.at = a
  BY <1>1 DEF IterType, Keeps
<1>4. it' = [it EXCEPT ![u] = j]
  BY <1>2
<1> HIDE DEF j
<1> QED BY <1>1, <1>3, <1>4, Frame

LEMMA ReclaimTo ==
  ASSUME Iters, NEW u \in User, Reclaim(u)
  PROVE  /\ it[u].at = "reclaim" /\ it[u].lv \in Level /\ \A v \in User : v # u => it'[v] = it[v]
         /\ Goes(it[u], it'[u], TRUE)
<1>1. it[u] \in IterType /\ it[u].at = "reclaim" /\ it[u].lv \in Level
  BY IterOf DEF Reclaim, IterLevel
<1>2. it'[u] = After(it[u], TRUE) /\ \A v \in User : v # u => it'[v] = it[v]
  BY Frame DEF Reclaim
<1> QED BY <1>1, <1>2, AfterTo

-----------------------------------------------------------------------------
(* Pages: who claims and who locks an L1 table.                            *)
LEMMA ClaimOf ==
  ASSUME NEW i
  PROVE  /\ i.op \notin {"alloc", "free"} => Claim(i) = {} /\ Todo(i) = {}
         /\ i.op = "free" => Claim(i) = Todo(i)
         /\ i.op = "alloc" => Claim(i) = i.start .. i.end
BY DEF Todo, Claim

(* A step that changes no entry of an L1 table.                            *)
LEMMA QuietPages ==
  ASSUME Iters, Pages, NEW u \in User, \A v \in User : v # u => it'[v] = it[v],
         it'[u].op # "idle" => it'[u].p <= it'[u].end /\ it'[u].end < high,
         Claim(it'[u]) \subseteq Claim(it[u]),
         it'[u].op = "free" => it[u].op = "free" /\ Todo(it'[u]) \subseteq Todo(it[u]),
         it'[u].op = "alloc" =>
           /\ it[u].op = "alloc" /\ it'[u].start = it[u].start /\ it'[u].p = it[u].p
           /\ it'[u].end = it[u].end /\ (it'[u].at = "write" <=> it[u].at = "write"),
         Holding(it'[u]) => Holding(it[u]) /\ it'[u].p = it[u].p,
         UNCHANGED <<leaf, high, objs, dead, pf>>
  PROVE  Pages'
<1>1. Ranges'
  BY DEF Pages, Ranges
<1>2. Taken' = Taken
  BY DEF Taken
<1>3. Claims'
  <2>1. \A o \in objs : Extent(o) \subseteq Taken
    BY DEF Pages, Claims
  <2>2. \A o, n \in objs : o # n => Extent(o) \cap Extent(n) = {}
    BY DEF Pages, Claims
  <2>3. ASSUME NEW o \in objs, NEW v \in User PROVE Extent(o) \cap Claim(it'[v]) = {}
    <3>1. Extent(o) \cap Claim(it[v]) = {}
      BY DEF Pages, Claims
    <3> QED BY <3>1
  <2>4. ASSUME NEW v \in User, NEW w \in User, v # w PROVE Claim(it'[v]) \cap Claim(it'[w]) = {}
    <3>1. Claim(it[v]) \cap Claim(it[w]) = {}
      BY <2>4 DEF Pages, Claims
    <3> QED BY <2>4, <3>1
  <2>5. ASSUME NEW v \in User, it'[v].op = "free" PROVE Todo(it'[v]) \subseteq Taken
    <3>1. it[v].op = "free" => Todo(it[v]) \subseteq Taken
      BY DEF Pages, Claims
    <3> QED BY <2>5, <3>1
  <2>6. ASSUME NEW v \in User, it'[v].op = "alloc"
        PROVE  /\ it'[v].start <= it'[v].p
               /\ it'[v].start .. it'[v].p - 1 \subseteq Taken
               /\ \A q \in it'[v].p .. it'[v].end :
                    leaf[q] = IF q = it'[v].p /\ it'[v].at = "write" THEN "locked" ELSE "null"
    <3>1. /\ it[v].op = "alloc" /\ it'[v].start = it[v].start /\ it'[v].p = it[v].p
          /\ it'[v].end = it[v].end /\ (it'[v].at = "write" <=> it[v].at = "write")
      BY <2>6
    <3>2. /\ it[v].start <= it[v].p
          /\ it[v].start .. it[v].p - 1 \subseteq Taken
          /\ \A q \in it[v].p .. it[v].end :
               leaf[q] = IF q = it[v].p /\ it[v].at = "write" THEN "locked" ELSE "null"
      BY <3>1 DEF Pages, Claims
    <3> QED BY <3>1, <3>2
  <2> QED BY <1>2, <2>1, <2>2, <2>3, <2>4, <2>5, <2>6, Zenon DEF Claims, Extent
<1>4. Locks'
  <2>1. \A v \in User : Holding(it'[v]) => Holding(it[v]) /\ it'[v].p = it[v].p
    OBVIOUS
  <2> QED BY <2>1 DEF Pages, Locks
<1>5. leaf' \in [L1 -> LeafState]
  BY DEF Pages
<1> QED BY <1>1, <1>3, <1>4, <1>5 DEF Pages

(* A user thread changes the entry of table q.  An allocation finds its    *)
(* tables as it left them, and only the holder of a lock writes under it.  *)
LEMMA LeafClaims ==
  ASSUME Iters, Pages, NEW u \in User, \A v \in User : v # u => it'[v] = it[v],
         NEW q \in L1, NEW s \in {"free", "locked", "destroyed"}, leaf' = [leaf EXCEPT ![q] = s],
         s = "destroyed" => q \in Claim(it[u]) /\ q \notin Claim(it'[u]),
         \A v \in User : v # u /\ it[v].op = "alloc" => q \notin it[v].p .. it[v].end,
         Claim(it'[u]) \subseteq Claim(it[u]),
         it'[u].op = "free" => it[u].op = "free",
         it'[u].op = "alloc" =>
           /\ s # "destroyed"
           /\ it'[u].start <= it'[u].p
           /\ it'[u].start .. it'[u].p - 1 \subseteq Taken \cup {q}
           /\ \A p \in it'[u].p .. it'[u].end :
                leaf'[p] = IF p = it'[u].p /\ it'[u].at = "write" THEN "locked" ELSE "null",
         objs' = objs
  PROVE  Claims'
<1>1. leaf \in [L1 -> LeafState] /\ Claims
  BY DEF Pages
<1>2. \A p \in Taken : p # q \/ s # "destroyed" => p \in Taken'
  BY <1>1 DEF Taken
<1>3. s # "destroyed" => q \in Taken'
  BY <1>1 DEF Taken
<1>4. ASSUME NEW o \in objs PROVE Extent(o) \subseteq Taken'
  <2>1. Extent(o) \subseteq Taken /\ Extent(o) \cap Claim(it[u]) = {}
    BY <1>1 DEF Claims
  <2> QED BY <1>2, <2>1
<1>5. \A o, n \in objs : o # n => Extent(o) \cap Extent(n) = {}
  BY <1>1 DEF Claims
<1>6. ASSUME NEW o \in objs, NEW v \in User PROVE Extent(o) \cap Claim(it'[v]) = {}
  <2>1. Extent(o) \cap Claim(it[v]) = {}
    BY <1>1 DEF Claims
  <2> QED BY <2>1
<1>7. ASSUME NEW v \in User, NEW w \in User, v # w PROVE Claim(it'[v]) \cap Claim(it'[w]) = {}
  <2>1. Claim(it[v]) \cap Claim(it[w]) = {}
    BY <1>1, <1>7 DEF Claims
  <2> QED BY <1>7, <2>1
<1>8. ASSUME NEW v \in User, it'[v].op = "free" PROVE Todo(it'[v]) \subseteq Taken'
  <2>1. it[v].op = "free" /\ Claim(it[v]) \subseteq Taken /\ Claim(it'[v]) = Todo(it'[v])
    <3>1. it[v].op = "free"
      BY <1>8
    <3>2. Todo(it[v]) \subseteq Taken
      BY <1>1, <3>1 DEF Claims
    <3> QED BY <1>8, <3>1, <3>2, ClaimOf
  <2>2. CASE v = u
    BY <1>2, <2>1, <2>2
  <2>3. CASE v # u
    <3>1. Claim(it[v]) \cap Claim(it[u]) = {}
      BY <1>1, <2>3 DEF Claims
    <3> QED BY <1>2, <2>1, <2>3, <3>1
  <2> QED BY <2>2, <2>3
<1>9. ASSUME NEW v \in User, it'[v].op = "alloc"
      PROVE  /\ it'[v].start <= it'[v].p
             /\ it'[v].start .. it'[v].p - 1 \subseteq Taken'
             /\ \A p \in it'[v].p .. it'[v].end :
                  leaf'[p] = IF p = it'[v].p /\ it'[v].at = "write" THEN "locked" ELSE "null"
  <2>1. CASE v = u
    BY <1>2, <1>3, <1>9, <2>1
  <2>2. CASE v # u
    <3>1. it'[v] = it[v] /\ it[v].op = "alloc"
      BY <1>9, <2>2
    <3>2. /\ it[v].start <= it[v].p
          /\ it[v].start .. it[v].p - 1 \subseteq Taken
          /\ \A p \in it[v].p .. it[v].end :
               leaf[p] = IF p = it[v].p /\ it[v].at = "write" THEN "locked" ELSE "null"
      BY <1>1, <3>1 DEF Claims
    <3>3. it[v].start .. it[v].p - 1 \subseteq Claim(it[v])
      <4>1. it[v] \in IterType
        BY DEF Iters
      <4>2. it[v].p <= it[v].end
        BY <3>1 DEF Pages, Ranges
      <4> QED BY <3>1, <4>1, <4>2, ClaimOf DEF IterType
    <3>4. Claim(it[v]) \cap Claim(it[u]) = {}
      BY <1>1, <2>2 DEF Claims
    <3>5. it[v].start .. it[v].p - 1 \subseteq Taken'
      BY <1>2, <3>2, <3>3, <3>4
    <3>6. q \notin it[v].p .. it[v].end
      BY <2>2, <3>1
    <3>7. ASSUME NEW p \in it[v].p .. it[v].end PROVE leaf'[p] = leaf[p]
      BY <1>1, <3>6
    <3> QED BY <3>1, <3>2, <3>5, <3>7
  <2> QED BY <2>1, <2>2
<1> QED BY <1>4, <1>5, <1>6, <1>7, <1>8, <1>9, Zenon DEF Claims, Extent

LEMMA LeafLocks ==
  ASSUME Iters, Pages, NEW u \in User, \A v \in User : v # u => it'[v] = it[v],
         NEW q \in L1, NEW s \in {"free", "locked", "destroyed"}, leaf' = [leaf EXCEPT ![q] = s],
         leaf[q] # "locked" \/ (Holding(it[u]) /\ q = it[u].p),
         Holding(it'[u]) => it'[u].p = q /\ s = "locked",
         pf' = pf
  PROVE  Locks'
<1>1. leaf \in [L1 -> LeafState] /\ Locks
  BY DEF Pages
<1>2. ASSUME NEW v \in User, v # u, Holding(it[v]) PROVE it[v].p # q
  BY <1>1, <1>2 DEF Locks
<1>3. ASSUME NEW h \in Handler, pf[h].at = "hold" PROVE pf[h].p # q
  BY <1>1, <1>3 DEF Locks
<1>4. \A v \in User : Holding(it'[v]) => leaf'[it'[v].p] = "locked"
  BY <1>1, <1>2 DEF Locks
<1>5. \A h \in Handler : pf'[h].at = "hold" => leaf'[pf'[h].p] = "locked"
  BY <1>1, <1>3 DEF Locks
<1>6. \A v, w \in User : v # w /\ Holding(it'[v]) /\ Holding(it'[w]) => it'[v].p # it'[w].p
  BY <1>1, <1>2 DEF Locks
<1>7. \A h, g \in Handler : h # g /\ pf'[h].at = "hold" /\ pf'[g].at = "hold" => pf'[h].p # pf'[g].p
  BY <1>1 DEF Locks
<1>8. \A v \in User, h \in Handler : Holding(it'[v]) /\ pf'[h].at = "hold" => it'[v].p # pf'[h].p
  BY <1>1, <1>3 DEF Locks
<1> QED BY <1>4, <1>5, <1>6, <1>7, <1>8, Zenon DEF Locks

LEMMA LeafPages ==
  ASSUME Iters, Pages, NEW u \in User, \A v \in User : v # u => it'[v] = it[v],
         NEW q \in L1, q < high, NEW s \in {"free", "locked", "destroyed"},
         leaf' = [leaf EXCEPT ![q] = s], Claims', Locks',
         it'[u].op # "idle" => it'[u].p <= it'[u].end /\ it'[u].end < high,
         \A o \in objs' \cup dead' : o \in objs \cup dead \/ (o.start <= o.end /\ o.end < high),
         high' = high, pf' = pf
  PROVE  Pages'
<1>1. leaf \in [L1 -> LeafState] /\ Ranges
  BY DEF Pages
<1>2. leaf' \in [L1 -> LeafState]
  BY <1>1 DEF LeafState
<1>3. \A p \in L1 : p >= high' => leaf'[p] = "null"
  BY <1>1 DEF Ranges, L1
<1>4. \A o \in objs' \cup dead' : o.start <= o.end /\ o.end < high'
  BY <1>1 DEF Ranges
<1>5. \A v \in User : it'[v].op # "idle" => it'[v].p <= it'[v].end /\ it'[v].end < high'
  BY <1>1 DEF Ranges
<1>6. high' \in 0 .. NL1 /\ \A h \in Handler : pf'[h].p \in L1
  BY <1>1 DEF Ranges
<1>7. Ranges'
  BY <1>3, <1>4, <1>5, <1>6 DEF Ranges
<1> QED BY <1>2, <1>7 DEF Pages

(* Where a working iterator is.                                            *)
LEMMA PlaceOf ==
  ASSUME IInv, Pages, NEW u \in User, it[u].op # "idle"
  PROVE  /\ it[u] \in IterType /\ it[u].p \in L1 /\ it[u].p < high /\ it[u].p <= it[u].end
         /\ it[u].end < high /\ high \in Nat /\ it[u].p \in Nat /\ it[u].end \in Nat
         /\ it[u].start \in Nat
<1>1. it[u] \in IterType
  BY DEF IInv, Iters
<1>2. it[u].p \in Nat /\ it[u].end \in Nat /\ it[u].start \in Nat
  BY <1>1 DEF IterType
<1>3. high \in 0 .. NL1 /\ it[u].p <= it[u].end /\ it[u].end < high
  BY DEF Pages, Ranges
<1>4. NL1 \in Nat /\ NL1 <= NL3 * Fan3 * Fan2 /\ NL3 * Fan3 * Fan2 \in Nat
  BY TrieAssumption
<1>5. it[u].p \in 0 .. NL3 * Fan3 * Fan2 - 1
  BY <1>2, <1>3, <1>4
<1> QED BY <1>1, <1>2, <1>3, <1>4, <1>5 DEF L1

LEMMA TouchLeafPages ==
  ASSUME IInv, Pages, Flags, NEW u \in User, TouchLeaf(u) PROVE Pages'
<1> DEFINE i == it[u]
           j == it'[u]
           q == it[u].p
<1>1. Iters
  BY DEF IInv
<1>2. i.op = "alloc"
  BY <1>1, TouchLeafTo DEF Flags, Remembers
<1>3. i.p \in L1 /\ q < high /\ i.p <= i.end /\ i.end < high /\ i.p \in Nat /\ i.end \in Nat
  BY <1>2, PlaceOf
<1>4. /\ i.at = "touch" /\ \A v \in User : v # u => it'[v] = it[v]
      /\ j.op = i.op /\ j.at = "write" /\ j.lv = 1 /\ j.p = i.p /\ j.start = i.start /\ j.end = i.end
  BY <1>1, TouchLeafTo
<1>5. leaf' = [leaf EXCEPT ![q] = "locked"] /\ UNCHANGED <<high, objs, dead, pf>>
  BY DEF TouchLeaf, walk
<1>6. /\ i.start <= i.p /\ i.start .. i.p - 1 \subseteq Taken
      /\ \A p \in i.p .. i.end : leaf[p] = "null"
  BY <1>2, <1>4 DEF Pages, Claims
<1>7. q \in Claim(i) /\ q \in i.p .. i.end /\ leaf[q] = "null"
  <2>1. Claim(i) = i.start .. i.end /\ i.start \in Nat
    BY <1>2, ClaimOf, PlaceOf
  <2> QED BY <1>3, <1>6, <2>1
<1>8. Claim(j) = Claim(i) /\ j.op = "alloc"
  BY <1>2, <1>4, ClaimOf
<1>9. ASSUME NEW v \in User, v # u, it[v].op = "alloc" PROVE q \notin it[v].p .. it[v].end
  <2>1. Claim(it[v]) \cap Claim(i) = {} /\ it[v].start <= it[v].p /\ Claim(it[v]) = it[v].start .. it[v].end
    BY <1>9, ClaimOf DEF Pages, Claims
  <2>2. it[v].start \in Nat /\ it[v].p \in Nat /\ it[v].end \in Nat
    BY <1>9, PlaceOf
  <2> QED BY <1>3, <1>7, <2>1, <2>2
<1>10. /\ j.start <= j.p /\ j.start .. j.p - 1 \subseteq Taken \cup {q}
       /\ \A p \in j.p .. j.end : leaf'[p] = IF p = j.p /\ j.at = "write" THEN "locked" ELSE "null"
  <2>1. leaf \in [L1 -> LeafState]
    BY DEF Pages
  <2>2. leaf'[q] = "locked" /\ \A p : p # q => leaf'[p] = leaf[p]
    BY <1>3, <1>5, <2>1
  <2> QED BY <1>4, <1>6, <2>2
<1> HIDE DEF i, j, q
<1>11. Claims'
  BY <1>1, <1>3, <1>4, <1>5, <1>8, <1>9, <1>10, LeafClaims DEF i, j, q
<1>12. Locks'
  <2>1. leaf[q] # "locked"
    BY <1>7
  <2> QED BY <1>1, <1>3, <1>4, <1>5, <2>1, LeafLocks DEF i, j, q
<1> QED BY <1>1, <1>3, <1>4, <1>5, <1>11, <1>12, LeafPages DEF i, j, q

LEMMA WritePages ==
  ASSUME IInv, Pages, Flags, NEW u \in User, Write(u), it[u].p # it[u].end PROVE Pages'
<1> DEFINE i == it[u]
           j == it'[u]
           q == it[u].p
<1>1. Iters
  BY DEF IInv
<1>2. i.op = "alloc"
  BY <1>1, WriteTo DEF Flags, Remembers
<1>3. i.p \in L1 /\ q < high /\ i.p <= i.end /\ i.end < high /\ i.p \in Nat /\ i.end \in Nat
  BY <1>2, PlaceOf
<1>4. /\ i.at = "write" /\ \A v \in User : v # u => it'[v] = it[v]
      /\ j.op = i.op /\ j.at = "touch" /\ j.p = i.p + 1 /\ j.start = i.start /\ j.end = i.end
  BY <1>1, WriteTo
<1>5. leaf' = [leaf EXCEPT ![q] = "free"] /\ UNCHANGED <<high, objs, dead, pf>>
  BY DEF Write, walk
<1>6. /\ i.start <= i.p /\ i.start .. i.p - 1 \subseteq Taken
      /\ \A p \in i.p .. i.end : leaf[p] = IF p = i.p THEN "locked" ELSE "null"
  BY <1>2, <1>4 DEF Pages, Claims
<1>7. Holding(i) /\ ~ Holding(j)
  BY <1>4 DEF Holding, Rel, Leaves
<1>8. Claim(j) = Claim(i) /\ j.op = "alloc"
  BY <1>2, <1>4, ClaimOf
<1>9. ASSUME NEW v \in User, v # u, it[v].op = "alloc" PROVE q \notin it[v].p .. it[v].end
  <2>1. Claim(it[v]) \cap Claim(i) = {} /\ it[v].start <= it[v].p /\ Claim(it[v]) = it[v].start .. it[v].end
    BY <1>9, ClaimOf DEF Pages, Claims
  <2>2. it[v].start \in Nat /\ it[v].p \in Nat /\ it[v].end \in Nat
    BY <1>9, PlaceOf
  <2>3. q \in Claim(i)
    <3>1. Claim(i) = i.start .. i.end /\ i.start \in Nat
      BY <1>2, ClaimOf, PlaceOf
    <3> QED BY <1>3, <1>6, <3>1
  <2> QED BY <1>3, <2>1, <2>2, <2>3
<1>10. /\ j.start <= j.p /\ j.start .. j.p - 1 \subseteq Taken \cup {q}
       /\ \A p \in j.p .. j.end : leaf'[p] = IF p = j.p /\ j.at = "write" THEN "locked" ELSE "null"
  <2>1. leaf \in [L1 -> LeafState] /\ i.start \in Nat
    BY <1>2, PlaceOf DEF Pages
  <2>2. \A p : p # q => leaf'[p] = leaf[p]
    BY <1>3, <1>5, <2>1
  <2> QED BY <1>3, <1>4, <1>6, <2>1, <2>2
<1> HIDE DEF i, j, q
<1>11. Claims'
  BY <1>1, <1>3, <1>4, <1>5, <1>8, <1>9, <1>10, LeafClaims DEF i, j, q
<1>12. Locks'
  BY <1>1, <1>3, <1>4, <1>5, <1>7, LeafLocks DEF i, j, q
<1>13. j.p <= j.end /\ j.end < high
  BY <1>3, <1>4 DEF i
<1> QED BY <1>1, <1>3, <1>4, <1>5, <1>11, <1>12, <1>13, LeafPages DEF i, j, q

(* The last table is written and the object is handed out.                 *)
LEMMA WriteEndPages ==
  ASSUME IInv, Pages, Flags, NEW u \in User, Write(u), it[u].p = it[u].end PROVE Pages'
<1> DEFINE i == it[u]
           j == it'[u]
           q == it[u].p
           o == [start |-> it[u].start, end |-> it[u].end]
<1>1. Iters
  BY DEF IInv
<1>2. i.op = "alloc"
  BY <1>1, WriteTo DEF Flags, Remembers
<1>3. i.p \in L1 /\ q < high /\ i.p = i.end /\ i.p \in Nat /\ i.start \in Nat /\ i.end < high
  BY <1>2, PlaceOf
<1>4. i.at = "write" /\ j = NoIter /\ \A v \in User : v # u => it'[v] = it[v]
  BY <1>1, WriteTo
<1>5. leaf' = [leaf EXCEPT ![q] = "free"] /\ objs' = objs \cup {o} /\ UNCHANGED <<high, dead, pf>>
  BY DEF Write, walk
<1>6. /\ i.start <= i.p /\ i.start .. i.p - 1 \subseteq Taken
      /\ leaf[q] = "locked" /\ leaf \in [L1 -> LeafState]
  BY <1>2, <1>3, <1>4 DEF Pages, Claims
<1>7. Holding(i) /\ ~ Holding(j) /\ Claim(j) = {} /\ j.op = "idle"
  BY <1>4 DEF Holding, Rel, Leaves, NoIter, Claim, Todo
<1>8. Extent(o) = Claim(i) /\ Claim(i) = i.start .. i.end /\ o.start = i.start /\ o.end = i.end
  BY <1>2, ClaimOf DEF Extent
<1>9. Extent(o) \subseteq Taken' /\ Taken' = Taken /\ q \in Taken
  <2>1. Taken' = Taken /\ q \in Taken
    BY <1>3, <1>5, <1>6 DEF Taken
  <2> QED BY <1>3, <1>6, <1>8, <2>1
<1> HIDE DEF i, j, q, o
<1>10. Claims'
  <2>1. ASSUME NEW n \in objs' PROVE Extent(n) \subseteq Taken'
    BY <1>5, <1>9, <2>1 DEF Pages, Claims
  <2>2. ASSUME NEW n \in objs PROVE Extent(n) \cap Claim(i) = {}
    BY DEF Pages, Claims, i
  <2>3. ASSUME NEW n \in objs', NEW m \in objs', n # m PROVE Extent(n) \cap Extent(m) = {}
    <3>1. \A a, b \in objs : a # b => Extent(a) \cap Extent(b) = {}
      BY DEF Pages, Claims
    <3>2. \A a \in objs : Extent(a) \cap Extent(o) = {} /\ Extent(o) \cap Extent(a) = {}
      BY <1>8, <2>2
    <3>3. (n \in objs \/ n = o) /\ (m \in objs \/ m = o)
      BY <1>5
    <3> QED BY <2>3, <3>1, <3>2, <3>3
  <2>4. ASSUME NEW n \in objs', NEW v \in User PROVE Extent(n) \cap Claim(it'[v]) = {}
    <3>1. CASE v = u
      BY <1>7, <3>1 DEF j
    <3>2. CASE v # u
      <4>1. Claim(it[v]) \cap Claim(i) = {} /\ \A m \in objs : Extent(m) \cap Claim(it[v]) = {}
        BY <3>2 DEF Pages, Claims, i
      <4> QED BY <1>4, <1>5, <1>8, <3>2, <4>1
    <3> QED BY <3>1, <3>2
  <2>5. ASSUME NEW v \in User, NEW w \in User, v # w PROVE Claim(it'[v]) \cap Claim(it'[w]) = {}
    <3>1. Claim(it[v]) \cap Claim(it[w]) = {}
      BY <2>5 DEF Pages, Claims
    <3> QED BY <1>4, <1>7, <2>5, <3>1 DEF j
  <2>6. ASSUME NEW v \in User, it'[v].op = "free" PROVE Todo(it'[v]) \subseteq Taken'
    <3>1. v # u
      BY <1>7, <2>6 DEF j
    <3> QED BY <1>4, <1>9, <2>6, <3>1 DEF Pages, Claims
  <2>7. ASSUME NEW v \in User, it'[v].op = "alloc"
        PROVE  /\ it'[v].start <= it'[v].p
               /\ it'[v].start .. it'[v].p - 1 \subseteq Taken'
               /\ \A p \in it'[v].p .. it'[v].end :
                    leaf'[p] = IF p = it'[v].p /\ it'[v].at = "write" THEN "locked" ELSE "null"
    <3>1. v # u /\ it'[v] = it[v] /\ it[v].op = "alloc"
      BY <1>4, <1>7, <2>7 DEF j
    <3>2. /\ it[v].start <= it[v].p
          /\ it[v].start .. it[v].p - 1 \subseteq Taken
          /\ \A p \in it[v].p .. it[v].end :
               leaf[p] = IF p = it[v].p /\ it[v].at = "write" THEN "locked" ELSE "null"
      BY <3>1 DEF Pages, Claims
    <3>3. Claim(it[v]) \cap Claim(i) = {} /\ Claim(it[v]) = it[v].start .. it[v].end
      BY <3>1, ClaimOf DEF Pages, Claims, i
    <3>4. it[v].start \in Nat /\ it[v].p \in Nat /\ it[v].end \in Nat
      BY <3>1, PlaceOf
    <3>5. q \in Claim(i)
      BY <1>3, <1>6, <1>8 DEF q, i
    <3>6. \A p \in it[v].p .. it[v].end : leaf'[p] = leaf[p]
      BY <1>3, <1>5, <1>6, <3>2, <3>3, <3>4, <3>5
    <3> QED BY <1>9, <3>1, <3>2, <3>6
  <2> QED BY <2>1, <2>3, <2>4, <2>5, <2>6, <2>7, Zenon DEF Claims, Extent
<1>11. Locks'
  BY <1>1, <1>3, <1>4, <1>5, <1>7, LeafLocks DEF i, j, q
<1>12. \A n \in objs' \cup dead' : n \in objs \cup dead \/ (n.start <= n.end /\ n.end < high)
  BY <1>3, <1>5, <1>6, <1>8
<1> QED BY <1>1, <1>3, <1>4, <1>5, <1>7, <1>10, <1>11, <1>12, LeafPages DEF i, j, q

LEMMA AllocPages ==
  ASSUME IInv, Pages, NEW u \in User, NEW n \in Sizes, Alloc(u, n), it[u].op = "idle" PROVE Pages'
<1> DEFINE j == it'[u]
<1>1. Iters /\ n \in Nat \ {0} /\ high \in Nat /\ high + n <= NL1 /\ NL1 \in Nat
  BY TrieAssumption DEF IInv, Objects, Alloc
<1>2. /\ \A v \in User : v # u => it'[v] = it[v]
      /\ j.op = "alloc" /\ j.at = "touch" /\ j.p = high /\ j.start = high /\ j.end = high + n - 1
  BY <1>1, AllocTo
<1>3. high' = high + n /\ UNCHANGED <<leaf, objs, dead, pf>>
  BY DEF Alloc, walk
<1>4. leaf \in [L1 -> LeafState] /\ Ranges /\ Claims /\ Locks
  BY DEF Pages
<1>5. Claim(j) = high .. high + n - 1 /\ ~ Holding(j) /\ Claim(it[u]) = {} /\ Todo(it[u]) = {}
  BY <1>2, ClaimOf DEF Holding, Rel, Leaves
<1> HIDE DEF j
<1>6. Ranges'
  <2>1. high' \in 0 .. NL1 /\ \A q \in L1 : q >= high' => q >= high
    BY <1>1, <1>3 DEF L1
  <2>2. \A o \in objs \cup dead : o.start <= o.end /\ o.end < high'
    BY <1>1, <1>3, <1>4 DEF Ranges, IInv, Objects
  <2>3. ASSUME NEW v \in User, it'[v].op # "idle" PROVE it'[v].p <= it'[v].end /\ it'[v].end < high'
    <3>1. CASE v = u
      BY <1>1, <1>2, <1>3, <3>1 DEF j
    <3>2. CASE v # u
      BY <1>1, <1>2, <1>3, <2>3, <3>2, PlaceOf
    <3> QED BY <3>1, <3>2
  <2> QED BY <1>3, <1>4, <2>1, <2>2, <2>3 DEF Ranges
<1>7. \A p \in high .. high + n - 1 : p \in L1 /\ leaf[p] = "null"
  <2>1. NL1 <= NL3 * Fan3 * Fan2 /\ NL3 * Fan3 * Fan2 \in Nat
    BY TrieAssumption
  <2>2. \A p \in high .. high + n - 1 : p \in 0 .. NL3 * Fan3 * Fan2 - 1
    BY <1>1, <2>1
  <2> QED BY <1>1, <1>4, <2>2 DEF Ranges, L1
<1>8. \A o \in objs : Extent(o) \cap Claim(j) = {}
  <2>1. \A o \in objs : o.start \in Nat /\ o.end \in Nat /\ o.end < high
    BY <1>4 DEF Ranges, IInv, Objects
  <2> QED BY <1>1, <1>5, <2>1 DEF Extent
<1>9. \A v \in User : v # u => Claim(it[v]) \cap Claim(j) = {}
  <2> SUFFICES ASSUME NEW v \in User, v # u, NEW p \in Claim(it[v]), p \in Claim(j) PROVE FALSE
    OBVIOUS
  <2>1. it[v].op # "idle"
    BY ClaimOf
  <2>2. it[v].end \in Nat /\ it[v].end < high /\ it[v].p \in Nat /\ it[v].start \in Nat
    BY <2>1, PlaceOf
  <2>3. p <= it[v].end
    BY <2>1, <2>2 DEF Claim, Todo
  <2>4. p \in high .. high + n - 1
    BY <1>5
  <2> QED BY <1>1, <2>2, <2>3, <2>4
<1>10. Taken' = Taken
  BY <1>3 DEF Taken
<1>11. Claims'
  <2>1. \A o \in objs' : Extent(o) \subseteq Taken'
    BY <1>3, <1>4, <1>10 DEF Claims
  <2>2. \A o, m \in objs' : o # m => Extent(o) \cap Extent(m) = {}
    BY <1>3, <1>4 DEF Claims
  <2>3. ASSUME NEW o \in objs', NEW v \in User PROVE Extent(o) \cap Claim(it'[v]) = {}
    BY <1>2, <1>3, <1>4, <1>8 DEF Claims, j
  <2>4. ASSUME NEW v \in User, NEW w \in User, v # w PROVE Claim(it'[v]) \cap Claim(it'[w]) = {}
    <3>1. Claim(it[v]) \cap Claim(it[w]) = {}
      BY <1>4, <2>4 DEF Claims
    <3> QED BY <1>2, <1>9, <2>4, <3>1 DEF j
  <2>5. ASSUME NEW v \in User, it'[v].op = "free" PROVE Todo(it'[v]) \subseteq Taken'
    BY <1>2, <1>4, <1>10, <2>5 DEF Claims, j
  <2>6. ASSUME NEW v \in User, it'[v].op = "alloc"
        PROVE  /\ it'[v].start <= it'[v].p
               /\ it'[v].start .. it'[v].p - 1 \subseteq Taken'
               /\ \A q \in it'[v].p .. it'[v].end :
                    leaf'[q] = IF q = it'[v].p /\ it'[v].at = "write" THEN "locked" ELSE "null"
    <3>1. CASE v = u
      <4>1. high .. high - 1 = {}
        BY <1>1
      <4> QED BY <1>1, <1>2, <1>3, <1>7, <3>1, <4>1 DEF j
    <3>2. CASE v # u
      BY <1>2, <1>3, <1>4, <1>10, <2>6, <3>2 DEF Claims
    <3> QED BY <3>1, <3>2
  <2> QED BY <2>1, <2>2, <2>3, <2>4, <2>5, <2>6, Zenon DEF Claims, Extent
<1>12. Locks'
  <2>1. \A v \in User : Holding(it'[v]) => it'[v] = it[v]
    BY <1>2, <1>5 DEF j
  <2> QED BY <1>3, <1>4, <2>1 DEF Locks
<1> QED BY <1>3, <1>4, <1>6, <1>11, <1>12 DEF Pages

LEMMA FreePages ==
  ASSUME IInv, Pages, NEW u \in User, NEW o \in objs, Free(u, o), it[u].op = "idle" PROVE Pages'
<1> DEFINE j == it'[u]
<1>1. Iters /\ o.start \in Nat /\ o.end \in Nat
  BY DEF IInv, Objects
<1>2. /\ \A v \in User : v # u => it'[v] = it[v]
      /\ j.op = "free" /\ j.at = "acquire" /\ j.p = o.start /\ j.end = o.end /\ ~ j.sub
  BY <1>1, FreeTo, IterTo
<1>3. objs' = objs \ {o} /\ dead' = dead \cup {o} /\ UNCHANGED <<leaf, high, pf>>
  BY DEF Free, walk
<1>4. leaf \in [L1 -> LeafState] /\ Ranges /\ Claims /\ Locks
  BY DEF Pages
<1>5. Claim(j) = Extent(o) /\ Todo(j) = Extent(o) /\ ~ Holding(j)
  BY <1>2 DEF Claim, Todo, Extent, Holding, Rel, Leaves
<1> HIDE DEF j
<1>6. Ranges'
  <2>1. \A n \in objs' \cup dead' : n.start <= n.end /\ n.end < high
    BY <1>3, <1>4 DEF Ranges
  <2> QED BY <1>2, <1>3, <1>4, <2>1 DEF Ranges, j
<1>7. Taken' = Taken
  BY <1>3 DEF Taken
<1>8. Claims'
  <2>1. \A n \in objs' : n \in objs /\ n # o
    BY <1>3
  <2>2. \A n \in objs' : Extent(n) \subseteq Taken'
    BY <1>4, <1>7, <2>1 DEF Claims
  <2>3. \A n, m \in objs' : n # m => Extent(n) \cap Extent(m) = {}
    BY <1>4, <2>1 DEF Claims
  <2>4. ASSUME NEW n \in objs', NEW v \in User PROVE Extent(n) \cap Claim(it'[v]) = {}
    <3>1. CASE v = u
      BY <1>4, <1>5, <2>1, <3>1 DEF Claims, j
    <3>2. CASE v # u
      BY <1>2, <1>4, <2>1, <3>2 DEF Claims
    <3> QED BY <3>1, <3>2
  <2>5. ASSUME NEW v \in User, NEW w \in User, v # w PROVE Claim(it'[v]) \cap Claim(it'[w]) = {}
    <3>1. /\ Claim(it[v]) \cap Claim(it[w]) = {}
          /\ \A x \in User : Extent(o) \cap Claim(it[x]) = {}
      BY <1>4, <2>5 DEF Claims
    <3> QED BY <1>2, <1>5, <2>5, <3>1 DEF j
  <2>6. ASSUME NEW v \in User, it'[v].op = "free" PROVE Todo(it'[v]) \subseteq Taken'
    <3>1. Extent(o) \subseteq Taken /\ (it[v].op = "free" => Todo(it[v]) \subseteq Taken)
      BY <1>4 DEF Claims
    <3> QED BY <1>2, <1>5, <1>7, <2>6, <3>1 DEF j
  <2>7. ASSUME NEW v \in User, it'[v].op = "alloc"
        PROVE  /\ it'[v].start <= it'[v].p
               /\ it'[v].start .. it'[v].p - 1 \subseteq Taken'
               /\ \A q \in it'[v].p .. it'[v].end :
                    leaf'[q] = IF q = it'[v].p /\ it'[v].at = "write" THEN "locked" ELSE "null"
    <3>1. v # u
      BY <1>2, <2>7 DEF j
    <3> QED BY <1>2, <1>3, <1>4, <1>7, <2>7, <3>1 DEF Claims
  <2> QED BY <2>2, <2>3, <2>4, <2>5, <2>6, <2>7, Zenon DEF Claims, Extent
<1>9. Locks'
  <2>1. \A v \in User : Holding(it'[v]) => it'[v] = it[v]
    BY <1>2, <1>5 DEF j
  <2> QED BY <1>3, <1>4, <2>1 DEF Locks
<1> QED BY <1>3, <1>4, <1>6, <1>8, <1>9 DEF Pages

(* A thread that is not allocating and takes or gives back a lock.         *)
LEMMA LockPages ==
  ASSUME IInv, Pages, Flags, NEW u \in User, Lock(u) \/ Body(u) PROVE Pages'
<1> DEFINE i == it[u]
           j == it'[u]
           q == it[u].p
<1>1. Iters
  BY DEF IInv
<1>2. i.at \in {"lock", "body"} /\ i.op \in {"free", "probe"} /\ ~ i.sub
  <2>1. i.at \in {"lock", "body"}
    BY DEF Lock, Body
  <2>2. Remembers(i) /\ i \in IterType
    BY <1>1 DEF Flags, Iters
  <2> QED BY <2>1, <2>2 DEF Remembers, IterType, Rel, Leaves
<1>3. i.p \in L1 /\ q < high /\ i.p <= i.end /\ i.end < high /\ i.p \in Nat /\ i.end \in Nat
  BY <1>2, PlaceOf
<1>4. i.op = "free" => Todo(i) = i.p .. i.end /\ Claim(i) = i.p .. i.end /\ q \in Claim(i)
  BY <1>2, <1>3 DEF Todo, Claim, Rel, Leaves
<1>5. i.op = "probe" => Claim(i) = {}
  BY ClaimOf
<1>6. ASSUME NEW v \in User, v # u, it[v].op = "alloc", q \in it[v].p .. it[v].end
      PROVE  (q = it[v].p /\ it[v].at = "write" /\ leaf[q] = "locked") \/ leaf[q] = "null"
  BY <1>6 DEF Pages, Claims
<1>7. leaf \in [L1 -> LeafState] /\ objs' = objs /\ dead' = dead /\ high' = high /\ pf' = pf
  BY DEF Pages, Lock, Body, walk
<1>8. CASE Lock(u)
  <2>1. /\ \A v \in User : v # u => it'[v] = it[v]
        /\ j.op = i.op /\ j.p = i.p /\ j.end = i.end
        /\ (j.at = "release" /\ j.sub) \/ (j.at = "body" /\ ~ j.sub)
    BY <1>1, <1>2, <1>8, LockTo DEF Keeps
  <2>2. leaf' = [leaf EXCEPT ![q] = "locked"] /\ leaf[q] = "free"
    BY <1>8 DEF Lock
  <2>3. Claim(j) = Claim(i)
    BY <1>2, <2>1 DEF Claim, Todo, Rel, Leaves
  <2>4. \A v \in User : v # u /\ it[v].op = "alloc" => q \notin it[v].p .. it[v].end
    BY <1>6, <2>2
  <2> HIDE DEF i, j, q
  <2>5. Claims'
    BY <1>1, <1>2, <1>3, <1>7, <2>1, <2>2, <2>3, <2>4, LeafClaims DEF i, j, q
  <2>6. Locks'
    BY <1>1, <1>3, <1>7, <2>1, <2>2, LeafLocks DEF i, j, q
  <2> QED BY <1>1, <1>3, <1>7, <2>1, <2>2, <2>5, <2>6, LeafPages DEF i, j, q
<1>9. CASE Body(u)
  <2> DEFINE s == IF i.op = "free" THEN "destroyed" ELSE "free"
  <2>1. /\ \A v \in User : v # u => it'[v] = it[v]
        /\ i.at = "body" /\ j.op = i.op /\ j.end = i.end /\ ~ j.sub
        /\ \/ i.p < i.end /\ j.at = "lock" /\ j.p = i.p + 1
           \/ j.at = "release" /\ j.p = i.p
    BY <1>1, <1>2, <1>9, BodyTo
  <2>2. leaf' = [leaf EXCEPT ![q] = s] /\ s \in {"free", "locked", "destroyed"}
    BY <1>9 DEF Body
  <2>3. /\ Claim(j) \subseteq Claim(i)
        /\ s = "destroyed" => q \in Claim(i) /\ q \notin Claim(j)
    <3>1. i.op = "free" => Claim(j) = i.p + 1 .. i.end
      BY <2>1 DEF Claim, Todo, Rel, Leaves
    <3>2. i.op = "probe" => Claim(j) = {}
      BY <2>1, ClaimOf
    <3> QED BY <1>2, <1>3, <1>4, <3>1, <3>2
  <2>4. Holding(i) /\ ~ Holding(j)
    BY <2>1 DEF Holding, Rel, Leaves
  <2>5. \A v \in User : v # u /\ it[v].op = "alloc" => q \notin it[v].p .. it[v].end
    <3>1. leaf[q] = "locked" /\ \A v \in User : v # u /\ it[v].at = "write" => it[v].p # q
      BY <2>4 DEF Pages, Locks, Holding
    <3> QED BY <1>6, <3>1
  <2>6. j.p <= j.end /\ j.end < high
    BY <1>3, <2>1
  <2> HIDE DEF i, j, q, s
  <2>7. Claims'
    BY <1>1, <1>2, <1>3, <1>7, <2>1, <2>2, <2>3, <2>5, LeafClaims DEF i, j, q
  <2>8. Locks'
    BY <1>1, <1>3, <1>7, <2>1, <2>2, <2>4, LeafLocks DEF i, j, q
  <2> QED BY <1>1, <1>3, <1>7, <2>1, <2>2, <2>6, <2>7, <2>8, LeafPages DEF i, j, q
<1> QED BY <1>8, <1>9

(* A user thread that moves between the upper tables.                      *)
LEMMA TouchPages ==
  ASSUME IInv, Pages, Flags, NEW u \in User, Touch(u) PROVE Pages'
<1>1. Iters
  BY DEF IInv
<1>2. /\ it[u].at = "touch" /\ \A v \in User : v # u => it'[v] = it[v]
      /\ it'[u].op = it[u].op /\ it'[u].at = "touch" /\ it'[u].p = it[u].p
      /\ it'[u].start = it[u].start /\ it'[u].end = it[u].end
  BY <1>1, TouchTo
<1>3. it[u].op = "alloc"
  BY <1>2 DEF Flags, Remembers
<1>4. Claim(it'[u]) = Claim(it[u]) /\ ~ Holding(it'[u])
  BY <1>2, <1>3 DEF Claim, Holding, Rel, Leaves
<1>5. it[u].p <= it[u].end /\ it[u].end < high
  BY <1>3, PlaceOf
<1>6. UNCHANGED <<leaf, high, objs, dead, pf>>
  BY DEF Touch, walk
<1> QED BY <1>1, <1>2, <1>3, <1>4, <1>5, <1>6, QuietPages

LEMMA ProbePages ==
  ASSUME IInv, Pages, NEW u \in User, NEW o \in Pointers, Probe(u, o), it[u].op = "idle" PROVE Pages'
<1>1. Iters /\ o \in objs \cup dead /\ o.start \in Nat /\ o.end \in Nat
  BY DEF IInv, Objects, Pointers
<1>2. /\ \A v \in User : v # u => it'[v] = it[v]
      /\ it'[u].op = "probe" /\ it'[u].at = "acquire" /\ it'[u].p = o.start /\ it'[u].end = o.start
  BY <1>1, ProbeTo, IterTo
<1>3. o.start <= o.start /\ o.start < high
  BY <1>1 DEF Pages, Ranges, IInv, Objects
<1>4. Claim(it'[u]) = {} /\ Todo(it'[u]) = {} /\ ~ Holding(it'[u])
  BY <1>2, ClaimOf DEF Holding, Rel, Leaves
<1>5. UNCHANGED <<leaf, high, objs, dead, pf>>
  BY DEF Probe, walk
<1> QED BY <1>1, <1>2, <1>3, <1>4, <1>5, QuietPages

(* A walk that goes on, or ends, with less left to do.                     *)
LEMMA WalkPages ==
  ASSUME IInv, Pages, NEW u \in User, \A v \in User : v # u => it'[v] = it[v],
         it[u].op \in {"free", "probe"},
         \/ it'[u] = NoIter
         \/ /\ it'[u].op = it[u].op /\ it'[u].p <= it'[u].end /\ it'[u].end <= it[u].end
            /\ it'[u].end \in Nat
            /\ it[u].op = "free" => Todo(it'[u]) \subseteq Todo(it[u]),
         Holding(it'[u]) => Holding(it[u]) /\ it'[u].p = it[u].p,
         UNCHANGED <<leaf, high, objs, dead, pf>>
  PROVE  Pages'
<1>1. Iters /\ it[u].end < high /\ it[u].end \in Nat /\ high \in Nat
  BY PlaceOf DEF IInv
<1>2. CASE it'[u] = NoIter
  <2>1. it'[u].op = "idle" /\ Claim(it'[u]) = {}
    BY <1>2 DEF NoIter, Claim, Todo
  <2> QED BY <1>1, <2>1, QuietPages
<1>3. CASE it'[u] # NoIter
  <2>1. /\ it'[u].op = it[u].op /\ it'[u].p <= it'[u].end /\ it'[u].end <= it[u].end
        /\ it'[u].end \in Nat
        /\ it[u].op = "free" => Todo(it'[u]) \subseteq Todo(it[u])
    BY <1>3
  <2>2. Claim(it'[u]) \subseteq Claim(it[u])
    BY <2>1, ClaimOf
  <2>3. it'[u].end < high
    BY <1>1, <2>1
  <2> QED BY <1>1, <2>1, <2>2, <2>3, QuietPages
<1> QED BY <1>2, <1>3

LEMMA WalkingOf ==
  ASSUME IInv, Flags, NEW u \in User, it[u].at \notin {"idle", "touch", "write"}
  PROVE  it[u].op \in {"free", "probe"} /\ Remembers(it[u]) /\ it[u] \in IterType
<1>1. Remembers(it[u]) /\ it[u] \in IterType
  BY DEF Flags, IInv, Iters
<1> QED BY <1>1 DEF Remembers, IterType

LEMMA AcquirePages ==
  ASSUME IInv, Pages, Flags, NEW u \in User, Acquire(u) \/ AcquireFails(u) \/ LockFails(u)
  PROVE  Pages'
<1> DEFINE i == it[u]
           j == it'[u]
<1>1. Iters /\ i.at \in {"acquire", "lock"}
  BY DEF IInv, Acquire, AcquireFails, LockFails
<1>2. i.op \in {"free", "probe"} /\ ~ i.sub
  BY <1>1, WalkingOf DEF Remembers, Rel, Leaves
<1>3. i.p <= i.end /\ i.p \in Nat /\ i.end \in Nat
  BY <1>2, PlaceOf
<1>4. i.op = "free" => Todo(i) = i.p .. i.end
  BY <1>1 DEF Todo, Rel, Leaves
<1>5. UNCHANGED <<leaf, high, objs, dead, pf>>
  BY DEF Acquire, AcquireFails, LockFails, walk
<1>6. CASE Acquire(u)
  <2>1. /\ \A v \in User : v # u => it'[v] = it[v]
        /\ j.op = i.op /\ j.p = i.p /\ j.end = i.end
        /\ j.at \in {"acquire", "lock"} \/ (j.at = "release" /\ j.lv = 3 /\ j.sub)
    BY <1>1, <1>6, AcquireTo DEF Keeps
  <2>2. (i.op = "free" => Todo(j) = i.p .. i.end) /\ ~ Holding(j)
    BY <2>1 DEF Todo, Rel, Leaves, Holding
  <2> HIDE DEF i, j
  <2> QED BY <1>2, <1>3, <1>4, <1>5, <2>1, <2>2, WalkPages DEF i, j
<1>7. CASE AcquireFails(u)
  <2>1. /\ \A v \in User : v # u => it'[v] = it[v]
        /\ \/ j = NoIter
           \/ j.op = i.op /\ j.p = i.p /\ j.end = i.p /\ ~ j.sub /\ j.at = "release"
    BY <1>1, <1>2, <1>7, AcquireFailsTo DEF Keeps
  <2>2. ~ Holding(j)
    BY <2>1 DEF Holding, Rel, Leaves, NoIter
  <2>3. i.op = "free" /\ j # NoIter => Todo(j) = {}
    BY <1>3, <2>1 DEF Todo, Rel, Leaves
  <2> HIDE DEF i, j
  <2> QED BY <1>2, <1>3, <1>5, <2>1, <2>2, <2>3, WalkPages DEF i, j
<1>8. CASE LockFails(u)
  <2>1. /\ \A v \in User : v # u => it'[v] = it[v]
        /\ j.op = i.op /\ j.p = i.p /\ j.end = i.p /\ ~ j.sub /\ j.at = "release"
    BY <1>1, <1>2, <1>8, LockFailsTo DEF Keeps
  <2>2. ~ Holding(j)
    BY <2>1 DEF Holding, Rel, Leaves
  <2>3. i.op = "free" => Todo(j) = {}
    BY <1>3, <2>1 DEF Todo, Rel, Leaves
  <2> HIDE DEF i, j
  <2> QED BY <1>2, <1>3, <1>5, <2>1, <2>2, <2>3, WalkPages DEF i, j
<1> QED BY <1>6, <1>7, <1>8

LEMMA GoesPages ==
  ASSUME IInv, Pages, Flags, NEW u \in User, NEW g \in BOOLEAN, Goes(it[u], it'[u], g),
         \A v \in User : v # u => it'[v] = it[v], Rel(it[u]),
         UNCHANGED <<leaf, high, objs, dead, pf>>
  PROVE  Pages'
<1> DEFINE i == it[u]
           j == it'[u]
<1>1. i.op \in {"free", "probe"}
  BY WalkingOf DEF Rel, Leaves
<1>2. i.p <= i.end /\ i.p \in Nat /\ i.end \in Nat
  BY <1>1, PlaceOf
<1>3. i.op = "free" => Todo(i) = IF i.sub THEN i.p .. i.end ELSE i.p + 1 .. i.end
  BY DEF Todo
<1>4. \/ j = NoIter
      \/ j.op = i.op /\ j.end = i.end /\ j.p \in {i.p, i.p + 1} /\ j.p <= i.end /\ (i.sub => j.p = i.p)
  BY <1>2 DEF Goes, Keeps
<1>5. j # NoIter /\ i.op = "free" => Todo(j) \subseteq Todo(i)
  <2> SUFFICES ASSUME j # NoIter, i.op = "free" PROVE Todo(j) \subseteq Todo(i)
    OBVIOUS
  <2>1. CASE i.sub \/ j.p = i.p + 1
    <3>1. Todo(j) \subseteq j.p .. j.end
      <4>1. j.op = "free" /\ j.p \in Nat /\ j.end \in Nat
        BY <1>2, <1>4
      <4> QED BY <4>1 DEF Todo
    <3>2. j.p .. j.end \subseteq Todo(i)
      BY <1>2, <1>3, <1>4, <2>1
    <3> QED BY <3>1, <3>2
  <2>2. CASE ~ i.sub /\ j.p # i.p + 1
    <3>1. j.at = "release" /\ ~ j.sub /\ j.p = i.p /\ j.end = i.end /\ j.op = "free"
      BY <1>2, <2>2 DEF Goes, Keeps
    <3>2. Todo(j) = i.p + 1 .. i.end
      BY <3>1 DEF Todo, Rel
    <3> QED BY <1>3, <2>2, <3>2
  <2> QED BY <2>1, <2>2
<1>6. Holding(j) => Holding(i) /\ j.p = i.p
  <2>1. Holding(j) => i.sub /\ i.lv = 2 /\ j.p = i.p
    BY DEF Goes, Keeps, Holding, Rel, Leaves, NoIter
  <2> QED BY <2>1 DEF Holding
<1>7. j = NoIter \/ (j.end <= i.end /\ j.end \in Nat /\ j.p <= j.end /\ j.op = i.op)
  BY <1>2, <1>4
<1> HIDE DEF i, j
<1> QED BY <1>1, <1>5, <1>6, <1>7, WalkPages DEF i, j

LEMMA StayPages ==
  ASSUME IInv, Pages, Flags, NEW u \in User, \A v \in User : v # u => it'[v] = it[v],
         Rel(it[u]), Rel(it'[u]), Keeps(it[u], it'[u]), it'[u].end = it[u].end,
         it'[u].sub = it[u].sub, it'[u].lv = it[u].lv,
         UNCHANGED <<leaf, high, objs, dead, pf>>
  PROVE  Pages'
<1>1. it[u].op \in {"free", "probe"}
  BY WalkingOf DEF Rel, Leaves
<1>2. it[u].p <= it[u].end /\ it[u].end \in Nat
  BY <1>1, PlaceOf
<1>3. it'[u].op = it[u].op /\ it'[u].p = it[u].p
  BY DEF Keeps
<1>4. it[u].op = "free" => Todo(it'[u]) = Todo(it[u])
  BY <1>3 DEF Todo
<1>5. Holding(it'[u]) => Holding(it[u])
  BY DEF Holding, Rel, Leaves
<1> QED BY <1>1, <1>2, <1>3, <1>4, <1>5, WalkPages

LEMMA ReleasePages ==
  ASSUME IInv, Pages, Flags, NEW u \in User,
         Release(u) \/ Unlink(u) \/ Invalidate(u) \/ Reclaim(u)
  PROVE  Pages'
<1>1. Iters
  BY DEF IInv
<1>2. UNCHANGED <<leaf, high, objs, dead, pf>>
  BY DEF Release, Unlink, Invalidate, Reclaim, walk
<1>3. CASE Release(u)
  <2>1. Rel(it[u]) /\ \A v \in User : v # u => it'[v] = it[v]
    BY <1>1, <1>3, ReleaseTo DEF Rel
  <2>2. CASE cnt[Up(it[u].lv, it[u].p)] - Released(it[u]) = 0
    BY <1>1, <1>2, <1>3, <2>1, <2>2, ReleaseTo, StayPages DEF Rel, Leaves
  <2>3. CASE cnt[Up(it[u].lv, it[u].p)] - Released(it[u]) # 0
    BY <1>1, <1>2, <1>3, <2>1, <2>3, ReleaseTo, GoesPages
  <2> QED BY <2>2, <2>3
<1>4. CASE Unlink(u) \/ Invalidate(u)
  BY <1>1, <1>2, <1>4, UnlinkTo, StayPages DEF Rel, Leaves
<1>5. CASE Reclaim(u)
  BY <1>1, <1>2, <1>5, ReclaimTo, GoesPages DEF Rel, Leaves
<1> QED BY <1>3, <1>4, <1>5

LEMMA UserPages ==
  ASSUME IInv, Pages, Flags, NEW u \in User, UserStep(u) PROVE Pages'
<1>1. it[u].at = "idle" => it[u].op = "idle"
  BY DEF Flags, Remembers
<1>2. ASSUME NEW n \in Sizes, Alloc(u, n) PROVE Pages'
  BY <1>1, <1>2, AllocPages DEF Alloc
<1>3. ASSUME NEW o \in objs, Free(u, o) PROVE Pages'
  BY <1>1, <1>3, FreePages DEF Free
<1>4. ASSUME NEW o \in Pointers, Probe(u, o) PROVE Pages'
  BY <1>1, <1>4, ProbePages DEF Probe
<1> QED BY <1>2, <1>3, <1>4, TouchPages, TouchLeafPages, WritePages, WriteEndPages, AcquirePages,
           LockPages, ReleasePages DEF UserStep

(* The handlers: they hold a lock or none, and stay below the border.      *)
LEMMA GotoTo ==
  ASSUME NEW w \in WalkType, NEW a, NEW n
  PROVE  Goto(w, a, n).p = w.p /\ Goto(w, a, n).at = a
BY DEF Goto, WalkType

LEMMA BelowTo ==
  ASSUME NEW w \in WalkType
  PROVE  Below(w).p = w.p /\ Below(w).at # "hold"
<1> DEFINE c == [w EXCEPT !.cached = FALSE]
<1>1. c \in WalkType /\ c.p = w.p
  <2>1. c \in WalkType
    BY SetWalk
  <2>2. c.p = w.p
    BY DEF WalkType
  <2> QED BY <2>1, <2>2
<1>2. Below(w) = IF w.lv = 3 THEN Goto(c, "load", 2) ELSE Goto(c, "try", 1)
  BY DEF Below
<1> HIDE DEF c
<1>3. Goto(c, "load", 2).p = c.p /\ Goto(c, "load", 2).at = "load"
  BY <1>1, GotoTo
<1>4. Goto(c, "try", 1).p = c.p /\ Goto(c, "try", 1).at = "try"
  BY <1>1, GotoTo
<1> QED BY <1>1, <1>2, <1>3, <1>4

LEMMA WalkFrame ==
  ASSUME Walks, NEW h \in Handler, NEW w, pf' = [pf EXCEPT ![h] = w]
  PROVE  pf'[h] = w /\ \A g \in Handler : g # h => pf'[g] = pf[g]
BY DEF Walks

LEMMA QuietWalk ==
  ASSUME IInv, Pages, NEW h \in Handler, NEW w, pf' = [pf EXCEPT ![h] = w],
         w.p \in L1, w.at # "hold", UNCHANGED <<leaf, high, objs, dead, it>>
  PROVE  Pages'
<1>1. pf'[h] = w /\ \A g \in Handler : g # h => pf'[g] = pf[g]
  BY WalkFrame DEF IInv
<1>2. Ranges'
  BY <1>1 DEF Pages, Ranges
<1>3. Taken' = Taken
  BY DEF Taken
<1>4. Claims'
  BY <1>3, Zenon DEF Pages, Claims
<1>5. Locks'
  <2>1. \A g \in Handler : pf'[g].at = "hold" => pf'[g] = pf[g]
    BY <1>1
  <2> QED BY <2>1 DEF Pages, Locks
<1> QED BY <1>2, <1>4, <1>5 DEF Pages

LEMMA LeafWalk ==
  ASSUME IInv, Pages, NEW h \in Handler, NEW w, pf' = [pf EXCEPT ![h] = w], w.p \in L1,
         NEW s \in {"free", "locked"}, leaf' = [leaf EXCEPT ![pf[h].p] = s],
         \/ leaf[pf[h].p] = "free" /\ s = "locked" /\ w.p = pf[h].p
         \/ pf[h].at = "hold" /\ s = "free" /\ w.at # "hold",
         UNCHANGED <<high, objs, dead, it>>
  PROVE  Pages'
<1> DEFINE q == pf[h].p
<1>1. pf'[h] = w /\ \A g \in Handler : g # h => pf'[g] = pf[g]
  BY WalkFrame DEF IInv
<1>2. leaf \in [L1 -> LeafState] /\ Ranges /\ Claims /\ Locks /\ q \in L1
  BY DEF Pages, Ranges
<1>3. leaf[q] \in {"free", "locked"}
  BY <1>2 DEF Locks
<1>4. leaf' \in [L1 -> LeafState] /\ Taken' = Taken
  BY <1>2, <1>3 DEF LeafState, Taken
<1>5. q < high
  BY <1>2, <1>3 DEF Ranges, L1
<1>6. Ranges'
  <2>1. \A p \in L1 : p >= high => leaf'[p] = "null"
    BY <1>2, <1>5 DEF Ranges, L1
  <2> QED BY <1>1, <1>2, <2>1 DEF Ranges
<1>7. ASSUME NEW v \in User, it[v].op = "alloc" PROVE q \notin it[v].p .. it[v].end
  <2> SUFFICES ASSUME q \in it[v].p .. it[v].end PROVE FALSE
    OBVIOUS
  <2>1. leaf[q] = "locked" /\ q = it[v].p /\ it[v].at = "write"
    BY <1>2, <1>3, <1>7 DEF Claims
  <2>2. Holding(it[v])
    BY <2>1 DEF Holding
  <2> QED BY <1>2, <2>1, <2>2 DEF Locks
<1>8. Claims'
  <2>1. ASSUME NEW v \in User, it[v].op = "alloc"
        PROVE  \A p \in it[v].p .. it[v].end :
                 leaf'[p] = IF p = it[v].p /\ it[v].at = "write" THEN "locked" ELSE "null"
    BY <1>2, <1>7, <2>1 DEF Claims
  <2>2. \A v \in User : it[v].op = "free" => Todo(it[v]) \subseteq Taken'
    BY <1>2, <1>4 DEF Claims
  <2>3. \A v \in User : it[v].op = "alloc" =>
          it[v].start <= it[v].p /\ it[v].start .. it[v].p - 1 \subseteq Taken'
    BY <1>2, <1>4 DEF Claims
  <2>4. \A o \in objs : Extent(o) \subseteq Taken'
    BY <1>2, <1>4 DEF Claims
  <2>5. /\ \A o, n \in objs : o # n => Extent(o) \cap Extent(n) = {}
        /\ \A o \in objs, v \in User : Extent(o) \cap Claim(it[v]) = {}
        /\ \A v, x \in User : v # x => Claim(it[v]) \cap Claim(it[x]) = {}
    BY <1>2 DEF Claims
  <2>6. /\ \A o, n \in objs' : o # n => Extent(o) \cap Extent(n) = {}
        /\ \A o \in objs', v \in User : Extent(o) \cap Claim(it'[v]) = {}
        /\ \A v, x \in User : v # x => Claim(it'[v]) \cap Claim(it'[x]) = {}
    BY <2>5
  <2>7. \A o \in objs' : Extent(o) \subseteq Taken'
    BY <2>4
  <2>8. /\ \A v \in User : it'[v].op = "free" => Todo(it'[v]) \subseteq Taken'
        /\ \A v \in User : it'[v].op = "alloc" =>
             /\ it'[v].start <= it'[v].p
             /\ it'[v].start .. it'[v].p - 1 \subseteq Taken'
             /\ \A p \in it'[v].p .. it'[v].end :
                  leaf'[p] = IF p = it'[v].p /\ it'[v].at = "write" THEN "locked" ELSE "null"
    BY <2>1, <2>2, <2>3
  <2> QED BY <2>6, <2>7, <2>8, Zenon DEF Claims, Extent
<1> HIDE DEF q
<1>9. Locks'
  <2>1. ASSUME NEW v \in User, Holding(it[v]) PROVE it[v].p # q
    BY <1>2, <2>1 DEF Locks, q
  <2>2. ASSUME NEW g \in Handler, g # h, pf[g].at = "hold" PROVE pf[g].p # q
    BY <1>2, <2>2 DEF Locks, q
  <2>3. \A v \in User : Holding(it'[v]) => leaf'[it'[v].p] = "locked"
    BY <1>2, <2>1 DEF Locks, q
  <2>4. \A g \in Handler : pf'[g].at = "hold" => leaf'[pf'[g].p] = "locked"
    BY <1>1, <1>2, <2>2 DEF Locks, q
  <2>5. \A v, x \in User : v # x /\ Holding(it'[v]) /\ Holding(it'[x]) => it'[v].p # it'[x].p
    BY <1>2 DEF Locks
  <2>6. \A g, f \in Handler : g # f /\ pf'[g].at = "hold" /\ pf'[f].at = "hold" => pf'[g].p # pf'[f].p
    BY <1>1, <1>2, <2>2 DEF Locks, q
  <2>7. \A v \in User, g \in Handler : Holding(it'[v]) /\ pf'[g].at = "hold" => it'[v].p # pf'[g].p
    BY <1>1, <1>2, <2>1 DEF Locks, q
  <2> QED BY <2>3, <2>4, <2>5, <2>6, <2>7, Zenon DEF Locks
<1> QED BY <1>4, <1>6, <1>8, <1>9 DEF Pages

LEMMA ZeroIsLeaf == 0 \in L1 /\ NoWalk.p = 0 /\ NoWalk.at = "idle"
<1>1. NL3 * Fan3 * Fan2 \in Nat \ {0}
  BY TrieAssumption
<1> QED BY <1>1 DEF L1, NoWalk

LEMMA WalkSteps ==
  ASSUME IInv, Pages, NEW h \in Handler,
         ReadCache(h) \/ Map(h) \/ Check(h) \/ Load(h) \/ Store(h) \/ Verify(h)
  PROVE  Pages'
<1>1. pf[h] \in WalkType /\ pf[h].p \in L1
  BY WalkOf DEF IInv, Pages, Ranges
<1>2. UNCHANGED <<leaf, high, objs, dead, it>>
  BY DEF ReadCache, Map, Check, Load, Store, Verify, user
<1>3. ASSUME NEW w, pf' = [pf EXCEPT ![h] = w], w.p = pf[h].p, w.at # "hold" PROVE Pages'
  BY <1>1, <1>2, <1>3, QuietWalk
<1>4. ASSUME pf' = [pf EXCEPT ![h] = NoWalk] PROVE Pages'
  BY <1>2, <1>4, ZeroIsLeaf, QuietWalk
<1>5. ASSUME NEW a, a # "hold", NEW n, pf' = [pf EXCEPT ![h] = Goto(pf[h], a, n)] PROVE Pages'
  <2> DEFINE w == Goto(pf[h], a, n)
  <2>1. w.p = pf[h].p /\ w.at = a
    BY <1>1, GotoTo
  <2>2. pf' = [pf EXCEPT ![h] = w]
    BY <1>5
  <2> HIDE DEF w
  <2> QED BY <1>3, <1>5, <2>1, <2>2
<1>6. CASE ReadCache(h)
  <2>1. ASSUME NEW n, pf' = [pf EXCEPT ![h] = [Goto(pf[h], "map", n) EXCEPT !.cached = TRUE]] PROVE Pages'
    <3>1. /\ [Goto(pf[h], "map", n) EXCEPT !.cached = TRUE].p = pf[h].p
          /\ [Goto(pf[h], "map", n) EXCEPT !.cached = TRUE].at = "map"
      BY <1>1 DEF Goto, WalkType
    <3> QED BY <1>3, <2>1, <3>1
  <2> QED BY <1>5, <1>6, <2>1 DEF ReadCache
<1>7. CASE Map(h)
  <2>1. PICK k : pf' = [pf EXCEPT ![h] =
          IF k = None THEN NoWalk
          ELSE [pf[h] EXCEPT !.k[pf[h].lv] = k, !.at = IF pf[h].cached THEN "check" ELSE "store"]]
    BY <1>7 DEF Map
  <2> DEFINE w == [pf[h] EXCEPT !.k[pf[h].lv] = k, !.at = IF pf[h].cached THEN "check" ELSE "store"]
  <2>2. w.p = pf[h].p /\ w.at # "hold"
    BY <1>1 DEF WalkType
  <2>3. pf' = [pf EXCEPT ![h] = NoWalk] \/ pf' = [pf EXCEPT ![h] = w]
    BY <2>1
  <2> HIDE DEF w
  <2> QED BY <1>3, <1>4, <2>2, <2>3
<1>8. CASE Check(h)
  <2>1. CASE pf' = [pf EXCEPT ![h] = Below(pf[h])]
    BY <1>1, <1>3, <2>1, BelowTo
  <2>2. CASE pf' = [pf EXCEPT ![h] = Goto([pf[h] EXCEPT !.cached = FALSE], "load", 3)]
    <3> DEFINE c == [pf[h] EXCEPT !.cached = FALSE]
               w == Goto(c, "load", 3)
    <3>1. c.p = pf[h].p
      BY <1>1 DEF WalkType
    <3>2. c \in WalkType
      BY <1>1, SetWalk
    <3>3. pf' = [pf EXCEPT ![h] = w]
      BY <2>2
    <3> HIDE DEF c
    <3>4. w.p = c.p /\ w.at = "load"
      BY <3>2, GotoTo
    <3> HIDE DEF w
    <3> QED BY <1>3, <3>1, <3>3, <3>4
  <2> QED BY <1>5, <1>8, <2>1, <2>2 DEF Check
<1>9. CASE Load(h)
  BY <1>4, <1>5, <1>9 DEF Load
<1>10. CASE Store(h)
  <2>1. [pf[h] EXCEPT !.at = "verify"].p = pf[h].p /\ [pf[h] EXCEPT !.at = "verify"].at = "verify"
    BY <1>1 DEF WalkType
  <2> QED BY <1>3, <1>10, <2>1 DEF Store
<1>11. CASE Verify(h)
  <2>1. pf' = [pf EXCEPT ![h] = Below(pf[h])] \/ pf' = [pf EXCEPT ![h] = NoWalk]
    BY <1>11 DEF Verify
  <2> QED BY <1>1, <1>3, <1>4, <2>1, BelowTo
<1> QED BY <1>6, <1>7, <1>8, <1>9, <1>10, <1>11

LEMMA HoldSteps ==
  ASSUME IInv, Pages, NEW h \in Handler, TryLock(h) \/ Finish(h) \/ NextTable(h)
  PROVE  Pages'
<1>1. pf[h] \in WalkType /\ pf[h].p \in L1
  BY WalkOf DEF IInv, Pages, Ranges
<1>2. UNCHANGED <<high, objs, dead, it>>
  BY DEF TryLock, Finish, NextTable, user
<1>3. CASE TryLock(h)
  <2>1. [pf[h] EXCEPT !.at = "hold"].p = pf[h].p
    BY <1>1 DEF WalkType
  <2>2. CASE pf[h].k[2] # Foreign /\ leaf[pf[h].p] = "free"
    BY <1>1, <1>2, <1>3, <2>1, <2>2, LeafWalk DEF TryLock
  <2>3. CASE ~ (pf[h].k[2] # Foreign /\ leaf[pf[h].p] = "free")
    BY <1>2, <1>3, <2>3, ZeroIsLeaf, QuietWalk DEF TryLock
  <2> QED BY <2>2, <2>3
<1>4. CASE Finish(h)
  BY <1>2, <1>4, ZeroIsLeaf, LeafWalk DEF Finish
<1>5. CASE NextTable(h)
  <2> DEFINE n == [pf[h] EXCEPT !.p = @ + 1, !.first = FALSE]
  <2>1. n \in WalkType /\ n.p = pf[h].p + 1
    <3>1. pf[h].p + 1 \in Nat /\ n.p = pf[h].p + 1
      BY <1>1 DEF WalkType
    <3>2. n \in WalkType
      BY <1>1, <3>1, SetWalk
    <3> QED BY <3>1, <3>2
  <2>2. pf[h].p \in Nat /\ pf[h].p + 1 \in L1 /\ pf[h].at = "hold" /\ leaf' = [leaf EXCEPT ![pf[h].p] = "free"]
    BY <1>1, <1>5 DEF NextTable, WalkType
  <2>3. \E a \in {"try", "cache", "load"}, m \in 1 .. 3 : pf' = [pf EXCEPT ![h] = Goto(n, a, m)]
    <3>1. pf' = [pf EXCEPT ![h] =
            CASE Step(pf[h].p) = 1 -> Goto(n, "try", 1)
              [] Step(pf[h].p) = 2 -> IF pf[h].k[3] = None THEN Goto(n, "cache", 3) ELSE Goto(n, "load", 2)
              [] Step(pf[h].p) = 3 -> Goto(n, "load", 3)]
      BY <1>5 DEF NextTable
    <3> HIDE DEF n
    <3>2. Step(pf[h].p) = 1 \/ Step(pf[h].p) = 2 \/ Step(pf[h].p) = 3
      BY <2>2, StepIs
    <3>3. CASE Step(pf[h].p) = 1
      BY <3>1, <3>3
    <3>4. CASE Step(pf[h].p) = 2
      <4>1. CASE pf[h].k[3] = None
        BY <3>1, <3>4, <4>1
      <4>2. CASE pf[h].k[3] # None
        BY <3>1, <3>4, <4>2
      <4> QED BY <4>1, <4>2
    <3>5. CASE Step(pf[h].p) = 3
      BY <3>1, <3>5
    <3> QED BY <3>2, <3>3, <3>4, <3>5
  <2> HIDE DEF n
  <2>4. PICK a \in {"try", "cache", "load"}, m \in 1 .. 3 : pf' = [pf EXCEPT ![h] = Goto(n, a, m)]
    BY <2>3
  <2> DEFINE w == Goto(n, a, m)
  <2>5. w.p = n.p /\ w.at = a
    BY <2>1, GotoTo
  <2>6. pf' = [pf EXCEPT ![h] = w]
    BY <2>4
  <2> HIDE DEF w
  <2> QED BY <1>2, <2>1, <2>2, <2>5, <2>6, LeafWalk
<1> QED BY <1>3, <1>4, <1>5

LEMMA HandlerPages ==
  ASSUME IInv, Pages, NEW h \in Handler, HandlerStep(h) PROVE Pages'
<1>1. ASSUME NEW o \in Pointers, NEW p \in o.start .. o.end, Fault(h, p) PROVE Pages'
  <2>1. o.start \in Nat /\ o.end \in Nat /\ o.end < high /\ high \in Nat /\ high <= NL1
    BY DEF Pointers, IInv, Objects, Pages, Ranges
  <2>2. NL1 \in Nat /\ NL1 <= NL3 * Fan3 * Fan2 /\ NL3 * Fan3 * Fan2 \in Nat
    BY TrieAssumption
  <2>3. p \in 0 .. NL3 * Fan3 * Fan2 - 1
    BY <2>1, <2>2
  <2> DEFINE w == [NoWalk EXCEPT !.at = "cache", !.lv = 3, !.p = p]
  <2>4. w.p = p /\ w.at = "cache"
    BY DEF NoWalk
  <2>5. pf' = [pf EXCEPT ![h] = w] /\ UNCHANGED <<leaf, high, objs, dead, it>>
    BY <1>1 DEF Fault, user
  <2> HIDE DEF w
  <2> QED BY <2>3, <2>4, <2>5, QuietWalk DEF L1
<1> QED BY <1>1, WalkSteps, HoldSteps DEF HandlerStep

-----------------------------------------------------------------------------
(* Flags: what an iterator remembers.  (A thread that reclaims a table has *)
(* not crossed out of another: this is shown with the counts.)             *)
LEMMA KeepFlags ==
  ASSUME Flags, NEW u \in User, \A v \in User : v # u => it'[v] = it[v], Remembers(it'[u])
  PROVE  Flags'
BY DEF Flags

LEMMA GoesRemembers ==
  ASSUME NEW i \in IterType, NEW j, NEW g \in BOOLEAN, Remembers(i), Rel(i), Goes(i, j, g), i.sub => ~ g
  PROVE  Remembers(j)
<1>1. i.op \in {"free", "probe"}
  BY DEF Remembers, IterType, Rel, Leaves
<1>2. i.op = "probe" => i.by = 0 /\ i.p = i.end /\ i.p \in Nat
  BY DEF Remembers, IterType
<1>3. CASE /\ i.sub /\ i.lv = 2 /\ Keeps(i, j) /\ j.end = i.end /\ j.by = i.by
           /\ j.at = "body" /\ j.lv = 1 /\ ~ j.sub /\ j.last = g
  BY <1>1, <1>2, <1>3 DEF Remembers, Keeps
<1>4. CASE /\ i.sub /\ i.lv = 3 /\ Keeps(i, j) /\ j.end = i.end /\ j.by = i.by
           /\ j.at = "lock" /\ j.lv = 1 /\ ~ j.sub /\ j.last = g
  BY <1>1, <1>2, <1>4 DEF Remembers, Keeps
<1>5. CASE /\ ~ i.sub /\ i.lv = 2 /\ i.p < i.end /\ Step(i.p) = 2
           /\ j.op = i.op /\ j.start = i.start /\ j.end = i.end /\ j.by = 2
           /\ j.at = "acquire" /\ j.lv = 2 /\ ~ j.sub /\ j.last = g /\ j.p = i.p + 1
  BY <1>1, <1>2, <1>5 DEF Remembers
<1>6. CASE /\ ~ i.sub /\ i.lv = 2 /\ Keeps(i, j) /\ j.end = i.end /\ j.by = i.by
           /\ j.at = "release" /\ j.lv = 3 /\ ~ j.sub /\ j.last = g
  BY <1>1, <1>2, <1>6 DEF Remembers, Keeps
<1>7. CASE /\ ~ i.sub /\ i.lv = 3 /\ i.p < i.end
           /\ j.op = i.op /\ j.start = i.start /\ j.end = i.end /\ j.by = 3
           /\ j.at = "acquire" /\ j.lv = 3 /\ ~ j.sub /\ j.last = i.last /\ j.p = i.p + 1
  BY <1>1, <1>2, <1>7 DEF Remembers
<1>8. CASE j = NoIter
  BY <1>8 DEF Remembers, NoIter
<1> QED BY <1>3, <1>4, <1>5, <1>6, <1>7, <1>8 DEF Goes

LEMMA UserFlags ==
  ASSUME IInv, Flags, NEW u \in User, UserStep(u), it[u].at = "reclaim" => ~ it[u].sub
  PROVE  Flags'
<1> DEFINE i == it[u]
           j == it'[u]
<1>1. Iters /\ i \in IterType /\ Remembers(i)
  BY DEF IInv, Iters, Flags
<1>2. ASSUME NEW n \in Sizes, Alloc(u, n) PROVE Flags'
  <2>1. Remembers(j)
    BY <1>1, <1>2, AllocTo DEF Remembers
  <2> QED BY <1>1, <1>2, <2>1, AllocTo, KeepFlags
<1>3. ASSUME NEW o \in objs, Free(u, o) PROVE Flags'
  <2>1. Remembers(j)
    BY <1>1, <1>3, FreeTo, IterTo DEF Remembers
  <2> QED BY <1>1, <1>3, <2>1, FreeTo, KeepFlags
<1>4. ASSUME NEW o \in Pointers, Probe(u, o) PROVE Flags'
  <2>1. Remembers(j)
    BY <1>1, <1>4, ProbeTo, IterTo DEF Remembers
  <2> QED BY <1>1, <1>4, <2>1, ProbeTo, KeepFlags
<1>5. CASE Touch(u)
  <2>1. i.lv \in {2, 3} /\ i.at = "touch"
    BY <1>1, <1>5, TouchTo DEF Level
  <2>2. /\ j.op = i.op /\ j.at = "touch" /\ j.lv \in 1 .. 3 /\ j.by = i.by /\ j.p = i.p
        /\ j.end = i.end /\ j.last = i.last /\ j.sub = i.sub
    BY <1>1, <1>5, <2>1, TouchTo
  <2>3. Remembers(j)
    BY <1>1, <2>1, <2>2 DEF Remembers, Rel, Leaves
  <2> QED BY <1>1, <1>5, <2>3, TouchTo, KeepFlags
<1>6. CASE TouchLeaf(u)
  <2>1. Remembers(j)
    BY <1>1, <1>6, TouchLeafTo DEF Remembers, Rel, Leaves
  <2> QED BY <1>1, <1>6, <2>1, TouchLeafTo, KeepFlags
<1>7. CASE Write(u)
  <2>1. Step(i.p) \in 1 .. 3
    BY <1>1, StepIs DEF IterType
  <2>2. CASE i.p = i.end
    <3>1. Remembers(j)
      BY <1>1, <1>7, <2>2, WriteTo DEF Remembers, NoIter
    <3> QED BY <1>1, <1>7, <3>1, WriteTo, KeepFlags
  <2>3. CASE i.p # i.end
    <3>1. Remembers(j)
      BY <1>1, <1>7, <2>1, <2>3, WriteTo DEF Remembers, Rel, Leaves
    <3> QED BY <1>1, <1>7, <3>1, WriteTo, KeepFlags
  <2> QED BY <2>2, <2>3
<1>8. CASE Acquire(u)
  <2>1. Remembers(j)
    BY <1>1, <1>8, AcquireTo DEF Remembers, Keeps, Rel, Leaves
  <2> QED BY <1>1, <1>8, <2>1, AcquireTo, KeepFlags
<1>9. CASE AcquireFails(u)
  <2>1. CASE j = NoIter
    <3>1. Remembers(j)
      BY <2>1 DEF Remembers, NoIter
    <3> QED BY <1>1, <1>9, <3>1, AcquireFailsTo, KeepFlags
  <2>2. CASE j # NoIter
    <3>1. Remembers(j)
      <4>1. /\ i.at = "acquire" /\ i.lv = 2 /\ j.at = "release" /\ j.lv = 3 /\ j.op = i.op
            /\ j.p = i.p /\ j.end = i.p /\ j.by = i.by /\ j.sub = i.sub
            /\ j.last \in (IF i.by = 0 THEN LastChoices ELSE IF i.by = 2 THEN {i.last} ELSE {FALSE})
        BY <1>1, <1>9, <2>2, AcquireFailsTo DEF Keeps
      <4>2. ~ i.sub
        BY <1>1, <4>1 DEF Remembers, Rel, Leaves
      <4>3. j.op # "idle" /\ j.op # "alloc" /\ ~ j.sub /\ (j.op = "probe" => j.by = 0 /\ j.p = j.end)
        BY <1>1, <4>1, <4>2 DEF Remembers
      <4> QED BY <4>1, <4>3 DEF Remembers
    <3> QED BY <1>1, <1>9, <3>1, AcquireFailsTo, KeepFlags
  <2> QED BY <2>1, <2>2
<1>10. CASE Lock(u)
  <2>1. Remembers(j)
    BY <1>1, <1>10, LockTo DEF Remembers, Keeps, Rel, Leaves
  <2> QED BY <1>1, <1>10, <2>1, LockTo, KeepFlags
<1>11. CASE LockFails(u)
  <2>1. Remembers(j)
    BY <1>1, <1>11, LockFailsTo DEF Remembers, Keeps, Rel, Leaves
  <2> QED BY <1>1, <1>11, <2>1, LockFailsTo, KeepFlags
<1>12. CASE Body(u)
  <2>1. i.op \in {"free", "probe"} /\ ~ i.sub /\ i.lv = 1 /\ i.at = "body"
    BY <1>1, <1>12, BodyTo DEF Remembers, IterType, Rel, Leaves
  <2>2. i.op = "probe" => i.by = 0 /\ i.p = i.end /\ i.p \in Nat
    BY <1>1 DEF Remembers, IterType
  <2>3. Remembers(j)
    BY <1>1, <1>12, <2>1, <2>2, BodyTo DEF Remembers
  <2> QED BY <1>1, <1>12, <2>3, BodyTo, KeepFlags
<1>13. ASSUME NEW g \in BOOLEAN, Goes(i, j, g), Rel(i), i.sub => ~ g,
             \A v \in User : v # u => it'[v] = it[v]
       PROVE  Flags'
  BY <1>1, <1>13, GoesRemembers, KeepFlags
<1>14. CASE Release(u)
  <2>1. Rel(i) /\ i.at = "release" /\ \A v \in User : v # u => it'[v] = it[v]
    BY <1>1, <1>14, ReleaseTo DEF Rel
  <2>2. CASE cnt[Up(i.lv, i.p)] - Released(i) = 0
    <3>1. Remembers(j)
      BY <1>1, <1>14, <2>1, <2>2, ReleaseTo DEF Remembers, Keeps, Rel, Leaves
    <3> QED BY <2>1, <3>1, KeepFlags
  <2>3. CASE cnt[Up(i.lv, i.p)] - Released(i) # 0
    BY <1>1, <1>13, <1>14, <2>1, <2>3, ReleaseTo
  <2> QED BY <2>2, <2>3
<1>15. CASE Unlink(u) \/ Invalidate(u)
  <2>1. Remembers(j)
    BY <1>1, <1>15, UnlinkTo DEF Remembers, Keeps, Rel, Leaves
  <2> QED BY <1>1, <1>15, <2>1, UnlinkTo, KeepFlags
<1>16. CASE Reclaim(u)
  <2>1. Rel(i) /\ ~ i.sub /\ Goes(i, j, TRUE) /\ \A v \in User : v # u => it'[v] = it[v]
    BY <1>1, <1>16, ReclaimTo DEF Rel, Leaves
  <2> QED BY <1>13, <2>1
<1> QED BY <1>2, <1>3, <1>4, <1>5, <1>6, <1>7, <1>8, <1>9, <1>10, <1>11, <1>12, <1>14, <1>15, <1>16
        DEF UserStep

-----------------------------------------------------------------------------
(* The tables: every entry has its place below one table of each level.    *)
LEMMA Grows ==
  ASSUME NEW h \in Nat, NEW a \in Int, NEW b \in Int, a <= b
  PROVE  a * h <= b * h /\ a * h \in Int /\ b * h \in Int
<1>1. (b - a) * h >= 0
  OBVIOUS
<1>2. (b - a) * h = b * h - a * h
  OBVIOUS
<1> QED BY <1>1, <1>2

LEMMA Divides ==
  ASSUME NEW h \in Nat \ {0}, NEW x \in Nat
  PROVE  /\ x \div h \in Nat /\ (x \div h) * h <= x /\ x < (x \div h) * h + h
         /\ \A q \in Nat : q * h <= x /\ x < q * h + h => x \div h = q
<1> DEFINE d == x \div h
<1>1. d \in Int /\ x = d * h + (x % h) /\ 0 <= x % h /\ x % h < h /\ d * h \in Int /\ x % h \in Int
  OBVIOUS
<1> HIDE DEF d
<1>2. \A a, b \in Int : a + 1 <= b => a * h + h <= b * h
  <2> TAKE a, b \in Int
  <2>1. (a + 1) * h = a * h + h
    OBVIOUS
  <2> QED BY <2>1, Grows
<1>3. d \in Nat
  <2>1. ASSUME d + 1 <= 0 PROVE FALSE
    <3>1. d * h + h <= 0 * h
      BY <1>1, <1>2, <2>1
    <3> QED BY <1>1, <3>1
  <2> QED BY <1>1, <2>1
<1>4. ASSUME NEW q \in Nat, q * h <= x, x < q * h + h PROVE d = q
  <2>1. q * h \in Int
    OBVIOUS
  <2>2. ~ (d + 1 <= q)
    <3>1. d + 1 <= q => d * h + h <= q * h
      BY <1>2, <1>3
    <3> QED BY <1>1, <1>4, <2>1, <3>1
  <2>3. ~ (q + 1 <= d)
    <3>1. q + 1 <= d => q * h + h <= d * h
      BY <1>2, <1>3
    <3> QED BY <1>1, <1>4, <2>1, <3>1
  <2> QED BY <1>3, <2>2, <2>3
<1> QED BY <1>1, <1>3, <1>4 DEF d

LEMMA Fans == Fan2 \in Nat \ {0} /\ Fan3 \in Nat \ {0} /\ NL3 \in Nat \ {0} /\ Fan2 * Fan3 \in Nat \ {0}
BY TrieAssumption

LEMMA DivDiv ==
  ASSUME NEW p \in Nat
  PROVE  (p \div Fan2) \div Fan3 = p \div (Fan2 * Fan3)
<1> DEFINE q == p \div Fan2
           s == q \div Fan3
<1>1. q \in Nat /\ q * Fan2 <= p /\ p < q * Fan2 + Fan2
  BY Fans, Divides
<1>2. s \in Nat /\ s * Fan3 <= q /\ q < s * Fan3 + Fan3
  BY <1>1, Fans, Divides
<1> HIDE DEF q, s
<1>3. s * Fan3 \in Nat /\ s * Fan3 + Fan3 - 1 \in Int /\ q <= s * Fan3 + Fan3 - 1
  BY <1>1, <1>2, Fans
<1>4. (s * Fan3) * Fan2 <= q * Fan2
  BY <1>1, <1>2, <1>3, Fans, Grows
<1>5. q * Fan2 <= (s * Fan3 + Fan3 - 1) * Fan2
  BY <1>1, <1>3, Fans, Grows
<1>6. (s * Fan3) * Fan2 = s * (Fan2 * Fan3)
  BY <1>2, Fans
<1>7. (s * Fan3 + Fan3 - 1) * Fan2 = s * (Fan2 * Fan3) + Fan2 * Fan3 - Fan2
  BY <1>2, Fans
<1>8. s * (Fan2 * Fan3) <= p /\ p < s * (Fan2 * Fan3) + Fan2 * Fan3
  <2>1. q * Fan2 \in Int /\ s * (Fan2 * Fan3) \in Int
    BY <1>1, <1>2, Fans
  <2> QED BY <1>1, <1>4, <1>5, <1>6, <1>7, <2>1, Fans
<1>9. p \div (Fan2 * Fan3) = s
  BY <1>2, <1>8, Fans, Divides
<1> QED BY <1>9 DEF q, s

LEMMA UpTo ==
  ASSUME NEW p \in Nat
  PROVE  /\ Up(2, p) = <<2, p \div Fan2>> /\ Up(3, p) = <<3, (p \div Fan2) \div Fan3>>
         /\ p \div Fan2 \in Nat /\ (p \div Fan2) \div Fan3 \in Nat
<1>1. p \div Fan2 \in Nat
  BY Fans, Divides
<1>2. (p \div Fan2) \div Fan3 \in Nat
  BY <1>1, Fans, Divides
<1>3. Up(2, p) = <<2, p \div Fan2>> /\ Up(3, p) = <<3, p \div (Fan2 * Fan3)>>
  BY DEF Up
<1> QED BY <1>1, <1>2, <1>3, DivDiv

(* A quotient is below the bound when the number is.                       *)
LEMMA Below2 ==
  ASSUME NEW h \in Nat \ {0}, NEW x \in Nat, NEW m \in Nat, x < m * h
  PROVE  x \div h < m
<1>1. x \div h \in Nat /\ (x \div h) * h <= x
  BY Divides
<1>2. ASSUME m <= x \div h PROVE FALSE
  <2>1. m * h <= (x \div h) * h
    BY <1>1, <1>2, Grows
  <2>2. m * h \in Int /\ (x \div h) * h \in Int
    BY <1>1
  <2> QED BY <1>1, <2>1, <2>2
<1> QED BY <1>1, <1>2

LEMMA LeafIs ==
  ASSUME NEW p \in L1
  PROVE  p \in Nat /\ p < (NL3 * Fan3) * Fan2
<1>1. NL3 * Fan3 * Fan2 \in Nat
  BY Fans
<1> QED BY <1>1 DEF L1

LEMMA UpInNode ==
  ASSUME NEW p \in L1
  PROVE  /\ Up(2, p) \in Node /\ Up(3, p) \in Node
         /\ p \in Kids(Up(2, p)) /\ Up(2, p) \in Kids(Up(3, p))
         /\ Up(2, p)[1] = 2 /\ Up(3, p)[1] = 3 /\ Up(3, p)[2] = Up(2, p)[2] \div Fan3
<1>1. p \in Nat /\ p < (NL3 * Fan3) * Fan2
  BY LeafIs
<1>2. NL3 * Fan3 \in Nat
  BY Fans
<1>3. p \div Fan2 \in Nat /\ p \div Fan2 < NL3 * Fan3
  BY <1>1, <1>2, Fans, Divides, Below2
<1>4. (p \div Fan2) \div Fan3 \in Nat /\ (p \div Fan2) \div Fan3 < NL3
  BY <1>3, Fans, Divides, Below2
<1>5. Up(2, p) \in Node /\ Up(3, p) \in Node
  BY <1>1, <1>2, <1>3, <1>4, UpTo, Fans DEF Node
<1>6. Up(2, p)[1] = 2 /\ Up(3, p)[1] = 3 /\ Up(3, p)[2] = Up(2, p)[2] \div Fan3
  <2>1. Up(2, p) = <<2, p \div Fan2>> /\ Up(3, p) = <<3, (p \div Fan2) \div Fan3>>
    BY <1>1, UpTo
  <2> QED BY <2>1
<1> QED BY <1>5, <1>6 DEF Kids

LEMMA KidsCount ==
  ASSUME NEW x \in Node
  PROVE  IsFiniteSet(Kids(x)) /\ Cardinality(Kids(x)) = Fan(x) /\ Fan(x) \in Nat \ {0}
<1>1. CASE x[1] = 2
  <2>1. PICK n \in 0 .. NL3 * Fan3 - 1 : x = <<2, n>>
    BY <1>1 DEF Node
  <2>2. NL3 * Fan3 \in Nat /\ n \in Nat /\ n * Fan2 \in Nat
    BY <2>1, Fans
  <2> DEFINE a == n * Fan2
             b == n * Fan2 + Fan2 - 1
  <2>3. Kids(x) = {p \in L1 : p \div Fan2 = n}
    <3>1. \A p \in L1 : Up(2, p) = x <=> p \div Fan2 = n
      <4>1. ASSUME NEW p \in L1 PROVE Up(2, p) = <<2, p \div Fan2>>
        BY LeafIs, UpTo
      <4> QED BY <2>1, <4>1
    <3> QED BY <1>1, <3>1 DEF Kids
  <2>4. \A p \in L1 : p \div Fan2 = n <=> p \in a .. b
    BY <2>2, LeafIs, Divides, Fans
  <2>5. a .. b \subseteq L1
    <3>1. (n + 1) * Fan2 <= (NL3 * Fan3) * Fan2 /\ (n + 1) * Fan2 = n * Fan2 + Fan2
      BY <2>1, <2>2, Fans, Grows
    <3>2. (NL3 * Fan3) * Fan2 = NL3 * Fan3 * Fan2 /\ NL3 * Fan3 * Fan2 \in Nat
      BY Fans
    <3> QED BY <2>2, <3>1, <3>2, Fans DEF L1
  <2>6. Kids(x) = a .. b
    BY <2>3, <2>4, <2>5
  <2>7. a \in Int /\ b \in Int /\ ~ (a > b) /\ b - a + 1 = Fan2
    BY <2>2, Fans
  <2> HIDE DEF a, b
  <2>8. IsFiniteSet(a .. b) /\ Cardinality(a .. b) = IF a > b THEN 0 ELSE b - a + 1
    BY <2>7, FS_Interval
  <2> QED BY <1>1, <2>6, <2>7, <2>8, Fans DEF Fan
<1>2. CASE x[1] = 3
  <2>1. PICK n \in 0 .. NL3 - 1 : x = <<3, n>>
    BY <1>2 DEF Node
  <2>2. NL3 * Fan3 \in Nat /\ n \in Nat /\ n * Fan3 \in Nat
    BY <2>1, Fans
  <2> DEFINE a == n * Fan3
             b == n * Fan3 + Fan3 - 1
             f == [m \in a .. b |-> <<2, m>>]
  <2>3. \A m \in Nat : m \div Fan3 = n <=> m \in a .. b
    BY <2>2, Divides, Fans
  <2>4. a .. b \subseteq 0 .. NL3 * Fan3 - 1
    <3>1. (n + 1) * Fan3 <= NL3 * Fan3 /\ (n + 1) * Fan3 = n * Fan3 + Fan3
      BY <2>1, <2>2, Fans, Grows
    <3> QED BY <2>2, <3>1, Fans
  <2>5. Kids(x) = {<<2, m>> : m \in a .. b}
    <3>1. \A y \in Node : y[1] = 2 => y[2] \in Nat /\ y = <<2, y[2]>>
      BY <2>2 DEF Node
    <3>2. \A m \in a .. b : <<2, m>> \in Node /\ m \in Nat
      BY <2>2, <2>4 DEF Node
    <3> HIDE DEF a, b
    <3>3. Kids(x) = {y \in Node : y[1] = 2 /\ y[2] \div Fan3 = n}
      BY <1>2, <2>1 DEF Kids
    <3> QED BY <2>3, <3>1, <3>2, <3>3
  <2>6. a \in Int /\ b \in Int /\ ~ (a > b) /\ b - a + 1 = Fan3
    BY <2>2, Fans
  <2> HIDE DEF a, b
  <2>7. IsFiniteSet(a .. b) /\ Cardinality(a .. b) = IF a > b THEN 0 ELSE b - a + 1
    BY <2>6, FS_Interval
  <2>8. f \in Surjection(a .. b, Kids(x)) /\ f \in Injection(a .. b, Kids(x))
    BY <2>5 DEF Surjection, Injection, IsInjective
  <2> HIDE DEF f
  <2>9. IsFiniteSet(Kids(x)) /\ Cardinality(Kids(x)) = Cardinality(a .. b)
    BY <2>7, <2>8, FS_Surjection
  <2> QED BY <1>2, <2>6, <2>7, <2>9, Fans DEF Fan
<1> QED BY <1>1, <1>2, NodeLevel DEF Level

(* The next entry is below the same table as long as Step says so.         *)
LEMMA StepUp ==
  ASSUME NEW p \in Nat
  PROVE  /\ Step(p) = 1 => Up(2, p + 1) = Up(2, p) /\ Up(3, p + 1) = Up(3, p)
         /\ Step(p) = 2 => Up(3, p + 1) = Up(3, p)
         /\ \A lv \in Level : lv > Step(p) => Up(lv, p + 1) = Up(lv, p)
<1>1. Up(2, p + 1) = Up(2, p) => Up(3, p + 1) = Up(3, p)
  <2>1. p + 1 \in Nat
    OBVIOUS
  <2>2. Up(2, p + 1) = Up(2, p) => (p + 1) \div Fan2 = p \div Fan2
    BY <2>1, UpTo
  <2> QED BY <2>1, <2>2, UpTo
<1>2. Step(p) = 1 => Up(2, p + 1) = Up(2, p) /\ Up(3, p + 1) = Up(3, p)
  BY <1>1 DEF Step
<1>3. Step(p) = 2 => Up(3, p + 1) = Up(3, p)
  BY DEF Step
<1>4. \A lv \in Level : lv > Step(p) => Up(lv, p + 1) = Up(lv, p)
  BY <1>2, <1>3, StepIs DEF Level
<1> QED BY <1>2, <1>3, <1>4

(* A table is lost: everything below it is gone.                           *)
LEMMA GoneKids ==
  ASSUME NEW x \in Node
  PROVE  /\ Gone(x) \subseteq Kids(x)
         /\ x[1] = 2 => \A p : p \in Gone(x) <=> p \in Kids(x) /\ leaf[p] = "destroyed"
         /\ x[1] = 3 => \A n : n \in Gone(x) <=> n \in Kids(x) /\ mem[n] \in {"reclaimed", "unmapped"}
BY DEF Gone, Kids

LEMMA GoneCount ==
  ASSUME NEW x \in Node
  PROVE  /\ IsFiniteSet(Gone(x)) /\ Cardinality(Gone(x)) \in Nat /\ Cardinality(Gone(x)) <= Fan(x)
         /\ Fan(x) \in Nat \ {0}
         /\ Cardinality(Gone(x)) = Fan(x) <=> Lost(x)
<1>1. Gone(x) \in SUBSET Kids(x)
  BY GoneKids
<1>2. IsFiniteSet(Kids(x)) /\ Cardinality(Kids(x)) = Fan(x) /\ Fan(x) \in Nat \ {0}
  BY KidsCount
<1>3. IsFiniteSet(Gone(x)) /\ Cardinality(Gone(x)) \in Nat
  BY <1>1, <1>2, FS_Subset, FS_CardinalityType
<1>4. Cardinality(Gone(x)) <= Fan(x) /\ (Cardinality(Kids(x)) = Cardinality(Gone(x)) => Kids(x) = Gone(x))
  BY <1>1, <1>2, FS_Subset
<1>5. Lost(x) => Gone(x) = Kids(x)
  BY <1>1 DEF Lost
<1> QED BY <1>1, <1>2, <1>3, <1>4, <1>5 DEF Lost

LEMMA LostDown ==
  ASSUME Life, NEW p \in L1
  PROVE  /\ mem[Up(2, p)] \in {"reclaimed", "unmapped"} => leaf[p] = "destroyed"
         /\ mem[Up(3, p)] \in {"reclaimed", "unmapped"} => leaf[p] = "destroyed"
         /\ Lost(Up(2, p)) => leaf[p] = "destroyed"
         /\ Lost(Up(3, p)) => leaf[p] = "destroyed"
<1>1. /\ Up(2, p) \in Node /\ Up(3, p) \in Node
      /\ p \in Kids(Up(2, p)) /\ Up(2, p) \in Kids(Up(3, p))
      /\ Up(2, p)[1] = 2 /\ Up(3, p)[1] = 3
  BY UpInNode
<1>2. \A x \in Node : mem[x] \in {"reclaimed", "unmapped"} => Lost(x)
  BY DEF Life
<1>3. Lost(Up(2, p)) => leaf[p] = "destroyed"
  BY <1>1, GoneKids DEF Lost
<1>4. Lost(Up(3, p)) => mem[Up(2, p)] \in {"reclaimed", "unmapped"}
  BY <1>1, GoneKids DEF Lost
<1> QED BY <1>1, <1>2, <1>3, <1>4

(* The users of a table, and how one thread changes their number.          *)
LEMMA UsersAre ==
  ASSUME NEW x
  PROVE  Inside(x) = {v \in User : In(it[v], x)} /\ Owing(x) = {v \in User : Owes(it[v], x)}
<1>1. Inside(x) = {v \in User : In(it[v], x)}
  BY DEF Inside, In, Walking, Rel, Leaves
<1>2. Owing(x) = {v \in User : Owes(it[v], x)}
  BY <1>1 DEF Owing, Owes
<1> QED BY <1>1, <1>2

LEMMA OneDiffers ==
  ASSUME NEW S, IsFiniteSet(S), NEW T, NEW u, T \ {u} = S \ {u}
  PROVE  /\ Cardinality(S) \in Nat /\ IsFiniteSet(T) /\ Cardinality(T) \in Nat
         /\ Cardinality(T) + (IF u \in S THEN 1 ELSE 0) = Cardinality(S) + (IF u \in T THEN 1 ELSE 0)
<1>1. Cardinality(S) \in Nat
  BY FS_CardinalityType
<1>2. CASE (u \in S) = (u \in T)
  <2>1. T = S
    BY <1>2
  <2> QED BY <1>1, <2>1
<1>3. CASE u \in S /\ u \notin T
  <2>1. T = S \ {u}
    BY <1>3
  <2>2. IsFiniteSet(T) /\ Cardinality(T) = Cardinality(S) - 1
    BY <1>3, <2>1, FS_RemoveElement
  <2> QED BY <1>1, <1>3, <2>2, FS_CardinalityType
<1>4. CASE u \notin S /\ u \in T
  <2>1. T = S \cup {u}
    BY <1>4
  <2>2. IsFiniteSet(T) /\ Cardinality(T) = Cardinality(S) + 1
    BY <1>4, <2>1, FS_AddElement
  <2> QED BY <1>1, <1>4, <2>2, FS_CardinalityType
<1> QED BY <1>2, <1>3, <1>4

LEMMA UsesAre ==
  ASSUME IsFiniteSet(User), NEW x
  PROVE  /\ Uses(x) \in Nat
         /\ IsFiniteSet(Inside(x)) /\ IsFiniteSet(Owing(x))
         /\ \A v \in User : In(it[v], x) => Uses(x) >= 1
         /\ \A v \in User : Owes(it[v], x) => Uses(x) >= 2
         /\ (\A v \in User : ~ In(it[v], x)) => Uses(x) = 0
<1>1. Inside(x) \subseteq User /\ Owing(x) \subseteq Inside(x)
  BY DEF Inside, Owing
<1>2. IsFiniteSet(Inside(x)) /\ IsFiniteSet(Owing(x))
      /\ Cardinality(Inside(x)) \in Nat /\ Cardinality(Owing(x)) \in Nat
  BY <1>1, FS_Subset, FS_CardinalityType
<1>3. Inside(x) # {} => Cardinality(Inside(x)) # 0
  BY <1>2, FS_EmptySet
<1>4. Owing(x) # {} => Cardinality(Owing(x)) # 0 /\ Inside(x) # {}
  BY <1>1, <1>2, FS_EmptySet
<1>5. Inside(x) = {} => Cardinality(Inside(x)) = 0 /\ Cardinality(Owing(x)) = 0
  BY <1>1, FS_EmptySet
<1>6. \A v \in User : (In(it[v], x) => Inside(x) # {}) /\ (Owes(it[v], x) => Owing(x) # {})
  BY UsersAre
<1>7. (\A v \in User : ~ In(it[v], x)) => Inside(x) = {}
  BY UsersAre
<1> QED BY <1>2, <1>3, <1>4, <1>5, <1>6, <1>7 DEF Uses

LEMMA WeightIs ==
  ASSUME NEW i, NEW x
  PROVE  /\ Weight(i, x) = (IF In(i, x) THEN 1 ELSE 0) + (IF Owes(i, x) THEN 1 ELSE 0)
         /\ Weight(i, x) \in 0 .. 2 /\ (Weight(i, x) > 0 <=> In(i, x))
<1>1. Owes(i, x) => In(i, x)
  BY DEF Owes
<1> QED BY <1>1 DEF Weight

LEMMA UsesChange ==
  ASSUME IsFiniteSet(User), NEW u \in User, \A v \in User : v # u => it'[v] = it[v], NEW x
  PROVE  /\ Uses(x)' \in Nat
         /\ Uses(x)' + Weight(it[u], x) = Uses(x) + Weight(it'[u], x)
<1> DEFINE S == Inside(x)
           T == Inside(x)'
           P == Owing(x)
           Q == Owing(x)'
<1>1. S = {v \in User : In(it[v], x)} /\ P = {v \in User : Owes(it[v], x)}
  BY UsersAre
<1>2. T = {v \in User : In(it'[v], x)} /\ Q = {v \in User : Owes(it'[v], x)}
  <2>1. T = {v \in User : In(it'[v], x)}
    BY DEF Inside, In, Walking, Rel, Leaves
  <2> QED BY <2>1 DEF Owing, Owes
<1>3. T \ {u} = S \ {u} /\ Q \ {u} = P \ {u}
  BY <1>1, <1>2
<1>4. IsFiniteSet(S) /\ IsFiniteSet(P)
  BY UsesAre
<1>5. /\ u \in S <=> In(it[u], x)
      /\ u \in T <=> In(it'[u], x)
      /\ u \in P <=> Owes(it[u], x)
      /\ u \in Q <=> Owes(it'[u], x)
  BY <1>1, <1>2
<1>6. Uses(x) = Cardinality(S) + Cardinality(P) /\ Uses(x)' = Cardinality(T) + Cardinality(Q)
  BY DEF Uses
<1> HIDE DEF S, T, P, Q
<1>7. /\ Cardinality(S) \in Nat /\ Cardinality(T) \in Nat
      /\ Cardinality(T) + (IF u \in S THEN 1 ELSE 0) = Cardinality(S) + (IF u \in T THEN 1 ELSE 0)
  BY <1>3, <1>4, OneDiffers
<1>8. /\ Cardinality(P) \in Nat /\ Cardinality(Q) \in Nat
      /\ Cardinality(Q) + (IF u \in P THEN 1 ELSE 0) = Cardinality(P) + (IF u \in Q THEN 1 ELSE 0)
  BY <1>3, <1>4, OneDiffers
<1>9. /\ Weight(it[u], x) = (IF u \in S THEN 1 ELSE 0) + (IF u \in P THEN 1 ELSE 0)
      /\ Weight(it'[u], x) = (IF u \in T THEN 1 ELSE 0) + (IF u \in Q THEN 1 ELSE 0)
  BY <1>5, WeightIs
<1> QED BY <1>6, <1>7, <1>8, <1>9

(* What the count of a linked table says.                                  *)
LEMMA CountSays ==
  ASSUME IsFiniteSet(User), Counted, NEW x \in Node, link[x]
  PROVE  /\ cnt[x] \in Nat /\ cnt[x] >= Uses(x) /\ Uses(x) \in Nat
         /\ cnt[x] + Cardinality(Gone(x)) = Fan(x) + Uses(x)
         /\ cnt[x] = 0 => Uses(x) = 0 /\ Lost(x)
         /\ Uses(x) = 0 /\ Lost(x) => cnt[x] = 0
<1>1. cnt[x] = Fan(x) - Cardinality(Gone(x)) + Uses(x)
  BY DEF Counted
<1> QED BY <1>1, GoneCount, UsesAre

-----------------------------------------------------------------------------
(* The tables, step by step.                                               *)
LEMMA InAt ==
  ASSUME NEW i, Remembers(i), NEW x \in Node
  PROVE  /\ i.op \notin {"free", "probe"} => ~ In(i, x) /\ ~ Owes(i, x)
         /\ i.op \in {"free", "probe"} =>
              /\ ~ Writes(i, x)
              /\ i.at = "acquire" =>
                   /\ In(i, x) <=> i.lv = 2 /\ x[1] = 3 /\ Up(x[1], i.p) = x
                   /\ Owes(i, x) <=> In(i, x) /\ i.last /\ i.by = 2
              /\ i.at \in {"lock", "body"} =>
                   /\ In(i, x) <=> Up(x[1], i.p) = x
                   /\ Owes(i, x) <=> In(i, x) /\ i.at = "lock" /\ x[1] = 2 /\ i.by = 1 /\ i.last
              /\ i.at = "release" =>
                   /\ In(i, x) <=> Up(x[1], i.p) = x /\ (x[1] > i.lv \/ x[1] = i.lv \/ i.sub)
                   /\ Owes(i, x) <=> Up(x[1], i.p) = x /\ x[1] = i.lv /\ i.last
              /\ Leaves(i) =>
                   /\ In(i, x) <=> Up(x[1], i.p) = x /\ (x[1] > i.lv \/ i.sub)
                   /\ ~ Owes(i, x)
BY DEF Remembers, In, Owes, Writes, Walking, Rel, Leaves

LEMMA QuietTables ==
  ASSUME IsFiniteSet(User), Counted, Valid, Life, UNCHANGED <<link, mem>>,
         NEW u \in User, \A v \in User : v # u => it'[v] = it[v],
         cnt' \in [Node -> Int],
         \A x \in Node : link[x] =>
           /\ cnt'[x] + Cardinality(Gone(x)') + Weight(it[u], x) =
                cnt[x] + Cardinality(Gone(x)) + Weight(it'[u], x)
           /\ cnt[x] = 0 <=> cnt'[x] = 0,
         \A x \in Node : In(it'[u], x) \/ Writes(it'[u], x) => link[x],
         \A x \in Node :
           /\ Gone(x) \subseteq Gone(x)' /\ Cardinality(Gone(x)') \in Nat
           /\ mem[x] = "none" => Gone(x)' = Gone(x),
         \A x \in Node :
           /\ LeavesTable(it'[u], x) <=> LeavesTable(it[u], x)
           /\ LeavesTable(it'[u], x) => (it'[u].at = "unlink" <=> it[u].at = "unlink")
  PROVE  Counted' /\ Valid' /\ Life'
<1>1. Counted'
  <2> SUFFICES ASSUME NEW x \in Node, link[x]
               PROVE  cnt'[x] = Fan(x) - Cardinality(Gone(x)') + Uses(x)'
    BY DEF Counted
  <2>1. cnt[x] + Cardinality(Gone(x)) = Fan(x) + Uses(x) /\ cnt[x] \in Nat /\ Uses(x) \in Nat
    BY CountSays
  <2>2. Uses(x)' \in Nat /\ Uses(x)' + Weight(it[u], x) = Uses(x) + Weight(it'[u], x)
    BY UsesChange
  <2>3. cnt'[x] + Cardinality(Gone(x)') + Weight(it[u], x) =
                cnt[x] + Cardinality(Gone(x)) + Weight(it'[u], x)
    OBVIOUS
  <2>4. cnt'[x] \in Int /\ Cardinality(Gone(x)') \in Nat /\ Cardinality(Gone(x)) \in Nat /\ Fan(x) \in Nat
    BY GoneCount
  <2>5. Weight(it[u], x) \in Int /\ Weight(it'[u], x) \in Int
    BY WeightIs
  <2> QED BY <2>1, <2>2, <2>3, <2>4, <2>5
<1>2. Valid'
  <2>1. ASSUME NEW x \in Node, NEW v \in User, In(it'[v], x) \/ Writes(it'[v], x) PROVE link[x]
    BY <2>1 DEF Valid
  <2> QED BY <2>1, Zenon DEF Valid, In, Writes, Walking, Rel, Leaves
<1>3. Life'
  <2>1. ASSUME NEW x \in Node, NEW v \in User
        PROVE  /\ LeavesTable(it'[v], x) <=> LeavesTable(it[v], x)
               /\ LeavesTable(it'[v], x) => (it'[v].at = "unlink" <=> it[v].at = "unlink")
    <3>1. CASE v = u
      BY <3>1
    <3>2. CASE v # u
      BY <3>2
    <3> QED BY <3>1, <3>2
  <2>2. ASSUME NEW x \in Node PROVE Lost(x) => Kids(x) \subseteq Gone(x)'
    BY DEF Lost
  <2>3. ASSUME NEW x \in Node
        PROVE  /\ link[x] => mem[x] = "used"
               /\ \A v \in User : LeavesTable(it'[v], x) =>
                    /\ mem[x] = "used" /\ Kids(x) \subseteq Gone(x)'
                    /\ IF it'[v].at = "unlink" THEN link[x] /\ cnt'[x] = 0 ELSE ~link[x]
               /\ \A v, w \in User : LeavesTable(it'[v], x) /\ LeavesTable(it'[w], x) => v = w
               /\ mem[x] = "used" /\ (link[x] => cnt'[x] = 0) => \E v \in User : LeavesTable(it'[v], x)
               /\ mem[x] \in {"reclaimed", "unmapped"} => Kids(x) \subseteq Gone(x)'
               /\ mem[x] = "none" => Gone(x)' = {}
    <3>1. /\ link[x] => mem[x] = "used"
          /\ \A v \in User : LeavesTable(it[v], x) =>
               /\ mem[x] = "used" /\ Lost(x)
               /\ IF it[v].at = "unlink" THEN link[x] /\ cnt[x] = 0 ELSE ~link[x]
          /\ \A v, w \in User : LeavesTable(it[v], x) /\ LeavesTable(it[w], x) => v = w
          /\ mem[x] = "used" /\ (link[x] => cnt[x] = 0) => \E v \in User : LeavesTable(it[v], x)
          /\ mem[x] \in {"reclaimed", "unmapped"} => Lost(x)
          /\ mem[x] = "none" => Gone(x) = {}
      BY DEF Life
    <3>2. link[x] => (cnt[x] = 0 <=> cnt'[x] = 0)
      OBVIOUS
    <3> QED BY <2>1, <2>2, <3>1, <3>2
  <2>4. mem' \in [Node -> {"none", "used", "reclaimed", "unmapped"}]
    BY DEF Life
  <2>5. link' = link /\ mem' = mem
    OBVIOUS
  <2> QED BY <2>3, <2>4, <2>5 DEF Life, LeavesTable, Leaves, Lost, Kids
<1> QED BY <1>1, <1>2, <1>3

LEMMA SameGone ==
  ASSUME \A p \in L1 : leaf'[p] = "destroyed" <=> leaf[p] = "destroyed",
         \A n \in Node : mem'[n] \in {"reclaimed", "unmapped"} <=> mem[n] \in {"reclaimed", "unmapped"},
         NEW x
  PROVE  Gone(x)' = Gone(x)
BY DEF Gone

(* A step that changes neither a table nor the weight of the thread.       *)
LEMMA StillTables ==
  ASSUME IsFiniteSet(User), Counted, Valid, Life, UNCHANGED <<link, cnt, mem>>,
         \A p \in L1 : leaf'[p] = "destroyed" <=> leaf[p] = "destroyed",
         NEW u \in User, \A v \in User : v # u => it'[v] = it[v],
         \A x \in Node : Weight(it'[u], x) = Weight(it[u], x),
         \A x \in Node : Writes(it'[u], x) => link[x],
         \A x \in Node :
           /\ LeavesTable(it'[u], x) <=> LeavesTable(it[u], x)
           /\ LeavesTable(it'[u], x) => (it'[u].at = "unlink" <=> it[u].at = "unlink")
  PROVE  Counted' /\ Valid' /\ Life'
<1>1. \A x \in Node : Gone(x)' = Gone(x)
  BY SameGone
<1>2. \A x \in Node : In(it'[u], x) => link[x]
  <2> SUFFICES ASSUME NEW x \in Node, In(it'[u], x) PROVE link[x]
    OBVIOUS
  <2>1. Weight(it[u], x) = Weight(it'[u], x) /\ (Weight(it'[u], x) > 0 <=> In(it'[u], x))
        /\ (Weight(it[u], x) > 0 <=> In(it[u], x))
    BY WeightIs
  <2> QED BY <2>1 DEF Valid
<1>3. \A x \in Node : /\ Gone(x) \subseteq Gone(x)' /\ Cardinality(Gone(x)') \in Nat
                      /\ mem[x] = "none" => Gone(x)' = Gone(x)
  <2> SUFFICES ASSUME NEW x \in Node PROVE Gone(x)' = Gone(x) /\ Cardinality(Gone(x)) \in Nat
    BY <1>1
  <2> QED BY <1>1, GoneCount
<1>4. \A x \in Node : link[x] =>
        /\ cnt'[x] + Cardinality(Gone(x)') + Weight(it[u], x) =
             cnt[x] + Cardinality(Gone(x)) + Weight(it'[u], x)
        /\ cnt[x] = 0 <=> cnt'[x] = 0
  BY <1>1
<1>5. cnt' \in [Node -> Int]
  BY DEF Counted
<1> QED BY <1>2, <1>3, <1>4, <1>5, QuietTables

LEMMA NotLeaving ==
  ASSUME NEW i, ~ Leaves(i), NEW x
  PROVE  ~ LeavesTable(i, x)
BY DEF LeavesTable

(* Steps outside the upper tables.                                         *)
LEMMA AllocTables ==
  ASSUME IsFiniteSet(User), IInv, Flags, Flags', Counted, Valid, Life, NEW u \in User,
         (\E n \in Sizes : Alloc(u, n)) \/ (\E o \in objs : Free(u, o)) \/ (\E o \in Pointers : Probe(u, o))
  PROVE  Counted' /\ Valid' /\ Life'
<1> DEFINE i == it[u]
           j == it'[u]
<1>1. Iters /\ Remembers(i) /\ Remembers(j)
  BY DEF IInv, Flags
<1>2. /\ i.at = "idle" /\ \A v \in User : v # u => it'[v] = it[v]
      /\ j.at \in {"touch", "acquire"} /\ j.lv = 3
  <2>1. ASSUME NEW n \in Sizes, Alloc(u, n)
        PROVE  i.at = "idle" /\ (\A v \in User : v # u => it'[v] = it[v]) /\ j.at = "touch" /\ j.lv = 3
    BY <1>1, <2>1, AllocTo
  <2>2. ASSUME NEW o \in objs, Free(u, o)
        PROVE  i.at = "idle" /\ (\A v \in User : v # u => it'[v] = it[v]) /\ j.at = "acquire" /\ j.lv = 3
    BY <1>1, <2>2, FreeTo, IterTo
  <2>3. ASSUME NEW o \in Pointers, Probe(u, o)
        PROVE  i.at = "idle" /\ (\A v \in User : v # u => it'[v] = it[v]) /\ j.at = "acquire" /\ j.lv = 3
    BY <1>1, <2>3, ProbeTo, IterTo
  <2> QED BY <2>1, <2>2, <2>3
<1>3. UNCHANGED <<link, cnt, mem, leaf>>
  BY DEF Alloc, Free, Probe
<1>4. ASSUME NEW x \in Node
      PROVE  Weight(i, x) = 0 /\ Weight(j, x) = 0 /\ ~ Writes(j, x)
             /\ ~ LeavesTable(i, x) /\ ~ LeavesTable(j, x)
  <2>1. ~ In(i, x) /\ ~ Owes(i, x)
    BY <1>1, <1>2, InAt DEF Remembers
  <2>2. ~ In(j, x) /\ ~ Owes(j, x)
    BY <1>1, <1>2 DEF In, Owes, Walking, Remembers, Rel, Leaves
  <2>3. ~ Writes(j, x)
    BY <1>2, NodeLevel DEF Writes, Level
  <2> QED BY <1>2, <2>1, <2>2, <2>3 DEF Weight, LeavesTable, Leaves
<1> HIDE DEF i, j
<1> QED BY <1>2, <1>3, <1>4, StillTables DEF i, j

LEMMA WriteTables ==
  ASSUME IsFiniteSet(User), IInv, Pages, Flags, Flags', Counted, Valid, Life, NEW u \in User,
         TouchLeaf(u) \/ Write(u)
  PROVE  Counted' /\ Valid' /\ Life'
<1> DEFINE i == it[u]
           j == it'[u]
<1>1. Iters /\ Remembers(i) /\ Remembers(j)
  BY DEF IInv, Flags
<1>2. i.op = "alloc" /\ i.at \in {"touch", "write"} /\ i.lv = 1
  BY <1>1 DEF TouchLeaf, Write, Remembers
<1>3. /\ \A v \in User : v # u => it'[v] = it[v]
      /\ \/ j.op = "alloc" /\ j.p = i.p
         \/ j.op = "alloc" /\ j.p = i.p + 1 /\ j.lv = Step(i.p)
         \/ j = NoIter
  BY <1>1, <1>2, TouchLeafTo, WriteTo
<1>4. i.p \in L1 /\ i.p \in Nat /\ leaf \in [L1 -> LeafState] /\ leaf[i.p] # "destroyed"
  <2>1. i.p \in L1 /\ i.p \in Nat
    BY <1>2, PlaceOf
  <2>2. leaf[i.p] # "destroyed"
    <3>1. CASE TouchLeaf(u)
      BY <3>1 DEF TouchLeaf
    <3>2. CASE Write(u)
      <4>1. Holding(i)
        BY <3>2 DEF Write, Holding
      <4> QED BY <4>1 DEF Pages, Locks
    <3> QED BY <3>1, <3>2
  <2> QED BY <2>1, <2>2 DEF Pages
<1>5. UNCHANGED <<link, cnt, mem>> /\ \A p \in L1 : leaf'[p] = "destroyed" <=> leaf[p] = "destroyed"
  BY <1>4 DEF TouchLeaf, Write
<1>6. ASSUME NEW x \in Node
      PROVE  Weight(i, x) = 0 /\ Weight(j, x) = 0 /\ (Writes(j, x) => link[x])
             /\ ~ LeavesTable(i, x) /\ ~ LeavesTable(j, x)
  <2>1. ~ In(i, x) /\ ~ Owes(i, x)
    BY <1>1, <1>2, InAt
  <2>2. ~ In(j, x) /\ ~ Owes(j, x)
    BY <1>1, <1>3, InAt DEF NoIter
  <2>3. Writes(j, x) => Writes(i, x)
    <3>1. x[1] \in Level /\ (x[1] > Step(i.p) => Up(x[1], i.p + 1) = Up(x[1], i.p))
      BY <1>4, NodeLevel, StepUp
    <3> QED BY <1>2, <1>3, <3>1 DEF Writes, NoIter, Level
  <2>4. Writes(i, x) => link[x]
    BY DEF Valid
  <2>5. ~ Leaves(i) /\ ~ Leaves(j)
    BY <1>1, <1>2, <1>3 DEF Leaves, Remembers, NoIter
  <2> QED BY <2>1, <2>2, <2>3, <2>4, <2>5, NotLeaving DEF Weight
<1> HIDE DEF i, j
<1> QED BY <1>3, <1>5, <1>6, StillTables DEF i, j

(* Steps of a walk that keep what the thread has acquired and still owes.  *)
LEMMA SameWeight ==
  ASSUME NEW i, NEW j, NEW x, In(j, x) <=> In(i, x), Owes(j, x) <=> Owes(i, x)
  PROVE  Weight(j, x) = Weight(i, x)
BY DEF Weight

LEMMA AcquireFailsTables ==
  ASSUME IsFiniteSet(User), LastChoices \subseteq {FALSE},
         IInv, Pages, Flags, Flags', Counted, Valid, Life, NEW u \in User, AcquireFails(u)
  PROVE  Counted' /\ Valid' /\ Life'
<1> DEFINE i == it[u]
           j == it'[u]
<1>1. Iters /\ i \in IterType /\ Remembers(i) /\ Remembers(j)
  BY DEF IInv, Flags, Iters
<1>2. i.at = "acquire" /\ i.lv \in Level /\ i.op \in {"free", "probe"} /\ ~ i.sub
  BY <1>1, WalkingOf, AcquireFailsTo DEF Remembers, Rel, Leaves
<1>3. UNCHANGED <<link, cnt, mem, leaf>>
  BY DEF AcquireFails
<1>4. /\ \A v \in User : v # u => it'[v] = it[v]
      /\ \/ i.lv = 3 /\ j = NoIter
         \/ /\ i.lv = 2 /\ j.at = "release" /\ j.lv = 3 /\ j.op = i.op /\ j.p = i.p /\ ~ j.sub
            /\ j.last <=> i.by = 2 /\ i.last
  <2>1. /\ \A v \in User : v # u => it'[v] = it[v]
        /\ \/ i.lv = 3 /\ j = NoIter
           \/ /\ i.lv = 2 /\ j.at = "release" /\ j.lv = 3
              /\ Keeps(i, j) /\ j.sub = i.sub
              /\ j.last \in (IF i.by = 0 THEN LastChoices
                             ELSE IF i.by = 2 THEN {i.last} ELSE {FALSE})
    BY <1>1, AcquireFailsTo
  <2>2. i.by = 0 => j = NoIter \/ j.last = FALSE
    BY <1>2, <2>1 DEF Level
  <2>3. i.by # 0 => j = NoIter \/ (j.last <=> i.by = 2 /\ i.last)
    BY <1>1, <2>1 DEF IterType
  <2> QED BY <1>2, <2>1, <2>2, <2>3 DEF Keeps, NoIter
<1>5. ASSUME NEW x \in Node
      PROVE  Weight(j, x) = Weight(i, x) /\ ~ Writes(j, x)
             /\ ~ LeavesTable(i, x) /\ ~ LeavesTable(j, x)
  <2>1. x[1] \in {2, 3}
    BY NodeLevel DEF Level
  <2>2. /\ In(i, x) <=> i.lv = 2 /\ x[1] = 3 /\ Up(x[1], i.p) = x
        /\ Owes(i, x) <=> In(i, x) /\ i.last /\ i.by = 2
    BY <1>1, <1>2, InAt
  <2>3. CASE j = NoIter
    <3>1. ~ In(j, x) /\ ~ Owes(j, x) /\ ~ Writes(j, x) /\ ~ Leaves(j) /\ ~ Leaves(i)
      BY <1>2, <2>3 DEF In, Owes, Writes, Walking, Leaves, NoIter
    <3> QED BY <1>4, <2>2, <2>3, <3>1, SameWeight, NotLeaving DEF NoIter
  <2>4. CASE j # NoIter
    <3>1. /\ In(j, x) <=> Up(x[1], j.p) = x /\ (x[1] > j.lv \/ x[1] = j.lv \/ j.sub)
          /\ Owes(j, x) <=> Up(x[1], j.p) = x /\ x[1] = j.lv /\ j.last
          /\ ~ Writes(j, x)
      BY <1>1, <1>2, <1>4, <2>4, InAt
    <3>2. In(j, x) <=> In(i, x)
      BY <1>4, <2>1, <2>2, <2>4, <3>1
    <3>3. Owes(j, x) <=> Owes(i, x)
      BY <1>4, <2>1, <2>2, <2>4, <3>1
    <3>4. ~ Leaves(j) /\ ~ Leaves(i)
      BY <1>2, <1>4, <2>4 DEF Leaves
    <3> QED BY <3>1, <3>2, <3>3, <3>4, SameWeight, NotLeaving
  <2> QED BY <2>3, <2>4
<1> HIDE DEF i, j
<1> QED BY <1>3, <1>4, <1>5, StillTables DEF i, j

LEMMA LockTables ==
  ASSUME IsFiniteSet(User), IInv, Pages, Flags, Flags', Counted, Valid, Life,
         NEW u \in User, Lock(u) \/ LockFails(u)
  PROVE  Counted' /\ Valid' /\ Life'
<1> DEFINE i == it[u]
           j == it'[u]
<1>1. Iters /\ i \in IterType /\ Remembers(i) /\ Remembers(j)
  BY DEF IInv, Flags, Iters
<1>2. i.at = "lock" /\ i.lv = 1 /\ i.op \in {"free", "probe"} /\ ~ i.sub
  <2>1. i.at = "lock"
    BY DEF Lock, LockFails
  <2> QED BY <2>1, WalkingOf DEF Remembers, Rel, Leaves
<1>3. leaf \in [L1 -> LeafState] /\ i.p \in L1
  BY <1>2, PlaceOf DEF Pages
<1>4. UNCHANGED <<link, cnt, mem>> /\ \A p \in L1 : leaf'[p] = "destroyed" <=> leaf[p] = "destroyed"
  BY <1>3 DEF Lock, LockFails
<1>5. LockFails(u) => ~ i.last
  <2> SUFFICES ASSUME LockFails(u) PROVE ~ i.last
    OBVIOUS
  <2>1. i.p \notin Taken
    BY <1>3 DEF LockFails, Taken
  <2>2. i.op = "free" => i.p \in Todo(i) /\ Todo(i) \subseteq Taken
    <3>1. i.p <= i.end /\ i.p \in Nat /\ i.end \in Nat
      BY <1>2, PlaceOf
    <3> QED BY <1>2, <3>1 DEF Todo, Rel, Leaves, Pages, Claims
  <2>3. i.op = "probe"
    BY <1>2, <2>1, <2>2
  <2> QED BY <1>1, <1>2, <2>3 DEF Remembers
<1>6. /\ \A v \in User : v # u => it'[v] = it[v]
      /\ j.op = i.op /\ j.p = i.p /\ j.last = i.last
      /\ \/ i.by = 1 /\ i.last /\ j.at = "release" /\ j.lv = 2 /\ j.sub
         \/ ~ (i.by = 1 /\ i.last) /\ j.at = "body" /\ j.by = i.by
         \/ ~ i.last /\ j.at = "release" /\ j.lv = 2 /\ ~ j.sub
  BY <1>1, <1>2, <1>5, LockTo, LockFailsTo DEF Keeps
<1>7. ASSUME NEW x \in Node
      PROVE  Weight(j, x) = Weight(i, x) /\ ~ Writes(j, x)
             /\ ~ LeavesTable(i, x) /\ ~ LeavesTable(j, x)
  <2>1. x[1] \in {2, 3}
    BY NodeLevel DEF Level
  <2>2. /\ In(i, x) <=> Up(x[1], i.p) = x
        /\ Owes(i, x) <=> In(i, x) /\ x[1] = 2 /\ i.by = 1 /\ i.last
    BY <1>1, <1>2, InAt
  <2>3. ~ Leaves(i) /\ ~ Leaves(j)
    BY <1>2, <1>6 DEF Leaves
  <2>4. CASE j.at = "release"
    <3>1. /\ In(j, x) <=> Up(x[1], j.p) = x /\ (x[1] > j.lv \/ x[1] = j.lv \/ j.sub)
          /\ Owes(j, x) <=> Up(x[1], j.p) = x /\ x[1] = j.lv /\ j.last
          /\ ~ Writes(j, x)
      BY <1>1, <1>2, <1>6, <2>4, InAt
    <3>2. In(j, x) <=> In(i, x)
      BY <1>6, <2>1, <2>2, <2>4, <3>1
    <3>3. Owes(j, x) <=> Owes(i, x)
      BY <1>6, <2>1, <2>2, <2>4, <3>1
    <3> QED BY <2>3, <3>1, <3>2, <3>3, SameWeight, NotLeaving
  <2>5. CASE j.at = "body"
    <3>1. /\ In(j, x) <=> Up(x[1], j.p) = x
          /\ Owes(j, x) <=> In(j, x) /\ j.at = "lock" /\ x[1] = 2 /\ j.by = 1 /\ j.last
          /\ ~ Writes(j, x)
      BY <1>1, <1>2, <1>6, <2>5, InAt
    <3>2. In(j, x) <=> In(i, x)
      BY <1>6, <2>2, <3>1
    <3>3. Owes(j, x) <=> Owes(i, x)
      BY <1>6, <2>2, <2>5, <3>1
    <3> QED BY <2>3, <3>1, <3>2, <3>3, SameWeight, NotLeaving
  <2> QED BY <1>6, <2>4, <2>5
<1> HIDE DEF i, j
<1> QED BY <1>4, <1>6, <1>7, StillTables DEF i, j

LEMMA InvalidateTables ==
  ASSUME IsFiniteSet(User), IInv, Flags, Flags', Counted, Valid, Life, NEW u \in User, Invalidate(u)
  PROVE  Counted' /\ Valid' /\ Life'
<1> DEFINE i == it[u]
           j == it'[u]
<1>1. Iters /\ Remembers(i) /\ Remembers(j)
  BY DEF IInv, Flags
<1>2. i.at = "invalidate" /\ j.at = "reclaim" /\ i.op \in {"free", "probe"}
  <2>1. i.at = "invalidate"
    BY DEF Invalidate
  <2>2. it' = [it EXCEPT ![u] = [it[u] EXCEPT !.at = "reclaim"]] /\ it[u] \in IterType
    BY <1>1 DEF Invalidate, Iters
  <2>3. j = [it[u] EXCEPT !.at = "reclaim"]
    BY <1>1, <2>2, Frame
  <2> QED BY <2>1, <2>2, <2>3, WalkingOf DEF IterType
<1>3. /\ \A v \in User : v # u => it'[v] = it[v]
      /\ j.op = i.op /\ j.p = i.p /\ j.sub = i.sub /\ j.lv = i.lv
  BY <1>1, UnlinkTo DEF Keeps
<1>4. UNCHANGED <<link, cnt, mem, leaf>>
  BY DEF Invalidate
<1>5. ASSUME NEW x \in Node
      PROVE  Weight(j, x) = Weight(i, x) /\ ~ Writes(j, x) /\ (LeavesTable(i, x) <=> LeavesTable(j, x))
  <2>1. Leaves(i) /\ Leaves(j)
    BY <1>2 DEF Leaves
  <2>2. ~ Writes(j, x) /\ ~ Owes(j, x) /\ ~ Owes(i, x) /\ (In(i, x) <=> In(j, x))
    BY <1>1, <1>2, <1>3, <2>1, InAt
  <2> QED BY <1>3, <2>1, <2>2, SameWeight DEF LeavesTable
<1>6. j.at # "unlink" /\ i.at # "unlink"
  BY <1>2
<1> HIDE DEF i, j
<1> QED BY <1>3, <1>4, <1>5, <1>6, StillTables DEF i, j

(* The table that a step of thread u is about.                             *)
LEMMA TableOf ==
  ASSUME IInv, Pages, NEW u \in User, it[u].op # "idle", it[u].lv \in Level
  PROVE  /\ Up(it[u].lv, it[u].p) \in Node /\ Up(it[u].lv, it[u].p)[1] = it[u].lv
         /\ Up(2, it[u].p) \in Node /\ Up(3, it[u].p) \in Node
         /\ \A x \in Node : x[1] = it[u].lv /\ Up(x[1], it[u].p) = x <=> x = Up(it[u].lv, it[u].p)
<1>1. it[u].p \in L1
  BY PlaceOf
<1> QED BY <1>1, UpInNode DEF Level

LEMMA AcquireTables ==
  ASSUME IsFiniteSet(User), IInv, Pages, Flags, Flags', Counted, Valid, Life, NEW u \in User, Acquire(u)
  PROVE  Counted' /\ Valid' /\ Life'
<1> DEFINE i == it[u]
           j == it'[u]
           y == Up(it[u].lv, it[u].p)
<1>1. Iters /\ i \in IterType /\ Remembers(i) /\ Remembers(j)
  BY DEF IInv, Flags, Iters
<1>2. i.at = "acquire" /\ i.lv \in {2, 3} /\ i.op \in {"free", "probe"} /\ ~ i.sub
  BY <1>1, WalkingOf, AcquireTo DEF Remembers, Rel, Leaves, Level
<1>3. y \in Node /\ link[y] /\ cnt[y] # 0 /\ cnt' = [cnt EXCEPT ![y] = cnt[y] + 1]
      /\ \A x \in Node : x[1] = i.lv /\ Up(x[1], i.p) = x <=> x = y
  BY <1>2, TableOf DEF Acquire, Acquired, Level
<1>4. UNCHANGED <<link, mem, leaf>>
  BY DEF Acquire
<1>5. /\ \A v \in User : v # u => it'[v] = it[v]
      /\ j.op = i.op /\ j.p = i.p /\ j.by = i.by /\ j.last = i.last
      /\ \/ i.lv = 3 /\ j.at = "acquire" /\ j.lv = 2
         \/ i.lv = 2 /\ i.by = 2 /\ i.last /\ j.at = "release" /\ j.lv = 3 /\ j.sub
         \/ i.lv = 2 /\ ~ (i.by = 2 /\ i.last) /\ j.at = "lock"
  BY <1>1, <1>2, AcquireTo DEF Keeps
<1>6. ASSUME NEW x \in Node
      PROVE  /\ Weight(j, x) = Weight(i, x) + (IF x = y THEN 1 ELSE 0)
             /\ In(j, x) => In(i, x) \/ x = y
             /\ ~ Writes(j, x) /\ ~ LeavesTable(i, x) /\ ~ LeavesTable(j, x)
  <2>1. x[1] \in {2, 3} /\ (x[1] = i.lv /\ Up(x[1], i.p) = x <=> x = y)
    BY <1>3, NodeLevel DEF Level
  <2>2. /\ In(i, x) <=> i.lv = 2 /\ x[1] = 3 /\ Up(x[1], i.p) = x
        /\ Owes(i, x) <=> In(i, x) /\ i.last /\ i.by = 2
    BY <1>1, <1>2, InAt
  <2>3. ~ Leaves(i) /\ ~ Leaves(j) /\ ~ Writes(j, x)
    BY <1>1, <1>2, <1>5, InAt DEF Leaves
  <2>4. CASE i.lv = 3
    <3>1. /\ In(j, x) <=> j.lv = 2 /\ x[1] = 3 /\ Up(x[1], j.p) = x
          /\ Owes(j, x) <=> In(j, x) /\ j.last /\ j.by = 2
      BY <1>1, <1>2, <1>5, <2>4, InAt
    <3>2. i.by # 2
      BY <1>1, <1>2, <2>4 DEF Remembers
    <3>3. ~ In(i, x) /\ ~ Owes(i, x) /\ (In(j, x) <=> x = y) /\ ~ Owes(j, x)
      BY <1>5, <2>1, <2>2, <2>4, <3>1, <3>2
    <3> QED BY <2>3, <3>3, WeightIs, NotLeaving
  <2>5. CASE i.lv = 2 /\ i.by = 2 /\ i.last
    <3>0. j.at = "release" /\ j.op \in {"free", "probe"}
      BY <1>2, <1>5, <2>5
    <3>1. /\ In(j, x) <=> Up(x[1], j.p) = x /\ (x[1] > j.lv \/ x[1] = j.lv \/ j.sub)
          /\ Owes(j, x) <=> Up(x[1], j.p) = x /\ x[1] = j.lv /\ j.last
      BY <1>1, <3>0, InAt
    <3>2. (In(j, x) <=> In(i, x) \/ x = y) /\ (x = y => ~ In(i, x)) /\ (Owes(i, x) <=> Owes(j, x))
          /\ (x = y => ~ Owes(i, x))
      BY <1>5, <2>1, <2>2, <2>5, <3>1
    <3> QED BY <2>3, <3>2, WeightIs, NotLeaving
  <2>6. CASE i.lv = 2 /\ ~ (i.by = 2 /\ i.last)
    <3>1. /\ In(j, x) <=> Up(x[1], j.p) = x
          /\ Owes(j, x) <=> In(j, x) /\ j.at = "lock" /\ x[1] = 2 /\ j.by = 1 /\ j.last
      BY <1>1, <1>2, <1>5, <2>6, InAt
    <3>2. i.by # 1
      BY <1>1, <1>2 DEF Remembers
    <3>3. (In(j, x) <=> In(i, x) \/ x = y) /\ (x = y => ~ In(i, x)) /\ ~ Owes(i, x) /\ ~ Owes(j, x)
      BY <1>5, <2>1, <2>2, <2>6, <3>1, <3>2
    <3> QED BY <2>3, <3>3, WeightIs, NotLeaving
  <2> QED BY <1>2, <2>4, <2>5, <2>6
<1> HIDE DEF i, j, y
<1>7. cnt' \in [Node -> Int]
  BY <1>3 DEF Counted
<1>8. ASSUME NEW x \in Node, link[x]
      PROVE  /\ cnt'[x] + Cardinality(Gone(x)') + Weight(i, x) = cnt[x] + Cardinality(Gone(x)) + Weight(j, x)
             /\ cnt[x] = 0 <=> cnt'[x] = 0
  <2>1. cnt'[x] = cnt[x] + (IF x = y THEN 1 ELSE 0) /\ cnt[x] \in Nat
    BY <1>3, <1>8, CountSays DEF Counted
  <2>2. Gone(x)' = Gone(x) /\ Cardinality(Gone(x)) \in Nat
    BY <1>4, SameGone, GoneCount
  <2>3. Weight(i, x) \in Int /\ Weight(j, x) = Weight(i, x) + (IF x = y THEN 1 ELSE 0)
    BY <1>6, WeightIs
  <2> QED BY <1>3, <2>1, <2>2, <2>3
<1>9. \A x \in Node : In(j, x) \/ Writes(j, x) => link[x]
  BY <1>3, <1>6 DEF Valid, i
<1>10. \A x \in Node : /\ Gone(x) \subseteq Gone(x)' /\ Cardinality(Gone(x)') \in Nat
                       /\ mem[x] = "none" => Gone(x)' = Gone(x)
  <2> SUFFICES ASSUME NEW x \in Node PROVE Gone(x)' = Gone(x) /\ Cardinality(Gone(x)) \in Nat
    OBVIOUS
  <2> QED BY <1>4, SameGone, GoneCount
<1> QED BY <1>4, <1>5, <1>6, <1>7, <1>8, <1>9, <1>10, QuietTables DEF i, j

LEMMA BodyTables ==
  ASSUME IsFiniteSet(User), IInv, Pages, Flags, Flags', Counted, Valid, Life, NEW u \in User, Body(u)
  PROVE  Counted' /\ Valid' /\ Life'
<1> DEFINE i == it[u]
           j == it'[u]
           y == Up(2, it[u].p)
           d == IF it[u].op = "free" THEN 1 ELSE 0
<1>1. Iters /\ i \in IterType /\ Remembers(i) /\ Remembers(j)
  BY DEF IInv, Flags, Iters
<1>2. i.at = "body" /\ i.lv = 1 /\ i.op \in {"free", "probe"} /\ ~ i.sub
  <2>1. i.at = "body"
    BY DEF Body
  <2> QED BY <2>1, WalkingOf DEF Remembers, Rel, Leaves
<1>3. leaf \in [L1 -> LeafState] /\ i.p \in L1 /\ i.p \in Nat /\ leaf[i.p] = "locked"
  <2>1. Holding(i)
    BY <1>2 DEF Holding
  <2> QED BY <1>2, <2>1, PlaceOf DEF Pages, Locks
<1>4. y \in Node /\ y[1] = 2 /\ i.p \in Kids(y) /\ \A x \in Node : x[1] = 2 /\ Up(x[1], i.p) = x <=> x = y
  BY <1>3, UpInNode
<1>5. UNCHANGED <<link, cnt, mem>>
      /\ leaf' = [leaf EXCEPT ![i.p] = IF i.op = "free" THEN "destroyed" ELSE "free"]
  BY DEF Body
<1>6. /\ \A v \in User : v # u => it'[v] = it[v]
      /\ j.op = i.op /\ (j.last <=> i.op = "free") /\ ~ j.sub
      /\ \/ Step(i.p) = 1 /\ j.at = "lock" /\ j.by = 1 /\ j.p = i.p + 1
         \/ j.at = "release" /\ j.lv = 2 /\ j.p = i.p
  BY <1>1, <1>2, BodyTo
<1>7. ASSUME NEW x \in Node
      PROVE  /\ Weight(j, x) = Weight(i, x) + (IF x = y THEN d ELSE 0)
             /\ In(j, x) => In(i, x)
             /\ ~ Writes(j, x) /\ ~ LeavesTable(i, x) /\ ~ LeavesTable(j, x)
  <2>1. x[1] \in {2, 3} /\ (x[1] = 2 /\ Up(x[1], i.p) = x <=> x = y)
    BY <1>4, NodeLevel DEF Level
  <2>2. (In(i, x) <=> Up(x[1], i.p) = x) /\ ~ Owes(i, x)
    BY <1>1, <1>2, InAt
  <2>3. ~ Leaves(i) /\ ~ Leaves(j) /\ ~ Writes(j, x)
    BY <1>1, <1>2, <1>6, InAt DEF Leaves
  <2>4. Step(i.p) = 1 => Up(x[1], i.p + 1) = Up(x[1], i.p)
    BY <1>3, <2>1, StepUp
  <2>5. (In(j, x) <=> In(i, x)) /\ (Owes(j, x) <=> In(i, x) /\ x[1] = 2 /\ i.op = "free")
    <3>1. CASE j.at = "lock"
      <4>1. /\ In(j, x) <=> Up(x[1], j.p) = x
            /\ Owes(j, x) <=> In(j, x) /\ j.at = "lock" /\ x[1] = 2 /\ j.by = 1 /\ j.last
        BY <1>1, <1>2, <1>6, <3>1, InAt
      <4> QED BY <1>6, <2>2, <2>4, <3>1, <4>1
    <3>2. CASE j.at = "release"
      <4>1. /\ In(j, x) <=> Up(x[1], j.p) = x /\ (x[1] > j.lv \/ x[1] = j.lv \/ j.sub)
            /\ Owes(j, x) <=> Up(x[1], j.p) = x /\ x[1] = j.lv /\ j.last
        BY <1>1, <1>2, <1>6, <3>2, InAt
      <4> QED BY <1>6, <2>1, <2>2, <3>2, <4>1
    <3> QED BY <1>6, <3>1, <3>2
  <2>6. Owes(j, x) <=> x = y /\ d = 1
    BY <2>1, <2>2, <2>5
  <2> QED BY <2>2, <2>3, <2>5, <2>6, WeightIs, NotLeaving
<1>8. In(i, y)
  BY <1>1, <1>2, <1>4, InAt
<1> HIDE DEF i, j, y
<1>9. ASSUME NEW x \in Node
      PROVE  /\ Cardinality(Gone(x)) \in Nat /\ Gone(x) \subseteq Gone(x)'
             /\ Cardinality(Gone(x)') = Cardinality(Gone(x)) + (IF x = y THEN d ELSE 0)
             /\ mem[x] = "none" => Gone(x)' = Gone(x)
  <2>1. Cardinality(Gone(x)) \in Nat /\ IsFiniteSet(Gone(x))
    BY GoneCount
  <2>2. CASE x # y \/ d = 0
    <3>1. Gone(x)' = Gone(x)
      <4>1. CASE d = 0
        <5>1. \A p \in L1 : leaf'[p] = "destroyed" <=> leaf[p] = "destroyed"
          BY <1>3, <1>5, <4>1 DEF i
        <5> QED BY <1>5, <5>1, SameGone
      <4>2. CASE x # y
        <5>1. \A p \in L1 : Up(2, p) = x => p # i.p
          BY <4>2 DEF y, i
        <5>2. \A p \in L1 : p # i.p => leaf'[p] = leaf[p]
          BY <1>3, <1>5
        <5> QED BY <1>5, <5>1, <5>2 DEF Gone
      <4> QED BY <2>2, <4>1, <4>2
    <3> QED BY <2>1, <2>2, <3>1
  <2>3. CASE x = y /\ d = 1
    <3>1. x[1] # 3
      BY <1>4, <2>3
    <3>2. Gone(x) = {p \in L1 : Up(2, p) = x /\ leaf[p] = "destroyed"}
      BY <3>1 DEF Gone
    <3>3. Gone(x)' = {p \in L1 : Up(2, p) = x /\ leaf'[p] = "destroyed"}
      BY <3>1 DEF Gone
    <3>4. leaf' = [leaf EXCEPT ![i.p] = "destroyed"] /\ Up(2, i.p) = x
      <4>1. i.op = "free" /\ Up(2, i.p) = y
        BY <2>3 DEF i, y
      <4> QED BY <1>5, <2>3, <4>1
    <3>5. Gone(x)' = Gone(x) \cup {i.p} /\ i.p \notin Gone(x)
      BY <1>3, <3>2, <3>3, <3>4
    <3>6. Cardinality(Gone(x)') = Cardinality(Gone(x)) + 1
      BY <2>1, <3>5, FS_AddElement
    <3>7. mem[x] = "used"
      BY <1>8, <2>3 DEF Valid, Life, i
    <3> QED BY <2>1, <2>3, <3>5, <3>6, <3>7
  <2> QED BY <2>2, <2>3
<1>10. d \in Nat
  OBVIOUS
<1> HIDE DEF d
<1>11. ASSUME NEW x \in Node, link[x]
       PROVE  /\ cnt'[x] + Cardinality(Gone(x)') + Weight(i, x) = cnt[x] + Cardinality(Gone(x)) + Weight(j, x)
              /\ cnt[x] = 0 <=> cnt'[x] = 0
  <2>1. cnt'[x] = cnt[x] /\ cnt[x] \in Nat
    BY <1>5, <1>11, CountSays
  <2>2. Weight(i, x) \in Int /\ Weight(j, x) = Weight(i, x) + (IF x = y THEN d ELSE 0)
    BY <1>7, WeightIs
  <2> QED BY <1>9, <1>10, <2>1, <2>2
<1>12. \A x \in Node : In(j, x) \/ Writes(j, x) => link[x]
  BY <1>7 DEF Valid, i
<1>13. \A x \in Node : /\ Gone(x) \subseteq Gone(x)' /\ Cardinality(Gone(x)') \in Nat
                       /\ mem[x] = "none" => Gone(x)' = Gone(x)
  BY <1>9, <1>10
<1>14. cnt' \in [Node -> Int]
  BY <1>5 DEF Counted
<1> QED BY <1>5, <1>6, <1>7, <1>11, <1>12, <1>13, <1>14, QuietTables DEF i, j

(* The life of one table, and what it takes to keep it.                    *)
LifeOf(x) ==
  /\ link[x] => mem[x] = "used"
  /\ \A u \in User : LeavesTable(it[u], x) =>
       /\ mem[x] = "used" /\ Lost(x)
       /\ IF it[u].at = "unlink" THEN link[x] /\ cnt[x] = 0 ELSE ~link[x]
  /\ \A u, v \in User : LeavesTable(it[u], x) /\ LeavesTable(it[v], x) => u = v
  /\ mem[x] = "used" /\ (link[x] => cnt[x] = 0) => \E u \in User : LeavesTable(it[u], x)
  /\ mem[x] \in {"reclaimed", "unmapped"} => Lost(x)
  /\ mem[x] = "none" => Gone(x) = {}

LEMMA LifeIs ==
  ASSUME Life, NEW x \in Node
  PROVE  LifeOf(x)
BY DEF Life, LifeOf

LEMMA LifeStays ==
  ASSUME NEW x \in Node, LifeOf(x), link'[x] = link[x], mem'[x] = mem[x],
         link[x] => (cnt'[x] = 0 <=> cnt[x] = 0),
         Gone(x) \subseteq Gone(x)', mem[x] = "none" => Gone(x)' = Gone(x),
         \A v \in User :
           /\ LeavesTable(it'[v], x) <=> LeavesTable(it[v], x)
           /\ LeavesTable(it'[v], x) => (it'[v].at = "unlink" <=> it[v].at = "unlink")
  PROVE  LifeOf(x)'
<1>1. Lost(x) => Kids(x) \subseteq Gone(x)'
  BY DEF Lost
<1>2. /\ link'[x] => mem'[x] = "used"
      /\ \A u \in User : LeavesTable(it'[u], x) =>
           /\ mem'[x] = "used" /\ Kids(x) \subseteq Gone(x)'
           /\ IF it'[u].at = "unlink" THEN link'[x] /\ cnt'[x] = 0 ELSE ~link'[x]
      /\ \A u, v \in User : LeavesTable(it'[u], x) /\ LeavesTable(it'[v], x) => u = v
      /\ mem'[x] = "used" /\ (link'[x] => cnt'[x] = 0) => \E u \in User : LeavesTable(it'[u], x)
      /\ mem'[x] \in {"reclaimed", "unmapped"} => Kids(x) \subseteq Gone(x)'
      /\ mem'[x] = "none" => Gone(x)' = {}
  BY <1>1 DEF LifeOf
<1> QED BY <1>2 DEF LifeOf, LeavesTable, Leaves, Lost, Kids

LEMMA CountStays ==
  ASSUME IsFiniteSet(User), Counted, NEW u \in User, \A v \in User : v # u => it'[v] = it[v],
         NEW x \in Node, link[x], cnt'[x] \in Int, Cardinality(Gone(x)') \in Nat,
         cnt'[x] + Cardinality(Gone(x)') + Weight(it[u], x) =
           cnt[x] + Cardinality(Gone(x)) + Weight(it'[u], x)
  PROVE  cnt'[x] = Fan(x) - Cardinality(Gone(x)') + Uses(x)'
<1>1. cnt[x] + Cardinality(Gone(x)) = Fan(x) + Uses(x) /\ cnt[x] \in Nat /\ Uses(x) \in Nat
  BY CountSays
<1>2. Uses(x)' \in Nat /\ Uses(x)' + Weight(it[u], x) = Uses(x) + Weight(it'[u], x)
  BY UsesChange
<1>3. Cardinality(Gone(x)) \in Nat /\ Fan(x) \in Nat
  BY GoneCount
<1>4. Weight(it[u], x) \in Int /\ Weight(it'[u], x) \in Int
  BY WeightIs
<1> QED BY <1>1, <1>2, <1>3, <1>4

(* The thread that leaves a table is alone in it: it has not acquired it   *)
(* itself, and so has not crossed out of another.                          *)
LEMMA LeaverIsAlone ==
  ASSUME IsFiniteSet(User), IInv, Pages, Flags, Counted, Valid, Life, NEW u \in User, Leaves(it[u])
  PROVE  LET y == Up(it[u].lv, it[u].p)
         IN /\ y \in Node /\ LeavesTable(it[u], y) /\ ~ it[u].sub
            /\ \A v \in User : ~ In(it[v], y) /\ ~ Writes(it[v], y)
<1> DEFINE y == Up(it[u].lv, it[u].p)
<1>1. Remembers(it[u]) /\ it[u] \in IterType /\ it[u].lv \in Level
  BY DEF IInv, Iters, Flags, Leaves, IterLevel
<1>2. it[u].op \in {"free", "probe"}
  BY <1>1 DEF Remembers, Leaves, IterType
<1>3. y \in Node /\ y[1] = it[u].lv /\ LeavesTable(it[u], y)
  BY <1>1, <1>2, TableOf DEF LeavesTable
<1> HIDE DEF y
<1>4. LifeOf(y) /\ Lost(y) /\ (link[y] => cnt[y] = 0)
  BY <1>3, LifeIs DEF LifeOf
<1>5. ASSUME NEW v \in User PROVE ~ In(it[v], y)
  <2>1. CASE link[y]
    BY <1>3, <1>4, <2>1, CountSays, UsesAre
  <2>2. CASE ~ link[y]
    BY <1>3, <2>2 DEF Valid
  <2> QED BY <2>1, <2>2
<1>6. ASSUME NEW v \in User, Writes(it[v], y) PROVE FALSE
  <2>1. it[v].op = "alloc" /\ Up(y[1], it[v].p) = y /\ y[1] \in {2, 3}
    BY <1>3, <1>6, NodeLevel DEF Writes, Level
  <2>2. it[v].p \in L1 /\ it[v].p \in Nat /\ it[v].end \in Nat /\ it[v].p <= it[v].end
    BY <2>1, PlaceOf
  <2>3. leaf[it[v].p] \in {"null", "locked"}
    BY <2>1, <2>2 DEF Pages, Claims
  <2> QED BY <1>4, <2>1, <2>2, <2>3, LostDown
<1>7. ~ it[u].sub
  <2>1. it[u].sub => In(it[u], y)
    BY <1>1, <1>2, <1>3, InAt DEF LeavesTable
  <2> QED BY <1>5, <2>1
<1> QED BY <1>3, <1>5, <1>6, <1>7 DEF y

(* A table that is missing on the way of an allocation has never been      *)
(* linked: the entry to be written below it is still empty.                *)
LEMMA FreshTable ==
  ASSUME IsFiniteSet(User), IInv, Pages, Flags, Counted, Valid, Life, NEW u \in User, Touch(u),
         ~ link[Up(it[u].lv, it[u].p)]
  PROVE  LET y == Up(it[u].lv, it[u].p)
         IN mem[y] = "none" /\ Gone(y) = {} /\ Uses(y) = 0 /\ \A v \in User : ~ LeavesTable(it[v], y)
<1> DEFINE y == Up(it[u].lv, it[u].p)
<1>1. it[u].at = "touch" /\ it[u].lv \in {2, 3} /\ it[u].op = "alloc"
  BY DEF Touch, Flags, Remembers, Level
<1>2. y \in Node
  BY <1>1, TableOf DEF Level
<1>3. it[u].p \in L1 /\ leaf[it[u].p] = "null"
  <2>1. it[u].p \in L1 /\ it[u].p \in Nat /\ it[u].end \in Nat /\ it[u].p <= it[u].end
    BY <1>1, PlaceOf
  <2> QED BY <1>1, <2>1 DEF Pages, Claims
<1>4. ~ Lost(y) /\ mem[y] \notin {"reclaimed", "unmapped"}
  BY <1>1, <1>3, LostDown
<1> HIDE DEF y
<1>5. LifeOf(y) /\ mem[y] \in {"none", "used", "reclaimed", "unmapped"} /\ ~ link[y]
  BY <1>2, LifeIs DEF Life, y
<1>6. \A v \in User : ~ LeavesTable(it[v], y)
  BY <1>4, <1>5 DEF LifeOf
<1>7. mem[y] = "none" /\ Gone(y) = {}
  BY <1>4, <1>5, <1>6 DEF LifeOf
<1>8. Uses(y) = 0
  BY <1>2, <1>5, UsesAre DEF Valid
<1> QED BY <1>6, <1>7, <1>8 DEF y

LEMMA TouchTables ==
  ASSUME IsFiniteSet(User), IInv, Pages, Flags, Flags', Counted, Valid, Life, NEW u \in User, Touch(u)
  PROVE  Counted' /\ Valid' /\ Life'
<1> DEFINE i == it[u]
           j == it'[u]
           y == Up(it[u].lv, it[u].p)
<1>1. Iters /\ Remembers(i) /\ Remembers(j)
  BY DEF IInv, Flags
<1>2. /\ i.lv \in {2, 3} /\ i.op = "alloc" /\ \A v \in User : v # u => it'[v] = it[v]
      /\ j.op = "alloc" /\ j.lv = i.lv - 1 /\ j.p = i.p /\ ~ Leaves(i) /\ ~ Leaves(j)
  BY <1>1, TouchTo DEF Remembers, Level, Leaves
<1>3. y \in Node /\ \A x \in Node : x[1] = i.lv /\ Up(x[1], i.p) = x <=> x = y
  BY <1>2, TableOf DEF Level
<1>4. ASSUME NEW x \in Node
      PROVE  /\ Weight(i, x) = 0 /\ Weight(j, x) = 0 /\ ~ In(i, x) /\ ~ In(j, x)
             /\ ~ LeavesTable(i, x) /\ ~ LeavesTable(j, x)
             /\ Writes(j, x) => x = y \/ link[x]
  <2>1. ~ In(i, x) /\ ~ Owes(i, x) /\ ~ In(j, x) /\ ~ Owes(j, x)
    BY <1>1, <1>2, InAt
  <2>2. Writes(j, x) => x = y \/ Writes(i, x)
    <3>1. x[1] \in {2, 3}
      BY NodeLevel DEF Level
    <3> QED BY <1>2, <1>3, <3>1 DEF Writes
  <2> QED BY <1>2, <2>1, <2>2, NotLeaving DEF Weight, Valid
<1>5. CASE link[y]
  <2>1. UNCHANGED <<link, cnt, mem, leaf>>
    BY <1>5 DEF Touch
  <2> HIDE DEF i, j, y
  <2> QED BY <1>2, <1>4, <1>5, <2>1, StillTables DEF i, j
<1>6. CASE ~ link[y]
  <2>1. /\ link' = [link EXCEPT ![y] = TRUE] /\ cnt' = [cnt EXCEPT ![y] = Fan(y)]
        /\ mem' = [mem EXCEPT ![y] = "used"] /\ leaf' = leaf
    BY <1>6 DEF Touch
  <2>2. mem[y] = "none" /\ Gone(y) = {} /\ Uses(y) = 0 /\ \A v \in User : ~ LeavesTable(it[v], y)
    BY <1>6, FreshTable
  <2> HIDE DEF i, j, y
  <2>3. /\ link' \in [Node -> BOOLEAN] /\ link \in [Node -> BOOLEAN] /\ cnt \in [Node -> Int]
        /\ mem \in [Node -> {"none", "used", "reclaimed", "unmapped"}]
    BY <1>3, <2>1 DEF IInv, Tables, Counted, Life
  <2>4. Fan(y) \in Nat \ {0}
    BY <1>3, GoneCount
  <2>5. /\ cnt' \in [Node -> Int] /\ mem' \in [Node -> {"none", "used", "reclaimed", "unmapped"}]
        /\ link'[y] /\ cnt'[y] = Fan(y) /\ mem'[y] = "used"
        /\ \A x \in Node : x # y => link'[x] = link[x] /\ cnt'[x] = cnt[x] /\ mem'[x] = mem[x]
    BY <1>3, <2>1, <2>3, <2>4
  <2>6. ASSUME NEW x \in Node PROVE Gone(x)' = Gone(x) /\ Cardinality(Gone(x)) \in Nat
    <3>1. \A n \in Node : mem'[n] \in {"reclaimed", "unmapped"} <=> mem[n] \in {"reclaimed", "unmapped"}
      BY <2>2, <2>5
    <3> QED BY <2>1, <3>1, SameGone, GoneCount
  <2>7. ASSUME NEW v \in User, NEW x \in Node
        PROVE  /\ LeavesTable(it'[v], x) <=> LeavesTable(it[v], x)
               /\ LeavesTable(it'[v], x) => (it'[v].at = "unlink" <=> it[v].at = "unlink")
               /\ In(it'[v], x) \/ Writes(it'[v], x) => link'[x]
    <3>1. CASE v = u
      BY <1>4, <2>3, <2>5, <3>1 DEF i, j
    <3>2. CASE v # u
      <4>1. it'[v] = it[v]
        BY <1>2, <3>2
      <4>2. In(it[v], x) \/ Writes(it[v], x) => link[x]
        BY DEF Valid
      <4> QED BY <2>5, <4>1, <4>2
    <3> QED BY <3>1, <3>2
  <2>8. Counted'
    <3>1. ASSUME NEW x \in Node, link'[x] PROVE cnt'[x] = Fan(x) - Cardinality(Gone(x)') + Uses(x)'
      <4>1. CASE x = y
        <5>1. Uses(x)' + Weight(i, x) = Uses(x) + Weight(j, x) /\ Uses(x)' \in Nat
          BY <1>2, UsesChange DEF i, j
        <5>2. Uses(x)' = 0
          BY <1>4, <2>2, <4>1, <5>1
        <5>3. Cardinality(Gone(x)') = 0
          BY <2>2, <2>6, <4>1, FS_EmptySet
        <5> QED BY <2>4, <2>5, <4>1, <5>2, <5>3
      <4>2. CASE x # y
        <5>1. /\ cnt'[x] \in Int /\ Cardinality(Gone(x)') \in Nat /\ link[x]
              /\ cnt'[x] + Cardinality(Gone(x)') + Weight(it[u], x) =
                   cnt[x] + Cardinality(Gone(x)) + Weight(it'[u], x)
          BY <1>4, <2>5, <2>6, <3>1, <4>2 DEF i, j
        <5> QED BY <1>2, <5>1, CountStays
      <4> QED BY <4>1, <4>2
    <3> QED BY <2>5, <3>1 DEF Counted
  <2>9. Valid'
    BY <2>7, Zenon DEF Valid, In, Writes, Walking, Rel, Leaves
  <2>10. ASSUME NEW x \in Node PROVE LifeOf(x)'
    <3>1. LifeOf(x)
      BY LifeIs
    <3>2. CASE x # y
      BY <2>5, <2>6, <2>7, <3>1, <3>2, LifeStays
    <3>3. CASE x = y
      <4>1. \A v \in User : ~ LeavesTable(it'[v], x)
        BY <2>2, <2>7, <3>3
      <4>2. link'[x] /\ mem'[x] = "used" /\ cnt'[x] # 0
        BY <2>4, <2>5, <3>3
      <4> QED BY <4>1, <4>2 DEF LifeOf, LeavesTable, Leaves
    <3> QED BY <3>2, <3>3
  <2>11. Life'
    BY <2>5, <2>10 DEF Life, LifeOf
  <2> QED BY <2>8, <2>9, <2>11
<1> QED BY <1>5, <1>6

(* What a released table weighs: the access, and the child that the thread *)
(* was the last to leave, unless it keeps the parent for another turn.     *)
LEMMA ReleaseWeights ==
  ASSUME IInv, Pages, Flags, Flags', NEW u \in User, Release(u), NEW x \in Node
  PROVE  LET y == Up(it[u].lv, it[u].p)
         IN /\ In(it[u], y) /\ Released(it[u]) \in 1 .. 2
            /\ Weight(it'[u], x) = Weight(it[u], x) - (IF x = y THEN Released(it[u]) ELSE 0)
            /\ In(it'[u], x) => In(it[u], x)
            /\ ~ Writes(it'[u], x) /\ ~ LeavesTable(it[u], x)
            /\ LeavesTable(it'[u], x) <=> x = y /\ cnt[y] - Released(it[u]) = 0
            /\ LeavesTable(it'[u], x) => it'[u].at = "unlink"
<1> DEFINE i == it[u]
           j == it'[u]
           y == Up(it[u].lv, it[u].p)
           r == Released(it[u])
<1>1. Iters /\ i \in IterType /\ Remembers(i) /\ Remembers(j)
  BY DEF IInv, Flags, Iters
<1>2. /\ i.at = "release" /\ i.lv \in {2, 3} /\ i.op \in {"free", "probe"} /\ i.p \in Nat
      /\ IF cnt[y] - r = 0
         THEN /\ Keeps(i, j) /\ j.end = i.end /\ j.by = i.by
              /\ j.last = i.last /\ j.sub = i.sub /\ j.lv = i.lv /\ j.at = "unlink"
         ELSE Goes(i, j, FALSE)
  BY <1>1, ReleaseTo, WalkingOf DEF Level, IterType
<1>3. y \in Node /\ (x[1] = i.lv /\ Up(x[1], i.p) = x <=> x = y) /\ x[1] \in {2, 3}
  BY <1>2, TableOf, NodeLevel DEF Level
<1>4. y[1] = i.lv /\ Up(y[1], i.p) = y
  BY <1>2, TableOf DEF Level
<1>5. /\ In(i, x) <=> Up(x[1], i.p) = x /\ (x[1] > i.lv \/ x[1] = i.lv \/ i.sub)
      /\ Owes(i, x) <=> Up(x[1], i.p) = x /\ x[1] = i.lv /\ i.last
      /\ In(i, y)
  BY <1>1, <1>2, <1>3, <1>4, InAt
<1>6. r = (IF i.last /\ ~ i.sub THEN 2 ELSE 1) /\ (i.sub => i.last) /\ i.last \in BOOLEAN /\ i.sub \in BOOLEAN
  BY <1>1 DEF Released, Remembers, IterType
<1>7. ~ LeavesTable(i, x)
  BY <1>2 DEF LeavesTable, Leaves
<1> HIDE DEF i, j, y, r
<1>8. CASE cnt[y] - r = 0
  <2>1. /\ j.op = i.op /\ j.p = i.p /\ j.last = i.last /\ j.sub = i.sub /\ j.lv = i.lv
        /\ j.at = "unlink" /\ Leaves(j)
    BY <1>2, <1>8 DEF Keeps, Leaves
  <2>2. /\ In(j, x) <=> Up(x[1], j.p) = x /\ (x[1] > j.lv \/ j.sub)
        /\ ~ Owes(j, x) /\ ~ Writes(j, x)
    BY <1>1, <1>2, <2>1, InAt
  <2>3. LeavesTable(j, x) <=> x = y
    BY <1>3, <2>1 DEF LeavesTable
  <2>4. In(j, x) <=> In(i, x) /\ (x = y => i.sub)
    BY <1>2, <1>3, <1>5, <2>1, <2>2
  <2>5. Owes(i, x) <=> x = y /\ i.last
    BY <1>3, <1>5
  <2>6. Weight(j, x) = Weight(i, x) - (IF x = y THEN r ELSE 0)
    BY <1>5, <1>6, <2>2, <2>4, <2>5, WeightIs
  <2> QED BY <1>5, <1>6, <1>7, <1>8, <2>1, <2>2, <2>3, <2>4, <2>6 DEF i, j, y, r
<1>9. CASE cnt[y] - r # 0
  <2>1. Goes(i, j, FALSE)
    BY <1>2, <1>9
  <2>2. j.at \in {"body", "lock", "acquire", "release", "idle"}
    BY <2>1 DEF Goes, NoIter
  <2>3. ~ LeavesTable(j, x)
    BY <2>2 DEF LeavesTable, Leaves
  <2>4. Owes(i, x) <=> x = y /\ i.last
    BY <1>3, <1>5
  <2>5. CASE /\ i.sub /\ i.lv \in {2, 3} /\ Keeps(i, j) /\ ~ j.last /\ j.at \in {"body", "lock"}
    <3>1. /\ In(j, x) <=> Up(x[1], j.p) = x
          /\ ~ Owes(j, x) /\ ~ Writes(j, x) /\ j.p = i.p
      BY <1>1, <1>2, <2>5, InAt DEF Keeps
    <3>2. In(j, x) <=> In(i, x)
      BY <1>5, <2>5, <1>3, <3>1
    <3>3. Weight(j, x) = Weight(i, x) - (IF x = y THEN r ELSE 0)
      BY <1>5, <1>6, <2>4, <2>5, <3>1, <3>2, WeightIs
    <3> QED BY <1>5, <1>6, <1>7, <1>9, <2>3, <3>1, <3>2, <3>3 DEF i, j, y, r
  <2>6. CASE /\ ~ i.sub /\ i.lv = 2 /\ Step(i.p) = 2 /\ j.op = i.op
             /\ j.at = "acquire" /\ j.lv = 2 /\ ~ j.last /\ j.p = i.p + 1
    <3>1. /\ In(j, x) <=> x[1] = 3 /\ Up(x[1], j.p) = x
          /\ ~ Owes(j, x) /\ ~ Writes(j, x)
      BY <1>1, <1>2, <2>6, InAt
    <3>2. Up(3, j.p) = Up(3, i.p)
      BY <1>2, <2>6, StepUp
    <3>3. In(j, x) <=> In(i, x) /\ x # y
      BY <1>3, <1>5, <2>6, <3>1, <3>2
    <3>4. Weight(j, x) = Weight(i, x) - (IF x = y THEN r ELSE 0)
      BY <1>5, <1>6, <2>4, <2>6, <3>1, <3>3, WeightIs
    <3> QED BY <1>5, <1>6, <1>7, <1>9, <2>3, <3>1, <3>3, <3>4 DEF i, j, y, r
  <2>7. CASE /\ ~ i.sub /\ i.lv = 2 /\ Keeps(i, j) /\ j.at = "release" /\ j.lv = 3 /\ ~ j.sub /\ ~ j.last
    <3>1. /\ In(j, x) <=> Up(x[1], j.p) = x /\ (x[1] > j.lv \/ x[1] = j.lv \/ j.sub)
          /\ ~ Owes(j, x) /\ ~ Writes(j, x) /\ j.p = i.p
      BY <1>1, <1>2, <2>7, InAt DEF Keeps
    <3>2. In(j, x) <=> In(i, x) /\ x # y
      BY <1>3, <1>5, <2>7, <3>1
    <3>3. Weight(j, x) = Weight(i, x) - (IF x = y THEN r ELSE 0)
      BY <1>5, <1>6, <2>4, <2>7, <3>1, <3>2, WeightIs
    <3> QED BY <1>5, <1>6, <1>7, <1>9, <2>3, <3>1, <3>2, <3>3 DEF i, j, y, r
  <2>8. CASE ~ i.sub /\ i.lv = 3 /\ ((j.at = "acquire" /\ j.lv = 3 /\ j.op = i.op) \/ j = NoIter)
    <3>1. ~ In(j, x) /\ ~ Owes(j, x) /\ ~ Writes(j, x)
      <4>1. CASE j = NoIter
        BY <4>1 DEF In, Owes, Writes, Walking, NoIter
      <4>2. CASE j # NoIter
        BY <1>1, <1>2, <2>8, <4>2, InAt
      <4> QED BY <4>1, <4>2
    <3>2. In(i, x) <=> x = y
      BY <1>3, <1>5, <2>8
    <3>3. Weight(j, x) = Weight(i, x) - (IF x = y THEN r ELSE 0)
      BY <1>5, <1>6, <2>4, <2>8, <3>1, <3>2, WeightIs
    <3> QED BY <1>5, <1>6, <1>7, <1>9, <2>3, <3>1, <3>2, <3>3 DEF i, j, y, r
  <2> QED BY <2>1, <2>5, <2>6, <2>7, <2>8 DEF Goes
<1> QED BY <1>8, <1>9

LEMMA ReleaseTables ==
  ASSUME IsFiniteSet(User), IInv, Pages, Flags, Flags', Counted, Valid, Life, NEW u \in User, Release(u)
  PROVE  Counted' /\ Valid' /\ Life'
<1> DEFINE i == it[u]
           j == it'[u]
           y == Up(it[u].lv, it[u].p)
           r == Released(it[u])
<1>1. Iters
  BY DEF IInv
<1>2. it[u].lv \in Level /\ it[u].op # "idle" /\ \A v \in User : v # u => it'[v] = it[v]
  BY <1>1, ReleaseTo, WalkingOf
<1>3. y \in Node
  BY <1>2, TableOf
<1>4. cnt' = [cnt EXCEPT ![y] = cnt[y] - r] /\ UNCHANGED <<link, mem, leaf>>
  BY DEF Release
<1>5. \A x \in Node :
        /\ In(i, y) /\ r \in 1 .. 2
        /\ Weight(j, x) = Weight(i, x) - (IF x = y THEN r ELSE 0)
        /\ In(j, x) => In(i, x)
        /\ ~ Writes(j, x) /\ ~ LeavesTable(i, x)
        /\ LeavesTable(j, x) <=> x = y /\ cnt[y] - r = 0
        /\ LeavesTable(j, x) => j.at = "unlink"
  BY ReleaseWeights
<1> HIDE DEF i, j, y, r
<1>6. link[y] /\ r \in Nat \ {0} /\ cnt[y] \in Nat \ {0} /\ cnt \in [Node -> Int]
  <2>1. link[y] /\ r \in 1 .. 2
    BY <1>3, <1>5 DEF Valid, i
  <2>2. cnt[y] \in Nat /\ cnt[y] >= Uses(y) /\ Uses(y) >= 1
    BY <1>3, <1>5, <2>1, CountSays, UsesAre DEF i
  <2> QED BY <2>1, <2>2, CountSays, UsesAre DEF Counted
<1>7. cnt' \in [Node -> Int] /\ cnt'[y] = cnt[y] - r /\ \A x \in Node : x # y => cnt'[x] = cnt[x]
  BY <1>3, <1>4, <1>6
<1>8. \A x \in Node : Gone(x)' = Gone(x) /\ Cardinality(Gone(x)) \in Nat
  <2> SUFFICES ASSUME NEW x \in Node PROVE Gone(x)' = Gone(x) /\ Cardinality(Gone(x)) \in Nat
    OBVIOUS
  <2> QED BY <1>4, SameGone, GoneCount
<1>9. ASSUME NEW x \in Node
      PROVE  cnt'[x] + Cardinality(Gone(x)') + Weight(it[u], x) =
               cnt[x] + Cardinality(Gone(x)) + Weight(it'[u], x)
  <2>1. Weight(i, x) \in Int /\ Weight(j, x) = Weight(i, x) - (IF x = y THEN r ELSE 0)
    BY <1>5, WeightIs
  <2>2. cnt'[x] = cnt[x] - (IF x = y THEN r ELSE 0) /\ cnt[x] \in Int
    BY <1>6, <1>7
  <2> QED BY <1>6, <1>8, <2>1, <2>2 DEF i, j
<1>10. ASSUME NEW x \in Node, link'[x] PROVE cnt'[x] = Fan(x) - Cardinality(Gone(x)') + Uses(x)'
  <2>1. link[x] /\ cnt'[x] \in Int /\ Cardinality(Gone(x)') \in Nat
    BY <1>4, <1>7, <1>8, <1>10
  <2> QED BY <1>2, <1>9, <2>1, CountStays
<1>11. Counted'
  BY <1>7, <1>10 DEF Counted
<1>12. Valid'
  <2>1. ASSUME NEW v \in User, NEW x \in Node, In(it'[v], x) \/ Writes(it'[v], x) PROVE link'[x]
    <3>1. CASE v = u
      BY <1>4, <1>5, <2>1, <3>1 DEF Valid, i, j
    <3>2. CASE v # u
      BY <1>2, <1>4, <2>1, <3>2 DEF Valid
    <3> QED BY <3>1, <3>2
  <2> QED BY <2>1, Zenon DEF Valid, In, Writes, Walking, Rel, Leaves
<1>13. ASSUME NEW x \in Node PROVE LifeOf(x)'
  <2>1. LifeOf(x)
    BY LifeIs
  <2>2. CASE x # y \/ cnt[y] - r # 0
    <3>1. \A v \in User :
            /\ LeavesTable(it'[v], x) <=> LeavesTable(it[v], x)
            /\ LeavesTable(it'[v], x) => (it'[v].at = "unlink" <=> it[v].at = "unlink")
      BY <1>2, <1>5, <2>2 DEF i, j
    <3>2. cnt'[x] = 0 <=> cnt[x] = 0
      BY <1>6, <1>7, <2>2
    <3> QED BY <1>4, <1>8, <2>1, <3>1, <3>2, LifeStays
  <2>3. CASE x = y /\ cnt[y] - r = 0
    <3>1. cnt'[x] = 0 /\ link'[x] /\ mem'[x] = "used"
      BY <1>4, <1>6, <1>7, <2>1, <2>3 DEF LifeOf
    <3>2. Kids(x) \subseteq Gone(x)'
      <4>1. Uses(x)' \in Nat
        BY <1>2, UsesChange
      <4>2. /\ Cardinality(Gone(x)) \in Nat /\ Cardinality(Gone(x)) <= Fan(x) /\ Fan(x) \in Nat
            /\ Cardinality(Gone(x)) = Fan(x) <=> Lost(x)
        BY GoneCount
      <4>3. 0 = Fan(x) - Cardinality(Gone(x)) + Uses(x)'
        BY <1>8, <1>10, <3>1
      <4>4. Cardinality(Gone(x)) = Fan(x)
        <5> DEFINE c == Cardinality(Gone(x))
                   f == Fan(x)
                   w == Uses(x)'
        <5>1. c \in Nat /\ c <= f /\ f \in Nat /\ w \in Nat /\ 0 = f - c + w
          BY <4>1, <4>2, <4>3
        <5> HIDE DEF c, f, w
        <5>2. c = f
          BY <5>1
        <5> QED BY <5>2 DEF c, f
      <4>5. Kids(x) \subseteq Gone(x)
        BY <4>2, <4>4 DEF Lost
      <4> QED BY <1>8, <4>5
    <3>3. ASSUME NEW v \in User PROVE LeavesTable(it'[v], x) <=> v = u
      <4>1. CASE v = u
        BY <1>5, <2>3, <4>1 DEF j
      <4>2. CASE v # u
        <5>1. ~ LeavesTable(it[v], x)
          BY <1>6, <2>1, <2>3 DEF LifeOf
        <5> QED BY <1>2, <4>2, <5>1
      <4> QED BY <4>1, <4>2
    <3>4. it'[u].at = "unlink"
      BY <1>5, <2>3 DEF j
    <3> QED BY <3>1, <3>2, <3>3, <3>4 DEF LifeOf, LeavesTable, Leaves, Lost, Kids
  <2> QED BY <2>2, <2>3
<1>14. mem' \in [Node -> {"none", "used", "reclaimed", "unmapped"}]
  BY <1>4 DEF Life
<1>15. Life'
  BY <1>13, <1>14 DEF Life, LifeOf
<1> QED BY <1>11, <1>12, <1>15

LEMMA UnlinkTables ==
  ASSUME IsFiniteSet(User), IInv, Pages, Flags, Flags', Counted, Valid, Life, NEW u \in User, Unlink(u)
  PROVE  Counted' /\ Valid' /\ Life'
<1> DEFINE i == it[u]
           j == it'[u]
           y == Up(it[u].lv, it[u].p)
<1>1. Iters /\ i \in IterType /\ Remembers(i) /\ Remembers(j) /\ Leaves(i) /\ i.at = "unlink"
  BY DEF IInv, Flags, Iters, Unlink, Leaves
<1>2. i.lv \in {2, 3} /\ i.op \in {"free", "probe"} /\ \A v \in User : v # u => it'[v] = it[v]
  BY <1>1, UnlinkTo, WalkingOf DEF Level
<1>3. j.op = i.op /\ j.p = i.p /\ j.sub = i.sub /\ j.lv = i.lv
  BY <1>1, UnlinkTo DEF Keeps
<1>4. j.at = "invalidate" /\ Leaves(j)
  <2>1. it' = [it EXCEPT ![u] = [it[u] EXCEPT !.at = "invalidate"]]
    BY DEF Unlink
  <2>2. j = [it[u] EXCEPT !.at = "invalidate"]
    BY <1>1, <2>1, Frame
  <2> QED BY <1>1, <2>2 DEF IterType, Leaves
<1>5. /\ y \in Node /\ LeavesTable(i, y) /\ \A v \in User : ~ In(it[v], y) /\ ~ Writes(it[v], y)
      /\ \A x \in Node : x[1] = i.lv /\ Up(x[1], i.p) = x <=> x = y
  BY <1>1, <1>2, LeaverIsAlone, TableOf DEF Level
<1>6. link' = [link EXCEPT ![y] = FALSE] /\ UNCHANGED <<cnt, mem, leaf>> /\ link \in [Node -> BOOLEAN]
  BY DEF Unlink, IInv, Tables
<1>7. ASSUME NEW x \in Node
      PROVE  Weight(j, x) = Weight(i, x) /\ (In(j, x) <=> In(i, x)) /\ ~ Writes(j, x)
             /\ (LeavesTable(j, x) <=> x = y) /\ (LeavesTable(i, x) <=> x = y)
  <2>1. ~ Writes(j, x) /\ ~ Owes(j, x) /\ ~ Owes(i, x) /\ (In(i, x) <=> In(j, x))
    BY <1>1, <1>2, <1>3, <1>4, InAt
  <2> QED BY <1>1, <1>3, <1>4, <1>5, <2>1, SameWeight DEF LeavesTable
<1> HIDE DEF i, j, y
<1>8. ~ link'[y] /\ \A x \in Node : x # y => link'[x] = link[x]
  BY <1>5, <1>6
<1>9. ASSUME NEW x \in Node PROVE Gone(x)' = Gone(x) /\ Cardinality(Gone(x)) \in Nat
  BY <1>6, SameGone, GoneCount
<1>10. Counted'
  <2>1. ASSUME NEW x \in Node, link'[x] PROVE cnt'[x] = Fan(x) - Cardinality(Gone(x)') + Uses(x)'
    <3>1. link[x] /\ cnt'[x] = cnt[x] /\ cnt'[x] \in Int
      BY <1>6, <1>8, <2>1 DEF Counted
    <3>2. cnt'[x] + Cardinality(Gone(x)') + Weight(it[u], x) =
            cnt[x] + Cardinality(Gone(x)) + Weight(it'[u], x)
      BY <1>7, <1>9, <3>1 DEF i, j
    <3> QED BY <1>2, <1>9, <3>1, <3>2, CountStays
  <2> QED BY <1>6, <2>1 DEF Counted
<1>11. Valid'
  <2>1. ASSUME NEW v \in User, NEW x \in Node, In(it'[v], x) \/ Writes(it'[v], x) PROVE link'[x]
    <3>1. In(it[v], x) \/ Writes(it[v], x)
      BY <1>2, <1>7, <2>1 DEF i, j
    <3> QED BY <1>5, <1>8, <3>1 DEF Valid
  <2> QED BY <2>1, Zenon DEF Valid, In, Writes, Walking, Rel, Leaves
<1>12. ASSUME NEW x \in Node PROVE LifeOf(x)'
  <2>1. LifeOf(x) /\ LifeOf(y)
    BY <1>5, LifeIs
  <2>2. CASE x # y
    <3>1. \A v \in User :
            /\ LeavesTable(it'[v], x) <=> LeavesTable(it[v], x)
            /\ LeavesTable(it'[v], x) => (it'[v].at = "unlink" <=> it[v].at = "unlink")
      BY <1>2, <1>7, <2>2 DEF i, j
    <3> QED BY <1>6, <1>8, <1>9, <2>1, <2>2, <3>1, LifeStays
  <2>3. CASE x = y
    <3>1. \A v \in User : LeavesTable(it[v], x) <=> v = u
      BY <1>5, <2>1, <2>3 DEF LifeOf, i
    <3>2. \A v \in User : LeavesTable(it'[v], x) <=> v = u
      BY <1>2, <1>7, <2>3, <3>1 DEF j
    <3>3. mem'[x] = "used" /\ Kids(x) \subseteq Gone(x)' /\ ~ link'[x]
      BY <1>6, <1>8, <1>9, <2>1, <2>3, <3>1 DEF LifeOf, Lost
    <3>4. it'[u].at # "unlink"
      BY <1>4 DEF j
    <3> QED BY <3>2, <3>3, <3>4 DEF LifeOf, LeavesTable, Leaves, Lost, Kids
  <2> QED BY <2>2, <2>3
<1>13. mem' \in [Node -> {"none", "used", "reclaimed", "unmapped"}]
  BY <1>6 DEF Life
<1>14. Life'
  BY <1>12, <1>13 DEF Life, LifeOf
<1> QED BY <1>10, <1>11, <1>14

(* The thread that reclaims an L2 table owes its L3 table one child.       *)
LEMMA ReclaimWeights ==
  ASSUME IsFiniteSet(User), IInv, Pages, Flags, Flags', Counted, Valid, Life, NEW u \in User, Reclaim(u),
         NEW x \in Node
  PROVE  LET y == Up(it[u].lv, it[u].p)
         IN /\ Weight(it'[u], x) = Weight(it[u], x) + (IF it[u].lv = 2 /\ x = Up(3, it[u].p) THEN 1 ELSE 0)
            /\ In(it'[u], x) => In(it[u], x)
            /\ it[u].lv = 2 => In(it[u], Up(3, it[u].p))
            /\ ~ Writes(it'[u], x) /\ ~ LeavesTable(it'[u], x)
            /\ LeavesTable(it[u], x) <=> x = y
<1> DEFINE i == it[u]
           j == it'[u]
           y == Up(it[u].lv, it[u].p)
           z == Up(3, it[u].p)
<1>1. Iters /\ i \in IterType /\ Remembers(i) /\ Remembers(j) /\ Leaves(i) /\ i.at = "reclaim"
  BY DEF IInv, Flags, Iters, Reclaim, Leaves
<1>2. i.lv \in {2, 3} /\ i.op \in {"free", "probe"} /\ Goes(i, j, TRUE) /\ i.p \in Nat
  BY <1>1, ReclaimTo, WalkingOf DEF Level, IterType
<1>3. /\ y \in Node /\ ~ i.sub /\ z \in Node /\ z[1] = 3
      /\ x[1] = i.lv /\ Up(x[1], i.p) = x <=> x = y
      /\ x[1] = 3 /\ Up(x[1], i.p) = x <=> x = z
  <2>1. i.p \in L1
    BY <1>2, PlaceOf
  <2> QED BY <1>1, <1>2, <2>1, LeaverIsAlone, TableOf, UpInNode DEF Level
<1>4. x[1] \in {2, 3}
  BY NodeLevel DEF Level
<1>5. /\ In(i, x) <=> i.lv = 2 /\ x = z
      /\ ~ Owes(i, x)
      /\ i.lv = 2 => In(i, z)
  <2>1. /\ In(i, x) <=> Up(x[1], i.p) = x /\ (x[1] > i.lv \/ i.sub)
        /\ ~ Owes(i, x)
        /\ In(i, z) <=> Up(z[1], i.p) = z /\ (z[1] > i.lv \/ i.sub)
    BY <1>1, <1>2, <1>3, InAt
  <2> QED BY <1>2, <1>3, <1>4, <2>1
<1>6. LeavesTable(i, x) <=> x = y
  BY <1>1, <1>3 DEF LeavesTable
<1>7. ~ LeavesTable(j, x)
  <2>1. j.at \in {"body", "lock", "acquire", "release", "idle"}
    BY <1>2 DEF Goes, NoIter
  <2> QED BY <2>1 DEF LeavesTable, Leaves
<1>8. ASSUME ~ Writes(j, x), In(j, x) <=> In(i, x), Owes(j, x) <=> In(i, x)
      PROVE  /\ Weight(j, x) = Weight(i, x) + (IF i.lv = 2 /\ x = z THEN 1 ELSE 0)
             /\ In(j, x) => In(i, x)
             /\ ~ Writes(j, x)
  BY <1>5, <1>8, WeightIs
<1> HIDE DEF i, j, y, z
<1>9. CASE /\ i.lv = 2 /\ Step(i.p) = 2 /\ j.op = i.op /\ j.by = 2
           /\ j.at = "acquire" /\ j.lv = 2 /\ j.last /\ j.p = i.p + 1
  <2>1. /\ In(j, x) <=> x[1] = 3 /\ Up(x[1], j.p) = x
        /\ Owes(j, x) <=> In(j, x)
        /\ ~ Writes(j, x)
    BY <1>1, <1>2, <1>9, InAt
  <2>2. Up(3, j.p) = Up(3, i.p)
    BY <1>2, <1>9, StepUp
  <2>3. In(j, x) <=> In(i, x)
    BY <1>3, <1>5, <1>9, <2>1, <2>2
  <2> QED BY <1>5, <1>6, <1>7, <1>8, <2>1, <2>3 DEF i, j, y, z
<1>10. CASE /\ i.lv = 2 /\ Keeps(i, j) /\ j.at = "release" /\ j.lv = 3 /\ ~ j.sub /\ j.last
  <2>1. /\ In(j, x) <=> Up(x[1], j.p) = x /\ (x[1] > j.lv \/ x[1] = j.lv \/ j.sub)
        /\ Owes(j, x) <=> Up(x[1], j.p) = x /\ x[1] = j.lv /\ j.last
        /\ ~ Writes(j, x) /\ j.p = i.p
    BY <1>1, <1>2, <1>10, InAt DEF Keeps
  <2>2. (In(j, x) <=> In(i, x)) /\ (Owes(j, x) <=> In(i, x))
    BY <1>3, <1>4, <1>5, <1>10, <2>1
  <2> QED BY <1>5, <1>6, <1>7, <1>8, <2>1, <2>2 DEF i, j, y, z
<1>11. CASE i.lv = 3 /\ ((j.at = "acquire" /\ j.lv = 3 /\ j.op = i.op) \/ j = NoIter)
  <2>1. ~ In(j, x) /\ ~ Owes(j, x) /\ ~ Writes(j, x)
    <3>1. CASE j = NoIter
      BY <3>1 DEF In, Owes, Writes, Walking, NoIter
    <3>2. CASE j # NoIter
      BY <1>1, <1>2, <1>11, <3>2, InAt
    <3> QED BY <3>1, <3>2
  <2>2. ~ In(i, x)
    BY <1>5, <1>11
  <2> QED BY <1>5, <1>6, <1>7, <1>8, <2>1, <2>2 DEF i, j, y, z
<1> QED BY <1>2, <1>3, <1>9, <1>10, <1>11 DEF Goes

LEMMA ReclaimTables ==
  ASSUME IsFiniteSet(User), IInv, Pages, Flags, Flags', Counted, Valid, Life, NEW u \in User, Reclaim(u)
  PROVE  Counted' /\ Valid' /\ Life'
<1> DEFINE i == it[u]
           j == it'[u]
           y == Up(it[u].lv, it[u].p)
           z == Up(3, it[u].p)
           up == it[u].lv = 2
<1>1. Leaves(i) /\ i.at = "reclaim" /\ Iters
  BY DEF IInv, Reclaim, Leaves
<1>2. i.lv \in {2, 3} /\ i.op # "idle" /\ \A v \in User : v # u => it'[v] = it[v]
  BY <1>1, ReclaimTo, WalkingOf DEF Level
<1>3. /\ y \in Node /\ y[1] = i.lv /\ z \in Node /\ z[1] = 3
      /\ up => y \in Kids(z) /\ y[2] \div Fan3 = z[2]
  <2>1. i.p \in L1
    BY <1>2, PlaceOf
  <2> QED BY <1>2, <2>1, UpInNode
<1>4. mem' = [mem EXCEPT ![y] = "reclaimed"] /\ UNCHANGED <<link, cnt, leaf>>
  BY DEF Reclaim
<1>5. \A x \in Node :
        /\ Weight(j, x) = Weight(i, x) + (IF up /\ x = z THEN 1 ELSE 0)
        /\ In(j, x) => In(i, x)
        /\ up => In(i, z)
        /\ ~ Writes(j, x) /\ ~ LeavesTable(j, x)
        /\ LeavesTable(i, x) <=> x = y
  BY ReclaimWeights
<1> HIDE DEF i, j, y, z
<1>6. LifeOf(y) /\ LeavesTable(i, y) /\ mem[y] = "used" /\ Lost(y) /\ ~ link[y]
      /\ \A v \in User : LeavesTable(it[v], y) => v = u
  <2>1. LifeOf(y) /\ LeavesTable(i, y)
    BY <1>3, <1>5, LifeIs
  <2> QED BY <1>1, <2>1 DEF LifeOf, i
<1>7. /\ mem' \in [Node -> {"none", "used", "reclaimed", "unmapped"}]
      /\ mem'[y] = "reclaimed" /\ \A x \in Node : x # y => mem'[x] = mem[x]
  BY <1>3, <1>4 DEF Life
<1>8. up => link[z] /\ mem[z] = "used" /\ z # y
  BY <1>3, <1>5, LifeIs DEF Valid, LifeOf, i
<1>9. ASSUME NEW x \in Node, ~ (up /\ x = z) PROVE Gone(x)' = Gone(x) /\ Cardinality(Gone(x)) \in Nat
  <2>1. CASE x[1] = 3
    <3>1. \A n \in Node : n[1] = 2 /\ n[2] \div Fan3 = x[2] => n # y
      <4>1. ASSUME y[1] = 2, y[2] \div Fan3 = x[2] PROVE FALSE
        <5>1. up
          BY <1>3, <4>1 DEF i
        <5>2. x[2] = z[2] /\ x[1] = z[1]
          BY <1>3, <2>1, <4>1, <5>1
        <5>3. x = z
          BY <1>3, <5>2 DEF Node
        <5> QED BY <1>9, <5>1, <5>3
      <4> QED BY <4>1
    <3>2. Gone(x)' = Gone(x)
      BY <1>7, <2>1, <3>1 DEF Gone
    <3> QED BY <3>2, GoneCount
  <2>2. CASE x[1] # 3
    <3>1. Gone(x)' = Gone(x)
      BY <1>4, <2>2 DEF Gone
    <3> QED BY <3>1, GoneCount
  <2> QED BY <2>1, <2>2
<1>10. ASSUME up, NEW x \in Node, x = z
       PROVE  /\ Gone(x)' = Gone(x) \cup {y} /\ Cardinality(Gone(x)) \in Nat
              /\ Cardinality(Gone(x)') = Cardinality(Gone(x)) + 1
  <2>1. Gone(x) = {n \in Node : n[1] = 2 /\ n[2] \div Fan3 = x[2] /\ mem[n] \in {"reclaimed", "unmapped"}}
    BY <1>3, <1>10 DEF Gone
  <2>2. Gone(x)' = {n \in Node : n[1] = 2 /\ n[2] \div Fan3 = x[2] /\ mem'[n] \in {"reclaimed", "unmapped"}}
    BY <1>3, <1>10 DEF Gone
  <2>3. y[1] = 2 /\ y[2] \div Fan3 = x[2]
    BY <1>3, <1>10 DEF i
  <2>4. Gone(x)' = Gone(x) \cup {y} /\ y \notin Gone(x)
    BY <1>3, <1>6, <1>7, <2>1, <2>2, <2>3
  <2>5. IsFiniteSet(Gone(x)) /\ Cardinality(Gone(x)) \in Nat
    BY GoneCount
  <2>6. Cardinality(Gone(x) \cup {y}) = Cardinality(Gone(x)) + 1
    BY <2>4, <2>5, FS_AddElement
  <2> QED BY <2>4, <2>5, <2>6
<1>11. ASSUME NEW x \in Node
       PROVE  /\ Gone(x) \subseteq Gone(x)' /\ Cardinality(Gone(x)') \in Nat
              /\ Cardinality(Gone(x)) \in Nat
              /\ Cardinality(Gone(x)') = Cardinality(Gone(x)) + (IF up /\ x = z THEN 1 ELSE 0)
  <2>1. CASE up /\ x = z
    BY <1>10, <2>1
  <2>2. CASE ~ (up /\ x = z)
    BY <1>9, <2>2
  <2> QED BY <2>1, <2>2
<1>12. Counted'
  <2>1. ASSUME NEW x \in Node, link'[x] PROVE cnt'[x] = Fan(x) - Cardinality(Gone(x)') + Uses(x)'
    <3>1. link[x] /\ cnt'[x] = cnt[x] /\ cnt[x] \in Int
      BY <1>4, <2>1 DEF Counted
    <3>2. Weight(i, x) \in Int /\ Weight(j, x) = Weight(i, x) + (IF up /\ x = z THEN 1 ELSE 0)
      BY <1>5, WeightIs
    <3> HIDE DEF up
    <3>3. cnt'[x] + Cardinality(Gone(x)') + Weight(it[u], x) =
            cnt[x] + Cardinality(Gone(x)) + Weight(it'[u], x)
      BY <1>11, <3>1, <3>2 DEF i, j
    <3> QED BY <1>2, <1>11, <3>1, <3>3, CountStays
  <2> QED BY <1>4, <2>1 DEF Counted
<1>13. Valid'
  <2>1. ASSUME NEW v \in User, NEW x \in Node, In(it'[v], x) \/ Writes(it'[v], x) PROVE link'[x]
    <3>1. In(it[v], x) \/ Writes(it[v], x)
      BY <1>2, <1>5, <2>1 DEF i, j
    <3> QED BY <1>4, <3>1 DEF Valid
  <2> QED BY <2>1, Zenon DEF Valid, In, Writes, Walking, Rel, Leaves
<1>14. ASSUME NEW x \in Node PROVE LifeOf(x)'
  <2>1. LifeOf(x)
    BY LifeIs
  <2>2. CASE x # y
    <3>1. \A v \in User :
            /\ LeavesTable(it'[v], x) <=> LeavesTable(it[v], x)
            /\ LeavesTable(it'[v], x) => (it'[v].at = "unlink" <=> it[v].at = "unlink")
      BY <1>2, <1>5, <2>2 DEF i, j
    <3>2. mem[x] = "none" => Gone(x)' = Gone(x)
      BY <1>8, <1>9
    <3> QED BY <1>4, <1>7, <1>11, <2>1, <2>2, <3>1, <3>2, LifeStays
  <2>3. CASE x = y
    <3>1. \A v \in User : ~ LeavesTable(it'[v], x)
      BY <1>2, <1>5, <1>6, <2>3 DEF j
    <3>2. mem'[x] = "reclaimed" /\ ~ link'[x] /\ Kids(x) \subseteq Gone(x)'
      BY <1>4, <1>6, <1>7, <1>11, <2>3 DEF Lost
    <3> QED BY <3>1, <3>2 DEF LifeOf, LeavesTable, Leaves, Lost, Kids
  <2> QED BY <2>2, <2>3
<1>15. Life'
  BY <1>7, <1>14 DEF Life, LifeOf
<1> QED BY <1>12, <1>13, <1>15

(* Steps that leave the iterators of the user threads alone.               *)
LEMMA AloneTables ==
  ASSUME Counted, Valid, Life, UNCHANGED <<link, cnt, it>>,
         mem' \in [Node -> {"none", "used", "reclaimed", "unmapped"}],
         \A p \in L1 : leaf'[p] = "destroyed" <=> leaf[p] = "destroyed",
         \A n \in Node : mem'[n] = mem[n] \/ (mem[n] = "reclaimed" /\ mem'[n] = "unmapped")
  PROVE  Counted' /\ Valid' /\ Life'
<1>1. \A n \in Node : mem'[n] \in {"reclaimed", "unmapped"} <=> mem[n] \in {"reclaimed", "unmapped"}
  OBVIOUS
<1>2. ASSUME NEW x PROVE Gone(x)' = Gone(x) /\ Uses(x)' = Uses(x)
  <2>1. Gone(x)' = Gone(x)
    BY <1>1, SameGone
  <2>2. Inside(x)' = Inside(x)
    BY DEF Inside
  <2>3. Owing(x)' = Owing(x)
    BY <2>2 DEF Owing
  <2> QED BY <2>1, <2>2, <2>3 DEF Uses
<1>3. Counted'
  BY <1>2 DEF Counted
<1>4. Valid'
  BY DEF Valid, In, Writes, Walking, Rel, Leaves
<1>5. ASSUME NEW x \in Node PROVE LifeOf(x)'
  <2>1. LifeOf(x) /\ Gone(x)' = Gone(x)
    BY <1>2, LifeIs
  <2>2. mem'[x] = mem[x] \/ (mem[x] = "reclaimed" /\ mem'[x] = "unmapped")
    OBVIOUS
  <2> QED BY <2>1, <2>2 DEF LifeOf, LeavesTable, Leaves, Lost, Kids
<1>6. Life'
  BY <1>5 DEF Life, LifeOf
<1> QED BY <1>3, <1>4, <1>6

LEMMA MemIs ==
  ASSUME Life
  PROVE  mem \in [Node -> {"none", "used", "reclaimed", "unmapped"}]
BY DEF Life

LEMMA UnmapStep ==
  ASSUME Pages, Flags, Counted, Valid, Life, NEW x \in Node, Unmap(x)
  PROVE  TInv'
<1>1. /\ mem' \in [Node -> {"none", "used", "reclaimed", "unmapped"}]
      /\ \A n \in Node : mem'[n] = mem[n] \/ (mem[n] = "reclaimed" /\ mem'[n] = "unmapped")
  BY MemIs DEF Unmap
<1>2. Counted' /\ Valid' /\ Life'
  <2>1. UNCHANGED <<link, cnt, it>> /\ \A p \in L1 : leaf'[p] = "destroyed" <=> leaf[p] = "destroyed"
    BY DEF Unmap
  <2> QED BY <1>1, <2>1, AloneTables
<1>3. Pages'
  BY DEF Unmap, walk, Pages, Ranges, Claims, Locks, Taken, Claim, Todo, Extent, Holding, Rel, Leaves
<1>4. Flags'
  BY DEF Unmap, Flags, Remembers, Rel, Leaves
<1> QED BY <1>2, <1>3, <1>4 DEF TInv

LEMMA HandlerKeepsTables ==
  ASSUME IInv, Pages, Flags, Counted, Valid, Life, NEW h \in Handler, HandlerStep(h)
  PROVE  TInv'
<1>1. UNCHANGED <<link, cnt, mem, it>>
  BY DEF HandlerStep, Fault, ReadCache, Map, Check, Load, Store, Verify, TryLock, Finish, NextTable, user
<1>2. pf[h].p \in L1 /\ (pf[h].at = "hold" => leaf[pf[h].p] = "locked") /\ leaf \in [L1 -> LeafState]
  BY DEF Pages, Ranges, Locks
<1>3. \A p \in L1 : leaf'[p] = "destroyed" <=> leaf[p] = "destroyed"
  <2>1. CASE TryLock(h)
    BY <1>2, <2>1 DEF TryLock
  <2>2. CASE Finish(h) \/ NextTable(h)
    <3>1. leaf' = [leaf EXCEPT ![pf[h].p] = "free"] /\ leaf[pf[h].p] = "locked"
      BY <1>2, <2>2 DEF Finish, NextTable
    <3> QED BY <1>2, <3>1
  <2>3. CASE ~ (TryLock(h) \/ Finish(h) \/ NextTable(h))
    BY <2>3 DEF HandlerStep, Fault, ReadCache, Map, Check, Load, Store, Verify
  <2> QED BY <2>1, <2>2, <2>3
<1>4. Counted' /\ Valid' /\ Life'
  <2>1. /\ mem' \in [Node -> {"none", "used", "reclaimed", "unmapped"}]
        /\ \A n \in Node : mem'[n] = mem[n] \/ (mem[n] = "reclaimed" /\ mem'[n] = "unmapped")
    BY <1>1, MemIs
  <2> QED BY <1>1, <1>3, <2>1, AloneTables
<1>5. Flags'
  BY <1>1 DEF Flags, Remembers, Rel, Leaves
<1> QED BY <1>4, <1>5, HandlerPages DEF TInv

(* Every step of a user thread preserves the counts.                       *)
LEMMA UserKeepsTables ==
  ASSUME IsFiniteSet(User), LastChoices \subseteq {FALSE}, IInv, TInv, NEW u \in User, UserStep(u)
  PROVE  TInv'
<1>1. Pages /\ Flags /\ Counted /\ Valid /\ Life
  BY DEF TInv
<1>2. Pages'
  BY <1>1, UserPages
<1>3. Flags'
  <2>1. it[u].at = "reclaim" => ~ it[u].sub
    BY <1>1, LeaverIsAlone DEF Leaves
  <2> QED BY <1>1, <2>1, UserFlags
<1>4. CASE (\E n \in Sizes : Alloc(u, n)) \/ (\E o \in objs : Free(u, o)) \/ (\E o \in Pointers : Probe(u, o))
  BY <1>1, <1>2, <1>3, <1>4, AllocTables DEF TInv
<1>5. CASE Touch(u)
  BY <1>1, <1>2, <1>3, <1>5, TouchTables DEF TInv
<1>6. CASE TouchLeaf(u) \/ Write(u)
  BY <1>1, <1>2, <1>3, <1>6, WriteTables DEF TInv
<1>7. CASE Acquire(u)
  BY <1>1, <1>2, <1>3, <1>7, AcquireTables DEF TInv
<1>8. CASE AcquireFails(u)
  BY <1>1, <1>2, <1>3, <1>8, AcquireFailsTables DEF TInv
<1>9. CASE Lock(u) \/ LockFails(u)
  BY <1>1, <1>2, <1>3, <1>9, LockTables DEF TInv
<1>10. CASE Body(u)
  BY <1>1, <1>2, <1>3, <1>10, BodyTables DEF TInv
<1>11. CASE Release(u)
  BY <1>1, <1>2, <1>3, <1>11, ReleaseTables DEF TInv
<1>12. CASE Unlink(u)
  BY <1>1, <1>2, <1>3, <1>12, UnlinkTables DEF TInv
<1>13. CASE Invalidate(u)
  BY <1>1, <1>2, <1>3, <1>13, InvalidateTables DEF TInv
<1>14. CASE Reclaim(u)
  BY <1>1, <1>2, <1>3, <1>14, ReclaimTables DEF TInv
<1> QED BY <1>4, <1>5, <1>6, <1>7, <1>8, <1>9, <1>10, <1>11, <1>12, <1>13, <1>14 DEF UserStep

LEMMA StutterTables ==
  ASSUME TInv, UNCHANGED vars
  PROVE  TInv'
<1>1. Gone(0)' = Gone(0) /\ UNCHANGED <<link, cnt, mem, leaf, high, objs, dead, it, pf>>
  BY DEF vars, Gone
<1>2. Pages'
  BY <1>1 DEF TInv, Pages, Ranges, Claims, Locks, Taken, Claim, Todo, Extent, Holding, Rel, Leaves
<1>3. Flags'
  BY <1>1 DEF TInv, Flags, Remembers, Rel, Leaves
<1>4. Counted' /\ Valid' /\ Life'
  <2>1. mem' \in [Node -> {"none", "used", "reclaimed", "unmapped"}]
    BY <1>1, MemIs DEF TInv
  <2>2. \A n \in Node : mem'[n] = mem[n] \/ (mem[n] = "reclaimed" /\ mem'[n] = "unmapped")
    BY <1>1
  <2>3. \A p \in L1 : leaf'[p] = "destroyed" <=> leaf[p] = "destroyed"
    BY <1>1
  <2>4. UNCHANGED <<link, cnt, it>>
    BY <1>1
  <2> QED BY <2>1, <2>2, <2>3, <2>4, AloneTables DEF TInv
<1> QED BY <1>2, <1>3, <1>4 DEF TInv

LEMMA InitTables == ASSUME Init PROVE TInv
<1>1. /\ link = [x \in Node |-> FALSE] /\ cnt = [x \in Node |-> 0] /\ mem = [x \in Node |-> "none"]
      /\ leaf = [p \in L1 |-> "null"] /\ high = 0 /\ objs = {} /\ dead = {}
      /\ \A u \in User : it[u] = NoIter
      /\ \A h \in Handler : pf[h] = NoWalk
  BY DEF Init
<1>2. /\ NoIter.op = "idle" /\ NoIter.at = "idle" /\ NoIter.by = 0 /\ ~ NoIter.sub /\ ~ NoIter.last
      /\ Claim(NoIter) = {} /\ Todo(NoIter) = {} /\ ~ Holding(NoIter)
      /\ ~ Rel(NoIter) /\ ~ Leaves(NoIter)
  BY DEF NoIter, Claim, Todo, Holding, Rel, Leaves
<1>3. Flags
  BY <1>1, <1>2 DEF Flags, Remembers
<1>4. Pages
  <2>1. leaf \in [L1 -> LeafState]
    BY <1>1 DEF LeafState
  <2>2. Ranges
    <3>1. NL1 \in Nat
      BY TrieAssumption
    <3> QED BY <1>1, <1>2, <3>1, ZeroIsLeaf DEF Ranges
  <2>3. Claims
    BY <1>1, <1>2 DEF Claims
  <2>4. Locks
    BY <1>1, <1>2, ZeroIsLeaf DEF Locks
  <2> QED BY <2>1, <2>2, <2>3, <2>4 DEF Pages
<1>5. ASSUME NEW u \in User, NEW x \in Node
      PROVE  ~ In(it[u], x) /\ ~ Writes(it[u], x) /\ ~ LeavesTable(it[u], x)
  BY <1>1, <1>2 DEF In, Writes, LeavesTable, Walking
<1>6. Counted /\ Valid
  BY <1>1, <1>5 DEF Counted, Valid
<1>7. ASSUME NEW x \in Node PROVE LifeOf(x)
  <2>1. Gone(x) = {}
    BY <1>1 DEF Gone
  <2>2. mem[x] = "none" /\ ~ link[x]
    BY <1>1
  <2> QED BY <1>5, <2>1, <2>2 DEF LifeOf
<1>8. mem \in [Node -> {"none", "used", "reclaimed", "unmapped"}]
  BY <1>1
<1>9. Life
  BY <1>7, <1>8 DEF Life, LifeOf
<1> QED BY <1>3, <1>4, <1>6, <1>9 DEF TInv

LEMMA NextTables ==
  ASSUME IsFiniteSet(User), LastChoices \subseteq {FALSE}, IInv, TInv, [Next]_vars
  PROVE  TInv'
<1>1. CASE UNCHANGED vars \/ Quiescent
  BY <1>1, StutterTables DEF Quiescent
<1>2. CASE \E u \in User : UserStep(u)
  BY <1>2, UserKeepsTables
<1>3. CASE \E h \in Handler : HandlerStep(h)
  BY <1>3, HandlerKeepsTables DEF TInv
<1>4. CASE \E x \in Node : Unmap(x)
  BY <1>4, UnmapStep DEF TInv
<1> QED BY <1>1, <1>2, <1>3, <1>4 DEF Next

-----------------------------------------------------------------------------
(* With finitely many threads, and if the is_last that trie_iter_init does *)
(* not set happens to be FALSE, every reachable state has its counts in    *)
(* order.                                                                  *)
THEOREM CountsInvariant ==
  ASSUME IsFiniteSet(User), LastChoices \subseteq {FALSE}
  PROVE  Spec => []TInv
<1>1. Init => TInv
  BY InitTables
<1>2. IInv /\ TInv /\ [Next]_vars => TInv'
  BY NextTables
<1> QED BY <1>1, <1>2, Invariant, PTL DEF Spec

(* trie.c:387, "now iter->nodes[3] is valid until release": a table that a *)
(* user thread has acquired, or writes entries below, stays linked and its *)
(* page is not reclaimed, whatever the other threads free in the meantime. *)
THEOREM TablesStayValidHolds ==
  ASSUME IsFiniteSet(User), LastChoices \subseteq {FALSE}
  PROVE  Spec => []TablesStayValid
<1>1. TInv => TablesStayValid
  <2> SUFFICES ASSUME TInv, NEW x \in Node, Inside(x) \cup Writing(x) # {}
               PROVE  link[x] /\ mem[x] = "used"
    BY DEF TablesStayValid
  <2>1. PICK u \in User : In(it[u], x) \/ Writes(it[u], x)
    <3>1. Inside(x) = {v \in User : In(it[v], x)}
      BY UsersAre
    <3>2. Writing(x) = {v \in User : Writes(it[v], x)}
      BY DEF Writing, Writes
    <3> QED BY <3>1, <3>2
  <2>2. link[x]
    BY <2>1 DEF TInv, Valid
  <2> QED BY <2>2, LifeIs DEF TInv, LifeOf
<1> QED BY <1>1, CountsInvariant, PTL

(* trie.h:90, "<alloc + access cnt>": the count of every linked table is   *)
(* the number of its children that are not gone, plus the accesses, plus   *)
(* what a thread still has to subtract.                                    *)
THEOREM CountsAreExactHolds ==
  ASSUME IsFiniteSet(User), LastChoices \subseteq {FALSE}
  PROVE  Spec => []CountsAreExact
<1>1. TInv => CountsAreExact
  <2> SUFFICES ASSUME TInv, NEW x \in Node, link[x]
               PROVE  cnt[x] = Fan(x) - Cardinality(Gone(x)) + Cardinality(Inside(x)) + Cardinality(Owing(x))
    BY DEF CountsAreExact
  <2>1. cnt[x] = Fan(x) - Cardinality(Gone(x)) + Uses(x)
    BY DEF TInv, Counted
  <2>2. Cardinality(Inside(x)) \in Nat /\ Cardinality(Owing(x)) \in Nat
    BY UsesAre, FS_CardinalityType
  <2>3. Cardinality(Gone(x)) \in Nat /\ Fan(x) \in Nat
    BY GoneCount
  <2> QED BY <2>1, <2>2, <2>3 DEF Uses
<1> QED BY <1>1, CountsInvariant, PTL

LEMMA LostIsReclaimed ==
  ASSUME IsFiniteSet(User), TInv, \A u \in User : it[u].at = "idle", NEW x \in Node, Lost(x)
  PROVE  mem[x] \in {"reclaimed", "unmapped"}
<1>1. LifeOf(x) /\ mem[x] \in {"none", "used", "reclaimed", "unmapped"} /\ Counted /\ Flags
  BY LifeIs, MemIs DEF TInv
<1>2. mem[x] # "none"
  <2>1. ASSUME Gone(x) = {} PROVE FALSE
    <3>1. Cardinality(Gone(x)) = Fan(x) /\ Fan(x) # 0
      BY GoneCount
    <3> QED BY <2>1, <3>1, FS_EmptySet
  <2> QED BY <1>1, <2>1 DEF LifeOf
<1>3. \A u \in User : ~ LeavesTable(it[u], x) /\ ~ In(it[u], x)
  BY <1>1 DEF LeavesTable, Leaves, In, Walking, Flags, Remembers
<1>4. link[x] => cnt[x] = 0
  BY <1>1, <1>3, CountSays, UsesAre
<1>5. mem[x] # "used"
  BY <1>1, <1>3, <1>4 DEF LifeOf
<1> QED BY <1>1, <1>2, <1>5

(* trie.c, release_trie_node: a table is reclaimed only when every L1      *)
(* table below it was destroyed, so nothing in use, nothing that an        *)
(* allocation has yet to write and nothing that was never handed out is    *)
(* lost with it; and no table whose L1 tables are all destroyed is left    *)
(* behind when the threads have finished.                                  *)
THEOREM ReclaimedIffDeadHolds ==
  ASSUME IsFiniteSet(User), LastChoices \subseteq {FALSE}
  PROVE  Spec => []ReclaimedIffDead
<1>1. TInv => ReclaimedIffDead
  <2> SUFFICES ASSUME TInv PROVE ReclaimedIffDead
    OBVIOUS
  <2>1. ASSUME NEW x \in Node, mem[x] \in {"reclaimed", "unmapped"} PROVE Dead(x)
    <3>1. x[1] \in {2, 3}
      BY NodeLevel DEF Level
    <3> QED BY <2>1, <3>1, LostDown DEF Dead, TInv
  <2>2. ASSUME NEW x \in Node, Dead(x), x[1] = 2 PROVE Lost(x)
    BY <2>2, GoneKids DEF Dead, Lost, Kids
  <2>3. ASSUME NEW x \in Node, Dead(x), x[1] = 3, \A u \in User : it[u].at = "idle" PROVE Lost(x)
    <3>1. ASSUME NEW n \in Kids(x) PROVE n \in Gone(x)
      <4>1. n \in Node /\ n[1] = 2 /\ n[2] \div Fan3 = x[2]
        BY <2>3 DEF Kids
      <4>2. ASSUME NEW p \in L1, Up(2, p) = n PROVE leaf[p] = "destroyed"
        <5>1. Up(3, p) \in Node /\ Up(3, p)[1] = 3 /\ Up(3, p)[2] = x[2]
          BY <4>1, <4>2, UpInNode
        <5>2. Up(3, p) = x
          BY <2>3, <5>1 DEF Node
        <5> QED BY <2>3, <5>2 DEF Dead
      <4>3. Lost(n)
        BY <2>2, <4>1, <4>2 DEF Dead
      <4>4. mem[n] \in {"reclaimed", "unmapped"}
        BY <2>3, <4>1, <4>3, LostIsReclaimed
      <4> QED BY <2>3, <4>4, GoneKids
    <3> QED BY <3>1 DEF Lost
  <2>4. ASSUME NEW x \in Node, Dead(x), \A u \in User : it[u].at = "idle"
        PROVE  mem[x] \in {"reclaimed", "unmapped"}
    <3>1. x[1] \in {2, 3}
      BY NodeLevel DEF Level
    <3> QED BY <2>2, <2>3, <2>4, <3>1, LostIsReclaimed
  <2> QED BY <2>1, <2>4 DEF ReclaimedIffDead
<1> QED BY <1>1, CountsInvariant, PTL

-----------------------------------------------------------------------------
(* What the handler has translated.  It holds a foreign page only of a     *)
(* table whose own page was unmapped.                                      *)
Translated(w) ==
  w.at \in {"check", "store", "verify"} /\ w.k[w.lv] = Foreign => mem[Up(w.lv, w.p)] = "unmapped"

Translates == \A h \in Handler : Translated(pf[h])

LEMMA GotoAt ==
  ASSUME NEW w \in WalkType, NEW a, NEW n, a \notin {"check", "store", "verify"}
  PROVE  Translated(Goto(w, a, n))
BY DEF Goto, WalkType, Translated

LEMMA NoWalkTranslated == Translated(NoWalk)
BY DEF Translated, NoWalk

LEMMA Uncached == ASSUME NEW w \in WalkType PROVE [w EXCEPT !.cached = FALSE] \in WalkType
BY SetWalk

(* A page that was unmapped is not a table again.                          *)
LEMMA UnmappedStays ==
  ASSUME IsFiniteSet(User), IInv, TInv, [Next]_vars, NEW x \in Node, mem[x] = "unmapped"
  PROVE  mem'[x] = "unmapped"
<1>1. mem \in [Node -> {"none", "used", "reclaimed", "unmapped"}]
  BY MemIs DEF TInv
<1>2. ASSUME NEW u \in User, Touch(u) PROVE mem'[x] = "unmapped"
  <2> DEFINE y == Up(it[u].lv, it[u].p)
  <2>1. CASE link[y]
    BY <1>2, <2>1 DEF Touch
  <2>2. CASE ~ link[y]
    <3>1. mem[y] = "none"
      BY <1>2, <2>2, FreshTable DEF TInv
    <3>2. mem' = [mem EXCEPT ![y] = "used"]
      BY <1>2, <2>2 DEF Touch
    <3> HIDE DEF y
    <3> QED BY <1>1, <3>1, <3>2
  <2> QED BY <2>1, <2>2
<1>3. ASSUME NEW u \in User, Reclaim(u) PROVE mem'[x] = "unmapped"
  <2> DEFINE y == Up(it[u].lv, it[u].p)
  <2>1. Leaves(it[u])
    BY <1>3 DEF Reclaim, Leaves
  <2>2. y \in Node /\ LeavesTable(it[u], y)
    BY <2>1, LeaverIsAlone DEF TInv
  <2>3. mem[y] = "used"
    BY <2>2 DEF TInv, Life
  <2>4. mem' = [mem EXCEPT ![y] = "reclaimed"]
    BY <1>3 DEF Reclaim
  <2> HIDE DEF y
  <2> QED BY <1>1, <2>3, <2>4
<1>4. ASSUME NEW u \in User, UserStep(u), ~ Touch(u), ~ Reclaim(u) PROVE mem' = mem
  BY <1>4 DEF UserStep, Alloc, Free, Probe, TouchLeaf, Write, Acquire, AcquireFails, Lock, LockFails,
       Body, Release, Unlink, Invalidate
<1>5. ASSUME NEW h \in Handler, HandlerStep(h) PROVE mem' = mem
  BY <1>5 DEF HandlerStep, Fault, ReadCache, Map, Check, Load, Store, Verify, TryLock, Finish, NextTable, user
<1>6. ASSUME NEW y \in Node, Unmap(y) PROVE mem'[x] = "unmapped"
  BY <1>1, <1>6 DEF Unmap
<1> QED BY <1>2, <1>3, <1>4, <1>5, <1>6 DEF Next, vars, Quiescent

(* The steps of the handler's walk.  Map translates; Store goes on to look *)
(* at the same table; the others leave the page.                           *)
LEMMA MapTranslates ==
  ASSUME IInv, Pages, NEW h \in Handler, Map(h) PROVE Translated(pf'[h])
<1> DEFINE w == pf[h]
           x == Up(w.lv, w.p)
<1>1. w \in WalkType /\ w.lv \in Level /\ w.p \in L1
  BY WalkOf DEF IInv, Map, WalkLevel, Pages, Ranges
<1>2. x \in Node
  BY <1>1, UpInNode DEF Level
<1>3. PICK k \in Translations(x) :
        pf' = [pf EXCEPT ![h] =
          IF k = None THEN NoWalk
          ELSE [w EXCEPT !.k[w.lv] = k, !.at = IF w.cached THEN "check" ELSE "store"]]
  BY DEF Map
<1>4. k = Foreign => mem[x] = "unmapped"
  BY <1>2, ForeignIsNoTable DEF Translations
<1>5. CASE k = None
  <2>1. pf'[h] = NoWalk
    BY <1>3, <1>5, WalkFrame DEF IInv
  <2> QED BY <2>1, NoWalkTranslated
<1>6. CASE k # None
  <2> DEFINE v == [w EXCEPT !.k[w.lv] = k, !.at = IF w.cached THEN "check" ELSE "store"]
  <2>1. pf' = [pf EXCEPT ![h] = v]
    BY <1>3, <1>6
  <2>2. v.lv = w.lv /\ v.p = w.p /\ v.k[w.lv] = k
    BY <1>1 DEF WalkType
  <2> HIDE DEF v
  <2>3. pf'[h] = v
    BY <2>1, WalkFrame DEF IInv
  <2>4. v.k[v.lv] = Foreign => mem[Up(v.lv, v.p)] = "unmapped"
    BY <1>4, <2>2
  <2> QED BY <2>3, <2>4 DEF Translated
<1> QED BY <1>5, <1>6

LEMMA BelowTranslated ==
  ASSUME NEW w \in WalkType PROVE Translated(Below(w))
BY GotoAt, Uncached DEF Below

LEMMA LookTranslates ==
  ASSUME IInv, NEW h \in Handler, Translated(pf[h]),
         ReadCache(h) \/ Check(h) \/ Load(h) \/ Store(h) \/ Verify(h)
  PROVE  Translated(pf'[h])
<1> DEFINE w == pf[h]
<1>1. w \in WalkType
  BY WalkOf DEF IInv
<1>2. ASSUME NEW v, pf' = [pf EXCEPT ![h] = v] PROVE pf'[h] = v
  BY <1>2, WalkFrame DEF IInv
<1>3. CASE ReadCache(h)
  <2>1. ASSUME NEW n, pf' = [pf EXCEPT ![h] = [Goto(w, "map", n) EXCEPT !.cached = TRUE]]
        PROVE  Translated(pf'[h])
    <3>1. pf'[h] = [Goto(w, "map", n) EXCEPT !.cached = TRUE]
      BY <1>2, <2>1
    <3>2. pf'[h].at = "map"
      BY <1>1, <3>1 DEF Goto, WalkType
    <3> QED BY <3>2 DEF Translated
  <2>2. ASSUME NEW n, NEW a \in {"load", "cache"}, pf' = [pf EXCEPT ![h] = Goto(w, a, n)]
        PROVE  Translated(pf'[h])
    BY <1>1, <1>2, <2>2, GotoAt
  <2> QED BY <1>3, <2>1, <2>2 DEF ReadCache
<1>4. CASE Check(h)
  <2> DEFINE v == IF StillCached(Up(w.lv, w.p)) THEN Below(w)
                  ELSE IF w.lv = 2 THEN Goto(w, "map", 3)
                  ELSE Goto([w EXCEPT !.cached = FALSE], "load", 3)
  <2>1. pf'[h] = v
    BY <1>2, <1>4 DEF Check
  <2>2. Translated(v)
    BY <1>1, GotoAt, Uncached, BelowTranslated
  <2> HIDE DEF v
  <2> QED BY <2>1, <2>2
<1>5. CASE Load(h)
  <2>1. pf'[h] = NoWalk \/ pf'[h] = Goto(w, "map", w.lv)
    BY <1>2, <1>5 DEF Load
  <2> QED BY <1>1, <2>1, NoWalkTranslated, GotoAt
<1>6. CASE Store(h)
  <2> DEFINE v == [w EXCEPT !.at = "verify"]
  <2>1. pf'[h] = v
    BY <1>2, <1>6 DEF Store
  <2>2. v.lv = w.lv /\ v.p = w.p /\ v.k = w.k
    BY <1>1 DEF WalkType
  <2>3. w.at = "store"
    BY <1>6 DEF Store
  <2>4. w.k[w.lv] = Foreign => mem[Up(w.lv, w.p)] = "unmapped"
    BY <2>3 DEF Translated
  <2> HIDE DEF v
  <2>5. Translated(v)
    BY <2>2, <2>4 DEF Translated
  <2> QED BY <2>1, <2>5
<1>7. CASE Verify(h)
  <2>1. pf'[h] = NoWalk \/ pf'[h] = Below(w)
    BY <1>2, <1>7 DEF Verify
  <2> QED BY <1>1, <2>1, NoWalkTranslated, BelowTranslated
<1> QED BY <1>3, <1>4, <1>5, <1>6, <1>7

LEMMA HoldTranslates ==
  ASSUME IInv, NEW h \in Handler, TryLock(h) \/ Finish(h) \/ NextTable(h)
  PROVE  Translated(pf'[h])
<1> DEFINE w == pf[h]
<1>1. w \in WalkType /\ w.p \in Nat
  BY WalkOf DEF IInv, WalkType
<1>2. ASSUME NEW v, pf' = [pf EXCEPT ![h] = v] PROVE pf'[h] = v
  BY <1>2, WalkFrame DEF IInv
<1>3. CASE TryLock(h)
  <2>1. pf'[h] = [w EXCEPT !.at = "hold"] \/ pf'[h] = NoWalk
    BY <1>2, <1>3 DEF TryLock
  <2>2. [w EXCEPT !.at = "hold"].at = "hold"
    BY <1>1 DEF WalkType
  <2> QED BY <2>1, <2>2, NoWalkTranslated DEF Translated
<1>4. CASE Finish(h)
  BY <1>2, <1>4, NoWalkTranslated DEF Finish
<1>5. CASE NextTable(h)
  <2> DEFINE n == [w EXCEPT !.p = @ + 1, !.first = FALSE]
             v == CASE Step(w.p) = 1 -> Goto(n, "try", 1)
                    [] Step(w.p) = 2 -> IF w.k[3] = None THEN Goto(n, "cache", 3) ELSE Goto(n, "load", 2)
                    [] Step(w.p) = 3 -> Goto(n, "load", 3)
  <2>1. n \in WalkType
    <3>1. w.p + 1 \in Nat
      BY <1>1
    <3> QED BY <1>1, <3>1, SetWalk
  <2>2. pf'[h] = v
    BY <1>2, <1>5 DEF NextTable
  <2>3. Step(w.p) = 1 \/ Step(w.p) = 2 \/ Step(w.p) = 3
    BY <1>1, StepIs
  <2> HIDE DEF n
  <2>4. Translated(v)
    BY <2>1, <2>3, GotoAt
  <2> QED BY <2>2, <2>4
<1> QED BY <1>3, <1>4, <1>5

LEMMA FaultTranslates ==
  ASSUME IInv, NEW h \in Handler, NEW p, Fault(h, p) PROVE Translated(pf'[h])
<1> DEFINE w == [NoWalk EXCEPT !.at = "cache", !.lv = 3, !.p = p]
<1>1. pf'[h] = w
  BY WalkFrame DEF IInv, Fault
<1>2. w.at = "cache"
  BY DEF NoWalk
<1> QED BY <1>1, <1>2 DEF Translated

LEMMA UserWalk == ASSUME NEW u, UserStep(u) PROVE pf' = pf
<1>1. CASE (\E n \in Sizes : Alloc(u, n)) \/ (\E o : Free(u, o)) \/ (\E o : Probe(u, o))
  BY <1>1 DEF Alloc, Free, Probe, walk
<1>2. CASE Touch(u) \/ TouchLeaf(u) \/ Write(u)
  BY <1>2 DEF Touch, TouchLeaf, Write, walk
<1>3. CASE Acquire(u)
  BY <1>3 DEF Acquire, walk
<1>4. CASE AcquireFails(u)
  BY <1>4 DEF AcquireFails, walk
<1>5. CASE Lock(u) \/ LockFails(u)
  BY <1>5 DEF Lock, LockFails, walk
<1>6. CASE Body(u) \/ Release(u)
  BY <1>6 DEF Body, Release, walk
<1>7. CASE Unlink(u) \/ Invalidate(u) \/ Reclaim(u)
  BY <1>7 DEF Unlink, Invalidate, Reclaim, walk
<1> QED BY <1>1, <1>2, <1>3, <1>4, <1>5, <1>6, <1>7 DEF UserStep

LEMMA HandlerUser ==
  ASSUME NEW h, HandlerStep(h) PROVE it' = it /\ mem' = mem
<1>1. CASE \E o \in Pointers : \E p \in o.start .. o.end : Fault(h, p)
  BY <1>1 DEF Fault, user
<1>2. CASE ReadCache(h)
  BY <1>2 DEF ReadCache, user
<1>3. CASE Map(h)
  BY <1>3 DEF Map, user
<1>4. CASE Check(h) \/ Load(h)
  BY <1>4 DEF Check, Load, user
<1>5. CASE Store(h) \/ Verify(h) \/ TryLock(h) \/ Finish(h) \/ NextTable(h)
  BY <1>5 DEF Store, Verify, TryLock, Finish, NextTable, user
<1> QED BY <1>1, <1>2, <1>3, <1>4, <1>5 DEF HandlerStep

LEMMA OthersWalk ==
  ASSUME IInv, NEW e \in Handler, NEW h \in Handler, e # h, HandlerStep(e)
  PROVE  pf'[h] = pf[h]
<1>1. ASSUME NEW v, pf' = [pf EXCEPT ![e] = v] PROVE pf'[h] = pf[h]
  BY <1>1, WalkFrame DEF IInv
<1>2. CASE \E o \in Pointers : \E p \in o.start .. o.end : Fault(e, p)
  BY <1>1, <1>2 DEF Fault
<1>3. CASE ReadCache(e)
  BY <1>1, <1>3 DEF ReadCache
<1>4. CASE Map(e)
  BY <1>1, <1>4 DEF Map
<1>5. CASE Check(e) \/ Load(e)
  BY <1>1, <1>5 DEF Check, Load
<1>6. CASE Store(e) \/ Finish(e)
  BY <1>1, <1>6, WalkFrame DEF Store, Finish, IInv
<1>7. CASE Verify(e)
  BY <1>1, <1>7 DEF Verify
<1>8. CASE TryLock(e)
  BY <1>8, WalkFrame DEF TryLock, IInv
<1>9. CASE NextTable(e)
  BY <1>1, <1>9 DEF NextTable
<1> QED BY <1>2, <1>3, <1>4, <1>5, <1>6, <1>7, <1>8, <1>9 DEF HandlerStep

LEMMA TranslatesKept ==
  ASSUME IsFiniteSet(User), IInv, TInv, Translates, [Next]_vars
  PROVE  Translates'
<1> SUFFICES ASSUME NEW h \in Handler PROVE Translated(pf[h])'
  BY DEF Translates
<1> DEFINE w == pf[h]
           x == Up(w.lv, w.p)
<1>1. Translated(w)
  BY DEF Translates
<1>2. WalkLevel(w) /\ w.p \in L1
  BY WalkOf DEF IInv, TInv, Pages, Ranges
<1>3. ASSUME pf'[h] = w PROVE Translated(pf[h])'
  <2>1. w.at \in {"check", "store", "verify"} => x \in Node
    BY <1>2, UpInNode DEF WalkLevel, Level
  <2>2. x \in Node /\ mem[x] = "unmapped" => mem'[x] = "unmapped"
    BY UnmappedStays
  <2>3. w.at \in {"check", "store", "verify"} /\ w.k[w.lv] = Foreign => mem'[x] = "unmapped"
    BY <1>1, <2>1, <2>2 DEF Translated
  <2> QED BY <1>3, <2>3 DEF Translated
<1>4. CASE HandlerStep(h)
  <2>1. mem' = mem
    BY <1>4, HandlerUser
  <2>2. \/ \E p : Fault(h, p)
        \/ Map(h)
        \/ ReadCache(h) \/ Check(h) \/ Load(h) \/ Store(h) \/ Verify(h)
        \/ TryLock(h) \/ Finish(h) \/ NextTable(h)
    BY <1>4 DEF HandlerStep
  <2>3. Translated(pf'[h])
    BY <1>1, <2>2, FaultTranslates, MapTranslates, LookTranslates, HoldTranslates DEF TInv
  <2> QED BY <2>1, <2>3 DEF Translated
<1>5. ASSUME NEW e \in Handler, e # h, HandlerStep(e) PROVE Translated(pf[h])'
  BY <1>3, <1>5, OthersWalk
<1>6. CASE \E u \in User : UserStep(u)
  BY <1>3, <1>6, UserWalk
<1>7. CASE (\E y \in Node : Unmap(y)) \/ Quiescent \/ UNCHANGED vars
  BY <1>3, <1>7 DEF Unmap, Quiescent, vars, walk
<1> QED BY <1>4, <1>5, <1>6, <1>7 DEF Next

(* page_fault.bpf.c:241, "safe to access": for any number of page faults   *)
(* at a time and of user threads that free meanwhile, the second look of a *)
(* handler at the entry turns down a page that is no table any more, and   *)
(* its second look at the cache does so unless another handler stands      *)
(* between storing the same table in the cache and looking at its entry.   *)
THEOREM OnlyAnotherMisleadsHolds ==
  ASSUME IsFiniteSet(User), LastChoices \subseteq {FALSE}
  PROVE  Spec => []OnlyAnotherMisleads
<1>1. Init => Translates
  BY NoWalkTranslated DEF Init, Translates
<1>2. IInv /\ TInv /\ Translates /\ [Next]_vars => Translates'
  BY TranslatesKept
<1>3. IInv /\ TInv /\ Translates => OnlyAnotherMisleads
  <2> SUFFICES ASSUME IInv, TInv, Translates, NEW h \in Handler PROVE MisledByAnother(h)
    BY DEF OnlyAnotherMisleads
  <2> DEFINE w == pf[h]
             x == Up(w.lv, w.p)
  <2> SUFFICES ASSUME w.at \in {"check", "verify"}, w.k[w.lv] = Foreign
               PROVE  /\ w.at = "verify" => ~link[x]
                      /\ w.at = "check" /\ cache[w.lv] = x =>
                           \E g \in Handler \ {h} : Stored(g, x)
    BY DEF MisledByAnother
  <2>1. w.lv \in Level /\ w.p \in L1
    BY WalkOf DEF IInv, WalkLevel, TInv, Pages, Ranges
  <2>2. x \in Node /\ x[1] = w.lv
    BY <2>1, UpInNode DEF Level
  <2>3. mem[x] = "unmapped"
    BY DEF Translates, Translated
  <2>4. ~ link[x]
    BY <2>2, <2>3 DEF TInv, Life
  <2>5. ASSUME w.at = "check", cache[w.lv] = x PROVE \E g \in Handler \ {h} : Stored(g, x)
    <3>1. ASSUME NEW u \in User, it[u].at = "invalidate", it[u].lv = w.lv, Up(w.lv, it[u].p) = x
          PROVE  FALSE
      <4>1. LeavesTable(it[u], x)
        BY <2>2, <3>1 DEF LeavesTable, Leaves
      <4>2. mem[x] = "used"
        BY <2>2, <4>1 DEF TInv, Life
      <4> QED BY <2>3, <4>2
    <3>2. PICK g \in Handler : pf[g].at = "verify" /\ pf[g].lv = w.lv /\ Up(w.lv, pf[g].p) = x
      BY <2>1, <2>2, <2>4, <2>5, <3>1 DEF IInv, CacheIsFresh
    <3>3. g # h
      BY <2>5, <3>2
    <3> QED BY <2>2, <3>2, <3>3 DEF Stored
  <2> QED BY <2>4, <2>5
<1> QED BY <1>1, <1>2, <1>3, Invariant, CountsInvariant, PTL DEF Spec

-----------------------------------------------------------------------------
(* The bounds.  A count is at most the fan-out and one for each thread,    *)
(* because two threads never owe for the same child: who owes for a child  *)
(* is the one that took it away.                                           *)
Debt(i, x) ==
  LET q == IF i.at = "release" /\ ~ i.sub THEN i.p ELSE i.p - 1
  IN IF x[1] = 2 THEN q ELSE Up(2, q)

Debts ==
  \A x \in Node : \A u \in User : Owes(it[u], x) =>
    /\ Debt(it[u], x) \in Gone(x)
    /\ \A v \in User : v # u /\ Owes(it[v], x) => Debt(it[v], x) # Debt(it[u], x)

(* A table above entries that were written was linked once.                *)
Placed == \A p \in L1 : leaf[p] # "null" => mem[Up(2, p)] # "none"

(* The count of a table that is not linked is zero.                        *)
Empty == \A x \in Node : ~ link[x] => cnt[x] = 0

Resting == \A u \in User : it[u].at = "idle" => it[u] = NoIter
CacheTables == \A lv \in Level : cache[lv] \in Node \cup {None}

BInv == Debts /\ Placed /\ Empty /\ Resting /\ CacheTables

LEMMA RestingKept ==
  ASSUME IInv, TInv, Resting, [Next]_vars PROVE Resting'
<1>1. Iters /\ Flags /\ \A u \in User : it[u] \in IterType
  BY IterOf DEF IInv, TInv
<1>2. CASE it' = it
  BY <1>2 DEF Resting
<1>3. ASSUME NEW u \in User, UserStep(u), NEW v \in User, it'[v].at = "idle" PROVE it'[v] = NoIter
  <2>1. ASSUME NEW n \in Sizes, Alloc(u, n) PROVE it'[v] = NoIter
    BY <1>1, <1>3, <2>1, AllocTo DEF Resting
  <2>2. ASSUME NEW o, Free(u, o) PROVE it'[v] = NoIter
    BY <1>1, <1>3, <2>2, FreeTo, IterTo DEF Resting
  <2>3. ASSUME NEW o, Probe(u, o) PROVE it'[v] = NoIter
    BY <1>1, <1>3, <2>3, ProbeTo, IterTo DEF Resting
  <2>4. CASE Touch(u)
    BY <1>1, <1>3, <2>4, TouchTo DEF Resting
  <2>5. CASE TouchLeaf(u)
    BY <1>1, <1>3, <2>5, TouchLeafTo DEF Resting
  <2>6. CASE Write(u)
    BY <1>1, <1>3, <2>6, WriteTo DEF Resting
  <2>7. CASE Acquire(u)
    BY <1>1, <1>3, <2>7, AcquireTo DEF Resting
  <2>8. CASE AcquireFails(u)
    BY <1>1, <1>3, <2>8, AcquireFailsTo DEF Resting
  <2>9. CASE Lock(u) \/ LockFails(u)
    BY <1>1, <1>3, <2>9, LockTo, LockFailsTo DEF Resting
  <2>10. CASE Body(u)
    BY <1>1, <1>3, <2>10, BodyTo DEF Resting
  <2>11. ASSUME NEW g, Goes(it[u], it'[u], g), \A w \in User : w # u => it'[w] = it[w]
         PROVE  it'[v] = NoIter
    BY <1>3, <2>11 DEF Resting, Goes
  <2>12. CASE Release(u)
    <3>1. it'[u].at = "unlink" \/ Goes(it[u], it'[u], FALSE)
      BY <1>1, <2>12, ReleaseTo
    <3>2. \A w \in User : w # u => it'[w] = it[w]
      BY <1>1, <2>12, ReleaseTo
    <3> QED BY <1>3, <2>11, <3>1, <3>2 DEF Resting
  <2>13. CASE Unlink(u) \/ Invalidate(u)
    BY <1>1, <1>3, <2>13, UnlinkTo DEF Resting
  <2>14. CASE Reclaim(u)
    BY <1>1, <2>11, <2>14, ReclaimTo
  <2> QED BY <1>3, <2>1, <2>2, <2>3, <2>4, <2>5, <2>6, <2>7, <2>8, <2>9, <2>10, <2>12, <2>13, <2>14
        DEF UserStep
<1>4. CASE \E u \in User : UserStep(u)
  BY <1>3, <1>4 DEF Resting
<1>5. CASE \E h \in Handler : HandlerStep(h)
  BY <1>2, <1>5 DEF HandlerStep, Fault, ReadCache, Map, Check, Load, Store, Verify, TryLock, Finish, NextTable, user
<1>6. CASE (\E x \in Node : Unmap(x)) \/ Quiescent \/ UNCHANGED vars
  BY <1>2, <1>6 DEF Unmap, Quiescent, vars
<1> QED BY <1>4, <1>5, <1>6 DEF Next

LEMMA CacheTablesKept ==
  ASSUME IInv, TInv, CacheTables, [Next]_vars PROVE CacheTables'
<1>1. CASE cache' = cache
  BY <1>1 DEF CacheTables
<1>2. cache \in [Level -> (Level \X Nat) \cup {None}]
  BY DEF IInv, Tables
<1>3. ASSUME NEW lv \in Level, NEW c \in Node \cup {None}, cache' = [cache EXCEPT ![lv] = c]
      PROVE  CacheTables'
  BY <1>2, <1>3 DEF CacheTables
<1>4. ASSUME NEW u \in User, UserStep(u) PROVE CacheTables'
  <2>1. CASE Invalidate(u)
    <3>1. it[u].lv \in Level
      BY <2>1, UnlinkTo DEF IInv
    <3> DEFINE c == IF cache[it[u].lv] = Up(it[u].lv, it[u].p) THEN None ELSE cache[it[u].lv]
    <3>2. c \in Node \cup {None}
      BY <3>1 DEF CacheTables
    <3>3. cache' = [cache EXCEPT ![it[u].lv] = c]
      BY <2>1 DEF Invalidate
    <3> HIDE DEF c
    <3> QED BY <1>3, <3>1, <3>2, <3>3
  <2>2. CASE ~ Invalidate(u)
    <3>1. cache' = cache
      BY <1>4, <2>2 DEF UserStep, Alloc, Free, Probe, Touch, TouchLeaf, Write, Acquire, AcquireFails,
           Lock, LockFails, Body, Release, Unlink, Reclaim, walk
    <3> QED BY <1>1, <3>1
  <2> QED BY <2>1, <2>2
<1>5. ASSUME NEW h \in Handler, HandlerStep(h) PROVE CacheTables'
  <2>1. CASE Store(h)
    <3>1. pf[h].lv \in Level /\ pf[h].p \in L1
      BY <2>1, WalkOf DEF IInv, WalkLevel, Store, TInv, Pages, Ranges
    <3>2. Up(pf[h].lv, pf[h].p) \in Node
      BY <3>1, UpInNode DEF Level
    <3> QED BY <1>3, <2>1, <3>1, <3>2 DEF Store
  <2>2. CASE Verify(h)
    <3>1. pf[h].lv \in Level
      BY <2>2, WalkOf DEF IInv, WalkLevel, Verify
    <3>2. cache' = cache \/ cache' = [cache EXCEPT ![pf[h].lv] = None]
      BY <2>2 DEF Verify, Forget
    <3> QED BY <1>1, <1>3, <3>1, <3>2
  <2>3. CASE ~ Store(h) /\ ~ Verify(h)
    <3>1. cache' = cache
      BY <1>5, <2>3 DEF HandlerStep, Fault, ReadCache, Map, Check, Load, TryLock, Finish, NextTable
    <3> QED BY <1>1, <3>1
  <2> QED BY <2>1, <2>2, <2>3
<1>6. CASE (\E x \in Node : Unmap(x)) \/ Quiescent \/ UNCHANGED vars
  BY <1>1, <1>6 DEF Unmap, Quiescent, vars, walk
<1> QED BY <1>4, <1>5, <1>6 DEF Next

LEMMA EmptyKept ==
  ASSUME IsFiniteSet(User), IInv, TInv, Empty, [Next]_vars PROVE Empty'
<1>1. CASE UNCHANGED <<link, cnt>>
  BY <1>1 DEF Empty
<1>2. link \in [Node -> BOOLEAN] /\ cnt \in [Node -> Int]
  BY DEF IInv, Tables, TInv, Counted
<1>3. ASSUME NEW u \in User, UserStep(u) PROVE Empty'
  <2> DEFINE y == Up(it[u].lv, it[u].p)
  <2>1. CASE Touch(u)
    <3>1. UNCHANGED <<link, cnt>> \/ (link' = [link EXCEPT ![y] = TRUE] /\ cnt' = [cnt EXCEPT ![y] = Fan(y)])
      BY <2>1 DEF Touch
    <3> HIDE DEF y
    <3> QED BY <1>1, <1>2, <3>1 DEF Empty
  <2>2. CASE Acquire(u)
    <3>1. link[y] /\ link' = link /\ cnt' = [cnt EXCEPT ![y] = Acquired(cnt[y])]
      BY <2>2 DEF Acquire
    <3> HIDE DEF y
    <3> QED BY <1>2, <3>1 DEF Empty
  <2>3. CASE Release(u)
    <3>1. link' = link /\ cnt' = [cnt EXCEPT ![y] = cnt[y] - Released(it[u])]
      BY <2>3 DEF Release
    <3>2. it[u].at = "release" /\ it[u].lv \in Level
      BY <2>3, ReleaseTo DEF IInv
    <3>3. it[u].op \in {"free", "probe"}
      BY <3>2, WalkingOf DEF TInv
    <3>4. y \in Node /\ y[1] = it[u].lv
      BY <3>2, <3>3, TableOf DEF TInv
    <3>5. In(it[u], y)
      BY <3>2, <3>3, <3>4 DEF In, Walking
    <3>6. link[y]
      BY <3>4, <3>5 DEF TInv, Valid
    <3> HIDE DEF y
    <3> QED BY <1>2, <3>1, <3>6 DEF Empty
  <2>4. CASE Unlink(u)
    <3>1. link' = [link EXCEPT ![y] = FALSE] /\ cnt' = cnt /\ it[u].at = "unlink"
      BY <2>4 DEF Unlink
    <3>2. Leaves(it[u])
      BY <3>1 DEF Leaves
    <3>3. y \in Node /\ LeavesTable(it[u], y)
      BY <3>2, LeaverIsAlone DEF TInv
    <3>4. cnt[y] = 0
      BY <3>1, <3>3 DEF TInv, Life
    <3> HIDE DEF y
    <3> QED BY <1>2, <3>1, <3>4 DEF Empty
  <2>5. CASE ~ (Touch(u) \/ Acquire(u) \/ Release(u) \/ Unlink(u))
    <3>1. UNCHANGED <<link, cnt>>
      BY <1>3, <2>5 DEF UserStep, Alloc, Free, Probe, TouchLeaf, Write, AcquireFails,
           Lock, LockFails, Body, Invalidate, Reclaim
    <3> QED BY <1>1, <3>1
  <2> QED BY <2>1, <2>2, <2>3, <2>4, <2>5
<1>4. CASE \E h \in Handler : HandlerStep(h)
  BY <1>1, <1>4 DEF HandlerStep, Fault, ReadCache, Map, Check, Load, Store, Verify, TryLock, Finish, NextTable, user
<1>5. CASE (\E x \in Node : Unmap(x)) \/ Quiescent \/ UNCHANGED vars
  BY <1>1, <1>5 DEF Unmap, Quiescent, vars
<1> QED BY <1>3, <1>4, <1>5 DEF Next

(* A table that was reclaimed stays so, and one that was linked is never   *)
(* again as if it had not been.                                            *)
LEMMA PagesAge ==
  ASSUME IsFiniteSet(User), IInv, TInv, [Next]_vars, NEW x \in Node
  PROVE  /\ mem[x] \in {"reclaimed", "unmapped"} => mem'[x] \in {"reclaimed", "unmapped"}
         /\ mem[x] # "none" => mem'[x] # "none"
<1>1. mem \in [Node -> {"none", "used", "reclaimed", "unmapped"}]
  BY MemIs DEF TInv
<1>2. CASE mem' = mem
  BY <1>2
<1>3. ASSUME NEW u \in User, Touch(u), mem' # mem
      PROVE  /\ mem[Up(it[u].lv, it[u].p)] = "none"
             /\ mem' = [mem EXCEPT ![Up(it[u].lv, it[u].p)] = "used"]
  BY <1>3, FreshTable DEF Touch, TInv
<1>4. ASSUME NEW u \in User, Reclaim(u) PROVE mem' = [mem EXCEPT ![Up(it[u].lv, it[u].p)] = "reclaimed"]
  BY <1>4 DEF Reclaim
<1>5. ASSUME NEW u \in User, UserStep(u), ~ Touch(u), ~ Reclaim(u) PROVE mem' = mem
  BY <1>5 DEF UserStep, Alloc, Free, Probe, TouchLeaf, Write, Acquire, AcquireFails, Lock, LockFails,
       Body, Release, Unlink, Invalidate
<1>6. ASSUME NEW h \in Handler, HandlerStep(h) PROVE mem' = mem
  BY <1>6 DEF HandlerStep, Fault, ReadCache, Map, Check, Load, Store, Verify, TryLock, Finish, NextTable, user
<1>7. ASSUME NEW y, mem[y] = "none", mem' = [mem EXCEPT ![y] = "used"]
      PROVE  /\ mem[x] \in {"reclaimed", "unmapped"} => mem'[x] \in {"reclaimed", "unmapped"}
             /\ mem[x] # "none" => mem'[x] # "none"
  BY <1>1, <1>7
<1>8. ASSUME NEW y, NEW s \in {"reclaimed", "unmapped"}, mem' = [mem EXCEPT ![y] = s]
      PROVE  /\ mem[x] \in {"reclaimed", "unmapped"} => mem'[x] \in {"reclaimed", "unmapped"}
             /\ mem[x] # "none" => mem'[x] # "none"
  BY <1>1, <1>8
<1>9. CASE \E u \in User : UserStep(u)
  BY <1>2, <1>3, <1>4, <1>5, <1>7, <1>8, <1>9
<1>10. CASE \E y \in Node : Unmap(y)
  BY <1>8, <1>10 DEF Unmap
<1> QED BY <1>2, <1>6, <1>9, <1>10 DEF Next, vars, Quiescent

(* The entries of an L1 table: null until somebody writes below the table  *)
(* above, destroyed for ever.                                              *)
LEMMA LeavesAge ==
  ASSUME IInv, TInv, [Next]_vars, NEW p \in L1
  PROVE  /\ leaf[p] = "destroyed" => leaf'[p] = "destroyed"
         /\ leaf[p] = "null" /\ leaf'[p] # "null" => link[Up(2, p)]
<1>1. leaf \in [L1 -> LeafState]
  BY DEF TInv, Pages
<1>2. CASE leaf' = leaf
  BY <1>2
<1>3. ASSUME NEW q, leaf[q] \in {"free", "locked"}, NEW s, s # "null", leaf' = [leaf EXCEPT ![q] = s]
      PROVE  /\ leaf[p] = "destroyed" => leaf'[p] = "destroyed"
             /\ leaf[p] = "null" => leaf'[p] = "null"
  BY <1>1, <1>3
<1>4. ASSUME NEW u \in User, UserStep(u)
      PROVE  /\ leaf[p] = "destroyed" => leaf'[p] = "destroyed"
             /\ leaf[p] = "null" /\ leaf'[p] # "null" => link[Up(2, p)]
  <2>1. CASE TouchLeaf(u)
    <3>1. it[u].at = "touch" /\ it[u].lv = 1 /\ leaf[it[u].p] \in {"null", "free"}
          /\ leaf' = [leaf EXCEPT ![it[u].p] = "locked"]
      BY <2>1 DEF TouchLeaf
    <3>2. it[u].op = "alloc"
      BY <3>1 DEF TInv, Flags, Remembers
    <3>3. it[u].p \in L1
      BY <3>2, PlaceOf DEF TInv
    <3>4. Up(2, it[u].p) \in Node /\ Up(2, it[u].p)[1] = 2
      BY <3>3, UpInNode
    <3>5. Writes(it[u], Up(2, it[u].p))
      BY <3>1, <3>2, <3>4 DEF Writes
    <3>6. link[Up(2, it[u].p)]
      BY <3>4, <3>5 DEF TInv, Valid
    <3> QED BY <1>1, <3>1, <3>6
  <2>2. CASE Write(u) \/ Body(u)
    <3>1. Holding(it[u])
      BY <2>2 DEF Write, Body, Holding
    <3>2. leaf[it[u].p] = "locked"
      BY <3>1 DEF TInv, Pages, Locks
    <3>3. \E s : s # "null" /\ leaf' = [leaf EXCEPT ![it[u].p] = s]
      BY <2>2 DEF Write, Body
    <3> QED BY <1>3, <3>2, <3>3
  <2>3. CASE Lock(u)
    BY <1>3, <2>3 DEF Lock
  <2>4. CASE ~ (TouchLeaf(u) \/ Write(u) \/ Body(u) \/ Lock(u))
    <3>1. leaf' = leaf
      BY <1>4, <2>4 DEF UserStep, Alloc, Free, Probe, Touch, Acquire, AcquireFails, LockFails,
           Release, Unlink, Invalidate, Reclaim
    <3> QED BY <1>2, <3>1
  <2> QED BY <2>1, <2>2, <2>3, <2>4
<1>5. ASSUME NEW h \in Handler, HandlerStep(h)
      PROVE  /\ leaf[p] = "destroyed" => leaf'[p] = "destroyed"
             /\ leaf[p] = "null" /\ leaf'[p] # "null" => link[Up(2, p)]
  <2>1. CASE TryLock(h)
    BY <1>2, <1>3, <2>1 DEF TryLock
  <2>2. CASE Finish(h) \/ NextTable(h)
    <3>1. leaf[pf[h].p] = "locked"
      BY <2>2 DEF Finish, NextTable, TInv, Pages, Locks
    <3>2. leaf' = [leaf EXCEPT ![pf[h].p] = "free"]
      BY <2>2 DEF Finish, NextTable
    <3> QED BY <1>3, <3>1, <3>2
  <2>3. CASE ~ (TryLock(h) \/ Finish(h) \/ NextTable(h))
    <3>1. leaf' = leaf
      BY <1>5, <2>3 DEF HandlerStep, Fault, ReadCache, Map, Check, Load, Store, Verify
    <3> QED BY <1>2, <3>1
  <2> QED BY <2>1, <2>2, <2>3
<1>6. CASE (\E x \in Node : Unmap(x)) \/ Quiescent \/ UNCHANGED vars
  BY <1>2, <1>6 DEF Unmap, Quiescent, vars
<1> QED BY <1>4, <1>5, <1>6 DEF Next

LEMMA PlacedKept ==
  ASSUME IsFiniteSet(User), IInv, TInv, Placed, [Next]_vars PROVE Placed'
<1> SUFFICES ASSUME NEW p \in L1, leaf'[p] # "null" PROVE mem'[Up(2, p)] # "none"
  BY DEF Placed
<1>1. Up(2, p) \in Node
  BY UpInNode
<1>2. CASE leaf[p] # "null"
  BY <1>1, <1>2, PagesAge DEF Placed
<1>3. CASE leaf[p] = "null"
  <2>1. mem[Up(2, p)] = "used"
    BY <1>1, <1>3, LeavesAge DEF TInv, Life
  <2> QED BY <1>1, <2>1, PagesAge
<1> QED BY <1>2, <1>3

LEMMA GoneGrows ==
  ASSUME IsFiniteSet(User), IInv, TInv, [Next]_vars, NEW x \in Node
  PROVE  Gone(x) \subseteq Gone(x)'
<1>1. CASE x[1] = 3
  BY <1>1, PagesAge DEF Gone
<1>2. CASE x[1] # 3
  BY <1>2, LeavesAge DEF Gone
<1> QED BY <1>1, <1>2

(* What a step of one thread must do to keep debts apart.                  *)
LEMMA DebtStep ==
  ASSUME Debts, NEW u \in User, \A v \in User : v # u => it'[v] = it[v],
         \A x \in Node : Gone(x) \subseteq Gone(x)',
         \A x \in Node : Owes(it'[u], x) =>
           \/ Owes(it[u], x) /\ Debt(it'[u], x) = Debt(it[u], x)
           \/ Debt(it'[u], x) \in Gone(x)' /\ Debt(it'[u], x) \notin Gone(x)
  PROVE  Debts'
<1> SUFFICES ASSUME NEW x \in Node, NEW v \in User, Owes(it'[v], x)
             PROVE  /\ Debt(it'[v], x) \in Gone(x)'
                    /\ \A w \in User : w # v /\ Owes(it'[w], x) => Debt(it'[w], x) # Debt(it'[v], x)
  BY DEF Debts, Debt, Owes, In, Walking, Rel, Leaves
<1>1. ASSUME NEW w \in User, Owes(it[w], x)
      PROVE  /\ Debt(it[w], x) \in Gone(x)
             /\ \A z \in User : z # w /\ Owes(it[z], x) => Debt(it[z], x) # Debt(it[w], x)
  BY <1>1 DEF Debts
<1>2. ASSUME NEW w \in User, w # u, Owes(it'[w], x)
      PROVE  it'[w] = it[w] /\ Owes(it[w], x) /\ Debt(it'[w], x) \in Gone(x)
  BY <1>1, <1>2
<1>3. ASSUME NEW w \in User, w # u, Owes(it'[w], x), Owes(it'[u], x)
      PROVE  Debt(it'[w], x) # Debt(it'[u], x)
  BY <1>1, <1>2, <1>3
<1>4. Debt(it'[v], x) \in Gone(x)'
  BY <1>1, <1>2
<1>5. ASSUME NEW w \in User, w # v, Owes(it'[w], x) PROVE Debt(it'[w], x) # Debt(it'[v], x)
  BY <1>1, <1>2, <1>3, <1>5
<1> QED BY <1>4, <1>5

LEMMA NoDebt ==
  ASSUME NEW i, Remembers(i), NEW x \in Node,
         \/ i.op \notin {"free", "probe"}
         \/ i.at \notin {"acquire", "lock", "release"}
         \/ ~ i.last
         \/ i.at = "acquire" /\ i.lv # 2
         \/ i.at = "acquire" /\ i.by # 2
         \/ i.at = "lock" /\ i.by # 1
  PROVE  ~ Owes(i, x)
BY DEF Owes, In, Walking, Rel, Leaves, Remembers

(* A table above a leaf that is in use is there.                           *)
LEMMA TakenIsBelow ==
  ASSUME IsFiniteSet(User), IInv, TInv, Placed, NEW p \in Taken
  PROVE  link[Up(2, p)] /\ cnt[Up(2, p)] # 0
<1> DEFINE x == Up(2, p)
<1>1. p \in L1 /\ leaf[p] \in {"free", "locked"}
  BY DEF Taken
<1>2. x \in Node
  BY <1>1, UpInNode
<1>3. mem[x] # "none"
  BY <1>1 DEF Placed
<1>4. ~ Lost(x)
  BY <1>1, LostDown DEF TInv
<1>5. mem[x] = "used"
  <2>1. mem[x] \in {"none", "used", "reclaimed", "unmapped"}
    BY <1>2, MemIs DEF TInv
  <2>2. mem[x] \notin {"reclaimed", "unmapped"}
    BY <1>2, <1>4 DEF TInv, Life
  <2> QED BY <1>3, <2>1, <2>2
<1>6. ASSUME NEW u \in User PROVE ~ LeavesTable(it[u], x)
  BY <1>2, <1>4 DEF TInv, Life
<1> HIDE DEF x
<1>7. ~ (link[x] => cnt[x] = 0)
  BY <1>2, <1>5, <1>6 DEF TInv, Life
<1> QED BY <1>7 DEF x

LEMMA AcquireFailsOwes ==
  ASSUME IsFiniteSet(User), LastChoices \subseteq {FALSE}, IInv, TInv, TInv', Placed,
         NEW u \in User, AcquireFails(u), NEW x \in Node
  PROVE  ~ Owes(it'[u], x)
<1> DEFINE i == it[u]
           j == it'[u]
<1>1. Iters /\ i \in IterType /\ Remembers(i) /\ Remembers(j)
  BY DEF IInv, TInv, Flags, Iters
<1>2. i.at = "acquire" /\ i.op \in {"free", "probe"} /\ i.lv \in Level
  BY <1>1, WalkingOf, AcquireFailsTo DEF TInv
<1>3. CASE j = NoIter
  BY <1>1, <1>3, NoDebt DEF NoIter
<1>4. CASE j # NoIter
  <2>1. /\ i.lv = 2
        /\ j.last \in (IF i.by = 0 THEN LastChoices ELSE IF i.by = 2 THEN {i.last} ELSE {FALSE})
    BY <1>1, <1>4, AcquireFailsTo
  <2>2. CASE i.op = "free"
    <3>1. i.p \in Taken
      <4>1. i.p <= i.end /\ i.p \in Nat /\ i.end \in Nat
        BY <1>2, PlaceOf DEF TInv
      <4> QED BY <1>2, <2>2, <4>1 DEF Todo, Rel, Leaves, TInv, Pages, Claims
    <3>2. link[Up(2, i.p)] /\ cnt[Up(2, i.p)] # 0
      BY <3>1, TakenIsBelow
    <3>3. ~ link[Up(i.lv, i.p)] \/ cnt[Up(i.lv, i.p)] = 0
      BY Zenon DEF AcquireFails
    <3>4. Up(i.lv, i.p) = Up(2, i.p)
      BY <2>1
    <3> QED BY <3>2, <3>3, <3>4
  <2>3. CASE i.op = "probe"
    <3>1. i.by = 0
      BY <1>1, <2>3 DEF Remembers
    <3>2. ~ j.last
      BY <2>1, <3>1
    <3> QED BY <1>1, <3>2, NoDebt
  <2> QED BY <1>2, <2>2, <2>3
<1> QED BY <1>3, <1>4

(* Who locks the next table below goes on owing for the one before it.     *)
LEMMA CarriedDebt ==
  ASSUME IInv, TInv, TInv', NEW u \in User, Acquire(u) \/ Lock(u), NEW x \in Node, Owes(it'[u], x)
  PROVE  Owes(it[u], x) /\ Debt(it'[u], x) = Debt(it[u], x)
<1> DEFINE i == it[u]
           j == it'[u]
<1>1. Iters /\ i \in IterType /\ Remembers(i) /\ Remembers(j)
  BY DEF IInv, TInv, Flags, Iters
<1>2. i.at \in {"acquire", "lock"} /\ i.op \in {"free", "probe"} /\ ~ i.sub
  <2>1. i.at \in {"acquire", "lock"}
    BY DEF Acquire, Lock
  <2> QED BY <2>1, WalkingOf DEF TInv, Remembers, Rel, Leaves
<1>3. x[1] \in {2, 3}
  BY NodeLevel DEF Level
<1>4. CASE Acquire(u)
  <2>1. j.at = "release" /\ j.sub /\ j.lv = 3 /\ i.lv = 2 /\ i.by = 2 /\ i.last /\ j.last
    <3>1. j.last = i.last /\ j.by = i.by /\ i.at = "acquire" /\ i.lv \in Level
      BY <1>1, <1>4, AcquireTo
    <3>2. CASE i.lv = 3 /\ j.at = "acquire" /\ j.lv = 2
      <4>1. i.by # 2
        BY <1>1, <3>1, <3>2 DEF Remembers
      <4>2. ~ Owes(j, x)
        BY <1>1, <3>1, <3>2, <4>1, NoDebt
      <4> QED BY <4>2
    <3>3. CASE j.at = "lock"
      <4>1. i.by # 1
        BY <1>1, <3>1 DEF Remembers
      <4>2. ~ Owes(j, x)
        BY <1>1, <3>1, <3>3, <4>1, NoDebt
      <4> QED BY <4>2
    <3> QED BY <1>1, <1>4, <3>1, <3>2, <3>3, AcquireTo
  <2>2. Keeps(i, j) /\ i.at = "acquire"
    BY <1>1, <1>4, AcquireTo
  <2>3. x[1] = 3 /\ Up(x[1], i.p) = x
    BY <2>1, <2>2 DEF Owes, In, Keeps
  <2>4. Owes(i, x)
    BY <1>2, <2>1, <2>2, <2>3 DEF Owes, In, Walking
  <2>5. Debt(j, x) = Debt(i, x)
    BY <2>1, <2>2 DEF Debt, Keeps
  <2> QED BY <2>4, <2>5
<1>5. CASE Lock(u)
  <2>1. j.at = "release" /\ j.sub /\ j.lv = 2 /\ i.by = 1 /\ i.last /\ j.last
    <3>1. j.last = i.last /\ i.at = "lock"
      BY <1>1, <1>5, LockTo
    <3>2. CASE j.at = "body"
      <4>1. ~ Owes(j, x)
        BY <1>1, <3>2, NoDebt
      <4> QED BY <4>1
    <3> QED BY <1>1, <1>5, <3>1, <3>2, LockTo
  <2>2. Keeps(i, j) /\ i.at = "lock"
    BY <1>1, <1>5, LockTo
  <2>3. x[1] = 2 /\ Up(x[1], i.p) = x
    BY <2>1, <2>2 DEF Owes, In, Keeps
  <2>4. Owes(i, x)
    BY <1>2, <2>1, <2>2, <2>3 DEF Owes, In, Walking
  <2>5. Debt(j, x) = Debt(i, x)
    BY <2>1, <2>2 DEF Debt, Keeps
  <2> QED BY <2>4, <2>5
<1> QED BY <1>4, <1>5

(* A debt begins when the child goes.                                      *)
LEMMA BodyDebt ==
  ASSUME IInv, TInv, TInv', NEW u \in User, Body(u), NEW x \in Node, Owes(it'[u], x)
  PROVE  Debt(it'[u], x) \in Gone(x)' /\ Debt(it'[u], x) \notin Gone(x)
<1> DEFINE i == it[u]
           j == it'[u]
<1>1. Iters /\ i \in IterType /\ Remembers(i) /\ Remembers(j)
  BY DEF IInv, TInv, Flags, Iters
<1>2. i.at = "body" /\ i.op \in {"free", "probe"} /\ ~ i.sub
  <2>1. i.at = "body"
    BY DEF Body
  <2> QED BY <2>1, WalkingOf DEF TInv, Remembers, Rel, Leaves
<1>3. leaf \in [L1 -> LeafState] /\ i.p \in L1 /\ i.p \in Nat /\ leaf[i.p] = "locked"
  <2>1. Holding(i)
    BY <1>2 DEF Holding
  <2> QED BY <1>2, <2>1, PlaceOf DEF TInv, Pages, Locks
<1>4. j.last = (i.op = "free") /\ j.sub = i.sub
  BY <1>1, BodyTo
<1>5. x[1] = 2 /\ Up(2, i.p) = x /\ Debt(j, x) = i.p /\ i.op = "free"
  <2>1. x[1] \in {2, 3}
    BY NodeLevel DEF Level
  <2>2. j.last
    BY DEF Owes
  <2>3. CASE Step(i.p) = 1 /\ j.at = "lock" /\ j.by = 1 /\ j.p = i.p + 1
    <3>1. x[1] = 2 /\ Up(x[1], i.p + 1) = x
      BY <2>3 DEF Owes, In
    <3>2. Up(2, i.p + 1) = Up(2, i.p)
      BY <1>3, <2>3, StepUp
    <3>3. Debt(j, x) = (i.p + 1) - 1
      BY <2>3, <3>1 DEF Debt
    <3>4. (i.p + 1) - 1 = i.p
      BY <1>3
    <3>5. Debt(j, x) = i.p
      BY <3>3, <3>4
    <3>6. i.op = "free"
      BY <1>4, <2>2
    <3>7. Up(2, i.p) = x
      BY <3>1, <3>2
    <3> QED BY <3>1, <3>5, <3>6, <3>7
  <2>4. CASE j.at = "release" /\ j.lv = 2 /\ j.p = i.p
    <3>1. x[1] = 2 /\ Up(x[1], i.p) = x
      BY <2>4 DEF Owes, In
    <3>2. Debt(j, x) = i.p
      BY <1>2, <1>4, <2>4, <3>1 DEF Debt
    <3> QED BY <1>4, <2>2, <3>1, <3>2
  <2> QED BY <1>1, <2>3, <2>4, BodyTo
<1>6. leaf' = [leaf EXCEPT ![i.p] = "destroyed"]
  BY <1>5 DEF Body
<1>7. i.p \in Gone(x)' /\ i.p \notin Gone(x)
  <2>1. leaf'[i.p] = "destroyed"
    BY <1>3, <1>6
  <2> QED BY <1>3, <1>5, <2>1 DEF Gone
<1> QED BY <1>5, <1>7

LEMMA ReclaimDebt ==
  ASSUME IsFiniteSet(User), IInv, TInv, TInv', NEW u \in User, Reclaim(u), NEW x \in Node, Owes(it'[u], x)
  PROVE  Debt(it'[u], x) \in Gone(x)' /\ Debt(it'[u], x) \notin Gone(x)
<1> DEFINE i == it[u]
           j == it'[u]
           y == Up(i.lv, i.p)
<1>1. Iters /\ i \in IterType /\ Remembers(i) /\ Remembers(j)
  BY DEF IInv, TInv, Flags, Iters
<1>2. i.at = "reclaim" /\ i.lv \in Level /\ i.op \in {"free", "probe"} /\ Leaves(i)
  <2>1. i.at = "reclaim" /\ i.lv \in Level
    BY <1>1, ReclaimTo
  <2> QED BY <2>1, WalkingOf DEF TInv, Leaves
<1>3. y \in Node /\ LeavesTable(i, y) /\ ~ i.sub
  BY <1>2, LeaverIsAlone DEF TInv
<1>4. mem[y] = "used"
  BY <1>3 DEF TInv, Life
<1>5. i.p \in L1 /\ i.p \in Nat
  BY <1>2, PlaceOf DEF TInv
<1>6. Goes(i, j, TRUE)
  BY <1>1, ReclaimTo
<1>7. i.lv = 2 /\ x = Up(3, i.p) /\ x[1] = 3 /\ Debt(j, x) = y
  <2>1. CASE /\ i.lv = 2 /\ Step(i.p) = 2 /\ j.by = 2
             /\ j.at = "acquire" /\ j.lv = 2 /\ j.p = i.p + 1
    <3>1. x[1] = 3 /\ Up(x[1], i.p + 1) = x
      BY <2>1 DEF Owes, In
    <3>2. Up(3, i.p + 1) = Up(3, i.p)
      BY <1>5, <2>1, StepUp
    <3>3. (i.p + 1) - 1 = i.p
      BY <1>5
    <3>4. Debt(j, x) = Up(2, i.p)
      BY <2>1, <3>1, <3>3 DEF Debt
    <3> QED BY <2>1, <3>1, <3>2, <3>4
  <2>2. CASE i.lv = 2 /\ j.at = "release" /\ j.lv = 3 /\ ~ j.sub /\ j.p = i.p
    <3>1. x[1] = 3 /\ Up(x[1], i.p) = x
      BY <2>2 DEF Owes, In
    <3>2. Debt(j, x) = Up(2, i.p)
      BY <2>2, <3>1 DEF Debt
    <3> QED BY <2>2, <3>1, <3>2
  <2>3. CASE j.at = "acquire" /\ j.lv = 3
    <3>1. ~ Owes(j, x)
      BY <1>1, <2>3, NoDebt
    <3> QED BY <3>1
  <2>4. CASE j = NoIter
    <3>1. ~ Owes(j, x)
      BY <1>1, <2>4, NoDebt DEF NoIter
    <3> QED BY <3>1
  <2> QED BY <1>3, <1>6, <2>1, <2>2, <2>3, <2>4 DEF Goes, Keeps
<1>8. mem' = [mem EXCEPT ![y] = "reclaimed"] /\ mem \in [Node -> {"none", "used", "reclaimed", "unmapped"}]
  BY MemIs DEF Reclaim, TInv
<1>9. y \in Kids(x)
  BY <1>5, <1>7, UpInNode
<1>10. y \in Gone(x)' /\ y \notin Gone(x)
  <2>1. mem'[y] = "reclaimed"
    BY <1>3, <1>8
  <2> QED BY <1>3, <1>4, <1>7, <1>9, <2>1 DEF Gone, Kids
<1> QED BY <1>7, <1>10

LEMMA NextIter ==
  ASSUME IInv, TInv, NEW u \in User, UserStep(u)
  PROVE  \A v \in User : v # u => it'[v] = it[v]
<1>1. Iters
  BY DEF IInv
<1>2. ASSUME NEW n \in Sizes, Alloc(u, n) PROVE \A v \in User : v # u => it'[v] = it[v]
  BY <1>1, <1>2, AllocTo
<1>3. ASSUME NEW o, Free(u, o) PROVE \A v \in User : v # u => it'[v] = it[v]
  BY <1>1, <1>3, FreeTo
<1>4. ASSUME NEW o, Probe(u, o) PROVE \A v \in User : v # u => it'[v] = it[v]
  BY <1>1, <1>4, ProbeTo
<1>5. CASE Touch(u) \/ TouchLeaf(u) \/ Write(u)
  BY <1>1, <1>5, TouchTo, TouchLeafTo, WriteTo
<1>6. CASE Acquire(u) \/ AcquireFails(u) \/ Lock(u) \/ LockFails(u)
  BY <1>1, <1>6, AcquireTo, AcquireFailsTo, LockTo, LockFailsTo
<1>7. CASE Body(u) \/ Release(u) \/ Unlink(u) \/ Invalidate(u) \/ Reclaim(u)
  BY <1>1, <1>7, BodyTo, ReleaseTo, UnlinkTo, ReclaimTo
<1> QED BY <1>2, <1>3, <1>4, <1>5, <1>6, <1>7 DEF UserStep

LEMMA LockFailsOwes ==
  ASSUME IInv, TInv, TInv', NEW u \in User, LockFails(u), NEW x \in Node
  PROVE  ~ Owes(it'[u], x)
<1> DEFINE i == it[u]
           j == it'[u]
<1>1. Iters /\ i \in IterType /\ Remembers(i) /\ Remembers(j)
  BY DEF IInv, TInv, Flags, Iters
<1>2. i.at = "lock" /\ leaf[i.p] \in {"null", "destroyed"} /\ i.op \in {"free", "probe"}
  <2>1. i.at = "lock" /\ leaf[i.p] \in {"null", "destroyed"}
    BY DEF LockFails
  <2> QED BY <2>1, WalkingOf DEF TInv
<1>3. j.last = i.last
  BY <1>1, LockFailsTo
<1>4. CASE i.op = "free"
  <2>1. i.p <= i.end /\ i.p \in Nat /\ i.end \in Nat
    BY <1>2, PlaceOf DEF TInv
  <2>2. i.p \in Taken
    BY <1>2, <1>4, <2>1 DEF Todo, Rel, Leaves, TInv, Pages, Claims
  <2> QED BY <1>2, <2>2 DEF Taken
<1>5. CASE i.op = "probe"
  <2>1. i.by = 0
    BY <1>1, <1>5 DEF Remembers
  <2>2. ~ i.last
    BY <1>1, <1>2, <2>1 DEF Remembers
  <2> QED BY <1>1, <1>3, <2>2, NoDebt
<1> QED BY <1>2, <1>4, <1>5

(* A table that was not the last to be left adds no debt.                  *)
LEMMA ReleaseOwes ==
  ASSUME IInv, TInv, TInv', NEW u \in User, Release(u), NEW x \in Node
  PROVE  ~ Owes(it'[u], x)
<1> DEFINE i == it[u]
           j == it'[u]
<1>1. Iters /\ i \in IterType /\ Remembers(i) /\ Remembers(j)
  BY DEF IInv, TInv, Flags, Iters
<1>2. CASE j.at = "unlink"
  BY <1>1, <1>2, NoDebt
<1>3. CASE Goes(i, j, FALSE)
  <2>1. \/ ~ j.last
        \/ j.at = "acquire" /\ j.lv = 3
        \/ j = NoIter
    BY <1>3 DEF Goes
  <2>2. CASE j = NoIter
    BY <1>1, <2>2, NoDebt DEF NoIter
  <2> QED BY <1>1, <2>1, <2>2, NoDebt
<1> QED BY <1>1, <1>2, <1>3, ReleaseTo

LEMMA DebtsKept ==
  ASSUME IsFiniteSet(User), LastChoices \subseteq {FALSE}, IInv, TInv, TInv', Placed, Debts, [Next]_vars
  PROVE  Debts'
<1>1. \A x \in Node : Gone(x) \subseteq Gone(x)'
  BY GoneGrows
<1>2. CASE it' = it
  BY <1>1, <1>2 DEF Debts, Debt, Owes, In, Walking, Rel, Leaves
<1>3. ASSUME NEW u \in User, UserStep(u) PROVE Debts'
  <2>1. Iters /\ it[u] \in IterType /\ Remembers(it'[u])
    BY DEF IInv, TInv, Flags, Iters
  <2>2. \A v \in User : v # u => it'[v] = it[v]
    BY <1>3, NextIter
  <2>3. SUFFICES ASSUME NEW x \in Node, Owes(it'[u], x)
                 PROVE  \/ Owes(it[u], x) /\ Debt(it'[u], x) = Debt(it[u], x)
                        \/ Debt(it'[u], x) \in Gone(x)' /\ Debt(it'[u], x) \notin Gone(x)
    BY <1>1, <2>2, DebtStep
  <2>4. it'[u].op \in {"free", "probe"} /\ it'[u].at \in {"acquire", "lock", "release"} /\ it'[u].last
        /\ ~ (it'[u].at = "acquire" /\ it'[u].lv # 2)
    BY <2>1, <2>3, NoDebt
  <2>5. ASSUME NEW n \in Sizes, Alloc(u, n) PROVE FALSE
    BY <2>1, <2>4, <2>5, AllocTo
  <2>6. ASSUME NEW o, Free(u, o) PROVE FALSE
    BY <2>1, <2>4, <2>6, FreeTo, IterTo
  <2>7. ASSUME NEW o, Probe(u, o) PROVE FALSE
    BY <2>1, <2>4, <2>7, ProbeTo, IterTo
  <2>8. CASE Touch(u)
    BY <2>1, <2>4, <2>8, TouchTo
  <2>9. CASE TouchLeaf(u)
    BY <2>1, <2>4, <2>9, TouchLeafTo
  <2>10. CASE Write(u)
    BY <2>1, <2>4, <2>10, WriteTo DEF NoIter
  <2>11. CASE Acquire(u) \/ Lock(u)
    BY <2>3, <2>11, CarriedDebt
  <2>12. CASE AcquireFails(u)
    BY <2>3, <2>12, AcquireFailsOwes
  <2>13. CASE LockFails(u)
    BY <2>3, <2>13, LockFailsOwes
  <2>14. CASE Body(u)
    BY <2>3, <2>14, BodyDebt
  <2>15. CASE Release(u)
    BY <2>3, <2>15, ReleaseOwes
  <2>16. CASE Unlink(u) \/ Invalidate(u)
    BY <2>1, <2>4, <2>16, UnlinkTo
  <2>17. CASE Reclaim(u)
    BY <2>3, <2>17, ReclaimDebt
  <2> QED BY <1>3, <2>5, <2>6, <2>7, <2>8, <2>9, <2>10, <2>11, <2>12, <2>13, <2>14, <2>15, <2>16, <2>17
        DEF UserStep
<1>4. ASSUME NEW h \in Handler, HandlerStep(h) PROVE Debts'
  <2>1. it' = it
    BY <1>4, HandlerUser
  <2> QED BY <1>2, <2>1
<1>5. CASE (\E x \in Node : Unmap(x)) \/ Quiescent \/ UNCHANGED vars
  BY <1>2, <1>5 DEF Unmap, Quiescent, vars
<1> QED BY <1>3, <1>4, <1>5 DEF Next

LEMMA InitBounds == ASSUME Init PROVE BInv
<1>1. Debts
  BY DEF Init, Debts, Owes, In, Walking, NoIter
<1>2. Placed
  BY DEF Init, Placed
<1>3. Empty
  BY DEF Init, Empty
<1>4. Resting
  BY DEF Init, Resting
<1>5. CacheTables
  BY DEF Init, CacheTables
<1> QED BY <1>1, <1>2, <1>3, <1>4, <1>5 DEF BInv

LEMMA NextBounds ==
  ASSUME IsFiniteSet(User), LastChoices \subseteq {FALSE}, IInv, TInv, TInv', BInv, [Next]_vars
  PROVE  BInv'
BY RestingKept, CacheTablesKept, EmptyKept, PlacedKept, DebtsKept DEF BInv

(* Every thread owes for another child, and they are all gone.             *)
LEMMA OwersAreFew ==
  ASSUME IsFiniteSet(User), TInv, Debts, NEW x \in Node
  PROVE  /\ IsFiniteSet(Gone(x)) /\ IsFiniteSet(Owing(x))
         /\ Cardinality(Owing(x)) <= Cardinality(Gone(x))
<1>1. IsFiniteSet(Owing(x)) /\ Owing(x) = {u \in User : Owes(it[u], x)}
  BY UsersAre, FS_Subset
<1>2. IsFiniteSet(Gone(x))
  BY GoneCount
<1>3. Cardinality(Owing(x)) \in Nat /\ Cardinality(Gone(x)) \in Nat
  BY <1>1, <1>2, FS_CardinalityType
<1> DEFINE f == [u \in Owing(x) |-> Debt(it[u], x)]
<1>4. f \in [Owing(x) -> Gone(x)]
  BY <1>1 DEF Debts
<1>5. ASSUME NEW u \in Owing(x), NEW v \in Owing(x), f[u] = f[v] PROVE u = v
  BY <1>1, <1>5 DEF Debts
<1> HIDE DEF f
<1>6. CASE Cardinality(Gone(x)) < Cardinality(Owing(x))
  <2>1. \E u, v \in Owing(x) : u # v /\ f[u] = f[v]
    BY <1>1, <1>2, <1>4, <1>6, FS_PigeonHole
  <2> QED BY <1>5, <2>1
<1> QED BY <1>1, <1>2, <1>3, <1>6

LEMMA CountBound ==
  ASSUME IsFiniteSet(User), IInv, TInv, BInv, NEW x \in Node
  PROVE  cnt[x] \in 0 .. Fan3 + Fan2 + Cardinality(User)
<1>1. Fan2 \in Nat \ {0} /\ Fan3 \in Nat \ {0} /\ Cardinality(User) \in Nat
  BY Fans, FS_CardinalityType
<1>2. CASE ~ link[x]
  BY <1>1, <1>2 DEF BInv, Empty
<1>3. CASE link[x]
  <2>1. /\ IsFiniteSet(Gone(x)) /\ IsFiniteSet(Owing(x))
        /\ Cardinality(Owing(x)) <= Cardinality(Gone(x))
    BY OwersAreFew DEF BInv
  <2>2. Cardinality(Owing(x)) \in Nat /\ Cardinality(Gone(x)) \in Nat
    BY <2>1, FS_CardinalityType
  <2>3. Cardinality(Inside(x)) \in Nat /\ Cardinality(Inside(x)) <= Cardinality(User)
    <3>1. Inside(x) \subseteq User
      BY DEF Inside
    <3> QED BY <3>1, FS_Subset, FS_CardinalityType
  <2>4. cnt[x] = Fan(x) - Cardinality(Gone(x)) + (Cardinality(Inside(x)) + Cardinality(Owing(x)))
    BY <1>3 DEF TInv, Counted, Uses
  <2>5. Cardinality(Gone(x)) <= Fan(x)
    BY GoneCount
  <2>6. Fan(x) \in {Fan2, Fan3}
    BY DEF Fan
  <2> HIDE DEF Fan
  <2> QED BY <1>1, <2>1, <2>2, <2>3, <2>4, <2>5, <2>6
<1> QED BY <1>2, <1>3

LEMMA ShapesOf ==
  ASSUME IsFiniteSet(User), IInv, TInv, BInv PROVE TypeOK
<1>1. link \in [Node -> BOOLEAN]
  BY DEF IInv, Tables
<1>2. cnt \in [Node -> 0 .. Fan3 + Fan2 + Cardinality(User)]
  <2>1. cnt \in [Node -> Int]
    BY DEF TInv, Counted
  <2> QED BY <2>1, CountBound
<1>3. mem \in [Node -> {"none", "used", "reclaimed", "unmapped"}]
  BY MemIs DEF TInv
<1>4. leaf \in [L1 -> {"null", "free", "locked", "destroyed"}]
  BY DEF TInv, Pages, LeafState
<1>5. ASSUME NEW lv \in Level PROVE cache[lv] \in {x \in Node : x[1] = lv} \cup {None}
  <2>1. cache[lv] # None => cache[lv] \in Node /\ cache[lv][1] = lv
    BY DEF BInv, CacheTables, IInv, Tables
  <2> QED BY <2>1
<1>6. high \in Nat /\ high <= NL3 * Fan3 * Fan2
  <2>1. NL1 \in 1 .. NL3 * Fan3 * Fan2 /\ NL3 * Fan3 * Fan2 \in Nat
    BY TrieAssumption
  <2> QED BY <2>1 DEF TInv, Pages, Ranges
<1>7. ASSUME NEW p \in Nat, p < high PROVE p \in L1
  <2>1. NL3 * Fan3 * Fan2 \in Nat
    BY TrieAssumption
  <2> QED BY <1>6, <1>7, <2>1 DEF L1
<1>8. ASSUME NEW o \in objs \cup dead PROVE o.start .. o.end \subseteq L1
  <2>1. o.start \in Nat /\ o.end \in Nat /\ o.end < high
    BY DEF IInv, Objects, TInv, Pages, Ranges
  <2>2. ASSUME NEW p \in o.start .. o.end PROVE p \in Nat /\ p < high
    BY <1>6, <2>1
  <2> QED BY <1>7, <2>2
<1>9. ASSUME NEW u \in User PROVE it[u].p \in L1 /\ it[u].end \in L1
  <2>1. it[u] \in IterType /\ Remembers(it[u])
    BY IterOf DEF IInv, TInv, Flags
  <2>2. CASE it[u].op = "idle"
    <3>1. it[u].at = "idle"
      BY <2>1, <2>2 DEF Remembers
    <3>2. it[u] = NoIter
      BY <3>1 DEF BInv, Resting
    <3> QED BY <3>2, ZeroIsLeaf DEF NoIter
  <2>3. CASE it[u].op # "idle"
    <3>1. it[u].p \in Nat /\ it[u].end \in Nat
      BY <2>1 DEF IterType
    <3>2. it[u].p <= it[u].end /\ it[u].end < high
      BY <2>3 DEF TInv, Pages, Ranges
    <3>3. it[u].p < high
      BY <1>6, <3>1, <3>2
    <3> QED BY <1>7, <3>1, <3>2, <3>3
  <2> QED BY <2>2, <2>3
<1>10. \A h \in Handler : pf[h].p \in L1
  BY DEF TInv, Pages, Ranges
<1> QED BY <1>1, <1>2, <1>3, <1>4, <1>5, <1>6, <1>8, <1>9, <1>10 DEF TypeOK

(* The types of the trie.  What is not evident is the bound of the counts: *)
(* the count of a table is its fan-out and one for each user thread at     *)
(* most, and never negative.  A thread that has removed a child and not    *)
(* yet taken it off the count (trie_iter_next keeps is_last across the     *)
(* next lock, trie.c:433-459) owes for a child that is gone, and no two    *)
(* owe for the same; so what is owed is made up for by what is gone.       *)
THEOREM TypeOKHolds ==
  ASSUME IsFiniteSet(User), LastChoices \subseteq {FALSE}
  PROVE  Spec => []TypeOK
<1>1. Init => BInv
  BY InitBounds
<1>2. IInv /\ TInv /\ TInv' /\ BInv /\ [Next]_vars => BInv'
  BY NextBounds
<1>3. IInv /\ TInv /\ BInv => TypeOK
  BY ShapesOf
<1> QED BY <1>1, <1>2, <1>3, Invariant, CountsInvariant, PTL DEF Spec
=============================================================================
