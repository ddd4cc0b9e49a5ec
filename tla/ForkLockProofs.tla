----------------------------- MODULE ForkLockProofs -----------------------------
(***************************************************************************)
(* fork_lock for any number of threads, objects and sizes: the counter     *)
(* tells who reads, writes and waits, and the lock of rwlock.h, with its   *)
(* transient counts, implements the abstract reader-writer lock.           *)
(***************************************************************************)
EXTENDS Api, FiniteSetTheorems, TLAPS

CountedSpots == {"back", "tryback", "body", "leave", "handler"}
ReadingSpots == {"body", "leave", "handler"}
WritingSpots == {"forking", "release"}
WantingSpots == {"load", "cas", "flag", "wait"}

(* The number of READs in the counter.                                     *)
Adds == Cardinality(Counted) + leaks

LockType ==
  /\ cnt \in Nat /\ leaks \in Nat
  /\ pc \in [Thread -> Spots]
  /\ seen \in [Thread -> {0, 1}]

(* The counter is made of the READs, the WRITE of a writer and a WAIT that *)
(* somebody waits for.                                                     *)
CounterIs(c) ==
  \E b \in {0, 1} : c = 4 * Adds + 2 * Cardinality(Writing) + b /\ (b = 1 => WantsWrite # {})

(* At most one thread writes, and then nobody reads.                       *)
OneWriter == \A t, u \in Writing : t = u
WriterIsAlone == Writing # {} => Reading = {} /\ leaks = 0

IInv == LockType /\ CounterIs(cnt) /\ OneWriter /\ WriterIsAlone
-----------------------------------------------------------------------------
(* The sets of threads, as the places of pc that make them up.             *)
LEMMA Sets ==
  /\ Counted = {t \in Thread : pc[t] \in CountedSpots}
  /\ Reading = {t \in Thread : pc[t] \in ReadingSpots}
  /\ Writing = {t \in Thread : pc[t] \in WritingSpots}
  /\ WantsWrite = {t \in Thread : pc[t] \in WantingSpots}
BY Zenon DEF Counted, Reading, Writing, WantsWrite,
          CountedSpots, ReadingSpots, WritingSpots, WantingSpots

(* A thread that moves joins or leaves the sets of its old and new place.  *)
LEMMA Moves ==
  ASSUME pc \in [Thread -> Spots], NEW t \in Thread, NEW l, Goto(t, l)
  PROVE  /\ Counted' = IF l \in CountedSpots THEN Counted \cup {t} ELSE Counted \ {t}
         /\ Reading' = IF l \in ReadingSpots THEN Reading \cup {t} ELSE Reading \ {t}
         /\ Writing' = IF l \in WritingSpots THEN Writing \cup {t} ELSE Writing \ {t}
         /\ WantsWrite' = IF l \in WantingSpots THEN WantsWrite \cup {t} ELSE WantsWrite \ {t}
<1>1. \A u \in Thread : pc'[u] = IF u = t THEN l ELSE pc[u]
  BY DEF Goto
<1>2. ASSUME NEW S
      PROVE  {u \in Thread : pc'[u] \in S} =
               IF l \in S THEN {u \in Thread : pc[u] \in S} \cup {t}
                          ELSE {u \in Thread : pc[u] \in S} \ {t}
  BY <1>1
<1>3. /\ Counted' = {u \in Thread : pc'[u] \in CountedSpots}
      /\ Reading' = {u \in Thread : pc'[u] \in ReadingSpots}
      /\ Writing' = {u \in Thread : pc'[u] \in WritingSpots}
      /\ WantsWrite' = {u \in Thread : pc'[u] \in WantingSpots}
  BY Zenon DEF Counted, Reading, Writing, WantsWrite,
            CountedSpots, ReadingSpots, WritingSpots, WantingSpots
<1> HIDE DEF CountedSpots, ReadingSpots, WritingSpots, WantingSpots
<1>4. Counted' = IF l \in CountedSpots THEN Counted \cup {t} ELSE Counted \ {t}
  BY <1>2, <1>3, Sets
<1>5. Reading' = IF l \in ReadingSpots THEN Reading \cup {t} ELSE Reading \ {t}
  BY <1>2, <1>3, Sets
<1>6. Writing' = IF l \in WritingSpots THEN Writing \cup {t} ELSE Writing \ {t}
  BY <1>2, <1>3, Sets
<1>7. WantsWrite' = IF l \in WantingSpots THEN WantsWrite \cup {t} ELSE WantsWrite \ {t}
  BY <1>2, <1>3, Sets
<1> QED BY <1>4, <1>5, <1>6, <1>7

(* The cardinalities of the sets, and of a set that gains or loses one.    *)
LEMMA Counts ==
  /\ IsFiniteSet(Counted) /\ Cardinality(Counted) \in Nat
  /\ IsFiniteSet(Reading) /\ Cardinality(Reading) \in Nat
  /\ IsFiniteSet(Writing) /\ Cardinality(Writing) \in Nat
<1>1. Counted \subseteq Thread /\ Reading \subseteq Thread /\ Writing \subseteq Thread
  BY DEF Counted, Reading, Writing
<1> QED BY <1>1, FS_Subset, FS_CardinalityType, ApiAssumption

LEMMA Gain ==
  ASSUME NEW S, IsFiniteSet(S), NEW x, x \notin S
  PROVE  Cardinality(S \cup {x}) = Cardinality(S) + 1
BY FS_AddElement

LEMMA Lose ==
  ASSUME NEW S, IsFiniteSet(S), NEW x, x \in S
  PROVE  Cardinality(S \ {x}) = Cardinality(S) - 1
BY FS_RemoveElement

(* One writer or none.                                                     *)
LEMMA Writers ==
  ASSUME OneWriter
  PROVE  /\ Writing = {} => Cardinality(Writing) = 0
         /\ Writing # {} => Cardinality(Writing) = 1
<1>1. CASE Writing = {}
  BY <1>1, FS_EmptySet
<1>2. CASE Writing # {}
  <2>1. PICK t : Writing = {t}
    BY <1>2 DEF OneWriter
  <2> QED BY <2>1, FS_Singleton
<1> QED BY <1>1, <1>2

(* What the counter says to a thread that looks at it.                     *)
LEMMA Look ==
  ASSUME IInv
  PROVE  /\ Adds \in Nat /\ cnt \div READ = Adds
         /\ (cnt \div WRITE) % 2 = Cardinality(Writing)
         /\ Waited(cnt) => WantsWrite # {}
         /\ ~Masked(cnt) => Writing = {}
         /\ cnt < WRITE => Adds = 0 /\ Writing = {}
<1>1. Adds \in Nat
  BY Counts DEF Adds, IInv, LockType
<1>2. Cardinality(Writing) \in {0, 1} /\ (Cardinality(Writing) = 0 => Writing = {})
  BY Writers DEF IInv
<1>3. PICK b \in {0, 1} : cnt = 4 * Adds + 2 * Cardinality(Writing) + b /\ (b = 1 => WantsWrite # {})
  BY DEF IInv, CounterIs
<1>4. /\ cnt \div READ = Adds
      /\ (cnt \div WRITE) % 2 = Cardinality(Writing)
      /\ Waited(cnt) <=> b = 1
      /\ Masked(cnt) <=> Cardinality(Writing) = 1 \/ b = 1
      /\ cnt < WRITE => Adds = 0 /\ Cardinality(Writing) = 0
  <2> HIDE DEF Adds
  <2> DEFINE w == Cardinality(Writing)
  <2>1. w \in {0, 1}
    BY <1>2
  <2>2. cnt = 4 * Adds + 2 * w + b
    BY <1>3
  <2> HIDE DEF w
  <2>3. /\ cnt \div READ = Adds
        /\ (cnt \div WRITE) % 2 = w
        /\ Waited(cnt) <=> b = 1
        /\ Masked(cnt) <=> w = 1 \/ b = 1
        /\ cnt < WRITE => Adds = 0 /\ w = 0
    BY <1>1, <2>1, <2>2 DEF READ, WRITE, Waited, Masked
  <2> QED BY <2>3 DEF w
<1>5. ~Masked(cnt) => Writing = {}
  BY <1>2, <1>4
<1> QED BY <1>1, <1>2, <1>3, <1>4, <1>5

LEMMA NoneCounted == ASSUME IInv, Adds = 0 PROVE Counted = {} /\ Reading = {} /\ leaks = 0
<1>1. leaks \in Nat /\ leaks = 0 /\ Cardinality(Counted) = 0
  BY Counts DEF IInv, LockType, Adds
<1>2. Counted = {}
  BY <1>1, Counts, FS_EmptySet
<1> QED BY <1>1, <1>2 DEF Counted
-----------------------------------------------------------------------------
(* The kinds of steps.  A thread that moves between places of the same     *)
(* sets changes nothing.                                                   *)
Stays(t, l) ==
  /\ pc[t] \in CountedSpots <=> l \in CountedSpots
  /\ pc[t] \in ReadingSpots <=> l \in ReadingSpots
  /\ pc[t] \in WritingSpots <=> l \in WritingSpots
  /\ pc[t] \in WantingSpots => l \in WantingSpots

SeenIsBit == seen \in [Thread -> {0, 1}]

LEMMA Quiet ==
  ASSUME IInv, NEW t \in Thread, NEW l \in Spots, Goto(t, l), Stays(t, l), SeenIsBit',
         UNCHANGED <<cnt, leaks>>
  PROVE  IInv'
<1> USE DEF IInv
<1>1. LockType'
  BY DEF LockType, Goto, SeenIsBit
<1>2. pc \in [Thread -> Spots]
  BY DEF LockType
<1>3. /\ t \in Counted <=> l \in CountedSpots
      /\ t \in Reading <=> l \in ReadingSpots
      /\ t \in Writing <=> l \in WritingSpots
      /\ t \in WantsWrite => l \in WantingSpots
  BY Sets DEF Stays
<1>4. /\ Counted' = IF l \in CountedSpots THEN Counted \cup {t} ELSE Counted \ {t}
      /\ Reading' = IF l \in ReadingSpots THEN Reading \cup {t} ELSE Reading \ {t}
      /\ Writing' = IF l \in WritingSpots THEN Writing \cup {t} ELSE Writing \ {t}
      /\ WantsWrite' = IF l \in WantingSpots THEN WantsWrite \cup {t} ELSE WantsWrite \ {t}
  BY <1>2, Moves
<1>5. Counted' = Counted /\ Reading' = Reading /\ Writing' = Writing
  <2>1. Counted' = Counted
    BY <1>3, <1>4
  <2>2. Reading' = Reading
    BY <1>3, <1>4
  <2>3. Writing' = Writing
    BY <1>3, <1>4
  <2> QED BY <2>1, <2>2, <2>3
<1>6. WantsWrite # {} => WantsWrite' # {}
  BY <1>3, <1>4
<1>7. Adds' = Adds
  BY <1>5 DEF Adds
<1>8. CounterIs(cnt)'
  BY <1>5, <1>6, <1>7 DEF CounterIs
<1>9. OneWriter' /\ WriterIsAlone'
  BY <1>5 DEF OneWriter, WriterIsAlone
<1> QED BY <1>1, <1>8, <1>9

(* A reader adds itself; it has the lock if no writer came before.         *)
LEMMA Adding ==
  ASSUME IInv, NEW t \in Thread, pc[t] \in {"add", "tryadd"},
         NEW l \in CountedSpots, Goto(t, l), l \in ReadingSpots => ~Masked(cnt),
         cnt' = cnt + READ, UNCHANGED <<seen, leaks>>
  PROVE  IInv'
<1> USE DEF IInv
<1>1. LockType'
  <2>1. l \in Spots /\ l # "cas" /\ cnt' \in Nat
    BY DEF LockType, READ, CountedSpots, Spots
  <2> QED BY <2>1 DEF LockType, Goto
<1>2. pc \in [Thread -> Spots]
  BY DEF LockType
<1>3. t \notin Counted /\ t \notin Writing /\ t \notin WantsWrite /\ t \notin Reading
  BY Sets DEF CountedSpots, WritingSpots, WantingSpots, ReadingSpots
<1>4. Counted' = Counted \cup {t} /\ Writing' = Writing /\ WantsWrite' = WantsWrite
  BY Moves, <1>2, <1>3 DEF CountedSpots, WritingSpots, WantingSpots
<1>5. Reading' = Reading \/ Writing = {}
  <2>1. ~Masked(cnt) => Writing = {}
    BY Look
  <2>2. Reading' = IF l \in ReadingSpots THEN Reading \cup {t} ELSE Reading \ {t}
    BY Moves, <1>2
  <2> QED BY <1>3, <2>1, <2>2
<1>6. Adds' = Adds + 1 /\ Adds \in Nat
  <2>1. Cardinality(Counted') = Cardinality(Counted) + 1
    BY <1>3, <1>4, Counts, Gain
  <2> QED BY <2>1, Counts DEF Adds, LockType
<1>7. CounterIs(cnt)'
  <2>1. PICK b \in {0, 1} : cnt = 4 * Adds + 2 * Cardinality(Writing) + b /\ (b = 1 => WantsWrite # {})
    BY DEF CounterIs
  <2>2. cnt' = 4 * Adds' + 2 * Cardinality(Writing') + b
    BY <1>4, <1>6, <2>1, Counts DEF READ
  <2> QED BY <1>4, <2>1, <2>2 DEF CounterIs
<1>8. OneWriter' /\ WriterIsAlone'
  BY <1>4, <1>5 DEF OneWriter, WriterIsAlone
<1> QED BY <1>1, <1>7, <1>8

(* A reader takes itself off.                                              *)
LEMMA Removing ==
  ASSUME IInv, NEW t \in Thread, pc[t] \in CountedSpots,
         NEW l \in Spots \ (CountedSpots \cup WritingSpots \cup WantingSpots), Goto(t, l),
         cnt' = cnt - READ, UNCHANGED <<seen, leaks>>
  PROVE  IInv'
<1> USE DEF IInv
<1>1. pc \in [Thread -> Spots]
  BY DEF LockType
<1>2. t \in Counted /\ t \notin Writing /\ t \notin WantsWrite
  BY Sets DEF CountedSpots, WritingSpots, WantingSpots
<1>3. Counted' = Counted \ {t} /\ Writing' = Writing /\ WantsWrite' = WantsWrite
  BY Moves, <1>1, <1>2
<1>4. Reading' \subseteq Reading
  BY Moves, <1>1 DEF CountedSpots, ReadingSpots
<1>5. Adds' = Adds - 1 /\ Adds \in Nat /\ Adds' \in Nat
  <2>1. Cardinality(Counted') = Cardinality(Counted) - 1
    BY <1>2, <1>3, Counts, Lose
  <2>2. Cardinality(Counted) # 0
    BY <1>2, Counts, FS_EmptySet
  <2> QED BY <2>1, <2>2, Counts DEF Adds, LockType
<1>6. PICK b \in {0, 1} : cnt = 4 * Adds + 2 * Cardinality(Writing) + b /\ (b = 1 => WantsWrite # {})
  BY DEF CounterIs
<1>7. cnt' = 4 * Adds' + 2 * Cardinality(Writing') + b /\ cnt' \in Nat
  BY <1>3, <1>5, <1>6, Counts DEF READ
<1>8. CounterIs(cnt)'
  BY <1>3, <1>6, <1>7 DEF CounterIs
<1>9. LockType'
  BY <1>7 DEF LockType, Goto, WantingSpots
<1>10. OneWriter' /\ WriterIsAlone'
  BY <1>3, <1>4 DEF OneWriter, WriterIsAlone
<1> QED BY <1>8, <1>9, <1>10

(* The counter is below WRITE when the exchange succeeds: nobody has it.   *)
LEMMA Taking ==
  ASSUME IInv, NEW t \in Thread, pc[t] = "cas", cnt = seen[t], Goto(t, "forking"),
         cnt' = WRITE, SeenIsBit', UNCHANGED leaks
  PROVE  IInv'
<1> USE DEF IInv
<1>1. pc \in [Thread -> Spots] /\ leaks \in Nat
  BY DEF LockType
<1>2. cnt < WRITE
  BY DEF LockType, WRITE
<1>3. Adds = 0 /\ Writing = {}
  BY <1>2, Look
<1>4. Counted = {} /\ Reading = {} /\ leaks = 0
  BY <1>3, NoneCounted
<1>5. Counted' = {} /\ Reading' = {} /\ Writing' = {t}
  BY Moves, <1>1, <1>3, <1>4 DEF CountedSpots, ReadingSpots, WritingSpots
<1>6. Adds' = 0 /\ Cardinality(Writing') = 1
  <2>1. Cardinality({}) = 0 /\ Cardinality({t}) = 1
    BY FS_EmptySet, FS_Singleton
  <2>2. leaks' = 0
    BY <1>4
  <2> QED BY <1>5, <2>1, <2>2 DEF Adds
<1>7. CounterIs(cnt)'
  BY <1>6 DEF CounterIs, WRITE
<1>8. LockType'
  BY <1>1 DEF LockType, Goto, WRITE, Spots, SeenIsBit
<1>9. OneWriter' /\ WriterIsAlone'
  BY <1>4, <1>5 DEF OneWriter, WriterIsAlone
<1> QED BY <1>7, <1>8, <1>9

LEMMA Flagging ==
  ASSUME IInv, NEW t \in Thread, WriteFlag(t), UNCHANGED leaks
  PROVE  IInv'
<1> USE DEF IInv
<1>1. /\ pc[t] = "flag" /\ Goto(t, "wait") /\ UNCHANGED <<seen, leaks>>
      /\ cnt' = IF Waited(cnt) THEN cnt ELSE cnt + WAIT
  BY DEF WriteFlag
<1>2. pc \in [Thread -> Spots]
  BY DEF LockType
<1>3. /\ t \notin Counted /\ t \notin Reading /\ t \notin Writing
  BY <1>1, Sets DEF CountedSpots, ReadingSpots, WritingSpots
<1>4. Counted' = Counted /\ Reading' = Reading /\ Writing' = Writing /\ t \in WantsWrite'
  BY <1>1, <1>2, <1>3, Moves DEF CountedSpots, ReadingSpots, WritingSpots, WantingSpots
<1>5. Adds' = Adds /\ Adds \in Nat /\ Cardinality(Writing) \in Nat
  BY <1>1, <1>4, Counts, Look DEF Adds
<1>6. PICK b \in {0, 1} : cnt = 4 * Adds + 2 * Cardinality(Writing) + b
  BY DEF CounterIs
<1>7. cnt' = 4 * Adds + 2 * Cardinality(Writing) + 1
  BY <1>1, <1>5, <1>6 DEF Waited, WAIT
<1>8. CounterIs(cnt)'
  BY <1>4, <1>5, <1>7 DEF CounterIs
<1>9. LockType'
  BY <1>1, <1>2 DEF LockType, Goto, WAIT, Spots
<1>10. OneWriter' /\ WriterIsAlone'
  BY <1>1, <1>4 DEF OneWriter, WriterIsAlone
<1> QED BY <1>8, <1>9, <1>10

LEMMA Unlocking ==
  ASSUME IInv, NEW t \in Thread, WriteUnlock(t), UNCHANGED leaks
  PROVE  IInv'
<1> USE DEF IInv
<1>1. pc[t] = "release" /\ Goto(t, "idle") /\ cnt' = cnt - WRITE /\ UNCHANGED <<seen, leaks>>
  BY DEF WriteUnlock
<1>2. pc \in [Thread -> Spots]
  BY DEF LockType
<1>3. /\ t \notin Counted /\ t \notin Reading /\ t \in Writing /\ t \notin WantsWrite
  BY <1>1, Sets DEF CountedSpots, ReadingSpots, WritingSpots, WantingSpots
<1>4. Writing = {t}
  BY <1>3 DEF OneWriter
<1>5. Counted' = Counted /\ Reading' = Reading /\ Writing' = {} /\ WantsWrite' = WantsWrite
  BY <1>1, <1>2, <1>3, <1>4, Moves DEF CountedSpots, ReadingSpots, WritingSpots, WantingSpots
<1>6. Adds' = Adds /\ Adds \in Nat
  BY <1>1, <1>5, Look DEF Adds
<1>7. Cardinality(Writing) = 1 /\ Cardinality(Writing') = 0
  BY <1>4, <1>5, FS_Singleton, FS_EmptySet
<1>8. PICK b \in {0, 1} : cnt = 4 * Adds + 2 * Cardinality(Writing) + b /\ (b = 1 => WantsWrite # {})
  BY DEF CounterIs
<1>9. cnt' = 4 * Adds + b /\ cnt' \in Nat
  BY <1>1, <1>6, <1>7, <1>8 DEF WRITE
<1>10. CounterIs(cnt)'
  BY <1>5, <1>6, <1>7, <1>8, <1>9 DEF CounterIs
<1>11. LockType'
  BY <1>1, <1>2, <1>9 DEF LockType, Goto, Spots
<1>12. OneWriter' /\ WriterIsAlone'
  BY <1>5 DEF OneWriter, WriterIsAlone
<1> QED BY <1>10, <1>11, <1>12

(* In the child nobody reads, writes or waits.                             *)
LEMMA Forking ==
  ASSUME IInv, NEW t \in Thread, Child(t)
  PROVE  IInv' /\ Counted' = {} /\ Reading' = {} /\ Writing' = {} /\ leaks' = 0
<1>1. /\ cnt' = 0 /\ leaks' = 0
      /\ pc' = [u \in Thread |-> IF u = t THEN "idle" ELSE "gone"] /\ seen' = seen
  BY DEF Child, ForkInChild
<1>2. Counted' = {} /\ Reading' = {} /\ Writing' = {}
  BY <1>1 DEF Counted, Reading, Writing
<1>3. Adds' = 0 /\ Cardinality(Writing') = 0
  BY <1>1, <1>2, FS_EmptySet DEF Adds
<1>4. CounterIs(cnt)'
  BY <1>1, <1>3 DEF CounterIs
<1>5. LockType'
  <2>1. seen \in [Thread -> {0, 1}]
    BY DEF IInv, LockType
  <2>2. pc' \in [Thread -> Spots]
    BY <1>1 DEF Spots
  <2> QED BY <1>1, <2>1, <2>2 DEF LockType
<1>6. OneWriter' /\ WriterIsAlone'
  BY <1>2 DEF OneWriter, WriterIsAlone
<1> QED BY <1>1, <1>2, <1>4, <1>5, <1>6 DEF IInv

(* A realloc that keeps its hold is not counted by a thread any more.      *)
LEMMA Leaking ==
  ASSUME IInv, NEW t \in Thread, ReallocInPlace(t)
  PROVE  IInv'
<1> USE DEF IInv
<1>1. pc[t] = "body" /\ Goto(t, "idle") /\ leaks' = leaks + 1 /\ UNCHANGED <<cnt, seen>>
  BY DEF ReallocInPlace, Inside
<1>2. pc \in [Thread -> Spots] /\ leaks \in Nat
  BY DEF LockType
<1>3. t \in Counted /\ t \in Reading /\ t \notin Writing /\ t \notin WantsWrite
  BY <1>1, Sets DEF CountedSpots, ReadingSpots, WritingSpots, WantingSpots
<1>4. Writing = {}
  BY <1>3 DEF WriterIsAlone
<1>5. Counted' = Counted \ {t} /\ Writing' = Writing /\ WantsWrite' = WantsWrite
  BY <1>1, <1>2, <1>3, Moves DEF CountedSpots, ReadingSpots, WritingSpots, WantingSpots
<1>6. Adds' = Adds
  <2>1. Cardinality(Counted') = Cardinality(Counted) - 1
    BY <1>3, <1>5, Counts, Lose
  <2> QED BY <1>1, <1>2, <2>1, Counts DEF Adds
<1>7. CounterIs(cnt)'
  BY <1>1, <1>5, <1>6 DEF CounterIs
<1>8. LockType'
  BY <1>1, <1>2 DEF LockType, Goto, Spots
<1>9. OneWriter' /\ WriterIsAlone'
  BY <1>4, <1>5 DEF OneWriter, WriterIsAlone
<1> QED BY <1>7, <1>8, <1>9
-----------------------------------------------------------------------------
LEMMA QuietMove ==
  ASSUME IInv, NEW t \in Thread, NEW l \in Spots, Goto(t, l), Stays(t, l),
         UNCHANGED <<cnt, seen, leaks>>
  PROVE  IInv'
<1>1. SeenIsBit'
  BY DEF IInv, LockType, SeenIsBit
<1> QED BY <1>1, Quiet

LEMMA Unchanged ==
  ASSUME IInv, UNCHANGED <<cnt, pc, seen, leaks>>
  PROVE  IInv' /\ Reading' = Reading /\ Writing' = Writing
<1>1. /\ Counted' = Counted /\ Reading' = Reading
      /\ Writing' = Writing /\ WantsWrite' = WantsWrite
  BY DEF Counted, Reading, Writing, WantsWrite
<1>2. Adds' = Adds
  BY <1>1 DEF Adds
<1> QED BY <1>1, <1>2 DEF IInv, LockType, CounterIs, OneWriter, WriterIsAlone

LEMMA LockSteps ==
  ASSUME IInv, NEW t \in Thread, LockStep(t)
  PROVE  IInv'
<1> USE DEF Stays, Spots, CountedSpots, ReadingSpots, WritingSpots, WantingSpots
<1>1. UNCHANGED leaks
  BY DEF LockStep
<1>2. seen \in [Thread -> {0, 1}] /\ cnt \in Nat
  BY DEF IInv, LockType
<1>3. CASE ReadSpin(t)
  BY <1>1, <1>3, QuietMove DEF ReadSpin
<1>4. CASE ReadAdd(t)
  <2>1. CASE Masked(cnt)
    BY <1>1, <1>4, <2>1, Adding DEF ReadAdd
  <2>2. CASE ~Masked(cnt)
    BY <1>1, <1>4, <2>2, Adding DEF ReadAdd
  <2> QED BY <2>1, <2>2
<1>5. CASE ReadBack(t)
  BY <1>1, <1>5, Removing DEF ReadBack
<1>6. CASE TryCheck(t)
  BY <1>1, <1>6, QuietMove DEF TryCheck
<1>7. CASE TryAdd(t)
  <2>1. CASE Masked(cnt)
    BY <1>1, <1>7, <2>1, Adding DEF TryAdd
  <2>2. CASE ~Masked(cnt)
    BY <1>1, <1>7, <2>2, Adding DEF TryAdd
  <2> QED BY <2>1, <2>2
<1>8. CASE TryBack(t)
  BY <1>1, <1>8, Removing DEF TryBack
<1>9. CASE HandlerUnlock(t)
  BY <1>1, <1>9, Removing DEF HandlerUnlock
<1>10. CASE WriteLoad(t)
  <2>1. PICK l \in {"cas", "wait", "flag"} : Goto(t, l)
    BY <1>10 DEF WriteLoad
  <2>2. SeenIsBit'
    BY <1>2, <1>10 DEF WriteLoad, SeenIsBit, WRITE
  <2>3. Stays(t, l) /\ l \in Spots /\ UNCHANGED cnt
    BY <1>10, <2>1 DEF WriteLoad
  <2> HIDE DEF Stays, Spots
  <2> QED BY <1>1, <2>1, <2>2, <2>3, Quiet
<1>11. CASE WriteCas(t)
  <2>1. SeenIsBit'
    BY <1>2, <1>11 DEF WriteCas, SeenIsBit
  <2>2. CASE cnt = seen[t] /\ cnt' = WRITE /\ Goto(t, "forking")
    BY <1>1, <1>11, <2>1, <2>2, Taking DEF WriteCas
  <2>3. CASE \E l \in {"wait", "flag"} : Goto(t, l) /\ UNCHANGED cnt
    <3>1. PICK l \in {"wait", "flag"} : Goto(t, l) /\ UNCHANGED cnt
      BY <2>3
    <3>2. Stays(t, l) /\ l \in Spots
      BY <1>11 DEF WriteCas
    <3> HIDE DEF Stays, Spots
    <3> QED BY <1>1, <2>1, <3>1, <3>2, Quiet
  <2> QED BY <1>11, <2>2, <2>3 DEF WriteCas
<1>12. CASE WriteFlag(t)
  BY <1>1, <1>12, Flagging
<1>13. CASE WriteSpin(t)
  BY <1>1, <1>13, QuietMove DEF WriteSpin
<1>14. CASE WriteUnlock(t)
  BY <1>1, <1>14, Unlocking
<1>15. CASE ForkInParent(t)
  BY <1>1, <1>15, QuietMove DEF ForkInParent
<1> QED BY <1>3, <1>4, <1>5, <1>6, <1>7, <1>8, <1>9, <1>10, <1>11, <1>12, <1>13, <1>14, <1>15
         DEF LockStep

(* Entering an entry point, and the work inside.                           *)
LEMMA Beginning ==
  ASSUME IInv, NEW t \in Thread, Calls(t)
  PROVE  IInv'
<1>1. PICK l \in {"spin", "bare", "load", "touch"} :
        /\ pc[t] = "idle" /\ Goto(t, l)
        /\ UNCHANGED <<cnt, seen, leaks>>
  BY DEF Calls, CallMalloc, CallMemalign, CallAlignedAlloc, CallFree, CallUsableSize,
         CallRealloc, CallFork, Access, Begin
<1>2. Stays(t, l) /\ l \in Spots
  BY <1>1 DEF Stays, Spots, CountedSpots, ReadingSpots, WritingSpots, WantingSpots
<1> QED BY <1>1, <1>2, QuietMove

LEMMA Working ==
  ASSUME IInv, NEW t \in Thread,
         Malloc(t) \/ Free(t) \/ MallocUsableSize(t) \/ ReallocMalloc(t)
  PROVE  pc[t] = "body" /\ Goto(t, "leave") /\ UNCHANGED <<cnt, seen, leaks>> /\ IInv'
<1>1. pc[t] = "body" /\ Goto(t, "leave") /\ UNCHANGED <<cnt, seen, leaks>>
  BY DEF Malloc, Allocate, Free, MallocUsableSize, ReallocMalloc, Inside
<1>2. Stays(t, "leave") /\ "leave" \in Spots
  BY <1>1 DEF Stays, Spots, CountedSpots, ReadingSpots, WritingSpots, WantingSpots
<1> QED BY <1>1, <1>2, QuietMove

LEMMA Outside ==
  ASSUME IInv, NEW t \in Thread, AlignedAlloc(t) \/ Touched(t)
  PROVE  /\ \E l \in {"idle", "spin"} : Goto(t, l)
         /\ pc[t] \in {"bare", "touched"} /\ UNCHANGED <<cnt, seen, leaks>> /\ IInv'
<1>1. PICK l \in {"idle", "spin"} :
        /\ pc[t] \in {"bare", "touched"} /\ Goto(t, l)
        /\ UNCHANGED <<cnt, seen, leaks>>
  BY DEF AlignedAlloc, Allocate, Touched
<1>2. Stays(t, l) /\ l \in Spots
  BY <1>1 DEF Stays, Spots, CountedSpots, ReadingSpots, WritingSpots, WantingSpots
<1> QED BY <1>1, <1>2, QuietMove

LEMMA Leaving ==
  ASSUME IInv, NEW t \in Thread, Leave(t)
  PROVE  /\ \E l \in {"touch", "touched", "idle"} : Goto(t, l)
         /\ pc[t] = "leave" /\ UNCHANGED leaks /\ IInv'
<1>1. PICK l \in {"touch", "touched", "idle"} :
        /\ pc[t] = "leave" /\ Goto(t, l)
        /\ cnt' = cnt - READ /\ UNCHANGED <<seen, leaks>>
  BY DEF Leave, ReadUnlock
<1>2. /\ pc[t] \in CountedSpots
      /\ l \in Spots \ (CountedSpots \cup WritingSpots \cup WantingSpots)
  BY <1>1 DEF Spots, CountedSpots, WritingSpots, WantingSpots
<1> QED BY <1>1, <1>2, Removing

LEMMA Starting ==
  ASSUME EarlyCalls \/ FindLibc \/ LibcCalls \/ EnterKernel
         \/ \E t \in Thread : ThreadInit(t)
  PROVE  UNCHANGED <<cnt, pc, seen, leaks>>
BY DEF EarlyCalls, LibcCalls, FindLibc, EnterKernel, BootMalloc, BootFree, ThreadInit, forkLockVars

LEMMA InitInv == Init => IInv
<1> SUFFICES ASSUME Init PROVE IInv
  OBVIOUS
<1>1. cnt = 0 /\ leaks = 0 /\ pc = [t \in Thread |-> "idle"] /\ seen = [t \in Thread |-> 0]
  BY DEF Init
<1>2. Counted = {} /\ Reading = {} /\ Writing = {}
  BY <1>1 DEF Counted, Reading, Writing
<1>3. Adds = 0 /\ Cardinality(Writing) = 0
  BY <1>1, <1>2, FS_EmptySet DEF Adds
<1>4. CounterIs(cnt)
  BY <1>1, <1>3 DEF CounterIs
<1>5. LockType
  BY <1>1 DEF LockType, Spots
<1> QED BY <1>2, <1>4, <1>5 DEF IInv, OneWriter, WriterIsAlone

LEMMA StepInv == IInv /\ [Next]_vars => IInv'
<1> SUFFICES ASSUME IInv, [Next]_vars PROVE IInv'
  OBVIOUS
<1>1. CASE UNCHANGED vars
  BY <1>1, Unchanged DEF vars
<1>2. CASE EarlyCalls \/ FindLibc \/ LibcCalls \/ EnterKernel
  BY <1>2, Starting, Unchanged
<1>3. ASSUME NEW t \in Thread, Calls(t) PROVE IInv'
  BY <1>3, Beginning
<1>4. ASSUME NEW t \in Thread, Proceed(t) PROVE IInv'
  <2>1. CASE ThreadInit(t)
    BY <2>1, Starting, Unchanged
  <2>2. CASE Malloc(t) \/ Free(t) \/ MallocUsableSize(t) \/ ReallocMalloc(t)
    BY <2>2, Working
  <2>3. CASE AlignedAlloc(t) \/ Touched(t)
    BY <2>3, Outside
  <2>4. CASE Leave(t)
    BY <2>4, Leaving
  <2>5. CASE ReallocInPlace(t)
    BY <2>5, Leaking
  <2>6. CASE LockStep(t)
    BY <2>6, LockSteps
  <2>7. CASE Child(t)
    BY <2>7, Forking
  <2> QED BY <1>4, <2>1, <2>2, <2>3, <2>4, <2>5, <2>6, <2>7 DEF Proceed
<1> QED BY <1>1, <1>2, <1>3, <1>4 DEF Next

(* The inductive invariant holds in every reachable state.                 *)
THEOREM Invariant == Spec => []IInv
BY InitInv, StepInv, PTL DEF Spec

(* rwlock.h:5-8: READ for each reader, WRITE for the writer, WAIT only     *)
(* while somebody waits; with any number of threads.                       *)
THEOREM CounterIsExactHolds == Spec => []CounterIsExact
<1>1. IInv => CounterIsExact
  BY Look DEF CounterIsExact, Adds
<1> QED BY <1>1, Invariant, PTL

(* vmem.c:55: whoever forks is alone, with no hold of the lock left over,  *)
(* except for calls of aligned_alloc, which take no lock and may be in the *)
(* middle of their work when the address space is copied.                  *)
THEOREM ForkMeetsAlignedAllocOnlyHolds == Spec => []ForkMeetsAlignedAllocOnly
<1>1. ASSUME IInv PROVE ForkMeetsAlignedAllocOnly
  <2>1. ASSUME NEW t \in Writing PROVE leaks = 0
    BY <1>1 DEF IInv, WriterIsAlone
  <2>2. ASSUME NEW t \in Writing, NEW u \in AtWork, u # t PROVE pc[u] = "bare"
    BY <1>1, <2>2 DEF IInv, WriterIsAlone, OneWriter, AtWork
  <2> QED BY <2>1, <2>2 DEF ForkMeetsAlignedAllocOnly
<1> QED BY <1>1, Invariant, PTL
-----------------------------------------------------------------------------
(* The refinement: what each kind of step does to the shared holds and to  *)
(* the exclusive one.                                                      *)
LEMMA NoHold ==
  ASSUME IInv, NEW t \in Thread, NEW l, Goto(t, l), UNCHANGED leaks,
         pc[t] \in ReadingSpots <=> l \in ReadingSpots,
         pc[t] \in WritingSpots <=> l \in WritingSpots
  PROVE  UNCHANGED Lock!lockVars
<1>1. pc \in [Thread -> Spots]
  BY DEF IInv, LockType
<1>2. (t \in Reading <=> l \in ReadingSpots) /\ (t \in Writing <=> l \in WritingSpots)
  BY Sets
<1>3. /\ Reading' = IF l \in ReadingSpots THEN Reading \cup {t} ELSE Reading \ {t}
      /\ Writing' = IF l \in WritingSpots THEN Writing \cup {t} ELSE Writing \ {t}
  BY <1>1, Moves
<1>4. Reading' = Reading
  BY <1>2, <1>3
<1>5. Writing' = Writing
  BY <1>2, <1>3
<1> QED BY <1>4, <1>5 DEF Lock!lockVars

LEMMA SharedTaken ==
  ASSUME IInv, NEW t \in Thread, NEW l \in ReadingSpots, Goto(t, l), UNCHANGED leaks,
         pc[t] \in {"add", "tryadd"}, ~Masked(cnt)
  PROVE  Lock!ReadLock
<1>1. pc \in [Thread -> Spots]
  BY DEF IInv, LockType
<1>2. t \notin Reading /\ t \notin Writing /\ l \notin WritingSpots
  BY Sets DEF ReadingSpots, WritingSpots
<1>3. Reading' = Reading \cup {t} /\ Writing' = Writing
  <2>1. Reading' = IF l \in ReadingSpots THEN Reading \cup {t} ELSE Reading \ {t}
    BY <1>1, Moves
  <2>2. Writing' = IF l \in WritingSpots THEN Writing \cup {t} ELSE Writing \ {t}
    BY <1>1, Moves
  <2> QED BY <1>2, <2>1, <2>2
<1>4. Writing = {}
  BY Look
<1>5. Cardinality(Reading') = Cardinality(Reading) + 1
  BY <1>2, <1>3, Counts, Gain
<1>6. leaks \in Nat /\ Cardinality(Reading) \in Nat
  BY Counts DEF IInv, LockType
<1> QED BY <1>3, <1>4, <1>5, <1>6 DEF Lock!ReadLock

LEMMA SharedReleased ==
  ASSUME IInv, NEW t \in Thread, pc[t] \in ReadingSpots, UNCHANGED leaks,
         NEW l, l \notin ReadingSpots \cup WritingSpots, Goto(t, l)
  PROVE  Lock!ReadUnlock
<1>1. pc \in [Thread -> Spots]
  BY DEF IInv, LockType
<1>2. t \in Reading /\ t \notin Writing
  BY Sets DEF ReadingSpots, WritingSpots
<1>3. Reading' = Reading \ {t} /\ Writing' = Writing
  BY <1>1, <1>2, Moves
<1>4. Cardinality(Reading') = Cardinality(Reading) - 1 /\ Cardinality(Reading) # 0
  BY <1>2, <1>3, Counts, Lose, FS_EmptySet
<1>5. leaks \in Nat /\ Cardinality(Reading) \in Nat
  BY Counts DEF IInv, LockType
<1> QED BY <1>3, <1>4, <1>5 DEF Lock!ReadUnlock

LEMMA ExclusiveTaken ==
  ASSUME IInv, NEW t \in Thread, pc[t] = "cas", cnt = seen[t], Goto(t, "forking"),
         UNCHANGED leaks
  PROVE  Lock!WriteLock
<1>1. pc \in [Thread -> Spots] /\ cnt < WRITE
  BY DEF IInv, LockType, WRITE
<1>2. Reading = {} /\ Writing = {} /\ leaks = 0
  BY <1>1, Look, NoneCounted
<1>3. Reading' = {} /\ Writing' = {t}
  BY <1>1, <1>2, Moves DEF ReadingSpots, WritingSpots
<1>4. Cardinality({}) = 0
  BY FS_EmptySet
<1> QED BY <1>2, <1>3, <1>4 DEF Lock!WriteLock

LEMMA ExclusiveReleased ==
  ASSUME IInv, NEW t \in Thread, WriteUnlock(t), UNCHANGED leaks
  PROVE  Lock!WriteUnlock
<1>1. pc \in [Thread -> Spots] /\ OneWriter /\ WriterIsAlone
  BY DEF IInv, LockType
<1>2. pc[t] = "release" /\ Goto(t, "idle")
  BY DEF WriteUnlock
<1>3. t \in Writing
  BY <1>2, Sets DEF WritingSpots
<1>4. Writing = {t} /\ Reading = {}
  BY <1>1, <1>3 DEF OneWriter, WriterIsAlone
<1>5. Writing' = {} /\ Reading' = Reading
  BY <1>1, <1>2, <1>4, Moves DEF ReadingSpots, WritingSpots
<1> QED BY <1>4, <1>5 DEF Lock!WriteUnlock

(* The new lock of the child: the forking thread had the lock alone.       *)
LEMMA ChildReleases ==
  ASSUME IInv, NEW t \in Thread, Child(t)
  PROVE  Lock!WriteUnlock
<1>1. t \in Writing
  BY Sets DEF Child, ForkInChild, WritingSpots
<1>2. Reading = {} /\ leaks = 0
  BY <1>1 DEF IInv, WriterIsAlone
<1>3. Reading' = {} /\ Writing' = {} /\ leaks' = 0
  BY Forking
<1> QED BY <1>1, <1>2, <1>3 DEF Lock!WriteUnlock

(* A realloc in place passes its hold on to nobody.                        *)
LEMMA LeakKeeps ==
  ASSUME IInv, NEW t \in Thread, ReallocInPlace(t)
  PROVE  UNCHANGED Lock!lockVars
<1>1. pc[t] = "body" /\ Goto(t, "idle") /\ leaks' = leaks + 1
  BY DEF ReallocInPlace, Inside
<1>2. pc \in [Thread -> Spots] /\ leaks \in Nat
  BY DEF IInv, LockType
<1>3. t \in Reading /\ t \notin Writing
  BY <1>1, Sets DEF ReadingSpots, WritingSpots
<1>4. Reading' = Reading \ {t} /\ Writing' = Writing
  BY <1>1, <1>2, <1>3, Moves DEF ReadingSpots, WritingSpots
<1>5. Cardinality(Reading') = Cardinality(Reading) - 1 /\ Cardinality(Reading) \in Nat
  BY <1>3, <1>4, Counts, Lose
<1> QED BY <1>1, <1>2, <1>4, <1>5 DEF Lock!lockVars

LEMMA LockStepImplements ==
  ASSUME IInv, NEW t \in Thread, LockStep(t)
  PROVE  [Lock!Next]_Lock!lockVars
<1> USE DEF ReadingSpots, WritingSpots
<1>1. UNCHANGED leaks
  BY DEF LockStep
<1>2. CASE ReadAdd(t) \/ TryAdd(t)
  <2>1. CASE Masked(cnt)
    <3>1. PICK l \in {"back", "tryback"} : Goto(t, l) /\ pc[t] \in {"add", "tryadd"}
      BY <1>2, <2>1 DEF ReadAdd, TryAdd
    <3> QED BY <1>1, <3>1, NoHold
  <2>2. CASE ~Masked(cnt)
    <3>1. PICK l \in ReadingSpots : Goto(t, l) /\ pc[t] \in {"add", "tryadd"}
      BY <1>2, <2>2 DEF ReadAdd, TryAdd
    <3> QED BY <1>1, <2>2, <3>1, SharedTaken DEF Lock!Next
  <2> QED BY <2>1, <2>2
<1>3. CASE HandlerUnlock(t)
  <2>1. pc[t] = "handler" /\ Goto(t, "touched")
    BY <1>3 DEF HandlerUnlock
  <2> QED BY <1>1, <2>1, SharedReleased DEF Lock!Next
<1>4. CASE WriteCas(t) /\ cnt = seen[t]
  <2>1. pc[t] = "cas" /\ Goto(t, "forking")
    BY <1>4 DEF WriteCas
  <2> QED BY <1>1, <1>4, <2>1, ExclusiveTaken DEF Lock!Next
<1>5. CASE WriteUnlock(t)
  BY <1>1, <1>5, ExclusiveReleased DEF Lock!Next
<1>6. CASE \/ ReadSpin(t) \/ ReadBack(t) \/ TryCheck(t) \/ TryBack(t)
           \/ WriteLoad(t) \/ (WriteCas(t) /\ cnt # seen[t])
           \/ WriteFlag(t) \/ WriteSpin(t)
  <2>1. /\ pc[t] \notin ReadingSpots \cup WritingSpots
        /\ \E l \in Spots \ (ReadingSpots \cup WritingSpots) : Goto(t, l)
    BY <1>6 DEF ReadSpin, ReadBack, TryCheck, TryBack, WriteLoad, WriteCas, WriteFlag,
                WriteSpin, Spots
  <2>2. PICK l \in Spots \ (ReadingSpots \cup WritingSpots) : Goto(t, l)
    BY <2>1
  <2> QED BY <1>1, <2>1, <2>2, NoHold
<1>7. CASE ForkInParent(t)
  <2>1. pc[t] = "forking" /\ Goto(t, "release")
    BY <1>7 DEF ForkInParent
  <2> QED BY <1>1, <2>1, NoHold
<1>8. CASE WriteCas(t)
  BY <1>4, <1>6, <1>8
<1>9. \/ ReadSpin(t) \/ ReadAdd(t) \/ ReadBack(t)
      \/ TryCheck(t) \/ TryAdd(t) \/ TryBack(t) \/ HandlerUnlock(t)
      \/ WriteLoad(t) \/ WriteCas(t) \/ WriteFlag(t) \/ WriteSpin(t) \/ WriteUnlock(t)
      \/ ForkInParent(t)
  BY DEF LockStep
<1> QED BY <1>2, <1>3, <1>5, <1>6, <1>7, <1>8, <1>9

LEMMA StepImplements == IInv /\ [Next]_vars => [Lock!Next]_Lock!lockVars
<1> SUFFICES ASSUME IInv, [Next]_vars PROVE [Lock!Next]_Lock!lockVars
  OBVIOUS
<1>1. ASSUME UNCHANGED <<cnt, pc, seen, leaks>> PROVE UNCHANGED Lock!lockVars
  BY <1>1, Unchanged DEF Lock!lockVars
<1>2. CASE UNCHANGED vars
  BY <1>1, <1>2 DEF vars
<1>3. CASE EarlyCalls \/ FindLibc \/ LibcCalls \/ EnterKernel
  BY <1>1, <1>3, Starting
<1>4. ASSUME NEW t \in Thread, Calls(t) PROVE UNCHANGED Lock!lockVars
  <2>1. PICK l \in {"spin", "bare", "load", "touch"} :
          pc[t] = "idle" /\ Goto(t, l) /\ UNCHANGED leaks
    BY <1>4 DEF Calls, CallMalloc, CallMemalign, CallAlignedAlloc, CallFree, CallUsableSize,
                CallRealloc, CallFork, Access, Begin
  <2> QED BY <2>1, NoHold DEF ReadingSpots, WritingSpots
<1>5. ASSUME NEW t \in Thread, Proceed(t) PROVE [Lock!Next]_Lock!lockVars
  <2>1. CASE ThreadInit(t)
    BY <1>1, <2>1, Starting
  <2>2. CASE Malloc(t) \/ Free(t) \/ MallocUsableSize(t) \/ ReallocMalloc(t)
    BY <2>2, Working, NoHold DEF ReadingSpots, WritingSpots
  <2>3. CASE AlignedAlloc(t) \/ Touched(t)
    BY <2>3, Outside, NoHold DEF ReadingSpots, WritingSpots
  <2>4. CASE Leave(t)
    BY <2>4, Leaving, SharedReleased DEF ReadingSpots, WritingSpots, Lock!Next
  <2>5. CASE ReallocInPlace(t)
    BY <2>5, LeakKeeps
  <2>6. CASE LockStep(t)
    BY <2>6, LockStepImplements
  <2>7. CASE Child(t)
    BY <2>7, ChildReleases DEF Lock!Next
  <2> QED BY <1>5, <2>1, <2>2, <2>3, <2>4, <2>5, <2>6, <2>7 DEF Proceed
<1> QED BY <1>2, <1>3, <1>4, <1>5 DEF Next

LEMMA InitImplements == Init => Lock!Init
<1> SUFFICES ASSUME Init PROVE Lock!Init
  OBVIOUS
<1>1. Reading = {} /\ Writing = {} /\ leaks = 0
  BY DEF Init, Reading, Writing
<1> QED BY <1>1, FS_EmptySet DEF Lock!Init

(* fork_lock of rwlock.h, used as the entry points, the handler and fork   *)
(* use it, is a reader-writer lock for any number of threads.              *)
THEOREM LockIsImplemented == Spec => ImplementsRwLock
BY InitImplements, StepImplements, Invariant, PTL DEF Spec, ImplementsRwLock, Lock!Spec
=============================================================================
