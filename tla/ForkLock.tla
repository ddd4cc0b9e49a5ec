------------------------------ MODULE ForkLock ------------------------------
(* fork_lock (rwlock.h): every entry point of the allocator holds it       *)
(* shared, the handler of page faults tries to, and the handlers of        *)
(* pthread_atfork hold it exclusively around fork.  One action is one      *)
(* atomic access to the counter.                                           *)
EXTENDS Naturals, FiniteSets

CONSTANTS
  Thread

VARIABLES
  cnt,    \* rwlock_t.cnt: WAIT bit, WRITE bit, and READ for each reader
  pc,     \* where each thread stands
  seen    \* the local x of rwlock_write_lock, 0 when dead

forkLockVars == <<cnt, pc, seen>>

WAIT == 1
WRITE == 2
READ == 4

Waited(c) == c % 2 = 1
Masked(c) == c % READ # 0

Goto(t, l) == pc' = [pc EXCEPT ![t] = l]

(***************************************************************************)
(* rwlock_read_lock.                                                       *)
(***************************************************************************)
ReadSpin(t) ==
  /\ pc[t] = "spin" /\ ~Masked(cnt)
  /\ Goto(t, "add")
  /\ UNCHANGED <<cnt, seen>>

ReadAdd(t) ==
  /\ pc[t] = "add"
  /\ cnt' = cnt + READ
  /\ Goto(t, IF Masked(cnt) THEN "back" ELSE "body")
  /\ UNCHANGED seen

ReadBack(t) ==
  /\ pc[t] = "back"
  /\ cnt' = cnt - READ
  /\ Goto(t, "spin")
  /\ UNCHANGED seen

(* rwlock_read_unlock, of the entry point that has done its work.          *)
ReadUnlock(t, next) ==
  /\ pc[t] = "leave"
  /\ cnt' = cnt - READ
  /\ Goto(t, next)
  /\ UNCHANGED seen

(***************************************************************************)
(* mbpf_rwlock_read_trylock and mbpf_rwlock_read_unlock.  When the try     *)
(* fails the handler maps nothing, the access faults again, and the thread *)
(* is back where it was.                                                   *)
(***************************************************************************)
TryCheck(t) ==
  /\ pc[t] = "touch" /\ ~Masked(cnt)
  /\ Goto(t, "tryadd")
  /\ UNCHANGED <<cnt, seen>>

TryAdd(t) ==
  /\ pc[t] = "tryadd"
  /\ cnt' = cnt + READ
  /\ Goto(t, IF Masked(cnt) THEN "tryback" ELSE "handler")
  /\ UNCHANGED seen

TryBack(t) ==
  /\ pc[t] = "tryback"
  /\ cnt' = cnt - READ
  /\ Goto(t, "touch")
  /\ UNCHANGED seen

HandlerUnlock(t) ==
  /\ pc[t] = "handler"
  /\ cnt' = cnt - READ
  /\ Goto(t, "touched")
  /\ UNCHANGED seen

(***************************************************************************)
(* rwlock_write_lock and rwlock_write_unlock.                              *)
(***************************************************************************)
WriteLoad(t) ==
  /\ pc[t] = "load"
  /\ \/ /\ cnt < WRITE
        /\ seen' = [seen EXCEPT ![t] = cnt]
        /\ Goto(t, "cas")
     \/ /\ cnt >= WRITE
        /\ Goto(t, IF Waited(cnt) THEN "wait" ELSE "flag")
        /\ UNCHANGED seen
  /\ UNCHANGED cnt

(* A plausible slip: the counter is stored, whatever it has become.        *)
WrongWriteCas(t) ==
  /\ pc[t] = "cas"
  /\ cnt' = WRITE
  /\ Goto(t, "forking")
  /\ seen' = [seen EXCEPT ![t] = 0]

(* The exchange clears WAIT.  A failed exchange loads the counter, which   *)
(* is looked at once more: x is dead in either case.                       *)
WriteCas(t) ==
  /\ pc[t] = "cas"
  /\ \/ /\ cnt = seen[t]
        /\ cnt' = WRITE
        /\ Goto(t, "forking")
     \/ /\ cnt # seen[t]
        /\ Goto(t, IF Waited(cnt) THEN "wait" ELSE "flag")
        /\ UNCHANGED cnt
  /\ seen' = [seen EXCEPT ![t] = 0]

WriteFlag(t) ==
  /\ pc[t] = "flag"
  /\ cnt' = IF Waited(cnt) THEN cnt ELSE cnt + WAIT
  /\ Goto(t, "wait")
  /\ UNCHANGED seen

(* A plausible slip: the writer waits for its own bit to go, too.          *)
WrongWriteSpin(t) ==
  /\ pc[t] = "wait" /\ cnt < WAIT
  /\ Goto(t, "load")
  /\ UNCHANGED <<cnt, seen>>

WriteSpin(t) ==
  /\ pc[t] = "wait" /\ cnt <= WAIT
  /\ Goto(t, "load")
  /\ UNCHANGED <<cnt, seen>>

(* A plausible slip: unlocking clears the whole counter.                   *)
WrongWriteUnlock(t) ==
  /\ pc[t] = "release"
  /\ cnt' = 0
  /\ Goto(t, "idle")
  /\ UNCHANGED seen

WriteUnlock(t) ==
  /\ pc[t] = "release"
  /\ cnt' = cnt - WRITE
  /\ Goto(t, "idle")
  /\ UNCHANGED seen

(* fork itself.  The parent goes on with every thread; the child, which    *)
(* continues with the forking thread alone, starts from a new lock.        *)
ForkInParent(t) ==
  /\ pc[t] = "forking"
  /\ Goto(t, "release")
  /\ UNCHANGED <<cnt, seen>>

(* A plausible slip: the child unlocks as the parent does.                 *)
WrongForkInChild(t) ==
  /\ pc[t] = "forking"
  /\ cnt' = cnt - WRITE
  /\ pc' = [u \in Thread |-> IF u = t THEN "idle" ELSE "gone"]
  /\ UNCHANGED seen

ForkInChild(t) ==
  /\ pc[t] = "forking"
  /\ cnt' = 0
  /\ pc' = [u \in Thread |-> IF u = t THEN "idle" ELSE "gone"]
  /\ UNCHANGED seen

Reading == {t \in Thread : pc[t] \in {"body", "leave", "handler"}}
Writing == {t \in Thread : pc[t] \in {"forking", "release"}}
WantsWrite == {t \in Thread : pc[t] \in {"load", "cas", "flag", "wait"}}
=============================================================================
