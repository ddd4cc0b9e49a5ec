------------------------------- MODULE RwLock -------------------------------
(* What a reader-writer lock promises: any number of shared holds, or one  *)
(* exclusive hold, and never both.  Holds are counted and not attributed,  *)
(* as in fork_lock, whose counter does not know who holds it.              *)
EXTENDS Naturals

VARIABLES
  holds,    \* number of shared holds
  writer    \* whether the exclusive hold is taken

lockVars == <<holds, writer>>

Init == holds = 0 /\ writer = FALSE

ReadLock == ~writer /\ holds' = holds + 1 /\ UNCHANGED writer

ReadUnlock == holds > 0 /\ holds' = holds - 1 /\ UNCHANGED writer

WriteLock == holds = 0 /\ ~writer /\ writer' = TRUE /\ UNCHANGED holds

(* The exclusive hold ends; in the child of a fork the lock is made anew,  *)
(* which is the same, since the writer was alone.                          *)
WriteUnlock == writer /\ writer' = FALSE /\ UNCHANGED holds

Next == ReadLock \/ ReadUnlock \/ WriteLock \/ WriteUnlock

Spec == Init /\ [][Next]_lockVars
=============================================================================
