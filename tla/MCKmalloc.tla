------------------------------- MODULE MCKmalloc -------------------------------
(* Two threads, pages of four units and headers of one.  The smallest      *)
(* requests fit into a page, the largest needs a block of two; freed       *)
(* minors leave gaps in front of, between and behind the others.           *)
EXTENDS Kmalloc, TLC

MCNBlock == 3
MCPageSize == 4
MCPageCount == 1
MCHdr == 1
MCAlignRoom == 1
MCRequests == {0, 1, 2}
MCMaxHeld == 3

(* The threads are alike.                                                  *)
MCSymmetry == Permutations(Thread)

(* lost is only ever set and nothing depends on it.                        *)
MCView == <<majors, block, best, held, grow, crashed>>
=============================================================================
