--------------------------------- MODULE MCVma ---------------------------------
(* An address space of three pages of two units each for Vma.               *)
EXTENDS Vma

CONSTANTS vmaList

MCNVma == 3
MCNode == 1 .. MCNVma \cup {vmaList}
MCPageSize == 2
MCBase == 8
MCTop == 14

(* Any address, a page of the space, the alignment of two pages, one that  *)
(* is no power of two, and an address within a page.                       *)
MCHints == {0, 10, 4, 6, 11}
MCPageHints == {0, 10, 4, 8}
MCLens == {0, 1, 4, 6}

(* Flags that mmap accepts, and a combination for each of its checks.       *)
Private == {"ANONYMOUS", "PRIVATE"}
MCFlagSets ==
  {Private, {"ANONYMOUS", "SHARED"}, {"PRIVATE"}, {"ANONYMOUS"}, Private \cup {"FIXED"},
   Private \cup {"GROWSDOWN"}, Private \cup {"POPULATE"}}

(* Only mappings that mmap supports.                                       *)
MCSupported == {Private}

(* The last call decides nothing, so that states are the same without it.  *)
MCView == <<mm, active, pte, onPages, panicked>>
=============================================================================
