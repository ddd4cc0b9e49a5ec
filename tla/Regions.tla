-------------------------------- MODULE Regions --------------------------------
(***************************************************************************)
(* What memory management promises to the callers of mmap, munmap,         *)
(* mprotect and madvise (mmap.c): every page of the address space is       *)
(* unmapped or has attributes, and every call either does all of what it   *)
(* was asked for or fails and changes nothing.                             *)
(* vmem.h keeps the pages in a list of areas; module Vma refines this one. *)
(***************************************************************************)
EXTENDS Integers, FiniteSets

CONSTANTS
  Page,    \* page numbers of the address space
  Prot,    \* access permissions
  Flags,   \* the flags a mapping keeps
  Nil

VARIABLES
  attr,    \* the attributes of each page, Nil where nothing is mapped
  pte,     \* pages that have an entry in the page table
  call     \* the last call that returned: what it was asked for, or Failed

vars == <<attr, pte, call>>

Attr == [prot : Prot, flags : Flags]
Failed == [op |-> "failed"]

Mapped == {p \in Page : attr[p] # Nil}
(* The pages a call can ask for; with the length 0 it asks for none.       *)
Intervals == {lo .. hi : lo, hi \in Page} \cup {{}}

Init ==
  /\ attr = [p \in Page |-> Nil]
  /\ pte = {}
  /\ call = Failed

(* mmap: as many pages as asked for, that were not mapped and lie side by  *)
(* side, get the attributes.                                               *)
Map(S, a) ==
  /\ call' = [op |-> "mmap", size |-> Cardinality(S), attr |-> a]
  /\ S # {} /\ S \cap Mapped = {}
  /\ attr' = [p \in Page |-> IF p \in S THEN a ELSE attr[p]]
  /\ UNCHANGED pte

(* munmap: no page of the interval is mapped or in the page table.         *)
Unmap(S) ==
  /\ call' = [op |-> "munmap", pages |-> S]
  /\ attr' = [p \in Page |-> IF p \in S THEN Nil ELSE attr[p]]
  /\ pte' = pte \ S

(* mprotect: the mapped pages of the interval change their permissions.    *)
Protect(S, prot) ==
  /\ call' = [op |-> "mprotect", pages |-> S, prot |-> prot]
  /\ attr' = [p \in Page |-> IF p \in S \cap Mapped
                             THEN [attr[p] EXCEPT !.prot = prot] ELSE attr[p]]
  /\ UNCHANGED pte

(* madvise: the pages of the interval leave the page table.                *)
Advise(S) ==
  /\ call' = [op |-> "madvise", pages |-> S]
  /\ pte' = pte \ S
  /\ UNCHANGED attr

Fail ==
  /\ call' = Failed
  /\ UNCHANGED <<attr, pte>>

(* An access to a mapped page enters it into the page table.               *)
Touch(p) ==
  /\ p \in Mapped
  /\ pte' = pte \cup {p}
  /\ UNCHANGED <<attr, call>>

Next ==
  \/ Fail
  \/ \E S \in Intervals :
       \/ \E a \in Attr : Map(S, a)
       \/ \E prot \in Prot : Protect(S, prot)
       \/ Unmap(S)
       \/ Advise(S)
  \/ \E p \in Page : Touch(p)

Spec == Init /\ [][Next]_vars

-----------------------------------------------------------------------------
Call ==
  {Failed} \cup [op : {"mmap"}, size : Nat, attr : Attr]
    \cup [op : {"munmap", "madvise"}, pages : SUBSET Page]
    \cup [op : {"mprotect"}, pages : SUBSET Page, prot : Prot]

TypeOK ==
  /\ attr \in [Page -> Attr \cup {Nil}]
  /\ pte \subseteq Page
  /\ call \in Call

(* No page table entry outlives its mapping.                               *)
OnlyMappedPresent == pte \subseteq Mapped
=============================================================================
