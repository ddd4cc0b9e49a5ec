----------------------------- MODULE MCAliasSpace -----------------------------
(* Instances of AliasSpace for TLC.                                        *)
EXTENDS AliasSpace, TLC

Symmetry == Permutations(Thread)
=============================================================================
