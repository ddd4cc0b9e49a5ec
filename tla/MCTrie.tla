--------------------------------- MODULE MCTrie ---------------------------------
(* Instances of Trie for TLC.                                              *)
EXTENDS Trie, TLC

Symmetry == Permutations(User)
=============================================================================
