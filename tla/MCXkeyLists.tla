---------------------------- MODULE MCXkeyLists -----------------------------
(* Finite instances of XkeyLists: the blocks of each type are             *)
(* interchangeable.                                                       *)
EXTENDS XkeyLists, TLC

Interchangeable ==
  Permutations(HashHead) \cup Permutations(OcHead) \cup Permutations(Oc)

=============================================================================
