----------------------------- MODULE MCLociObject -----------------------------
(***************************************************************************)
(* LociObject with two windows on the list and on its elements, so that    *)
(* one can be stale while the other is used.                               *)
(***************************************************************************)
EXTENDS LociObject, TLC

Interchangeable ==
    Permutations(Lists) \cup Permutations(Elements) \cup Permutations(ALists)
=============================================================================
