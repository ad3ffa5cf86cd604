---------------------------- MODULE MCAccountCodes ----------------------------
(* Instances of AccountCodes for TLC. *)
EXTENDS AccountCodes, TLC

Symmetry == Permutations(Process)
=============================================================================
