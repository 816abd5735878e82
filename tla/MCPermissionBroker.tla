------------------------- MODULE MCPermissionBroker -------------------------
(***************************************************************************)
(* Instances of PermissionBroker for TLC.                                  *)
(***************************************************************************)
EXTENDS PermissionBroker, TLC

RunSymmetry == Permutations(Runs \ FanOut)
RequestSymmetry == Permutations(Requests)
Symmetry == RunSymmetry \cup RequestSymmetry

=============================================================================
