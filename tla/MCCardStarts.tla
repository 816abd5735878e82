---------------------------- MODULE MCCardStarts ----------------------------
(***************************************************************************)
(* Instances of CardStarts for TLC.                                        *)
(***************************************************************************)
EXTENDS CardStarts, TLC

Symmetry == Permutations(Runs) \cup Permutations(Doors \ {Sweeper})

=============================================================================
