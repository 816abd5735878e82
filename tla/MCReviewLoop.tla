---------------------------- MODULE MCReviewLoop ----------------------------
(***************************************************************************)
(* Instances of ReviewLoop for TLC.                                        *)
(***************************************************************************)
EXTENDS ReviewLoop

=============================================================================
