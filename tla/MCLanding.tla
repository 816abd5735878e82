------------------------------ MODULE MCLanding ------------------------------
(***************************************************************************)
(* Instances of Landing for TLC.                                           *)
(***************************************************************************)
EXTENDS Landing

CONSTANTS x1, x2, x3

\* x3 waits for x1 and for x2.
BothFirst == {<<x3, x1>>, <<x3, x2>>}
=============================================================================
