----------------------------- MODULE MCManager -----------------------------
(***************************************************************************)
(* Instances of Manager for TLC.                                           *)
(***************************************************************************)
EXTENDS Manager

CONSTANTS x1, x2, p1, sched, k1, k2
=============================================================================
