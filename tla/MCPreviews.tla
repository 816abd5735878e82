----------------------------- MODULE MCPreviews -----------------------------
(***************************************************************************)
(* Instances of Previews for TLC.                                          *)
(***************************************************************************)
EXTENDS Previews

CONSTANTS x1, x2, m, d1, d2
=============================================================================
