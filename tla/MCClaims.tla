------------------------------ MODULE MCClaims ------------------------------
(***************************************************************************)
(* Instances of Claims for TLC: runs of one project, some of one agent.    *)
(***************************************************************************)
EXTENDS Claims

CONSTANTS r1, r2, r3, machine, project

MCCovers == [r \in Runs |-> IF r = r3 THEN Policies \ {project} ELSE Policies]
=============================================================================
