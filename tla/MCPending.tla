------------------------------ MODULE MCPending ------------------------------
(***************************************************************************)
(* Instances of Pending for TLC.                                           *)
(***************************************************************************)
EXTENDS Pending

CONSTANTS a1, a2, t1, t2
=============================================================================
