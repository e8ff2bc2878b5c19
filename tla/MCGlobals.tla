----------------------------- MODULE MCGlobals ------------------------------
(***************************************************************************)
(* Globals with two or three events and two variables.                     *)
(***************************************************************************)
EXTENDS Globals

CONSTANTS e1, e2, e3, v1, a1
=============================================================================
