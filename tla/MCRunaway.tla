----------------------------- MODULE MCRunaway ------------------------------
(***************************************************************************)
(* Runaway has no constants.                                               *)
(***************************************************************************)
EXTENDS Runaway
=============================================================================
