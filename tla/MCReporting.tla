---------------------------- MODULE MCReporting -----------------------------
(***************************************************************************)
(* Reporting with a stack of a few calls.                                  *)
(***************************************************************************)
EXTENDS Reporting
=============================================================================
