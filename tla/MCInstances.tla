---------------------------- MODULE MCInstances -----------------------------
(***************************************************************************)
(* Instances with three objects for two slots.                             *)
(***************************************************************************)
EXTENDS Instances

CONSTANTS x1, x2, x3
=============================================================================
