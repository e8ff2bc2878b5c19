------------------------------ MODULE MCShreds ------------------------------
(***************************************************************************)
(* Shreds with two shreds and a buffer that three messages overrun.        *)
(***************************************************************************)
EXTENDS Shreds
=============================================================================
