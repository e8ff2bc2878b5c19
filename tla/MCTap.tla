------------------------------- MODULE MCTap --------------------------------
(***************************************************************************)
(* Tap with three outlets and two UGens.                                   *)
(***************************************************************************)
EXTENDS Tap

CONSTANTS u1, u2
=============================================================================
