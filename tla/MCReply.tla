------------------------------ MODULE MCReply -------------------------------
(***************************************************************************)
(* Reply on a ring of four slots.                                          *)
(***************************************************************************)
EXTENDS Reply
=============================================================================
