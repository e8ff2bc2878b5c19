----------------------------- MODULE MCShreduler -----------------------------
(***************************************************************************)
(* The shreduler with three shreds that wait up to three samples.          *)
(***************************************************************************)
EXTENDS Shreduler
=============================================================================
