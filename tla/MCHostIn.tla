------------------------------ MODULE MCHostIn ------------------------------
(***************************************************************************)
(* HostIn with two shreds and two HostIns.                                 *)
(***************************************************************************)
EXTENDS HostIn

CONSTANTS s1, s2, h1, h2, n1
=============================================================================
