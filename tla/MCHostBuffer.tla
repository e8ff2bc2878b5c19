---------------------------- MODULE MCHostBuffer ----------------------------
(***************************************************************************)
(* HostBuffer with three names for two slots, one HostBuffer and one       *)
(* HostBufPlay.                                                            *)
(***************************************************************************)
EXTENDS HostBuffer, TLC

CONSTANTS m1, a1, a2, a3, b1, p1

ForwardAndBack == {Unit, -1}

Symmetry == Permutations(Names)
=============================================================================
