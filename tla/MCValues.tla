------------------------------ MODULE MCValues ------------------------------
(***************************************************************************)
(* Values with one or two variables and two or three messages.             *)
(***************************************************************************)
EXTENDS Values, TLC

CONSTANTS x, a

FloatAndArray ==
  x :> [array |-> FALSE, type |-> "float"] @@ a :> [array |-> TRUE, type |-> "float"]

ArrayOnly == a :> [array |-> TRUE, type |-> "float"]

IntOnly == x :> [array |-> FALSE, type |-> "int"]

\* 1.0 and 0.5; 1.0, 0 and 0.5: the first is not an index below 1.
Safe == {<<2, 1>>, <<2, 0, 1>>}

\* 0.5 and 1.0: the first is the index 0.
Index == {<<1, 2>>}

One == {<<2, 1>>}

None == {}
=============================================================================
