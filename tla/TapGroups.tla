----------------------------- MODULE TapGroups ------------------------------
(***************************************************************************)
(* What the tap outlets promise.  An outlet is free or belongs to one      *)
(* group: a run of consecutive outlets fed by the channels of one UGen.    *)
(* Assigning or clearing outlets dissolves every group it touches.  A      *)
(* block plays each group on its own outlets and silence on the others;    *)
(* a UGen that is not there is silent.                                     *)
(***************************************************************************)
EXTENDS Naturals

CONSTANTS Outlets,   (* the tap outlets, numbered from 0 *)
          UGens      (* names of UGens                   *)

VARIABLES groups,    (* the groups, by first outlet, width and UGen *)
          out        (* what each outlet played last                *)

Groups == [base : Outlets, width : Nat \ {0}, ugen : UGens]

Span(g) == g.base .. g.base + g.width - 1

Silence == <<>>

Init ==
  /\ groups = {}
  /\ out = [o \in Outlets |-> Silence]

Assign(new, touched) ==
  /\ groups' = {g \in groups : Span(g) \cap touched = {}} \cup new
  /\ UNCHANGED out

Monos(u) == {[base |-> o, width |-> 1, ugen |-> u] : o \in Outlets}

Play(ready) ==
  /\ out' = [o \in Outlets |->
               IF \E g \in groups : o \in Span(g) /\ g.ugen \in ready
               THEN LET g == CHOOSE g \in groups : o \in Span(g)
                    IN <<g.ugen, o - g.base>>
               ELSE Silence]
  /\ UNCHANGED groups

Next ==
  \/ Assign({}, Outlets)
  \/ \E o \in Outlets : Assign({}, {o})
  \/ \E u \in UGens : Assign(Monos(u), Outlets)
  \/ \E o \in Outlets, u \in UGens : \E last \in {l \in Outlets : l >= o} :
       Assign({[base |-> o, width |-> last - o + 1, ugen |-> u]}, o .. last)
  \/ \E ready \in SUBSET UGens : Play(ready)

Spec == Init /\ [][Next]_<<groups, out>>
=============================================================================
