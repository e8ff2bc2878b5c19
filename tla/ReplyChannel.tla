---------------------------- MODULE ReplyChannel ----------------------------
(***************************************************************************)
(* What the reply outlet of a [chuck~] object promises a patch: a bounded  *)
(* first-in first-out channel that is lossy only when it is full or off,   *)
(* that delivers one reply at a time, and that forgets everything it still *)
(* holds when it is turned off.  Module Reply implements it with a ring.   *)
(***************************************************************************)
EXTENDS Naturals, Sequences

CONSTANTS Capacity,   (* replies the channel can hold, the one being delivered included *)
          Replies     (* the replies there can be                                       *)

VARIABLES queue,      (* replies accepted and not yet done with, oldest first *)
          on,         (* the patch asked for replies                          *)
          delivering, (* Head(queue) is going out of the outlet right now     *)
          last        (* the reply delivered most recently                    *)

vars == <<queue, on, delivering, last>>

Init == queue = <<>> /\ on = FALSE /\ delivering = FALSE /\ last = 0

Accept(r) ==
  /\ on
  /\ Len(queue) < Capacity
  /\ queue' = Append(queue, r)
  /\ UNCHANGED <<on, delivering, last>>

Deliver ==
  /\ queue # <<>>
  /\ ~delivering
  /\ last' = Head(queue)
  /\ delivering' = TRUE
  /\ UNCHANGED <<queue, on>>

Done ==
  /\ delivering
  /\ queue' = Tail(queue)
  /\ delivering' = FALSE
  /\ UNCHANGED <<on, last>>

TurnOn ==
  /\ on' = TRUE
  /\ UNCHANGED <<queue, delivering, last>>

TurnOff ==
  /\ ~delivering
  /\ on' = FALSE
  /\ queue' = <<>>
  /\ UNCHANGED <<delivering, last>>

Next ==
  \/ \E r \in Replies : Accept(r)
  \/ Deliver
  \/ Done
  \/ TurnOn
  \/ TurnOff

Spec == Init /\ [][Next]_vars
=============================================================================
