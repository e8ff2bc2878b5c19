------------------------------ MODULE Runaway -------------------------------
(***************************************************************************)
(* abort: ck_abort, Chuck_VM::abort_current_shred, the loop of             *)
(* Chuck_VM_Shred::run and the lock Pd holds around its perform routines   *)
(* and around every message.                                               *)
(***************************************************************************)
VARIABLES lock,         (* who holds Pd's lock: "none", "perform"            *)
          running,      (* m_current_shred is not NULL                       *)
          loops,        (* the shred never lets time pass                    *)
          is_abort,     (* the shred's flag                                  *)
          message,      (* abort: "none", "sent", "answered"                 *)
          ended         (* the shred has been removed                        *)

vars == <<lock, running, loops, is_abort, message, ended>>

Init ==
  /\ lock = "none"
  /\ running = FALSE
  /\ loops = FALSE
  /\ is_abort = FALSE
  /\ message = "none"
  /\ ended = FALSE

PerformBegin ==
  /\ lock = "none"
  /\ lock' = "perform"
  /\ UNCHANGED <<running, loops, is_abort, message, ended>>

\* The shred is due; what it does now may be a loop without end.
RunShred ==
  /\ lock = "perform" /\ ~running /\ ~ended
  /\ running' = TRUE
  /\ loops' \in {loops, TRUE}
  /\ UNCHANGED <<lock, is_abort, message, ended>>

\* run returns when the shred lets time pass, ends or finds its flag set.
Return ==
  /\ running
  /\ ~loops \/ is_abort
  /\ running' = FALSE
  /\ ended' \in {is_abort, TRUE}
  /\ UNCHANGED <<lock, loops, is_abort, message>>

PerformEnd ==
  /\ lock = "perform" /\ ~running
  /\ lock' = "none"
  /\ UNCHANGED <<running, loops, is_abort, message, ended>>

Send ==
  /\ message # "sent"
  /\ message' = "sent"
  /\ UNCHANGED <<lock, running, loops, is_abort, ended>>

\* The method runs under the lock, and is done before it is given back.
Abort ==
  /\ message = "sent" /\ lock = "none"
  /\ message' = "answered"
  /\ is_abort' = (is_abort \/ running)
  /\ UNCHANGED <<lock, running, loops, ended>>

Next ==
  \/ PerformBegin
  \/ RunShred
  \/ Return
  \/ PerformEnd
  \/ Send
  \/ Abort

Spec == Init /\ [][Next]_vars

\* The callback and the scheduler go on, and each gets the lock in its turn.
FairSpec ==
  /\ Spec
  /\ WF_vars(PerformBegin) /\ WF_vars(Return) /\ WF_vars(PerformEnd)
  /\ SF_vars(Abort)

(* abort "can break out of a shred stuck in a loop that never advances     *)
(* time": sent while such a shred runs, it ends the shred.                 *)
AbortEndsRunaway == running /\ loops /\ message = "sent" ~> ended
=============================================================================
