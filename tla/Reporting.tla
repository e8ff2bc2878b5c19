----------------------------- MODULE Reporting ------------------------------
(***************************************************************************)
(* What a [chuck~] object posts to the Pd window: ck_info, ck_debug,       *)
(* ck_warn, ck_error and the verbose message that gates the first two.     *)
(*                                                                         *)
(* The body of ck_error ends in ck_error(x, "%s", msg).  No other function *)
(* has that name, so the call is one more call of itself, with a buffer of *)
(* its own on the stack.                                                   *)
(***************************************************************************)
EXTENDS Naturals

CONSTANT StackDepth   (* bound: calls of ck_error the stack has room for *)

VARIABLES verbose,    (* 0, 1 or 2                                   *)
          posted,     (* the kind of the last line in the Pd window  *)
          depth,      (* calls of ck_error that have not returned    *)
          crashed     (* the stack overflowed, and Pd with it        *)

vars == <<verbose, posted, depth, crashed>>

Init ==
  /\ verbose = 1
  /\ posted = "none"
  /\ depth = 0
  /\ crashed = FALSE

Runs == depth = 0 /\ ~crashed

Post(kind) ==
  /\ posted' = kind
  /\ UNCHANGED <<verbose, depth, crashed>>

Info == Runs /\ verbose >= 1 /\ Post("info")

Debug == Runs /\ verbose >= 2 /\ Post("debug")

Warn == Runs /\ Post("warning")

Verbose(v) ==
  /\ Runs
  /\ v \in 0 .. 2
  /\ verbose' = v
  /\ posted' = "verbose"
  /\ UNCHANGED <<depth, crashed>>

\* A handler reports an error, verbose with a level there is not among them.
ErrorCalled ==
  /\ Runs
  /\ depth' = 1
  /\ UNCHANGED <<verbose, posted, crashed>>

\* The message is formatted and handed on.
ErrorCallsError ==
  /\ depth > 0 /\ ~crashed
  /\ IF depth < StackDepth
     THEN depth' = depth + 1 /\ UNCHANGED crashed
     ELSE crashed' = TRUE /\ UNCHANGED depth
  /\ UNCHANGED <<verbose, posted>>

Next ==
  \/ Info
  \/ Debug
  \/ Warn
  \/ \E v \in 0 .. 2 : Verbose(v)
  \/ ErrorCalled
  \/ ErrorCallsError

Spec == Init /\ [][Next]_vars

\* A function that has been called runs on.
FairSpec == Spec /\ WF_vars(ErrorCallsError)

(* Errors "are never gated: a warning nobody sees is not a warning": an    *)
(* error a handler reports is posted, whatever verbose says.               *)
ErrorIsPosted == depth > 0 ~> posted = "error"
=============================================================================
