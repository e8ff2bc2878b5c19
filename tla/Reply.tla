------------------------------- MODULE Reply --------------------------------
(***************************************************************************)
(* The reply ring of one [chuck~] object: ck_reply_push, ck_reply_drain    *)
(* and ck_reply of chuck_tilde.cpp, and the clock that ties them together. *)
(*                                                                         *)
(* Pd runs clocks, messages and the perform routine under one lock, so a   *)
(* handler is one step.  The exception is ck_reply_drain: each             *)
(* outlet_anything runs the patch behind the reply outlet to completion,   *)
(* and that patch may send messages back to the same object.  The drain is *)
(* therefore cut at its outlet calls (pc = "outlet"), where the messages   *)
(* of PatchSends may come in.                                              *)
(*                                                                         *)
(* A reply is the number of its acceptance: the n-th reply written to the  *)
(* ring is n.                                                              *)
(***************************************************************************)
EXTENDS Naturals, Sequences

CONSTANTS QueueSize,   (* CK_REPLY_QUEUE_SIZE: one slot more than the ring holds     *)
          MaxPush,     (* bound: replies accepted in a behaviour                     *)
          PatchSends   (* what the patch may send back while a reply is delivered:   *)
                       (* "push" (a message that sporks or replaces a shred, whose   *)
                       (* watcher pushes), "on" (reply 1), "off" (reply 0)           *)

ASSUME ConstantsAssumption ==
  /\ QueueSize \in Nat \ {0, 1}
  /\ MaxPush \in Nat
  /\ PatchSends \subseteq {"push", "on", "off"}

VARIABLES reply_queue,   (* slot -> reply; 0 is a slot never written *)
          reply_head,
          reply_tail,
          reply_enabled,
          reply_clock,   (* the clock is set                                     *)
          pc,            (* where ck_reply_drain is: "idle", "loop", "outlet"    *)
          head,          (* ck_reply_drain's local copy of reply_head            *)
          pushed,        (* number of replies accepted so far                    *)
          delivered,     (* the reply handed to the outlet most recently         *)
          flushed        (* history: the last reply accepted before the latest   *)
                         (* reply 0; it and all before it are discarded          *)

ring == <<reply_queue, reply_head, reply_tail>>
drain == <<pc, head>>
vars == <<ring, reply_enabled, reply_clock, drain, pushed, delivered, flushed>>

Slots == 0 .. QueueSize - 1

NextSlot(i) == (i + 1) % QueueSize

\* Handlers run one after the other; inside an outlet call only what the patch
\* sends back does.
MayRun(cmd) == pc = "idle" \/ (pc = "outlet" /\ cmd \in PatchSends)

Init ==
  /\ reply_queue = [i \in Slots |-> 0]
  /\ reply_head = 0
  /\ reply_tail = 0
  /\ reply_enabled = FALSE
  /\ reply_clock = FALSE
  /\ pc = "idle"
  /\ head = 0
  /\ pushed = 0
  /\ delivered = 0
  /\ flushed = 0

-----------------------------------------------------------------------------
\* Mutant: the push does not look at the read cursor.
Full_NeverFull == FALSE

Full == NextSlot(reply_tail) = reply_head

(* Called by the perform routine (events, gets, Host.msg, shreds that end) *)
(* and by messages that spork.  Off or full, the reply is lost.            *)
ReplyPush ==
  /\ MayRun("push")
  /\ pushed < MaxPush
  /\ reply_enabled
  /\ ~Full
  /\ reply_queue' = [reply_queue EXCEPT ![reply_tail] = pushed + 1]
  /\ reply_tail' = NextSlot(reply_tail)
  /\ pushed' = pushed + 1
  /\ UNCHANGED <<reply_head, reply_enabled, reply_clock, drain, delivered, flushed>>

-----------------------------------------------------------------------------
(* The clock fires and ck_reply_drain starts. *)
ReplyDrain ==
  /\ pc = "idle"
  /\ reply_clock
  /\ reply_clock' = FALSE
  /\ head' = reply_head
  /\ pc' = "loop"
  /\ UNCHANGED <<ring, reply_enabled, pushed, delivered, flushed>>

DrainOutlet ==
  /\ pc = "loop"
  /\ head # reply_tail
  /\ delivered' = reply_queue[head]
  /\ pc' = "outlet"
  /\ UNCHANGED <<ring, reply_enabled, reply_clock, head, pushed, flushed>>

\* Mutant: the drain's cursor is not stored back.
DrainAdvance_NotStored ==
  /\ pc = "outlet"
  /\ head' = NextSlot(head)
  /\ pc' = "loop"
  /\ UNCHANGED <<ring, reply_enabled, reply_clock, pushed, delivered, flushed>>

DrainAdvance ==
  /\ pc = "outlet"
  /\ head' = NextSlot(head)
  /\ reply_head' = head'
  /\ pc' = "loop"
  /\ UNCHANGED <<reply_queue, reply_tail, reply_enabled, reply_clock,
                 pushed, delivered, flushed>>

DrainReturn ==
  /\ pc = "loop"
  /\ head = reply_tail
  /\ pc' = "idle"
  /\ reply_clock' = (reply_clock \/ reply_enabled)
  /\ UNCHANGED <<ring, reply_enabled, head, pushed, delivered, flushed>>

-----------------------------------------------------------------------------
\* Mutant: reply 1 relies on an earlier enable having set the clock.
ReplyOn_NoClock ==
  /\ MayRun("on")
  /\ ~reply_enabled
  /\ reply_enabled' = TRUE
  /\ UNCHANGED <<ring, reply_clock, drain, pushed, delivered, flushed>>

ReplyOn ==
  /\ MayRun("on")
  /\ ~reply_enabled
  /\ reply_enabled' = TRUE
  /\ reply_clock' = TRUE
  /\ UNCHANGED <<ring, drain, pushed, delivered, flushed>>

\* Mutant: reply 0 stops the clock and leaves the ring as it is.
ReplyOff_Keep ==
  /\ MayRun("off")
  /\ reply_enabled
  /\ reply_enabled' = FALSE
  /\ reply_clock' = FALSE
  /\ flushed' = pushed
  /\ UNCHANGED <<ring, drain, pushed, delivered>>

ReplyOff ==
  /\ MayRun("off")
  /\ reply_enabled
  /\ reply_enabled' = FALSE
  /\ reply_clock' = FALSE
  /\ reply_head' = reply_tail
  /\ flushed' = pushed
  /\ UNCHANGED <<reply_queue, reply_tail, drain, pushed, delivered>>

Next ==
  \/ ReplyPush
  \/ ReplyDrain
  \/ DrainOutlet
  \/ DrainAdvance
  \/ DrainReturn
  \/ ReplyOn
  \/ ReplyOff

Spec == Init /\ [][Next]_vars

(* Pd's scheduler fires a clock that is set, and a handler that has        *)
(* started runs on: the outlet calls return.  Nobody has to send messages. *)
Fairness ==
  /\ WF_vars(ReplyDrain)
  /\ WF_vars(DrainOutlet)
  /\ WF_vars(DrainAdvance)
  /\ WF_vars(DrainReturn)

FairSpec == Spec /\ Fairness

-----------------------------------------------------------------------------
TypeOK ==
  /\ reply_queue \in [Slots -> Nat]
  /\ reply_head \in Slots
  /\ reply_tail \in Slots
  /\ reply_enabled \in BOOLEAN
  /\ reply_clock \in BOOLEAN
  /\ pc \in {"idle", "loop", "outlet"}
  /\ head \in Slots
  /\ pushed \in Nat
  /\ delivered \in Nat
  /\ flushed \in Nat

(* A clock that is neither set nor running would leave replies in the ring *)
(* for ever, and a clock left set after reply 0 would drain a disabled     *)
(* object: while enabled, the drain is always due or running; while        *)
(* disabled and idle, it is not due.                                       *)
ClockFollowsEnabled ==
  /\ reply_enabled => reply_clock \/ pc # "idle"
  /\ reply_clock => reply_enabled

(* outlet_anything is handed a pointer into the ring.  The slot it points  *)
(* to is not rewritten before the call returns, however many replies the   *)
(* patch provokes meanwhile.                                               *)
SlotStableInOutlet == pc = "outlet" => reply_queue[head] = delivered

Newest(a, b) == IF a > b THEN a ELSE b

(* Each delivery is of the oldest reply accepted since the last reply 0    *)
(* and not yet delivered: no reply that entered the ring is lost, repeated,*)
(* reordered or, once discarded by reply 0, replayed.                      *)
DeliversNextReply ==
  [][DrainOutlet => delivered' = Newest(delivered, flushed) + 1]_vars

(* ck_reply: reply 0 discards "anything still queued so a later enable     *)
(* does not replay it".                                                    *)
DiscardIsFinal == [][DrainOutlet => delivered' > flushed]_vars

(* Every reply that entered the ring goes out, unless reply 0 discards it. *)
AcceptedIsDelivered ==
  \A r \in 1 .. MaxPush : pushed >= r ~> Newest(delivered, flushed) >= r

-----------------------------------------------------------------------------
QueueLen == (reply_tail + QueueSize - reply_head) % QueueSize

Channel == INSTANCE ReplyChannel
             WITH Capacity <- QueueSize - 1,
                  Replies <- 1 .. MaxPush,
                  queue <- [i \in 1 .. QueueLen |->
                              reply_queue[(reply_head + i - 1) % QueueSize]],
                  on <- reply_enabled,
                  delivering <- (pc = "outlet"),
                  last <- delivered

(* The ring and its clock implement the abstract channel, as long as the   *)
(* patch does not turn replies off from inside a delivery.                 *)
ImplementsChannel == Channel!Spec
=============================================================================
