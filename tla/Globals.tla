------------------------------ MODULE Globals -------------------------------
(***************************************************************************)
(* Listening to ChucK's global events and reading its global variables     *)
(* from Pd: the listen, unlisten, sig, broadcast, get and clear messages   *)
(* of one [chuck~] object, its listener table and its ring of pending      *)
(* gets, the request queue of its VM's Chuck_Globals_Manager, and the      *)
(* callbacks that turn results into replies.                               *)
(*                                                                         *)
(* A message only queues a request; Chuck_VM::compute, inside the perform  *)
(* routine, handles the queue and then runs the shreds.  Messages come     *)
(* between perform calls (pc = "idle"): Pd runs both under one lock.       *)
(* A callback is handed no more than an id, which the object turns back    *)
(* into a name with the tables as they are at that time.                   *)
(***************************************************************************)
EXTENDS Naturals, Sequences, FiniteSetsExt

CONSTANTS Events,       (* names of global events                                *)
          Variables,    (* names of global variables                             *)
          Arrays,       (* those of Variables that are arrays                    *)
          Declared,     (* those of Events and Arrays that some code declares    *)
          NULL,         (* an unused table entry                                 *)
          MaxListens,   (* CK_MAX_LISTENS                                        *)
          PendingSize,  (* CK_PENDING_SIZE                                       *)
          RequestCap,   (* requests the queue holds: 16383                       *)
          Commands,     (* the messages the patch sends                          *)
          Quiet,        (* the patch sends listen and unlisten only when no      *)
                        (* request is on its way                                 *)
          MaxAhead,     (* gets the patch sends between two computes             *)
          MaxSent       (* bound: messages, and events fired by shreds           *)

ASSUME ConstantsAssumption ==
  /\ Arrays \subseteq Variables
  /\ Declared \subseteq Events \cup Arrays
  /\ NULL \notin Events \cup Variables
  /\ Quiet \in BOOLEAN
  /\ {MaxListens, PendingSize, RequestCap} \subseteq Nat \ {0}
  /\ {MaxAhead, MaxSent} \subseteq Nat

VARIABLES listen_names,     (* ticket -> the event it stands for                  *)
          pending_names,    (* ticket modulo PendingSize -> the variable asked for*)
          pending_ticket,   (* the next get's ticket                              *)
          requests,         (* m_global_request_queue                             *)
          retry,            (* m_global_request_retry_queue                       *)
          globals,          (* name -> has it been compiled, has it been built    *)
          listeners,        (* event -> its m_global_queue                        *)
          pc,               (* "idle", "requests", "shreds": where compute is     *)
          replies,          (* replies pushed by the latest step                  *)
          halted,           (* an error was reported: see module Reporting        *)
          attending,        (* history: events the patch wants to hear of         *)
          ahead,            (* gets sent since the last compute                   *)
          sent              (* messages sent, events fired by shreds              *)

tables == <<listen_names, pending_names, pending_ticket>>
engine == <<retry, globals, listeners>>
vars == <<tables, requests, engine, pc, replies, halted, attending, ahead, sent>>

Tickets == 0 .. MaxListens - 1

Names == Events \cup Variables

\* Scalars come into being when they are asked for; these have to be there.
Objects == Events \cup Arrays

Requests ==
  [op : {"listen", "unlisten"}, name : Events, ticket : Tickets,
   forever : BOOLEAN, retries : 0 .. 1]
  \cup [op : {"signal", "broadcast"}, name : Events, retries : 0 .. 1]
  \cup [op : {"get"}, name : Variables, ticket : Nat, retries : 0 .. 1]
  \cup [op : {"clear"}, retries : {0}]

Init ==
  /\ listen_names = [t \in Tickets |-> NULL]
  /\ pending_names = [i \in 0 .. PendingSize - 1 |-> NULL]
  /\ pending_ticket = 0
  /\ requests = <<>>
  /\ retry = <<>>
  /\ globals = [n \in Objects |-> "absent"]
  /\ listeners = [e \in Events |-> <<>>]
  /\ pc = "idle"
  /\ replies = {}
  /\ halted = FALSE
  /\ attending = {}
  /\ ahead = 0
  /\ sent = 0

-----------------------------------------------------------------------------
(* Messages *)

Message(cmd) ==
  /\ cmd \in Commands
  /\ pc = "idle"
  /\ ~halted
  /\ sent < MaxSent
  /\ sent' = sent + 1
  /\ UNCHANGED <<engine, pc, replies>>

\* FinalRingBuffer::put: a full queue loses the request, and nobody looks.
\* Mutant: the capacity is not looked at.
Put_NoBound(queue, r) == Append(queue, r)

Put(queue, r) == IF Len(queue) < RequestCap THEN Append(queue, r) ELSE queue

\* ck_error never returns.
Error ==
  /\ halted' = TRUE
  /\ UNCHANGED <<tables, requests, attending, ahead>>

\* The scan of ck_listen stops at the first free ticket or at the event's own.
Stops(e) == {t \in Tickets : listen_names[t] \in {NULL, e}}

ListenTicket(e) == Min(Stops(e))

Listen(e, forever) ==
  /\ Message("listen")
  /\ Quiet => requests = <<>>
  /\ Stops(e) # {} /\ listen_names[ListenTicket(e)] = NULL
  /\ listen_names' = [listen_names EXCEPT ![ListenTicket(e)] = e]
  /\ requests' = Put(requests, [op |-> "listen", name |-> e, ticket |-> ListenTicket(e),
                                forever |-> forever, retries |-> 1])
  /\ attending' = attending \cup {e}
  /\ UNCHANGED <<pending_names, pending_ticket, halted, ahead>>

ListenRefused(e) ==
  /\ Message("listen")
  /\ Quiet => requests = <<>>
  /\ Stops(e) # {} /\ listen_names[ListenTicket(e)] = e
  /\ UNCHANGED <<tables, requests, halted, attending, ahead>>

ListenFull(e) ==
  /\ Message("listen")
  /\ Stops(e) = {}
  /\ Error

TicketsOf(e) == {t \in Tickets : listen_names[t] = e}

\* Mutant: unlisten frees the ticket and leaves the listener registered.
Unlisten_TableOnly(e) ==
  LET ticket == Min(TicketsOf(e)) IN
  /\ Message("unlisten")
  /\ Quiet => requests = <<>>
  /\ TicketsOf(e) # {}
  /\ listen_names' = [listen_names EXCEPT ![ticket] = NULL]
  /\ attending' = attending \ {e}
  /\ UNCHANGED <<requests, pending_names, pending_ticket, halted, ahead>>

Unlisten(e) ==
  LET ticket == Min(TicketsOf(e)) IN
  /\ Message("unlisten")
  /\ Quiet => requests = <<>>
  /\ TicketsOf(e) # {}
  /\ listen_names' = [listen_names EXCEPT ![ticket] = NULL]
  /\ requests' = Put(requests, [op |-> "unlisten", name |-> e, ticket |-> ticket,
                                forever |-> FALSE, retries |-> 0])
  /\ attending' = attending \ {e}
  /\ UNCHANGED <<pending_names, pending_ticket, halted, ahead>>

UnlistenUnknown(e) ==
  /\ Message("unlisten")
  /\ TicketsOf(e) = {}
  /\ Error

\* sig is tried once; broadcast once more, for an event not built yet.
Trigger(e, op) ==
  /\ Message(op)
  /\ requests' = Put(requests, [op |-> op, name |-> e,
                                retries |-> IF op = "broadcast" THEN 1 ELSE 0])
  /\ UNCHANGED <<tables, halted, attending, ahead>>

\* ck_pending_issue, for every get of a well-formed message
PendingIssue(v) ==
  /\ pending_ticket' = pending_ticket + 1
  /\ pending_names' = [pending_names EXCEPT ![pending_ticket % PendingSize] = v]
  /\ ahead' = ahead + 1
  /\ UNCHANGED listen_names

Get(v) ==
  /\ Message("get")
  /\ ahead < MaxAhead
  /\ PendingIssue(v)
  /\ requests' = Put(requests, [op |-> "get", name |-> v, ticket |-> pending_ticket,
                                retries |-> IF v \in Arrays THEN 1 ELSE 0])
  /\ UNCHANGED <<halted, attending>>

\* A type ck_get does not know costs a ticket and asks for nothing.
GetUnknownType(v) ==
  /\ Message("get")
  /\ ahead < MaxAhead
  /\ PendingIssue(v)
  /\ UNCHANGED <<requests, halted, attending>>

GetMalformed ==
  /\ Message("get")
  /\ Error

ClearVM ==
  /\ Message("clear")
  /\ requests' = Put(requests, [op |-> "clear", retries |-> 0])
  /\ UNCHANGED <<tables, halted, attending, ahead>>

\* clear and reset with an argument they do not know
ClearMalformed ==
  /\ Message("clear")
  /\ Error

\* A message, or a shred with Machine.add or eval, compiles code declaring a
\* global: its container exists at once, its object when the shred reaches the
\* declaration.
Compile(n) ==
  /\ pc \in {"idle", "shreds"}
  /\ ~halted
  /\ n \in Declared
  /\ globals[n] = "absent"
  /\ globals' = [globals EXCEPT ![n] = "declared"]
  /\ replies' = {}
  /\ UNCHANGED <<tables, requests, retry, listeners, pc, halted, attending, ahead, sent>>

-----------------------------------------------------------------------------
(* Callbacks *)

\* cb_event: the listener's ticket, looked up when the event fires.
\* Mutant: the listener has been given the ticket that is used next.
EventReply_NextTicket(e, ticket) ==
  LET t == (ticket + 1) % MaxListens
  IN IF listen_names[t] = NULL
     THEN {}
     ELSE {[kind |-> "event", about |-> e, name |-> listen_names[t]]}

EventReply(e, ticket) ==
  IF listen_names[ticket] = NULL
  THEN {}
  ELSE {[kind |-> "event", about |-> e, name |-> listen_names[ticket]]}

\* Mutant: the name of the latest get.
PendingName_Latest(ticket) == pending_names[(pending_ticket - 1) % PendingSize]

PendingName(ticket) == pending_names[ticket % PendingSize]

\* cb_get_int and its siblings
ValueReply(r) ==
  {[kind |-> "val", about |-> r.name, name |-> PendingName(r.ticket)]}

\* call_again: the listeners among these that are to stay.
CallAgain(served) ==
  LET kept[n \in 0 .. Len(served)] ==
        IF n = 0 THEN <<>>
        ELSE IF served[n].forever THEN Append(kept[n - 1], served[n])
        ELSE kept[n - 1]
  IN kept[Len(served)]

\* signal_global serves the front listener and, if it is to stay, puts it at
\* the back; broadcast_global serves all and keeps those that are to stay.
Fire(e, all) ==
  LET queue == listeners[e]
      served == IF all \/ queue = <<>> THEN queue ELSE <<Head(queue)>>
      rest == IF all \/ queue = <<>> THEN <<>> ELSE Tail(queue)
  IN /\ listeners' = [listeners EXCEPT ![e] = rest \o CallAgain(served)]
     /\ replies' = UNION {EventReply(e, served[i].ticket) : i \in 1 .. Len(served)}

-----------------------------------------------------------------------------
(* Chuck_VM::compute *)

ComputeBegin ==
  /\ pc = "idle"
  /\ ~halted
  /\ pc' = "requests"
  /\ UNCHANGED <<tables, requests, engine, replies, halted, attending, ahead, sent>>

Request == Head(requests)

TakeRequest ==
  /\ pc = "requests"
  /\ requests # <<>>
  /\ requests' = Tail(requests)
  /\ UNCHANGED <<tables, pc, halted, attending, ahead, sent>>

Built(n) == globals[n] = "constructed"

\* A request for what does not exist is kept for the next compute, once.
Retry(r) == retry' = IF r.retries > 0 THEN Append(retry, r) ELSE retry

HandleListen ==
  /\ TakeRequest
  /\ Request.op \in {"listen", "unlisten"}
  /\ IF globals[Request.name] = "absent"
     THEN Retry(Request) /\ UNCHANGED listeners
     ELSE /\ UNCHANGED retry
          /\ listeners' =
               [listeners EXCEPT ![Request.name] =
                  IF Request.op = "listen"
                  THEN Append(@, [ticket |-> Request.ticket, forever |-> Request.forever])
                  ELSE <<>>]   \* remove_listen compares callbacks, not ids
  /\ replies' = {}
  /\ UNCHANGED globals

HandleTrigger ==
  /\ TakeRequest
  /\ Request.op \in {"signal", "broadcast"}
  /\ IF Built(Request.name)
     THEN Fire(Request.name, Request.op = "broadcast") /\ UNCHANGED retry
     ELSE Retry(Request) /\ replies' = {} /\ UNCHANGED listeners
  /\ UNCHANGED globals

\* A scalar that does not exist is created; an array must be there.
HandleGet ==
  /\ TakeRequest
  /\ Request.op = "get"
  /\ IF Request.name \notin Arrays \/ Built(Request.name)
     THEN replies' = ValueReply(Request) /\ UNCHANGED retry
     ELSE /\ replies' = {}
          /\ IF globals[Request.name] = "absent" THEN Retry(Request) ELSE UNCHANGED retry
  /\ UNCHANGED <<globals, listeners>>

\* clear vm: the shreds and every global go, the listeners with the events.
HandleClear ==
  /\ TakeRequest
  /\ Request.op = "clear"
  /\ globals' = [n \in Objects |-> "absent"]
  /\ listeners' = [e \in Events |-> <<>>]
  /\ replies' = {}
  /\ UNCHANGED retry

\* Mutant: a retried request may be retried again.
Again_NoCount(r) == r

Again(r) == [r EXCEPT !.retries = @ - 1]

\* Put one after the other into the empty queue, as far as they fit.
HandleRetries ==
  /\ pc = "requests"
  /\ requests = <<>>
  /\ requests' = SubSeq([i \in 1 .. Len(retry) |-> Again(retry[i])],
                        1, Min({Len(retry), RequestCap}))
  /\ retry' = <<>>
  /\ ahead' = 0
  /\ replies' = {}
  /\ pc' = "shreds"
  /\ UNCHANGED <<tables, globals, listeners, halted, attending, sent>>

\* A shred reaches the declaration of a global.
ShredBuilds(n) ==
  /\ pc = "shreds"
  /\ globals[n] = "declared"
  /\ globals' = [globals EXCEPT ![n] = "constructed"]
  /\ replies' = {}
  /\ UNCHANGED <<tables, requests, retry, listeners, pc, halted, attending, ahead, sent>>

\* A shred calls signal or broadcast on a global event.
ShredFires(e, all) ==
  /\ pc = "shreds"
  /\ Built(e)
  /\ sent < MaxSent
  /\ sent' = sent + 1
  /\ Fire(e, all)
  /\ UNCHANGED <<tables, requests, retry, globals, pc, halted, attending, ahead>>

ComputeEnd ==
  /\ pc = "shreds"
  /\ pc' = "idle"
  /\ replies' = {}
  /\ UNCHANGED <<tables, requests, engine, halted, attending, ahead, sent>>

Handlers ==
  \/ \E e \in Events, forever \in BOOLEAN : Listen(e, forever)
  \/ \E e \in Events : ListenRefused(e)
  \/ \E e \in Events : ListenFull(e)
  \/ \E e \in Events : Unlisten(e)
  \/ \E e \in Events : UnlistenUnknown(e)
  \/ \E e \in Events, op \in {"signal", "broadcast"} : Trigger(e, op)
  \/ \E v \in Variables : Get(v)
  \/ \E v \in Variables : GetUnknownType(v)
  \/ GetMalformed
  \/ ClearVM
  \/ ClearMalformed
  \/ \E n \in Objects : Compile(n)

Compute ==
  \/ ComputeBegin
  \/ HandleListen
  \/ HandleTrigger
  \/ HandleGet
  \/ HandleClear
  \/ HandleRetries
  \/ ComputeEnd

Next ==
  \/ Handlers
  \/ Compute
  \/ \E n \in Objects : ShredBuilds(n)
  \/ \E e \in Events, all \in BOOLEAN : ShredFires(e, all)

Spec == Init /\ [][Next]_vars

(* While DSP is on, Pd calls the perform routine over and over, and a      *)
(* perform call computes to its end.                                       *)
FairSpec == Spec /\ WF_vars(Compute)

-----------------------------------------------------------------------------
TypeOK ==
  /\ listen_names \in [Tickets -> Events \cup {NULL}]
  /\ pending_names \in [0 .. PendingSize - 1 -> Variables \cup {NULL}]
  /\ pending_ticket \in Nat
  /\ requests \in Seq(Requests) /\ Len(requests) <= RequestCap
  /\ retry \in Seq(Requests)
  /\ globals \in [Objects -> {"absent", "declared", "constructed"}]
  /\ listeners \in [Events -> Seq([ticket : Tickets, forever : BOOLEAN])]
  /\ pc \in {"idle", "requests", "shreds"}
  /\ replies \subseteq [kind : {"event", "val"}, about : Names, name : Names \cup {NULL}]
  /\ halted \in BOOLEAN
  /\ attending \subseteq Events
  /\ ahead \in Nat
  /\ sent \in 0 .. MaxSent

RepliesOf(k) == {r \in replies : r.kind = k}

(* 'event <name>' is emitted when the event <name> fires, whatever         *)
(* listeners came and went meanwhile on the ticket that names it.          *)
EventReplyNamesEvent == \A r \in RepliesOf("event") : r.name = r.about

(* An event the patch has stopped listening to makes no more replies,      *)
(* under its own name or another's.                                        *)
NoReplyAfterUnlisten == \A r \in RepliesOf("event") : r.about \in attending

(* 'val <name> ...' answers the get of <name>: ck_pending_issue holds the  *)
(* wraparound of the ticket ring to be no practical concern.               *)
GetReplyNamesVariable == \A r \in RepliesOf("val") : r.name = r.about

(* listen is refused as "already listening" only while a listener for the  *)
(* event is registered, or on its way to being so.                         *)
Listening(e) ==
  \/ listeners[e] # <<>>
  \/ \E i \in DOMAIN requests : requests[i].op = "listen" /\ requests[i].name = e

RefusedOnlyWhileListening == [][\A e \in Events : ListenRefused(e) => Listening(e)]_vars

(* Requests do not linger: once the patch is quiet, computing comes to a   *)
(* point where nothing is queued and nothing is to be retried, whatever    *)
(* was asked for, be it a name no code ever declares.                      *)
RequestsSettle == requests # <<>> ~> (requests \o retry = <<>> \/ halted)
=============================================================================
