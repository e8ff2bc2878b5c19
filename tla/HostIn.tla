------------------------------- MODULE HostIn -------------------------------
(***************************************************************************)
(* HostIn: Pd messages into ChucK (pdin.cpp and the msg message, ck_msg).  *)
(*                                                                         *)
(* A HostIn is a ChucK event with a queue of messages.  While it lives and *)
(* the shred that created it runs, it is listed in its VM's state; msg     *)
(* appends to the queue of each listed HostIn that knows the name, and     *)
(* wakes the shreds waiting on it.  Messages come between perform calls    *)
(* (pc = "idle"), shreds run inside them (pc = "run").                     *)
(*                                                                         *)
(* A shred reads one HostIn, its own or a global one, in the loop of       *)
(* docs/dev/bind.md (wait, recv until it returns 0); its body may let time *)
(* pass.  A message is the number of its sending.                          *)
(***************************************************************************)
EXTENDS Naturals, FiniteSets, Sequences

CONSTANTS Shreds,       (* addresses of shreds, used again after a removal       *)
          HostIns,      (* HostIn objects                                        *)
          Names,        (* message names                                         *)
          NULL,         (* no HostIn, no shred                                   *)
          MaxPending,   (* PDIN_MAX_PENDING                                      *)
          MaxMsg        (* bound: messages sent                                  *)

ASSUME ConstantsAssumption ==
  /\ NULL \notin HostIns \cup Shreds
  /\ MaxPending \in Nat \ {0}
  /\ MaxMsg \in Nat

VARIABLES entries,      (* PdInState.entries: the HostIns that msg looks at      *)
          registered,   (* HostIn -> its entry says it is listed                 *)
          alive,        (* HostIns constructed and not destructed                *)
          owner,        (* HostIn -> the shred that created it                   *)
          names,        (* HostIn -> names given to addAddress                   *)
          pending,      (* HostIn -> messages not received                       *)
          shred,        (* shred -> "absent", "ready", "asleep", "waiting"       *)
          pin,          (* shred -> the HostIn it reads                          *)
          pc,           (* "idle" or "run"                                       *)
          sent,         (* messages sent                                         *)
          received,     (* history: HostIn -> the message received last          *)
          halted        (* an error was reported                                 *)

objects == <<alive, owner, names>>
lists == <<entries, registered>>
shreds == <<shred, pin>>
vars == <<objects, lists, pending, shreds, pc, sent, received, halted>>

Init ==
  /\ entries = {}
  /\ registered = [h \in HostIns |-> FALSE]
  /\ alive = {}
  /\ owner = [h \in HostIns |-> NULL]
  /\ names = [h \in HostIns |-> {}]
  /\ pending = [h \in HostIns |-> <<>>]
  /\ shred = [s \in Shreds |-> "absent"]
  /\ pin = [s \in Shreds |-> NULL]
  /\ pc = "idle"
  /\ sent = 0
  /\ received = [h \in HostIns |-> 0]
  /\ halted = FALSE

-----------------------------------------------------------------------------
(* Messages *)

Waiters(h) == {s \in Shreds : shred[s] = "waiting" /\ pin[s] = h}

\* Mutant: the event is signalled, not broadcast.
Woken_One(H) ==
  [s \in Shreds |-> IF \E h \in H : s \in Waiters(h) /\ s = (CHOOSE w \in Waiters(h) : TRUE)
                    THEN "ready" ELSE shred[s]]

\* broadcast_local: shreds waiting on a HostIn of H are shreduled for now.
Woken(H) == [s \in Shreds |-> IF \E h \in H : s \in Waiters(h) THEN "ready" ELSE shred[s]]

\* The HostIns that take a message: those that listen and have room.
Takers(n) == {h \in entries : n \in names[h] /\ Len(pending[h]) < MaxPending}

\* Mutant: the message is queued and nobody is woken.
Msg_NoBroadcast(n) ==
  /\ pc = "idle" /\ ~halted
  /\ sent < MaxMsg
  /\ sent' = sent + 1
  /\ pending' = [h \in HostIns |->
                   IF h \in Takers(n) THEN Append(pending[h], sent') ELSE pending[h]]
  /\ UNCHANGED <<shred, objects, lists, pin, pc, received, halted>>

Msg(n) ==
  /\ pc = "idle" /\ ~halted
  /\ sent < MaxMsg
  /\ sent' = sent + 1
  /\ pending' = [h \in HostIns |->
                   IF h \in Takers(n) THEN Append(pending[h], sent') ELSE pending[h]]
  /\ shred' = Woken(Takers(n))
  /\ UNCHANGED <<objects, lists, pin, pc, received, halted>>

\* No name, or more arguments than a message carries.
MsgMalformed ==
  /\ pc = "idle" /\ ~halted
  /\ halted' = TRUE
  /\ UNCHANGED <<objects, lists, pending, shreds, pc, sent, received>>

Add(s) ==
  /\ pc = "idle" /\ ~halted
  /\ shred[s] = "absent"
  /\ shred' = [shred EXCEPT ![s] = "ready"]
  /\ UNCHANGED <<objects, lists, pending, pin, pc, sent, received, halted>>

-----------------------------------------------------------------------------
(* pdin.cpp: how a HostIn enters and leaves the list *)

\* Mutant: the entry stays in the list.
Unregister_FlagOnly(H) ==
  /\ registered' = [h \in HostIns |-> registered[h] /\ h \notin H]
  /\ pending' = [h \in HostIns |-> IF h \in H THEN <<>> ELSE pending[h]]
  /\ UNCHANGED entries

\* Entries already unlisted are left as they are.
Unregister(H) ==
  /\ entries' = entries \ H
  /\ registered' = [h \in HostIns |-> registered[h] /\ h \notin H]
  /\ pending' = [h \in HostIns |->
                   IF h \in H /\ registered[h] THEN <<>> ELSE pending[h]]

Owned(S) == {h \in entries : owner[h] \in S}

\* The shreds of S end or are removed, with their children: each leaves its
\* event, and pdin_watcher unlists what it created.
Removed(S) ==
  /\ shred' = [s \in Shreds |-> IF s \in S THEN "absent" ELSE shred[s]]
  /\ pin' = [s \in Shreds |-> IF s \in S THEN NULL ELSE pin[s]]
  /\ Unregister(Owned(S))
  /\ UNCHANGED <<objects, pc, sent, received, halted>>

Live == {s \in Shreds : shred[s] # "absent"}

\* remove, removeall, clear vm, reset
Remove(S) ==
  /\ ~halted
  /\ S # {} /\ S \subseteq Live
  /\ Removed(S)

-----------------------------------------------------------------------------
(* Shreds *)

Runs(s) == pc = "run" /\ shred[s] = "ready"

New(s, h, N) ==
  /\ Runs(s)
  /\ pin[s] = NULL
  /\ owner[h] = NULL
  /\ alive' = alive \cup {h}
  /\ owner' = [owner EXCEPT ![h] = s]
  /\ names' = [names EXCEPT ![h] = N]
  /\ entries' = entries \cup {h}
  /\ registered' = [registered EXCEPT ![h] = TRUE]
  /\ pin' = [pin EXCEPT ![s] = h]
  /\ UNCHANGED <<pending, shred, pc, sent, received, halted>>

\* A shred waits on a global HostIn that another made.
Share(s, h) ==
  /\ Runs(s)
  /\ pin[s] = NULL
  /\ h \in alive
  /\ pin' = [pin EXCEPT ![s] = h]
  /\ shred' = [shred EXCEPT ![s] = "waiting"]
  /\ UNCHANGED <<objects, lists, pending, pc, sent, received, halted>>

\* Mutant: recv takes the newest message.
Recv_Newest(s) ==
  LET h == pin[s] IN
  /\ Runs(s)
  /\ h # NULL
  /\ pending[h] # <<>>
  /\ received' = [received EXCEPT ![h] = pending[h][Len(pending[h])]]
  /\ pending' = [pending EXCEPT ![h] = SubSeq(@, 1, Len(@) - 1)]
  /\ UNCHANGED <<objects, lists, shreds, pc, sent, halted>>

\* recv moves the oldest message out.
Recv(s) ==
  LET h == pin[s] IN
  /\ Runs(s)
  /\ h # NULL
  /\ pending[h] # <<>>
  /\ received' = [received EXCEPT ![h] = Head(pending[h])]
  /\ pending' = [pending EXCEPT ![h] = Tail(@)]
  /\ UNCHANGED <<objects, lists, shreds, pc, sent, halted>>

\* recv returns 0, and the shred goes on to pin => now.
RecvNone(s) ==
  /\ Runs(s)
  /\ pin[s] # NULL
  /\ pending[pin[s]] = <<>>
  /\ shred' = [shred EXCEPT ![s] = "waiting"]
  /\ UNCHANGED <<objects, lists, pending, pin, pc, sent, received, halted>>

\* The body of the loop lets time pass.
Sleep(s) ==
  /\ Runs(s)
  /\ shred' = [shred EXCEPT ![s] = "asleep"]
  /\ UNCHANGED <<objects, lists, pending, pin, pc, sent, received, halted>>

Wake(s) ==
  /\ pc = "run"
  /\ shred[s] = "asleep"
  /\ shred' = [shred EXCEPT ![s] = "ready"]
  /\ UNCHANGED <<objects, lists, pending, pin, pc, sent, received, halted>>

\* The last reference goes: the creator leaves the scope of a HostIn, or drops
\* one whose creator is gone.
Drop(s) ==
  /\ Runs(s)
  /\ pin[s] # NULL
  /\ \A t \in Shreds \ {s} : pin[t] # pin[s]
  /\ alive' = alive \ {pin[s]}
  /\ pin' = [pin EXCEPT ![s] = NULL]
  /\ Unregister({pin[s]})
  /\ UNCHANGED <<owner, names, shred, pc, sent, received, halted>>

End(s) ==
  /\ Runs(s)
  /\ Removed({s})

-----------------------------------------------------------------------------
PerformBegin ==
  /\ pc = "idle" /\ ~halted
  /\ pc' = "run"
  /\ UNCHANGED <<objects, lists, pending, shreds, sent, received, halted>>

PerformEnd ==
  /\ pc = "run"
  /\ \A s \in Shreds : shred[s] # "ready"
  /\ pc' = "idle"
  /\ UNCHANGED <<objects, lists, pending, shreds, sent, received, halted>>

Loop(s) == Recv(s) \/ RecvNone(s)

Next ==
  \/ \E n \in Names : Msg(n)
  \/ MsgMalformed
  \/ \E s \in Shreds : Add(s)
  \/ \E S \in SUBSET Shreds : Remove(S)
  \/ \E s \in Shreds, h \in HostIns, N \in SUBSET Names : New(s, h, N)
  \/ \E s \in Shreds, h \in HostIns : Share(s, h)
  \/ \E s \in Shreds : Loop(s) \/ Sleep(s) \/ Wake(s) \/ Drop(s) \/ End(s)
  \/ PerformBegin
  \/ PerformEnd

Spec == Init /\ [][Next]_vars

(* Blocks are computed again and again while DSP is on, a sleeping shred's *)
(* time comes, and a shred that keeps letting time pass still gets round   *)
(* to its next recv.                                                       *)
FairSpec ==
  /\ Spec
  /\ WF_vars(PerformBegin) /\ WF_vars(PerformEnd)
  /\ \A s \in Shreds : SF_vars(Loop(s)) /\ SF_vars(Wake(s))

-----------------------------------------------------------------------------
TypeOK ==
  /\ entries \subseteq HostIns
  /\ registered \in [HostIns -> BOOLEAN]
  /\ alive \subseteq HostIns
  /\ owner \in [HostIns -> Shreds \cup {NULL}]
  /\ names \in [HostIns -> SUBSET Names]
  /\ pending \in [HostIns -> Seq(1 .. MaxMsg)]
  /\ \A h \in HostIns : Len(pending[h]) <= MaxPending
  /\ shred \in [Shreds -> {"absent", "ready", "asleep", "waiting"}]
  /\ pin \in [Shreds -> HostIns \cup {NULL}]
  /\ pc \in {"idle", "run"}
  /\ sent \in 0 .. MaxMsg
  /\ received \in [HostIns -> 0 .. MaxMsg]
  /\ halted \in BOOLEAN

(* msg walks the list between blocks and follows every pointer in it: what *)
(* is listed is a HostIn not destructed, made by a shred that still runs,  *)
(* and unregister's own flag agrees with the list.                         *)
ListedAreUsable ==
  /\ \A h \in entries : h \in alive /\ shred[owner[h]] # "absent"
  /\ entries = {h \in HostIns : registered[h]}

(* No lost wakeup: while a HostIn holds messages, its creator is not       *)
(* waiting on it but in its loop, though messages come one, many or none   *)
(* per block and other shreds take some of them.                           *)
NoSleeperHasMail ==
  \A h \in alive : pending[h] # <<>> => owner[h] \notin Waiters(h)

(* Messages come out of a HostIn in the order they were sent, whichever    *)
(* shreds share it and whichever were dropped on the way.                  *)
ReceivedInOrder ==
  [][\A h \in HostIns : received'[h] # received[h] => received'[h] > received[h]]_vars

(* A HostIn that is still read does not sit on its messages: each comes    *)
(* out, unless the HostIn is unlisted or nobody reads it any more.         *)
MailIsRead ==
  \A h \in HostIns :
    pending[h] # <<>> ~> \/ pending[h] = <<>>
                         \/ halted
                         \/ \A s \in Shreds : pin[s] # h
=============================================================================
