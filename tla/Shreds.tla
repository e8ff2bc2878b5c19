------------------------------- MODULE Shreds -------------------------------
(***************************************************************************)
(* The shred commands of [chuck~] (run, add, eval, replace, remove,        *)
(* removeall, reset, clear, shreds) and what the VM makes of them.         *)
(*                                                                         *)
(* There are three ways into the VM.  add and replace call                 *)
(* Chuck_VM::process_msg at once, inside the message; run, bang, eval,     *)
(* clear and reset put a request into the globals manager's queue, handled *)
(* at the start of the next Chuck_VM::compute; remove and removeall put a  *)
(* Chuck_Msg into m_msg_buffer, handled at the end of it, after the shreds *)
(* have run.  A shred of eval has its id when the message returns, though  *)
(* the VM does not know the shred yet.                                     *)
(*                                                                         *)
(* A shred is the number of its making, so that it can be told from others *)
(* that have its id at other times.                                        *)
(***************************************************************************)
EXTENDS Integers, FiniteSets, Sequences

CONSTANTS MaxShreds,    (* bound: shreds made                                    *)
          MaxId,        (* bound: shred ids given                                *)
          MaxSent,      (* bound: messages sent                                  *)
          MsgSize,      (* places in m_msg_buffer: 1024                          *)
          RequestCap,   (* requests the queue holds: 16383                       *)
          Commands      (* what the patch sends and the shreds do                *)

ASSUME ConstantsAssumption ==
  /\ {MsgSize, RequestCap} \subseteq Nat \ {0}
  /\ {MaxShreds, MaxId, MaxSent} \subseteq Nat

VARIABLES made,         (* shreds made                                           *)
          state,        (* shred -> where it is, see States                      *)
          xid,          (* shred -> its id, 0 before and after its life          *)
          ancestors,    (* shred -> its parent, the parent's parent, ...         *)
          current,      (* m_current_shred, 0 for none                           *)
          shred_id,     (* m_shred_id: the last id given                         *)
          num_shreds,   (* m_num_shreds                                          *)
          requests,     (* m_global_request_queue                                *)
          buffer,       (* m_msg_buffer's places                                 *)
          read_offset, write_offset,
          pc,           (* "idle", "requests", "shreds", "messages": compute     *)
          sent,         (* messages sent                                         *)
          balance,      (* history: id -> replies shred add less shred remove    *)
          handled,      (* history: number of the last message of m_msg_buffer   *)
          halted        (* an error was reported: see module Reporting           *)

life == <<state, xid, balance>>
births == <<made, ancestors>>
counters == <<shred_id, num_shreds>>
ring == <<buffer, read_offset, write_offset>>
vars == <<life, births, counters, current, requests, ring, pc, sent, handled, halted>>

Shred == 1 .. MaxShreds

Ids == 1 .. MaxId

\* lost: its request found the queue full, and nobody refers to it.
States == {"none", "pending", "ready", "running", "blocked", "done", "lost"}

Active == {s \in Shred : state[s] \in {"ready", "running", "blocked"}}

Pending == {s \in Shred : state[s] = "pending"}

Places == 0 .. MsgSize - 1

Requests == [op : {"spork"}, shred : Shred] \cup [op : {"clearvm", "reset_id"}, shred : {0}]

\* With its number, and the shreds made before it was sent.
Messages == [op : {"remove", "last", "all", "none"}, id : 0 .. MaxId,
             no : 0 .. MaxSent, made : 0 .. MaxShreds]

NoMessage == [op |-> "none", id |-> 0, no |-> 0, made |-> 0]

Init ==
  /\ made = 0
  /\ state = [s \in Shred |-> "none"]
  /\ xid = [s \in Shred |-> 0]
  /\ ancestors = [s \in Shred |-> {}]
  /\ current = 0
  /\ shred_id = 0
  /\ num_shreds = 0
  /\ requests = <<>>
  /\ buffer = [i \in Places |-> NoMessage]
  /\ read_offset = 0
  /\ write_offset = 0
  /\ pc = "idle"
  /\ sent = 0
  /\ balance = [k \in Ids |-> 0]
  /\ handled = 0
  /\ halted = FALSE

-----------------------------------------------------------------------------
(* What the commands do to the shreds *)

WithId(k) == {s \in Active : xid[s] = k}

\* A shred goes with all that descend from it.
\* Mutant: the children are left.
Family_NoCascade(s) == {s}

Family(s) == {t \in Active : t = s \/ s \in ancestors[t]}

\* Watchers hear of a shred's end while it still has its id.
\* Mutant: the id is reset first.
Farewells_IdGone(F, k) == 0

Farewells(F, k) == Cardinality({s \in F : xid[s] = k})

StateWithout(F) == [s \in Shred |-> IF s \in F THEN "done" ELSE state[s]]

XidWithout(F) == [s \in Shred |-> IF s \in F THEN 0 ELSE xid[s]]

BalanceWithout(F) == [k \in Ids |-> balance[k] - Farewells(F, k)]

End(F) ==
  /\ state' = StateWithout(F)
  /\ xid' = XidWithout(F)
  /\ balance' = BalanceWithout(F)

\* The count stops at zero.
Less(n, F) == IF n > Cardinality(F) THEN n - Cardinality(F) ELSE 0

\* free_shred; a shred that is running stays m_current_shred until it stops.
Free(F) ==
  /\ End(F)
  /\ num_shreds' = Less(num_shreds, F)
  /\ shred_id' = IF num_shreds' = 0 THEN 0 ELSE shred_id
  /\ UNCHANGED births

\* get_all_shreds looks at the ready, the blocked and the current shred.
AllShreds == Active

RemoveAll ==
  /\ End(AllShreds)
  /\ shred_id' = 0
  /\ num_shreds' = 0
  /\ UNCHANGED births

Keep == UNCHANGED <<life, births, counters>>

RemoveId(k) ==
  \/ \E s \in WithId(k) : Free(Family(s))
  \/ WithId(k) = {} /\ Keep

\* Ids are tried from the last one given downwards.
RemoveLast ==
  LET found == {s \in Active : xid[s] <= shred_id} IN
  \/ \E s \in found : /\ \A t \in found : xid[t] <= xid[s]
                      /\ Free(Family(s))
  \/ found = {} /\ Keep

\* The counter goes back to the highest id in use.
ResetId ==
  /\ shred_id' \in {xid[s] : s \in AllShreds} \cup {0}
  /\ \A s \in AllShreds : xid[s] <= shred_id'
  /\ UNCHANGED <<life, births, num_shreds>>

Make(parents) ==
  /\ made < MaxShreds
  /\ made' = made + 1
  /\ ancestors' = [ancestors EXCEPT ![made'] = parents]

\* spork with a new id; the parents are those of a shred sporked by another.
Spork(parents) ==
  /\ Make(parents)
  /\ shred_id < MaxId
  /\ shred_id' = shred_id + 1
  /\ num_shreds' = num_shreds + 1
  /\ state' = [state EXCEPT ![made'] = "ready"]
  /\ xid' = [xid EXCEPT ![made'] = shred_id']
  /\ balance' = [balance EXCEPT ![shred_id'] = @ + 1]

\* The new shred is sporked with the old one's id, and then the old one is freed.
ReplaceId(k) ==
  \/ \E s \in WithId(k) :
       /\ Make({})
       /\ state' = [StateWithout(Family(s)) EXCEPT ![made'] = "ready"]
       /\ xid' = [XidWithout(Family(s)) EXCEPT ![made'] = k]
       /\ balance' = [BalanceWithout(Family(s)) EXCEPT ![k] = @ + 1]
       /\ num_shreds' = Less(num_shreds + 1, Family(s))
       /\ shred_id' = IF k > shred_id THEN k ELSE shred_id
  \/ WithId(k) = {} /\ Keep

-----------------------------------------------------------------------------
(* Messages *)

Command(cmd) ==
  /\ cmd \in Commands
  /\ pc = "idle"
  /\ ~halted
  /\ sent < MaxSent
  /\ sent' = sent + 1
  /\ UNCHANGED <<current, pc, handled>>

Add ==
  /\ Command("add")
  /\ Spork({})
  /\ UNCHANGED <<requests, ring, halted>>

Replace(k) ==
  /\ Command("replace")
  /\ ReplaceId(k)
  /\ UNCHANGED <<requests, ring, halted>>

Full == Len(requests) >= RequestCap

\* FinalRingBuffer::put: a full queue loses the request, and nobody looks.
Put(r) == requests' = IF Full THEN requests ELSE Append(requests, r)

\* run, bang and eval: the id is given now, the shred is sporked by compute.
Eval ==
  /\ Command("eval")
  /\ Make({})
  /\ shred_id < MaxId
  /\ shred_id' = shred_id + 1
  /\ state' = [state EXCEPT ![made'] = IF Full THEN "lost" ELSE "pending"]
  /\ xid' = [xid EXCEPT ![made'] = shred_id']
  /\ Put([op |-> "spork", shred |-> made'])
  /\ UNCHANGED <<balance, num_shreds, ring, halted>>

Clear ==
  /\ Command("clear")
  /\ Put([op |-> "clearvm", shred |-> 0])
  /\ Keep
  /\ UNCHANGED <<ring, halted>>

Reset ==
  /\ Command("reset id")
  /\ Put([op |-> "reset_id", shred |-> 0])
  /\ Keep
  /\ UNCHANGED <<ring, halted>>

NextPlace(i) == (i + 1) % MsgSize

\* CBufferSimple::put does not look whether there is room.
Remove(op, k) ==
  /\ Command(op)
  /\ buffer' = [buffer EXCEPT ![write_offset] =
                  [op |-> op, id |-> k, no |-> sent', made |-> made]]
  /\ write_offset' = NextPlace(write_offset)
  /\ Keep
  /\ UNCHANGED <<requests, read_offset, halted>>

\* shreds next asks next_id, which counts on.
ShredsNext ==
  /\ Command("next")
  /\ shred_id < MaxId
  /\ shred_id' = shred_id + 1
  /\ UNCHANGED <<life, births, num_shreds, requests, ring, halted>>

\* No audio, no file, code that does not compile, a bad argument: ck_error.
Fail ==
  /\ Command("fail")
  /\ halted' = TRUE
  /\ Keep
  /\ UNCHANGED <<requests, ring>>

-----------------------------------------------------------------------------
(* Chuck_VM::compute *)

ComputeBegin ==
  /\ pc = "idle" /\ ~halted
  /\ pc' = "requests"
  /\ Keep
  /\ UNCHANGED <<current, requests, ring, sent, handled, halted>>

\* A shred that has its id may raise the counter, which clear vm sets to zero.
\* Mutant: the counter is left.
Raised_Not(k) == shred_id

Raised(k) == IF k > shred_id THEN k ELSE shred_id

SporkPending(s) ==
  /\ state' = [state EXCEPT ![s] = "ready"]
  /\ shred_id' = Raised(xid[s])
  /\ num_shreds' = num_shreds + 1
  /\ balance' = [balance EXCEPT ![xid[s]] = @ + 1]
  /\ UNCHANGED <<xid, births>>

\* Mutant: clear vm also drops what waits behind it.
Rest_Dropped ==
  IF Head(requests).op = "clearvm" THEN <<>> ELSE Tail(requests)

Rest == Tail(requests)

HandleRequest ==
  /\ pc = "requests" /\ requests # <<>>
  /\ requests' = Rest
  /\ LET r == Head(requests) IN
     \/ r.op = "spork" /\ SporkPending(r.shred)
     \/ r.op = "clearvm" /\ RemoveAll
     \/ r.op = "reset_id" /\ ResetId
  /\ UNCHANGED <<current, ring, pc, sent, handled, halted>>

RequestsDone ==
  /\ pc = "requests" /\ requests = <<>>
  /\ pc' = "shreds"
  /\ Keep
  /\ UNCHANGED <<current, requests, ring, sent, handled, halted>>

InCompute == UNCHANGED <<requests, ring, pc, sent, handled, halted>>

RunShred(s) ==
  /\ pc = "shreds" /\ current = 0 /\ state[s] = "ready"
  /\ current' = s
  /\ state' = [state EXCEPT ![s] = "running"]
  /\ UNCHANGED <<xid, balance, births, counters>>
  /\ InCompute

Runs == pc = "shreds" /\ current # 0 /\ state[current] = "running"

\* Time passes, or it waits for an event.
Suspend(as) ==
  /\ Runs
  /\ current' = 0
  /\ state' = [state EXCEPT ![current] = as]
  /\ UNCHANGED <<xid, balance, births, counters>>
  /\ InCompute

\* The event is signalled, by a shred or by a request.
Wake(s) ==
  /\ pc \in {"requests", "shreds"} /\ state[s] = "blocked"
  /\ state' = [state EXCEPT ![s] = "ready"]
  /\ UNCHANGED <<xid, balance, births, counters, current>>
  /\ InCompute

\* A shred that was removed while it ran has been freed already.
\* Mutant: it is freed again.
Leaving_Again(s) == {s} \cup Family(s)

Leaving(s) == IF state[s] = "done" THEN {} ELSE Family(s)

\* run returns FALSE: the shred is through, or has been removed by itself.
Return ==
  /\ pc = "shreds" /\ current # 0
  /\ current' = 0
  /\ Free(Leaving(current))
  /\ InCompute

SporkChild ==
  /\ Runs /\ "spork" \in Commands
  /\ Spork(ancestors[current] \cup {current})
  /\ UNCHANGED current
  /\ InCompute

\* Machine.add, eval, remove, removeLast, removeAll, clearVM, replace, resetID.
Machine ==
  /\ Runs /\ "machine" \in Commands
  /\ \/ Spork({})
     \/ \E k \in Ids : RemoveId(k) \/ ReplaceId(k)
     \/ RemoveLast
     \/ RemoveAll
     \/ ResetId
  /\ UNCHANGED current
  /\ InCompute

ShredsDone ==
  /\ pc = "shreds" /\ current = 0
  /\ pc' = "messages"
  /\ Keep
  /\ UNCHANGED <<current, requests, ring, sent, handled, halted>>

\* Mutant: the reader stays where it is.
ReadOn_Not == read_offset

ReadOn == NextPlace(read_offset)

HandleMessage ==
  /\ pc = "messages" /\ read_offset # write_offset
  /\ read_offset' = ReadOn
  /\ LET m == buffer[read_offset] IN
     /\ handled' = m.no
     /\ \/ m.op = "remove" /\ RemoveId(m.id)
        \/ m.op = "last" /\ RemoveLast
        \/ m.op = "all" /\ RemoveAll
        \/ m.op = "none" /\ Keep
  /\ UNCHANGED <<current, requests, buffer, write_offset, pc, sent, halted>>

\* Once more, for what was handled, or done.
MessagesDone ==
  /\ pc = "messages" /\ read_offset = write_offset
  /\ pc' \in {"shreds", "idle"}
  /\ Keep
  /\ UNCHANGED <<current, requests, ring, sent, handled, halted>>

-----------------------------------------------------------------------------
Next ==
  \/ Add
  \/ Eval
  \/ \E k \in Ids : Replace(k) \/ Remove("remove", k)
  \/ \E op \in {"last", "all", "none"} : Remove(op, 0)
  \/ Clear
  \/ Reset
  \/ ShredsNext
  \/ Fail
  \/ ComputeBegin
  \/ HandleRequest
  \/ RequestsDone
  \/ \E s \in Shred : RunShred(s) \/ Wake(s)
  \/ \E as \in {"ready", "blocked"} : Suspend(as)
  \/ Return
  \/ SporkChild
  \/ Machine
  \/ ShredsDone
  \/ HandleMessage
  \/ MessagesDone

Spec == Init /\ [][Next]_vars

(* DSP is on; shreds let time pass or end, and not all of them are due     *)
(* again and again at the same time.                                       *)
FairSpec ==
  /\ Spec
  /\ WF_vars(ComputeBegin) /\ WF_vars(HandleRequest) /\ WF_vars(RequestsDone)
  /\ WF_vars(\E as \in {"ready", "blocked"} : Suspend(as) \/ Return)
  /\ SF_vars(ShredsDone)
  /\ WF_vars(HandleMessage) /\ WF_vars(MessagesDone)

-----------------------------------------------------------------------------
TypeOK ==
  /\ made \in 0 .. MaxShreds
  /\ state \in [Shred -> States]
  /\ \A s \in Shred : state[s] = "none" <=> s > made
  /\ xid \in [Shred -> 0 .. MaxId]
  /\ ancestors \in [Shred -> SUBSET Shred]
  /\ current \in 0 .. MaxShreds
  /\ shred_id \in 0 .. MaxId
  /\ num_shreds \in 0 .. MaxShreds
  /\ requests \in Seq(Requests)
  /\ Len(requests) <= RequestCap
  /\ buffer \in [Places -> Messages]
  /\ {read_offset, write_offset} \subseteq Places
  /\ pc \in {"idle", "requests", "shreds", "messages"}
  /\ sent \in 0 .. MaxSent
  /\ balance \in [Ids -> Int]
  /\ handled \in 0 .. MaxSent
  /\ halted \in BOOLEAN

(* An id names one shred: no two shreds that run or are about to have the  *)
(* same one, though removeall, clear, reset id and the end of the last     *)
(* shred turn the counter back while others wait to be sporked.            *)
IdsUnique ==
  \A s, t \in Active \cup Pending :
    /\ xid[s] # 0
    /\ xid[s] = xid[t] => s = t

(* m_num_shreds, which turns ids back when it is zero and tells remove     *)
(* last whether to look, is the number of shreds there, whatever was       *)
(* removed by itself, by its parent's end or by others.                    *)
CountAgrees == num_shreds = Cardinality(Active)

(* A patch that counts the replies shred add <id> and shred remove <id>    *)
(* knows at any time which ids are running: each add is followed by one    *)
(* remove, through replaced, removed and ended shreds and their children.  *)
RepliesTell ==
  \A k \in Ids : balance[k] = IF WithId(k) = {} THEN 0 ELSE 1

(* No shred outlives the one that sporked it.                              *)
NoOrphans == \A s \in Active : ancestors[s] \subseteq Active

(* Removals are handled in the order they were sent and none twice, also   *)
(* when more were sent than m_msg_buffer has places.                       *)
HandledInOrder ==
  [][pc = "messages" /\ pc' = pc => handled' > handled]_vars

(* While DSP is on, a removal that waits is handled, and a shred given an  *)
(* id is sporked.                                                          *)
CommandsSettle ==
  /\ read_offset # write_offset ~> (read_offset = write_offset \/ halted)
  /\ \A s \in Shred : state[s] = "pending" ~> (state[s] # "pending" \/ halted)

(* A removal takes only shreds that were there when it was sent, and what  *)
(* these have sporked since: ck_removeall counts and posts those.          *)
SparesLater ==
  [][handled' # handled =>
       \A s \in Active : state'[s] = "done" =>
         \E t \in {s} \cup ancestors[s] : t <= buffer[read_offset].made]_vars
=============================================================================
