----------------------------- MODULE Instances ------------------------------
(***************************************************************************)
(* The life of [chuck~] objects: ck_new, ck_free, the table of instances   *)
(* through which ChucK's callbacks find their object, and the queue of     *)
(* Host.send calls with the clock that empties it.                         *)
(*                                                                         *)
(* Pd runs one handler at a time.  Three of them are cut into steps: the   *)
(* perform routine and ck_free, because ChucK code and destructors of the  *)
(* VM call back into the object, and ck_send_drain, because the patch      *)
(* behind a receiver runs inside it and may create and free objects.       *)
(***************************************************************************)
EXTENDS Naturals, FiniteSets, Functions

CONSTANTS Objects,         (* addresses of t_ck, used again after ck_free      *)
          NULL,            (* no object                                        *)
          MaxInstances,    (* CK_MAX_INSTANCES                                 *)
          SendQueueSize,   (* CK_SEND_QUEUE_SIZE                               *)
          MaxNew,          (* bound: objects created                           *)
          MaxCalls         (* bound: Host.send calls of the objects together   *)

ASSUME ConstantsAssumption ==
  /\ NULL \notin Objects
  /\ IsFiniteSet(Objects)
  /\ {MaxInstances, SendQueueSize} \subseteq Nat \ {0}
  /\ {MaxNew, MaxCalls} \subseteq Nat

VARIABLES instance_slots,   (* CK_INSTANCE_SLOTS                                *)
          parts,            (* object -> what it has allocated and subscribed   *)
          hostins,          (* object -> its VM has a HostIn that refers to it  *)
          live,             (* CK_INSTANCE_LIVE                                 *)
          subsystems,       (* what globalCleanup shuts down is up              *)
          send_count,       (* object -> entries in its queue                   *)
          send_dropped,
          send_clock_set,
          performing,       (* the object whose perform routine runs            *)
          draining,         (* the object whose ck_send_drain runs              *)
          next,             (* the entry it comes to next, from 0               *)
          freeing,          (* the object whose VM is being deleted             *)
          used,             (* history: what the last step relied on            *)
          delivered,        (* history: object -> calls delivered               *)
          warned,           (* history: object -> calls reported as dropped     *)
          calls,            (* history: object -> Host.send calls               *)
          created,          (* objects created                                  *)
          halted            (* an error was reported                            *)

table == <<instance_slots, parts, hostins, live, subsystems>>
sends == <<send_count, send_dropped, send_clock_set>>
control == <<performing, draining, next, freeing>>
counts == <<delivered, warned, calls>>
vars == <<table, sends, control, used, counts, created, halted>>

Slots == 0 .. MaxInstances - 1

\* "object" is the t_ck itself.
Parts == {"object", "chuck", "inbox", "arrays", "send_clock", "pdin_watcher",
          "shreds_watcher"}

Init ==
  /\ instance_slots = [i \in Slots |-> NULL]
  /\ parts = [x \in Objects |-> {}]
  /\ hostins = [x \in Objects |-> FALSE]
  /\ live = 0
  /\ subsystems = FALSE
  /\ send_count = [x \in Objects |-> 0]
  /\ send_dropped = [x \in Objects |-> 0]
  /\ send_clock_set = [x \in Objects |-> FALSE]
  /\ performing = NULL
  /\ draining = NULL
  /\ next = 0
  /\ freeing = NULL
  /\ used = {}
  /\ delivered = [x \in Objects |-> 0]
  /\ warned = [x \in Objects |-> 0]
  /\ calls = [x \in Objects |-> 0]
  /\ created = 0
  /\ halted = FALSE

\* A message, from the patch or from the patch behind a receiver.
MayMessage == performing = NULL /\ freeing = NULL /\ ~halted

Idle == MayMessage /\ draining = NULL

-----------------------------------------------------------------------------
(* ck_new *)

FreeSlots == {i \in Slots : instance_slots[i] = NULL}

\* Mutant: the slot is claimed without looking.
ClaimedSlot_First == 0

ClaimedSlot == CHOOSE i \in FreeSlots : \A k \in FreeSlots : i <= k

New(x) ==
  /\ MayMessage
  /\ parts[x] = {}
  /\ created < MaxNew
  /\ FreeSlots # {}
  /\ instance_slots' = [instance_slots EXCEPT ![ClaimedSlot] = x]
  /\ parts' = [parts EXCEPT ![x] = Parts]
  /\ live' = live + 1
  /\ subsystems' = TRUE
  /\ delivered' = [delivered EXCEPT ![x] = 0]
  /\ warned' = [warned EXCEPT ![x] = 0]
  /\ calls' = [calls EXCEPT ![x] = 0]
  /\ created' = created + 1
  /\ UNCHANGED <<hostins, sends, control, halted>>
  /\ used' = {}

NewFull ==
  /\ MayMessage
  /\ created < MaxNew
  /\ FreeSlots = {}
  /\ halted' = TRUE
  /\ UNCHANGED <<table, sends, control, counts, created>>
  /\ used' = {}

-----------------------------------------------------------------------------
(* Callbacks of the VM of x: while it runs, and while it is deleted *)

InVM(x) == performing = x \/ freeing = x

\* replace frees the shred it replaces in the message itself.
InMessage(x) == MayMessage /\ parts[x] # {}

\* ck_instance_from_vm looks into every object of the table.
Found(x) == \E i \in Slots : instance_slots[i] = x /\ "chuck" \in parts[x]

Looked == {<<y, "object">> : y \in {instance_slots[i] : i \in Slots} \ {NULL}}

Callback(relied) ==
  /\ used' = relied
  /\ UNCHANGED <<control, created, halted>>

\* Host.msg: into the reply ring of the object, if there still is one.
HostMsg(x) ==
  /\ InVM(x)
  /\ Callback(Looked \cup IF Found(x) THEN {<<x, "object">>} ELSE {})
  /\ UNCHANGED <<table, sends, counts>>

\* Mutant: the clock is set for the entry after the first.
ArmsClock_Later(count) == count > 1

ArmsClock(count) == TRUE

SendFull(x) == send_count[x] = SendQueueSize

\* Host.sendBang and its siblings
HostSend(x) ==
  /\ InVM(x)
  /\ Callback(Looked \cup {<<x, "object">>})
  /\ Found(x) /\ "send_clock" \in parts[x]
  /\ FoldFunction(LAMBDA c, n : c + n, 0, calls) < MaxCalls
  /\ calls' = [calls EXCEPT ![x] = @ + 1]
  /\ IF SendFull(x)
     THEN /\ send_dropped' = [send_dropped EXCEPT ![x] = @ + 1]
          /\ UNCHANGED <<send_count, send_clock_set>>
     ELSE /\ send_count' = [send_count EXCEPT ![x] = @ + 1]
          /\ send_clock_set' =
               [send_clock_set EXCEPT ![x] = @ \/ ArmsClock(send_count'[x])]
          /\ UNCHANGED send_dropped
  /\ UNCHANGED <<table, delivered, warned>>

\* A destructor written in ChucK calls Host.send after the object left the table.
HostSendLost(x) ==
  /\ InVM(x)
  /\ ~Found(x)
  /\ Callback(Looked)
  /\ UNCHANGED <<table, sends, counts>>

HostInCtor(x) ==
  /\ InVM(x)
  /\ Callback(Looked \cup IF Found(x) THEN {<<x, "inbox">>} ELSE {})
  /\ hostins' = [hostins EXCEPT ![x] = @ \/ Found(x)]
  /\ UNCHANGED <<instance_slots, parts, live, subsystems, sends, counts>>

HostInDtor(x) ==
  /\ InVM(x)
  /\ hostins[x]
  /\ Callback({<<x, "inbox">>})
  /\ hostins' = [hostins EXCEPT ![x] = FALSE]
  /\ UNCHANGED <<instance_slots, parts, live, subsystems, sends, counts>>

\* A shred is removed: each watcher that is subscribed is called.
ShredRemoved(x) ==
  /\ InVM(x) \/ InMessage(x)
  /\ Callback((IF "pdin_watcher" \in parts[x] THEN {<<x, "inbox">>} ELSE {})
         \cup (IF "shreds_watcher" \in parts[x] THEN {<<x, "object">>} ELSE {}))
  /\ UNCHANGED <<table, sends, counts>>

PerformBegin(x) ==
  /\ Idle
  /\ parts[x] # {}
  /\ performing' = x
  /\ used' = {<<x, "arrays">>}
  /\ UNCHANGED <<table, sends, draining, next, freeing, counts, created, halted>>

PerformEnd ==
  /\ performing # NULL
  /\ used' = {<<performing, "arrays">>}
  /\ performing' = NULL
  /\ UNCHANGED <<table, sends, draining, next, freeing, counts, created, halted>>

-----------------------------------------------------------------------------
(* ck_send_drain *)

SendDrain(x) ==
  /\ Idle
  /\ send_clock_set[x]
  /\ send_clock_set' = [send_clock_set EXCEPT ![x] = FALSE]
  /\ draining' = x
  /\ next' = 0
  /\ used' = {<<x, "object">>}
  /\ UNCHANGED <<table, send_count, send_dropped, performing, freeing, counts, created,
                 halted>>

\* The receiver, if there is one, gets the message.
DrainSend ==
  /\ draining # NULL /\ MayMessage
  /\ next < send_count[draining]
  /\ delivered' = [delivered EXCEPT ![draining] = @ + 1]
  /\ next' = next + 1
  /\ used' = {<<draining, "object">>}
  /\ UNCHANGED <<table, sends, performing, draining, freeing, warned, calls, created,
                 halted>>

\* Mutant: the entries stay in the queue.
DrainEnd_Keep ==
  /\ draining # NULL /\ MayMessage
  /\ next = send_count[draining]
  /\ warned' = [warned EXCEPT ![draining] = @ + send_dropped[draining]]
  /\ send_dropped' = [send_dropped EXCEPT ![draining] = 0]
  /\ used' = {<<draining, "object">>}
  /\ draining' = NULL
  /\ UNCHANGED <<table, send_count, send_clock_set, performing, next, freeing, delivered,
                 calls, created, halted>>

DrainEnd ==
  /\ draining # NULL /\ MayMessage
  /\ next = send_count[draining]
  /\ send_count' = [send_count EXCEPT ![draining] = 0]
  /\ warned' = [warned EXCEPT ![draining] = @ + send_dropped[draining]]
  /\ send_dropped' = [send_dropped EXCEPT ![draining] = 0]
  /\ used' = {<<draining, "object">>}
  /\ draining' = NULL
  /\ UNCHANGED <<table, send_clock_set, performing, next, freeing, delivered, calls,
                 created, halted>>

-----------------------------------------------------------------------------
(* ck_free *)

\* Until the VM is deleted.  The patch does not free an object from behind a
\* receiver of that object's own drain.
\* Mutant: the watchers stay and the inbox goes before the VM.
FreeBegin_InboxFirst(x) ==
  /\ MayMessage
  /\ parts[x] # {} /\ x # draining
  /\ instance_slots' = [i \in Slots |-> IF instance_slots[i] = x THEN NULL
                                        ELSE instance_slots[i]]
  /\ parts' = [parts EXCEPT ![x] = @ \ {"send_clock", "inbox"}]
  /\ send_clock_set' = [send_clock_set EXCEPT ![x] = FALSE]
  /\ freeing' = x
  /\ UNCHANGED <<hostins, live, subsystems, send_count, send_dropped, performing,
                 draining, next, counts, created, halted>>
  /\ used' = {}

FreeBegin(x) ==
  /\ MayMessage
  /\ parts[x] # {} /\ x # draining
  /\ instance_slots' = [i \in Slots |-> IF instance_slots[i] = x THEN NULL
                                        ELSE instance_slots[i]]
  /\ parts' = [parts EXCEPT ![x] = @ \ {"send_clock", "pdin_watcher", "shreds_watcher"}]
  /\ send_clock_set' = [send_clock_set EXCEPT ![x] = FALSE]
  /\ freeing' = x
  /\ UNCHANGED <<hostins, live, subsystems, send_count, send_dropped, performing,
                 draining, next, counts, created, halted>>
  /\ used' = {}

\* Mutant: every object cleans up.
Cleans_Always == TRUE

Cleans == live <= 1

\* A HostIn a removed shred has leaked is never destructed.
FreeEnd ==
  /\ freeing # NULL
  /\ parts' = [parts EXCEPT ![freeing] = {}]
  /\ live' = live - 1
  /\ subsystems' = (subsystems /\ ~Cleans)
  /\ send_count' = [send_count EXCEPT ![freeing] = 0]
  /\ send_dropped' = [send_dropped EXCEPT ![freeing] = 0]
  /\ hostins' = [hostins EXCEPT ![freeing] = FALSE]
  /\ freeing' = NULL
  /\ UNCHANGED <<instance_slots, send_clock_set, performing, draining, next,
                 counts, created, halted>>
  /\ used' = {}

-----------------------------------------------------------------------------
VMCallback(x) ==
  \/ HostMsg(x)
  \/ HostSend(x)
  \/ HostSendLost(x)
  \/ HostInCtor(x)
  \/ HostInDtor(x)
  \/ ShredRemoved(x)

Next ==
  \/ \E x \in Objects : New(x) \/ FreeBegin(x) \/ PerformBegin(x) \/ SendDrain(x)
  \/ \E x \in Objects : VMCallback(x)
  \/ NewFull
  \/ PerformEnd
  \/ DrainSend
  \/ DrainEnd
  \/ FreeEnd

Spec == Init /\ [][Next]_vars

(* A clock that is set fires: Pd runs clocks between perform calls.  A     *)
(* drain goes on, perform calls and the deletion of a VM come to an end.   *)
FairSpec ==
  /\ Spec
  /\ \A x \in Objects : SF_vars(SendDrain(x))
  /\ WF_vars(DrainSend) /\ WF_vars(DrainEnd) /\ WF_vars(PerformEnd) /\ WF_vars(FreeEnd)

-----------------------------------------------------------------------------
TypeOK ==
  /\ instance_slots \in [Slots -> Objects \cup {NULL}]
  /\ parts \in [Objects -> SUBSET Parts]
  /\ hostins \in [Objects -> BOOLEAN]
  /\ live \in Nat
  /\ subsystems \in BOOLEAN
  /\ send_count \in [Objects -> 0 .. SendQueueSize]
  /\ send_dropped \in [Objects -> Nat]
  /\ send_clock_set \in [Objects -> BOOLEAN]
  /\ {performing, draining, freeing} \subseteq Objects \cup {NULL}
  /\ created \in 0 .. MaxNew
  /\ halted \in BOOLEAN

(* No callback, from ChucK code, a watcher, a clock or a destructor that   *)
(* runs while the VM is deleted, relies on what ck_free has taken away.    *)
NothingUsedAfterFree == \A u \in used : u[2] \in parts[u[1]]

(* The table tells objects apart: each object that is not being freed has  *)
(* one slot of its own, so that a callback's id names it and no other.     *)
EachLiveHasOneSlot ==
  \A x \in Objects :
    Cardinality({i \in Slots : instance_slots[i] = x}) =
      IF parts[x] = {} \/ freeing = x THEN 0 ELSE 1

(* The subsystems all objects share stay up for as long as one is left.    *)
SubsystemsOutliveObjects == (\E x \in Objects : parts[x] # {}) => subsystems

(* Each Host.send call is delivered once, still queued, or counted in a    *)
(* warning: nothing is lost silently or sent twice.                        *)
EverySendAccounted ==
  \A x \in Objects :
    parts[x] # {} =>
      calls[x] = delivered[x] + warned[x] + send_dropped[x]
                 + send_count[x] - (IF draining = x THEN next ELSE 0)

(* What is queued goes out, or goes with its object.                       *)
SendsSettle == \A x \in Objects : send_count[x] > 0 ~> (send_count[x] = 0 \/ halted)
=============================================================================
