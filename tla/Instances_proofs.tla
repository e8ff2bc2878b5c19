--------------------------- MODULE Instances_proofs ---------------------------
(***************************************************************************)
(* Theorems about the life of [chuck~] objects, for every number of        *)
(* objects, of slots in the table, of entries in a send queue and of       *)
(* calls.                                                                  *)
(***************************************************************************)
EXTENDS Instances, FiniteSetTheorems, WellFoundedInduction, TLAPS

(* What is left of an object while its VM is being deleted. *)
Doomed == Parts \ {"send_clock", "pdin_watcher", "shreds_watcher"}

(* An object is absent, whole or being freed, and only whole objects       *)
(* perform, drain or have their clock set.                                 *)
Lifecycle ==
  /\ \A x \in Objects :
       /\ freeing = x => parts[x] = Doomed
       /\ freeing # x => parts[x] \in {{}, Parts}
       /\ x \in {performing, draining} => parts[x] = Parts
       /\ send_clock_set[x] => parts[x] = Parts
  /\ freeing # NULL => performing = NULL

(* The table holds each whole object in one slot, and nothing else. *)
TableTells ==
  /\ \A i \in Slots : instance_slots[i] # NULL => parts[instance_slots[i]] = Parts
  /\ \A i, k \in Slots :
       instance_slots[i] = instance_slots[k] /\ instance_slots[i] # NULL => i = k
  /\ \A x \in Objects : parts[x] = Parts => \E i \in Slots : instance_slots[i] = x

(* live counts the objects that are there, the one being freed included. *)
Present == {x \in Objects : parts[x] # {}}

Counted ==
  /\ live = Cardinality(Present)
  /\ Present # {} => subsystems

(* The queue of an object that is absent is empty, and a drain has not     *)
(* gone past the end of its queue.                                         *)
QueuesSound ==
  /\ {delivered, warned, calls} \subseteq [Objects -> Nat]
  /\ next \in Nat
  /\ \A x \in Objects : parts[x] = {} => send_count[x] = 0 /\ send_dropped[x] = 0
  /\ draining # NULL => next <= send_count[draining]
  /\ EverySendAccounted

Inv ==
  TypeOK /\ Lifecycle /\ TableTells /\ Counted /\ QueuesSound /\ NothingUsedAfterFree

-----------------------------------------------------------------------------
(* The scan of the table finds a free slot if there is one: of the sets    *)
(* 0 .. i for free slots i, one is least by inclusion.                     *)
LEMMA ClaimedIsFree ==
  ASSUME FreeSlots # {}
  PROVE  ClaimedSlot \in Slots /\ instance_slots[ClaimedSlot] = NULL
<1> DEFINE R == StrictSubsetOrdering(Slots)
           T == {0 .. i : i \in FreeSlots}
<1>1. MaxInstances \in Nat \ {0} /\ FreeSlots \subseteq Slots
  BY ConstantsAssumption DEF ConstantsAssumption, FreeSlots
<1>2. IsFiniteSet(Slots)
  BY <1>1, FS_Interval DEF Slots
<1>3. IsWellFoundedOn(R, SUBSET Slots)
  BY <1>2, FS_StrictSubsetOrderingWellFounded, FS_FiniteSubsetsOfFinite
<1>4. T \subseteq SUBSET Slots /\ T # {}
  <2>1. ASSUME NEW i \in FreeSlots PROVE 0 .. i \subseteq Slots
    BY <1>1 DEF Slots
  <2> QED BY <2>1
<1>5. \A i, k \in FreeSlots : k < i => <<0 .. k, 0 .. i>> \in R
  <2>1. ASSUME NEW i \in FreeSlots, NEW k \in FreeSlots, k < i
        PROVE  /\ 0 .. k \in SUBSET Slots /\ 0 .. i \in SUBSET Slots
               /\ 0 .. k \subseteq 0 .. i /\ 0 .. k # 0 .. i
    <3>1. i \in 0 .. i /\ i \notin 0 .. k
      BY <1>1, <2>1 DEF Slots
    <3> QED BY <1>1, <2>1, <3>1 DEF Slots
  <2> QED BY <2>1 DEF StrictSubsetOrdering
<1> HIDE DEF R, T
<1>6. PICK t \in T : \A u \in T : <<u, t>> \notin R
  BY <1>3, <1>4, WFMin
<1>7. PICK i \in FreeSlots : t = 0 .. i
  BY <1>6 DEF T
<1>8. \A k \in FreeSlots : 0 .. k \in T
  BY DEF T
<1>9. ASSUME NEW k \in FreeSlots PROVE i <= k
  <2>1. ~(k < i)
    BY <1>5, <1>6, <1>7, <1>8
  <2> QED BY <1>1, <2>1 DEF Slots
<1>10. ClaimedSlot \in FreeSlots
  BY <1>9 DEF ClaimedSlot
<1> QED BY <1>10 DEF FreeSlots

(* The handlers that create or free no object leave this alone. *)
Stay ==
  UNCHANGED <<instance_slots, parts, live, subsystems, freeing>>

(* ... namely what is called while the VM runs, clocks, and the refusal   *)
(* of an object for which there is no slot.                                *)
LEMMA OthersStay ==
  ASSUME \/ \E x \in Objects : VMCallback(x) \/ PerformBegin(x) \/ SendDrain(x)
         \/ NewFull \/ PerformEnd \/ DrainSend \/ DrainEnd \/ UNCHANGED vars
  PROVE  Stay
BY DEF VMCallback, HostMsg, HostSend, HostSendLost, HostInCtor, HostInDtor, ShredRemoved,
       Callback, NewFull, PerformBegin, PerformEnd, SendDrain, DrainSend, DrainEnd, vars,
       table, control, sends, Stay

(* A step creates an object, begins or ends the freeing of one, is a send, *)
(* or is one that leaves the queues' clocks or the objects alone.          *)
LEMMA Steps ==
  ASSUME [Next]_vars
  PROVE  \/ \E x \in Objects : New(x)
         \/ \E x \in Objects : FreeBegin(x)
         \/ FreeEnd
         \/ \E x \in Objects : HostSend(x)
         \/ \E x \in Objects : PerformBegin(x)
         \/ \E x \in Objects : SendDrain(x)
         \/ \E x \in Objects : HostMsg(x) \/ HostSendLost(x) \/ HostInCtor(x)
                                 \/ HostInDtor(x) \/ ShredRemoved(x)
         \/ NewFull \/ PerformEnd \/ DrainSend \/ DrainEnd \/ UNCHANGED vars
<1>1. CASE \E x \in Objects : New(x) \/ FreeBegin(x) \/ PerformBegin(x) \/ SendDrain(x)
  BY <1>1, Zenon
<1>2. CASE \E x \in Objects : VMCallback(x)
  BY <1>2, Zenon DEF VMCallback
<1>3. CASE NewFull \/ PerformEnd \/ DrainSend \/ DrainEnd \/ FreeEnd \/ UNCHANGED vars
  BY <1>3
<1> QED BY <1>1, <1>2, <1>3, Zenon DEF Next

(* ck_new and ck_free keep the life of each object in order, and a clock   *)
(* is set only for an object that has one.                                 *)
LEMMA LifecycleStep ==
  ASSUME TypeOK, Lifecycle, [Next]_vars
  PROVE  Lifecycle'
<1> USE ConstantsAssumption DEF ConstantsAssumption
<1>0. Parts # {} /\ Doomed # {} /\ Doomed # Parts /\ "send_clock" \notin Doomed
  BY DEF Parts, Doomed
<1>1. ASSUME NEW x \in Objects, New(x) PROVE Lifecycle'
  <2>1. /\ parts' = [parts EXCEPT ![x] = Parts]
        /\ UNCHANGED <<performing, draining, freeing, send_clock_set>>
        /\ freeing = NULL
    BY <1>1 DEF New, control, sends, MayMessage
  <2> QED BY <2>1 DEF Lifecycle, TypeOK
<1>2. ASSUME NEW x \in Objects, FreeBegin(x) PROVE Lifecycle'
  <2>1. /\ parts' = [parts EXCEPT ![x] = @ \ {"send_clock", "pdin_watcher", "shreds_watcher"}]
        /\ send_clock_set' = [send_clock_set EXCEPT ![x] = FALSE]
        /\ UNCHANGED <<performing, draining>>
        /\ freeing = NULL /\ freeing' = x /\ performing = NULL
        /\ parts[x] # {} /\ x # draining
    BY <1>2 DEF FreeBegin, MayMessage
  <2>2. parts' = [parts EXCEPT ![x] = Doomed]
    BY <2>1 DEF Lifecycle, TypeOK, Doomed
  <2> QED BY <2>1, <2>2 DEF Lifecycle, TypeOK
<1>3. CASE FreeEnd
  <2>1. /\ parts' = [parts EXCEPT ![freeing] = {}]
        /\ UNCHANGED <<performing, draining, send_clock_set>>
        /\ freeing # NULL /\ freeing' = NULL /\ freeing \in Objects
    BY <1>3 DEF FreeEnd, TypeOK
  <2> QED BY <1>0, <2>1 DEF Lifecycle, TypeOK
<1>4. ASSUME NEW x \in Objects, HostSend(x) PROVE Lifecycle'
  <2>1. Stay /\ UNCHANGED <<performing, draining>>
    BY <1>4, OthersStay DEF VMCallback, HostSend, Callback, control
  <2>2. parts[x] = Parts
    BY <1>0, <1>4 DEF HostSend, Lifecycle
  <2>3. \A y \in Objects : send_clock_set'[y] => send_clock_set[y] \/ y = x
    BY <1>4 DEF HostSend, TypeOK
  <2> QED BY <2>1, <2>2, <2>3 DEF Lifecycle, Stay
<1>5. CASE \/ \E x \in Objects :
                HostMsg(x) \/ HostSendLost(x) \/ HostInCtor(x) \/ HostInDtor(x)
                  \/ ShredRemoved(x)
           \/ NewFull \/ PerformEnd \/ DrainSend \/ DrainEnd \/ UNCHANGED vars
  <2>1. Stay
    BY <1>5, OthersStay DEF VMCallback
  <2>2. /\ performing' \in {performing, NULL} /\ draining' \in {draining, NULL}
        /\ send_clock_set' = send_clock_set
    BY <1>5 DEF HostMsg, HostSendLost, HostInCtor, HostInDtor, ShredRemoved, Callback,
                NewFull, PerformEnd, DrainSend, DrainEnd, vars, control, sends
  <2> QED BY <2>1, <2>2 DEF Lifecycle, Stay
<1>6. ASSUME NEW x \in Objects, PerformBegin(x) PROVE Lifecycle'
  <2>1. /\ Stay /\ draining' = draining /\ performing' = x /\ freeing = NULL
        /\ parts[x] # {} /\ send_clock_set' = send_clock_set
    BY <1>6, OthersStay DEF PerformBegin, Idle, MayMessage, sends
  <2> QED BY <2>1 DEF Lifecycle, Stay
<1>7. ASSUME NEW x \in Objects, SendDrain(x) PROVE Lifecycle'
  <2>1. /\ Stay /\ performing' = performing /\ draining' = x /\ freeing = NULL
        /\ send_clock_set[x] /\ send_clock_set' = [send_clock_set EXCEPT ![x] = FALSE]
    BY <1>7, OthersStay DEF SendDrain, Idle, MayMessage
  <2> QED BY <2>1 DEF Lifecycle, Stay, TypeOK
<1> QED BY <1>1, <1>2, <1>3, <1>4, <1>5, <1>6, <1>7, Steps

(* ck_new claims a slot nobody has; ck_free clears its own before the      *)
(* object stops being whole.                                               *)
LEMMA TableStep ==
  ASSUME TypeOK, Lifecycle, TableTells, [Next]_vars
  PROVE  TableTells'
<1> USE ConstantsAssumption DEF ConstantsAssumption
<1>0. Parts # {} /\ Doomed # {} /\ Doomed # Parts
  BY DEF Parts, Doomed
<1>1. ASSUME NEW x \in Objects, New(x) PROVE TableTells'
  <2>1. /\ parts' = [parts EXCEPT ![x] = Parts] /\ parts[x] = {}
        /\ instance_slots' = [instance_slots EXCEPT ![ClaimedSlot] = x]
        /\ FreeSlots # {}
    BY <1>1 DEF New
  <2>2. ClaimedSlot \in Slots /\ instance_slots[ClaimedSlot] = NULL
    BY <2>1, ClaimedIsFree
  <2>3. \A i \in Slots : instance_slots[i] # x
    BY <1>0, <2>1 DEF TableTells
  <2> HIDE DEF ClaimedSlot
  <2> QED BY <2>1, <2>2, <2>3 DEF TableTells, TypeOK
<1>2. ASSUME NEW x \in Objects, FreeBegin(x) PROVE TableTells'
  <2>1. /\ parts' = [parts EXCEPT ![x] = Doomed]
        /\ instance_slots' =
             [i \in Slots |-> IF instance_slots[i] = x THEN NULL ELSE instance_slots[i]]
    BY <1>2 DEF FreeBegin, MayMessage, Lifecycle, TypeOK, Doomed
  <2> QED BY <1>0, <2>1 DEF TableTells, TypeOK
<1>3. CASE FreeEnd
  <2>1. /\ parts' = [parts EXCEPT ![freeing] = {}] /\ instance_slots' = instance_slots
        /\ freeing \in Objects /\ parts[freeing] = Doomed
    BY <1>3 DEF FreeEnd, TypeOK, Lifecycle
  <2> QED BY <1>0, <2>1 DEF TableTells, TypeOK
<1>4. ASSUME Stay PROVE TableTells'
  BY <1>4 DEF Stay, TableTells
<1>5. CASE \/ \E x \in Objects : VMCallback(x) \/ PerformBegin(x) \/ SendDrain(x)
           \/ NewFull \/ PerformEnd \/ DrainSend \/ DrainEnd \/ UNCHANGED vars
  BY <1>4, <1>5, OthersStay
<1>6. CASE \E x \in Objects : HostSend(x) \/ HostMsg(x) \/ HostSendLost(x) \/ HostInCtor(x)
                                \/ HostInDtor(x) \/ ShredRemoved(x)
  BY <1>5, <1>6, Zenon DEF VMCallback
<1> QED BY <1>1, <1>2, <1>3, <1>5, <1>6, Steps

-----------------------------------------------------------------------------
(* The count of objects. *)

(* ck_new adds one object to those counted; ck_free takes one away, and    *)
(* cleans up when there is no other.                                       *)
LEMMA CountedStep ==
  ASSUME TypeOK, Lifecycle, Counted, [Next]_vars
  PROVE  Counted'
<1> USE ConstantsAssumption DEF ConstantsAssumption
<1>0. Parts # {} /\ Doomed # {}
  BY DEF Parts, Doomed
<1>1. IsFiniteSet(Present)
  BY FS_Subset DEF Present
<1>2. ASSUME NEW x \in Objects, New(x) PROVE Counted'
  <2>1. /\ parts' = [parts EXCEPT ![x] = Parts] /\ parts[x] = {}
        /\ live' = live + 1 /\ subsystems'
    BY <1>2 DEF New
  <2>2. Present' = Present \cup {x} /\ x \notin Present
    BY <1>0, <2>1 DEF Present, TypeOK
  <2>3. Cardinality(Present') = Cardinality(Present) + 1
    BY <1>1, <2>2, FS_AddElement
  <2> QED BY <2>1, <2>3 DEF Counted
<1>3. ASSUME NEW x \in Objects, FreeBegin(x) PROVE Counted'
  <2>1. parts' = [parts EXCEPT ![x] = Doomed] /\ parts[x] # {}
        /\ UNCHANGED <<live, subsystems>>
    BY <1>3 DEF FreeBegin, MayMessage, Lifecycle, TypeOK, Doomed
  <2>2. Present' = Present
    BY <1>0, <2>1 DEF Present, TypeOK
  <2> QED BY <2>1, <2>2 DEF Counted
<1>4. CASE FreeEnd
  <2>1. /\ parts' = [parts EXCEPT ![freeing] = {}] /\ live' = live - 1
        /\ subsystems' = (subsystems /\ ~Cleans)
        /\ freeing \in Objects /\ parts[freeing] # {}
    BY <1>0, <1>4 DEF FreeEnd, TypeOK, Lifecycle
  <2>2. Present' = Present \ {freeing} /\ freeing \in Present
    BY <2>1 DEF Present, TypeOK
  <2>3. Cardinality(Present') = Cardinality(Present) - 1 /\ IsFiniteSet(Present')
    BY <1>1, <2>2, FS_RemoveElement
  <2>4. live' = Cardinality(Present')
    BY <2>1, <2>3 DEF Counted
  <2>5. ASSUME Present' # {} PROVE subsystems'
    <3>1. live' # 0 /\ live' \in Nat
      BY <2>3, <2>4, <2>5, FS_EmptySet, FS_CardinalityType
    <3>2. ~Cleans
      BY <2>1, <3>1 DEF Cleans, TypeOK
    <3>3. subsystems
      BY <2>2 DEF Counted
    <3> QED BY <2>1, <3>2, <3>3
  <2> QED BY <2>4, <2>5 DEF Counted
<1>5. ASSUME Stay PROVE Counted'
  BY <1>5 DEF Stay, Counted, Present
<1>6. CASE \/ \E x \in Objects : PerformBegin(x) \/ SendDrain(x)
           \/ NewFull \/ PerformEnd \/ DrainSend \/ DrainEnd \/ UNCHANGED vars
  BY <1>5, <1>6, OthersStay
<1>7. CASE \E x \in Objects : HostSend(x) \/ HostMsg(x) \/ HostSendLost(x) \/ HostInCtor(x)
                                \/ HostInDtor(x) \/ ShredRemoved(x)
  <2>1. \E x \in Objects : VMCallback(x)
    BY <1>7, Zenon DEF VMCallback
  <2> QED BY <1>5, <2>1, OthersStay
<1> QED BY <1>2, <1>3, <1>4, <1>6, <1>7, Steps, Zenon

(* Of the objects that are there, live is at least one. *)
LEMMA SomeoneIsCounted ==
  ASSUME TypeOK, Lifecycle, Counted, freeing # NULL
  PROVE  live - 1 \in Nat
<1>1. IsFiniteSet(Present)
  BY ConstantsAssumption, FS_Subset DEF ConstantsAssumption, Present
<1>2. freeing \in Present
  <2>1. freeing \in Objects
    BY DEF TypeOK
  <2>2. parts[freeing] = Doomed
    BY <2>1 DEF Lifecycle
  <2>3. "object" \in Doomed
    BY DEF Doomed, Parts
  <2> QED BY <2>1, <2>2, <2>3, Zenon DEF Present
<1>3. Cardinality(Present) \in Nat /\ Cardinality(Present) # 0
  BY <1>1, <1>2, FS_EmptySet, FS_CardinalityType
<1> QED BY <1>3 DEF Counted

-----------------------------------------------------------------------------
(* Every handler keeps the types: live does not go below zero, nor a queue *)
(* above CK_SEND_QUEUE_SIZE.                                               *)
LEMMA TypeStep ==
  ASSUME TypeOK, Lifecycle, Counted, [Next]_vars
  PROVE  TypeOK'
<1> USE ConstantsAssumption DEF ConstantsAssumption
<1>1. ASSUME NEW x \in Objects, New(x) PROVE TypeOK'
  <2>1. ClaimedSlot \in Slots
    BY <1>1, ClaimedIsFree DEF New
  <2> HIDE DEF ClaimedSlot
  <2> QED BY <1>1, <2>1 DEF New, TypeOK, sends, control
<1>2. ASSUME NEW x \in Objects, FreeBegin(x) PROVE TypeOK'
  <2>1. instance_slots' \in [Slots -> Objects \cup {NULL}]
    BY <1>2 DEF FreeBegin, TypeOK
  <2>2. parts' \in [Objects -> SUBSET Parts]
    BY <1>2 DEF FreeBegin, TypeOK
  <2>3. /\ send_clock_set' \in [Objects -> BOOLEAN]
        /\ UNCHANGED <<hostins, live, subsystems, send_count, send_dropped, performing,
                       draining, created, halted>>
        /\ freeing' = x
    BY <1>2 DEF FreeBegin, TypeOK
  <2> QED BY <2>1, <2>2, <2>3 DEF TypeOK
<1>3. CASE FreeEnd
  <2>1. live' \in Nat
    BY <1>3, SomeoneIsCounted DEF FreeEnd
  <2>2. subsystems' \in BOOLEAN
    BY <1>3 DEF FreeEnd
  <2> QED BY <1>3, <2>1, <2>2 DEF FreeEnd, TypeOK
<1>4. ASSUME NEW x \in Objects, HostSend(x) PROVE TypeOK'
  <2>1. UNCHANGED <<table, control, created, halted>>
    BY <1>4 DEF HostSend, Callback
  <2>2. CASE SendFull(x)
    <3>1. /\ send_dropped' = [send_dropped EXCEPT ![x] = @ + 1]
          /\ UNCHANGED <<send_count, send_clock_set>>
      BY <1>4, <2>2 DEF HostSend
    <3> QED BY <2>1, <3>1 DEF TypeOK, table, control
  <2>3. CASE ~SendFull(x)
    <3>1. /\ send_count' = [send_count EXCEPT ![x] = @ + 1]
          /\ send_clock_set' =
               [send_clock_set EXCEPT ![x] = @ \/ ArmsClock(send_count'[x])]
          /\ send_dropped' = send_dropped
      BY <1>4, <2>3 DEF HostSend
    <3>2. send_count[x] + 1 \in 0 .. SendQueueSize
      BY <2>3 DEF SendFull, TypeOK
    <3>3. send_count' \in [Objects -> 0 .. SendQueueSize]
      BY <3>1, <3>2 DEF TypeOK
    <3>4. send_clock_set' \in [Objects -> BOOLEAN]
      BY <3>1 DEF TypeOK
    <3> QED BY <2>1, <3>1, <3>3, <3>4 DEF TypeOK, table, control
  <2> QED BY <2>2, <2>3
<1>5. ASSUME NEW x \in Objects, PerformBegin(x) PROVE TypeOK'
  BY <1>5 DEF PerformBegin, TypeOK, table, sends
<1>6. ASSUME NEW x \in Objects, SendDrain(x) PROVE TypeOK'
  BY <1>6 DEF SendDrain, TypeOK, table
<1>7. ASSUME NEW x \in Objects,
             HostMsg(x) \/ HostSendLost(x) \/ HostInCtor(x) \/ HostInDtor(x) \/ ShredRemoved(x)
      PROVE  TypeOK'
  <2>1. /\ UNCHANGED <<instance_slots, parts, live, subsystems, sends, control, created, halted>>
        /\ hostins' \in [Objects -> BOOLEAN]
    BY <1>7 DEF HostMsg, HostSendLost, HostInCtor, HostInDtor, ShredRemoved, Callback, table,
                TypeOK, Found
  <2> QED BY <2>1 DEF TypeOK, sends, control
<1>8. CASE NewFull
  BY <1>8 DEF NewFull, TypeOK, table, sends, control
<1>9. CASE PerformEnd
  BY <1>9 DEF PerformEnd, TypeOK, table, sends
<1>10. CASE DrainSend
  BY <1>10 DEF DrainSend, TypeOK, table, sends
<1>11. CASE DrainEnd
  BY <1>11 DEF DrainEnd, TypeOK, table
<1>12. CASE UNCHANGED vars
  BY <1>12 DEF TypeOK, vars, table, sends, control
<1> QED BY <1>1, <1>2, <1>3, <1>4, <1>5, <1>6, <1>7, <1>8, <1>9, <1>10, <1>11, <1>12, Steps

-----------------------------------------------------------------------------
(* The queues.  A call is counted when it is made, and moves from the      *)
(* queue to delivered, or from send_dropped to warned; what a drain has    *)
(* delivered stays in send_count until it ends.                            *)

(* A send, a drain and the freeing of an object keep the account of calls. *)
LEMMA QueuesStep ==
  ASSUME TypeOK, Lifecycle, QueuesSound, [Next]_vars
  PROVE  QueuesSound'
<1> USE ConstantsAssumption DEF ConstantsAssumption
<1>0. Parts # {} /\ Doomed # {}
  BY DEF Parts, Doomed
<1> DEFINE Kept == UNCHANGED <<sends, counts, draining, next>>
<1>1. ASSUME NEW x \in Objects, New(x) PROVE QueuesSound'
  <2>1. /\ parts' = [parts EXCEPT ![x] = Parts] /\ parts[x] = {}
        /\ delivered' = [delivered EXCEPT ![x] = 0]
        /\ warned' = [warned EXCEPT ![x] = 0]
        /\ calls' = [calls EXCEPT ![x] = 0]
        /\ UNCHANGED <<send_count, send_dropped, draining, next>>
    BY <1>1 DEF New, sends, control
  <2>2. draining # x
    BY <1>0, <2>1 DEF Lifecycle
  <2> QED BY <2>1, <2>2 DEF QueuesSound, EverySendAccounted, TypeOK
<1>2. ASSUME NEW x \in Objects, FreeBegin(x) PROVE QueuesSound'
  <2>1. /\ parts' = [parts EXCEPT ![x] = Doomed] /\ parts[x] # {}
        /\ UNCHANGED <<send_count, send_dropped, counts, draining, next>>
    BY <1>2 DEF FreeBegin, MayMessage, Lifecycle, TypeOK, Doomed
  <2> QED BY <1>0, <2>1 DEF QueuesSound, EverySendAccounted, TypeOK, counts
<1>3. CASE FreeEnd
  <2>1. /\ parts' = [parts EXCEPT ![freeing] = {}]
        /\ send_count' = [send_count EXCEPT ![freeing] = 0]
        /\ send_dropped' = [send_dropped EXCEPT ![freeing] = 0]
        /\ UNCHANGED <<counts, draining, next>>
        /\ freeing \in Objects
    BY <1>3 DEF FreeEnd, TypeOK
  <2>2. draining # freeing
    BY <2>1 DEF Lifecycle, Doomed, Parts
  <2> QED BY <2>1, <2>2 DEF QueuesSound, EverySendAccounted, TypeOK, counts
<1>4. ASSUME NEW x \in Objects, HostSend(x) PROVE QueuesSound'
  <2>1. /\ UNCHANGED <<parts, delivered, warned, draining, next>>
        /\ calls' = [calls EXCEPT ![x] = @ + 1] /\ parts[x] # {}
    BY <1>4 DEF HostSend, Callback, table, control
  <2>2. CASE SendFull(x)
    <3>1. send_dropped' = [send_dropped EXCEPT ![x] = @ + 1] /\ send_count' = send_count
      BY <1>4, <2>2 DEF HostSend
    <3> QED BY <2>1, <3>1 DEF QueuesSound, EverySendAccounted, TypeOK
  <2>3. CASE ~SendFull(x)
    <3>1. send_count' = [send_count EXCEPT ![x] = @ + 1] /\ send_dropped' = send_dropped
      BY <1>4, <2>3 DEF HostSend
    <3> QED BY <2>1, <3>1 DEF QueuesSound, EverySendAccounted, TypeOK
  <2> QED BY <2>2, <2>3
<1>5. ASSUME NEW x \in Objects, SendDrain(x) PROVE QueuesSound'
  <2>1. /\ UNCHANGED <<parts, send_count, send_dropped, counts>>
        /\ draining = NULL /\ draining' = x /\ next' = 0
    BY <1>5 DEF SendDrain, Idle, table
  <2> QED BY <2>1 DEF QueuesSound, EverySendAccounted, TypeOK, counts
<1>6. CASE DrainSend
  <2>1. /\ UNCHANGED <<parts, send_count, send_dropped, warned, calls, draining>>
        /\ delivered' = [delivered EXCEPT ![draining] = @ + 1]
        /\ next' = next + 1 /\ next < send_count[draining]
        /\ draining \in Objects
    BY <1>6 DEF DrainSend, table, sends, TypeOK
  <2>2. /\ delivered' \in [Objects -> Nat] /\ next' \in Nat
        /\ next' <= send_count[draining]
    BY <2>1 DEF QueuesSound, TypeOK
  <2>3. ASSUME NEW y \in Objects, parts[y] # {}
        PROVE  calls[y] = delivered'[y] + warned[y] + send_dropped[y] + send_count[y]
                            - (IF draining = y THEN next' ELSE 0)
    <3>1. calls[y] = delivered[y] + warned[y] + send_dropped[y] + send_count[y]
                       - (IF draining = y THEN next ELSE 0)
      BY <2>3 DEF QueuesSound, EverySendAccounted
    <3> QED BY <2>1, <3>1 DEF QueuesSound, TypeOK
  <2> QED BY <2>1, <2>2, <2>3 DEF QueuesSound, EverySendAccounted
<1>7. CASE DrainEnd
  <2>1. /\ UNCHANGED <<parts, delivered, calls, next>>
        /\ send_count' = [send_count EXCEPT ![draining] = 0]
        /\ warned' = [warned EXCEPT ![draining] = @ + send_dropped[draining]]
        /\ send_dropped' = [send_dropped EXCEPT ![draining] = 0]
        /\ next = send_count[draining] /\ draining' = NULL
        /\ draining \in Objects
    BY <1>7 DEF DrainEnd, table, TypeOK
  <2> QED BY <2>1 DEF QueuesSound, EverySendAccounted, TypeOK
<1>8. ASSUME parts' = parts, Kept PROVE QueuesSound'
  BY <1>8 DEF QueuesSound, EverySendAccounted, sends, counts
<1>9. ASSUME NEW x \in Objects,
             \/ PerformBegin(x) \/ HostMsg(x) \/ HostSendLost(x)
             \/ HostInCtor(x) \/ HostInDtor(x) \/ ShredRemoved(x)
      PROVE  parts' = parts /\ sends' = sends /\ counts' = counts /\ draining' = draining
             /\ next' = next
  BY <1>9 DEF PerformBegin, HostMsg, HostSendLost, HostInCtor, HostInDtor, ShredRemoved,
              Callback, table, control, sends
<1>10. CASE NewFull \/ PerformEnd \/ UNCHANGED vars
  <2>1. parts' = parts /\ Kept
    BY <1>10 DEF NewFull, PerformEnd, vars, table, control
  <2> QED BY <1>8, <2>1
<1>11. CASE \E x \in Objects : PerformBegin(x) \/ HostMsg(x) \/ HostSendLost(x)
                                 \/ HostInCtor(x) \/ HostInDtor(x) \/ ShredRemoved(x)
  BY <1>8, <1>9, <1>11
<1> HIDE DEF Kept
<1> QED BY <1>1, <1>2, <1>3, <1>4, <1>5, <1>6, <1>7, <1>10, <1>11, Steps

-----------------------------------------------------------------------------
(* What a step relies on.  What a callback finds in the table is whole; a  *)
(* HostIn that is destructed while its VM is deleted finds the inbox, for  *)
(* that goes last.                                                         *)

(* Each step relies only on what its objects have.                         *)
LEMMA UsedStep ==
  ASSUME TypeOK, Lifecycle, TableTells, NothingUsedAfterFree, [Next]_vars
  PROVE  NothingUsedAfterFree'
<1> USE ConstantsAssumption DEF ConstantsAssumption
<1>0. /\ \A u \in Looked : u[2] = "object" /\ "object" \in parts[u[1]]
      /\ {"object", "inbox", "arrays", "chuck", "pdin_watcher", "shreds_watcher"} \subseteq Parts
      /\ {"object", "inbox"} \subseteq Doomed
      /\ "pdin_watcher" \notin Doomed /\ "shreds_watcher" \notin Doomed
  BY DEF Looked, TableTells, Parts, Doomed
<1>1. ASSUME NEW x \in Objects, Found(x) PROVE parts[x] = Parts
  BY <1>1 DEF Found, TableTells
<1>2. ASSUME NEW x \in Objects, InVM(x) PROVE parts[x] \in {Parts, Doomed}
  BY <1>2 DEF InVM, Lifecycle
<1>3. ASSUME NEW x \in Objects, VMCallback(x)
      PROVE  parts' = parts /\ \A u \in used' : u[2] \in parts[u[1]]
  <2>1. parts' = parts
    BY <1>3, OthersStay DEF Stay
  <2>2. CASE HostMsg(x)
    BY <1>0, <1>1, <2>1, <2>2 DEF HostMsg, Callback
  <2>3. CASE HostSend(x)
    <3>1. used' = Looked \cup {<<x, "object">>} /\ Found(x)
      BY <2>3 DEF HostSend, Callback
    <3> QED BY <1>0, <1>1, <2>1, <3>1
  <2>4. CASE HostSendLost(x)
    BY <1>0, <2>1, <2>4 DEF HostSendLost, Callback
  <2>5. CASE HostInCtor(x)
    BY <1>0, <1>1, <2>1, <2>5 DEF HostInCtor, Callback
  <2>6. CASE HostInDtor(x)
    BY <1>0, <1>2, <2>1, <2>6 DEF HostInDtor, Callback
  <2>7. CASE ShredRemoved(x)
    <3>1. parts[x] \in {{}, Parts, Doomed}
      BY DEF Lifecycle
    <3> QED BY <1>0, <2>1, <2>7, <3>1 DEF ShredRemoved, Callback
  <2> QED BY <1>3, <2>2, <2>3, <2>4, <2>5, <2>6, <2>7 DEF VMCallback
<1>4. ASSUME NEW x \in Objects, New(x) \/ FreeBegin(x) PROVE used' = {}
  BY <1>4 DEF New, FreeBegin
<1>5. ASSUME NEW x \in Objects, PerformBegin(x) \/ SendDrain(x)
      PROVE  parts' = parts /\ \A u \in used' : u[2] \in parts[u[1]]
  <2>1. parts' = parts
    BY <1>5, OthersStay DEF Stay
  <2>2. parts[x] = Parts /\ (used' = {<<x, "arrays">>} \/ used' = {<<x, "object">>})
    BY <1>5 DEF PerformBegin, SendDrain, Idle, MayMessage, Lifecycle
  <2> QED BY <1>0, <2>1, <2>2
<1>6. CASE PerformEnd
  <2>1. parts' = parts /\ used' = {<<performing, "arrays">>} /\ performing \in Objects
    BY <1>6 DEF PerformEnd, table, TypeOK
  <2> QED BY <1>0, <2>1 DEF Lifecycle, NothingUsedAfterFree
<1>7. CASE DrainSend \/ DrainEnd
  <2>1. parts' = parts /\ used' = {<<draining, "object">>} /\ draining \in Objects
    BY <1>7 DEF DrainSend, DrainEnd, table, TypeOK
  <2> QED BY <1>0, <2>1 DEF Lifecycle, NothingUsedAfterFree
<1>8. CASE FreeEnd \/ NewFull
  <2>1. used' = {}
    BY <1>8 DEF FreeEnd, NewFull
  <2> QED BY <2>1 DEF NothingUsedAfterFree
<1>9. CASE UNCHANGED vars
  BY <1>9 DEF vars, table, NothingUsedAfterFree
<1>10. CASE \E x \in Objects : New(x) \/ FreeBegin(x) \/ PerformBegin(x) \/ SendDrain(x)
  <2>1. PICK x \in Objects : New(x) \/ FreeBegin(x) \/ PerformBegin(x) \/ SendDrain(x)
    BY <1>10
  <2>2. (\A u \in used' : u[2] \in parts'[u[1]])
    BY <1>4, <1>5, <2>1
  <2> QED BY <2>2 DEF NothingUsedAfterFree
<1>11. CASE \E x \in Objects : VMCallback(x)
  BY <1>3, <1>11 DEF NothingUsedAfterFree
<1> QED BY <1>6, <1>7, <1>8, <1>9, <1>10, <1>11 DEF Next

(* Before any object is made, the inductive invariant holds ...            *)
LEMMA InvInit == Init => Inv
<1> SUFFICES ASSUME Init PROVE Inv
  OBVIOUS
<1> USE ConstantsAssumption DEF ConstantsAssumption, Init
<1>1. TypeOK
  <2>1. instance_slots \in [Slots -> Objects \cup {NULL}]
    OBVIOUS
  <2>2. /\ parts \in [Objects -> SUBSET Parts]
        /\ hostins \in [Objects -> BOOLEAN]
        /\ send_clock_set \in [Objects -> BOOLEAN]
    OBVIOUS
  <2>3. /\ send_count \in [Objects -> 0 .. SendQueueSize]
        /\ send_dropped \in [Objects -> Nat]
        /\ live \in Nat
    OBVIOUS
  <2>5. created \in 0 .. MaxNew
    OBVIOUS
  <2>6. subsystems \in BOOLEAN /\ halted \in BOOLEAN
    OBVIOUS
  <2>4. performing = NULL /\ draining = NULL /\ freeing = NULL
    OBVIOUS
  <2> QED BY <2>1, <2>2, <2>3, <2>4, <2>5, <2>6 DEF TypeOK
<1>2. Lifecycle /\ TableTells
  BY DEF Lifecycle, TableTells, Parts
<1>3. Counted
  <2>1. Present = {}
    BY DEF Present
  <2> QED BY <2>1, FS_EmptySet DEF Counted
<1>4. QueuesSound /\ NothingUsedAfterFree
  BY DEF QueuesSound, EverySendAccounted, NothingUsedAfterFree
<1> QED BY <1>1, <1>2, <1>3, <1>4 DEF Inv

(* ... every step of Pd, of ChucK and of the drains keeps it ...           *)
LEMMA InvStep == Inv /\ [Next]_vars => Inv'
BY TypeStep, LifecycleStep, TableStep, CountedStep, QueuesStep, UsedStep DEF Inv

(* The slots of an object are a set of one, or none.                       *)
LEMMA InvGivesOneSlot == Inv => EachLiveHasOneSlot
<1> SUFFICES ASSUME Inv
             PROVE  EachLiveHasOneSlot
  OBVIOUS
<1> SUFFICES ASSUME NEW x \in Objects
             PROVE  Cardinality({i \in Slots : instance_slots[i] = x}) =
                      IF parts[x] = {} \/ freeing = x THEN 0 ELSE 1
  BY DEF EachLiveHasOneSlot
<1>0. x # NULL /\ Parts # {} /\ Doomed # {} /\ Doomed # Parts
  BY ConstantsAssumption DEF ConstantsAssumption, Parts, Doomed
<1>1. CASE parts[x] = Parts
  <2>1. PICK i \in Slots : instance_slots[i] = x
    BY <1>1 DEF Inv, TableTells
  <2>2. {k \in Slots : instance_slots[k] = x} = {i}
    BY <1>0, <2>1 DEF Inv, TableTells
  <2>3. parts[x] # {} /\ freeing # x
    BY <1>0, <1>1 DEF Inv, Lifecycle
  <2> QED BY <2>2, <2>3, FS_Singleton
<1>2. CASE parts[x] # Parts
  <2>1. {k \in Slots : instance_slots[k] = x} = {}
    BY <1>0, <1>2 DEF Inv, TableTells
  <2>2. parts[x] = {} \/ freeing = x
    BY <1>2 DEF Inv, Lifecycle
  <2> QED BY <2>1, <2>2, FS_EmptySet
<1> QED BY <1>1, <1>2

(* ... and so it always holds: what exists of each object, the table, the  *)
(* count of objects and the queues of Host.send agree with each other.     *)
THEOREM Invariance == Spec => []Inv
BY InvInit, InvStep, PTL DEF Spec

(* The type invariant.                                                     *)
THEOREM TypeCorrect == Spec => []TypeOK
BY Invariance, PTL DEF Inv

(* Each object that is not being freed has one slot of CK_INSTANCE_SLOTS   *)
(* for itself, so that a ChucK callback that looks its object up finds     *)
(* that object and no other.                                               *)
THEOREM OneSlotEach == Spec => []EachLiveHasOneSlot
<1>1. Inv => EachLiveHasOneSlot
  BY InvGivesOneSlot
<1> QED BY <1>1, Invariance, PTL

(* globalCleanup, which ck_free calls for what it takes to be the last     *)
(* object, is called while no object is left.                              *)
THEOREM SubsystemsOutlive == Spec => []SubsystemsOutliveObjects
<1>1. Inv => SubsystemsOutliveObjects
  BY DEF Inv, Counted, Present, SubsystemsOutliveObjects
<1> QED BY <1>1, Invariance, PTL

(* Every Host.send call is delivered once, queued, or reported as dropped, *)
(* whatever objects the receivers create and free during a drain.          *)
THEOREM SendsAccounted == Spec => []EverySendAccounted
<1>1. Inv => EverySendAccounted
  BY DEF Inv, QueuesSound
<1> QED BY <1>1, Invariance, PTL

(* No callback relies on what ck_free has taken away, the destructors and  *)
(* watchers that run while the VM is deleted included.                     *)
THEOREM NoUseAfterFree == Spec => []NothingUsedAfterFree
<1>1. Inv => NothingUsedAfterFree
  BY DEF Inv
<1> QED BY <1>1, Invariance, PTL
=============================================================================
