--------------------------- MODULE Shreds_proofs ---------------------------
(***************************************************************************)
(* Theorems about the shred commands, for every number of shreds, ids and  *)
(* messages, every size of the message buffer and of the request queue,    *)
(* and every choice of commands.                                           *)
(***************************************************************************)
EXTENDS Shreds, FiniteSetTheorems, SequenceTheorems, TLAPS

-----------------------------------------------------------------------------
(* The effects a step may have on the shreds and what waits for them.      *)

(* No shred is put into the queue or taken from it. *)
QueueKept ==
  \/ requests' = requests
  \/ /\ requests' = Tail(requests) /\ requests # <<>>
     /\ Head(requests).op # "spork"
  \/ \E r \in Requests : requests' = Append(requests, r) /\ r.op # "spork"

CurrentStays == current' \in {current, 0}

Moved ==
  \E s \in Active, place \in {"ready", "running", "blocked"} :
    /\ state' = [state EXCEPT ![s] = place]
    /\ \/ current' = 0
       \/ current' = s /\ place = "running"
       \/ current' = current /\ s # current
    /\ UNCHANGED <<xid, balance, births, counters>>

Counted ==
  /\ pc = "idle"
  /\ shred_id < MaxId
  /\ shred_id' = shred_id + 1
  /\ UNCHANGED <<life, births, num_shreds>>

Turned == pc # "idle" /\ ResetId

Sporked ==
  /\ pc # "requests"
  /\ \/ Spork({})
     \/ \E s \in Active : Spork(ancestors[s] \cup {s})

Evaluated ==
  /\ pc = "idle"
  /\ Make({})
  /\ shred_id < MaxId
  /\ shred_id' = shred_id + 1
  /\ xid' = [xid EXCEPT ![made'] = shred_id']
  /\ UNCHANGED <<balance, num_shreds>>
  /\ \/ /\ state' = [state EXCEPT ![made'] = "lost"]
        /\ requests' = requests
     \/ /\ state' = [state EXCEPT ![made'] = "pending"]
        /\ requests' = Append(requests, [op |-> "spork", shred |-> made'])

Started ==
  /\ pc = "requests" /\ requests # <<>>
  /\ Head(requests).op = "spork"
  /\ requests' = Tail(requests)
  /\ SporkPending(Head(requests).shred)

Ended ==
  /\ pc \in {"shreds", "messages"}
  /\ \/ Free({})
     \/ \E s \in Active : Free(Family(s))

Emptied == pc # "idle" /\ RemoveAll

Replaced ==
  /\ pc # "requests"
  /\ \E k \in Ids, s \in Active :
       /\ xid[s] = k
       /\ Make({})
       /\ state' = [StateWithout(Family(s)) EXCEPT ![made'] = "ready"]
       /\ xid' = [XidWithout(Family(s)) EXCEPT ![made'] = k]
       /\ balance' = [BalanceWithout(Family(s)) EXCEPT ![k] = @ + 1]
       /\ num_shreds' = Less(num_shreds + 1, Family(s))
       /\ shred_id' = IF k > shred_id THEN k ELSE shred_id

Effect ==
  \/ QueueKept /\ Moved
  \/ /\ CurrentStays
     /\ \/ /\ QueueKept
           /\ Keep \/ Counted \/ Turned \/ Sporked \/ Ended \/ Emptied \/ Replaced
        \/ Evaluated
        \/ Started

(* The phases of compute follow each other, and the queue is empty after   *)
(* the first.                                                              *)
PhaseStep ==
  \/ pc' = pc /\ (requests' = requests \/ pc \in {"idle", "requests"})
  \/ pc = "idle" /\ pc' = "requests"
  \/ pc = "requests" /\ pc' = "shreds" /\ requests = <<>> /\ requests' = <<>>
  \/ /\ pc \in {"shreds", "messages"} /\ pc' \in {"shreds", "messages", "idle"}
     /\ requests' = requests

-----------------------------------------------------------------------------
LifeOK ==
  /\ made \in 0 .. MaxShreds
  /\ state \in [Shred -> States]
  /\ \A s \in Shred : state[s] = "none" <=> s > made
  /\ xid \in [Shred -> 0 .. MaxId]
  /\ ancestors \in [Shred -> SUBSET Shred]
  /\ shred_id \in 0 .. MaxId
  /\ num_shreds \in 0 .. MaxShreds
  /\ balance \in [Ids -> Int]

MessagesOK ==
  /\ current \in 0 .. MaxShreds
  /\ requests \in Seq(Requests)
  /\ Len(requests) <= RequestCap
  /\ buffer \in [Places -> Messages]
  /\ {read_offset, write_offset} \subseteq Places
  /\ pc \in {"idle", "requests", "shreds", "messages"}
  /\ sent \in 0 .. MaxSent
  /\ handled \in 0 .. MaxSent
  /\ halted \in BOOLEAN

(* The shred compute runs is running, or has been removed meanwhile. *)
CurrentSound == current # 0 => state[current] \in {"running", "done"}

(* What is queued waits, once, what waits is queued, and nothing is queued *)
(* while shreds run and messages are handled.                              *)
QueueSound ==
  /\ \A i \in 1 .. Len(requests) :
       requests[i].op = "spork" => requests[i].shred \in Pending
  /\ \A i, j \in 1 .. Len(requests) :
       /\ requests[i].op = "spork" /\ requests[j].op = "spork"
       /\ requests[i].shred = requests[j].shred
       => i = j
  /\ \A s \in Pending :
       \E i \in 1 .. Len(requests) : requests[i].op = "spork" /\ requests[i].shred = s
  /\ pc \in {"shreds", "messages"} => requests = <<>>

Base == LifeOK /\ MessagesOK /\ CurrentSound /\ QueueSound /\ CountAgrees

LEMMA TypeParts == TypeOK <=> LifeOK /\ MessagesOK
BY DEF TypeOK, LifeOK, MessagesOK

-----------------------------------------------------------------------------
(* Every step has one of the effects. *)
LEMMA Effects ==
  ASSUME Base, [Next]_vars
  PROVE  Effect
<1> USE DEF QueueKept, CurrentStays
<1>1. CASE UNCHANGED vars
  BY <1>1 DEF vars, Effect, Keep, life, births, counters
<1>2. CASE Add
  <2>1. requests' = requests /\ pc = "idle" /\ Spork({}) /\ current' = current
    BY <1>2 DEF Add, Command
  <2> QED BY <2>1 DEF Effect, Sporked
<1>3. CASE Eval
  <2>1. /\ pc = "idle" /\ Make({}) /\ shred_id < MaxId /\ shred_id' = shred_id + 1
        /\ state' = [state EXCEPT ![made'] = IF Full THEN "lost" ELSE "pending"]
        /\ xid' = [xid EXCEPT ![made'] = shred_id']
        /\ UNCHANGED <<balance, num_shreds, current>>
        /\ requests' = IF Full THEN requests
                       ELSE Append(requests, [op |-> "spork", shred |-> made'])
    BY <1>3 DEF Eval, Command, Put
  <2>2. CASE Full
    BY <2>1, <2>2 DEF Effect, Evaluated
  <2>3. CASE ~Full
    BY <2>1, <2>3 DEF Effect, Evaluated
  <2> QED BY <2>2, <2>3
<1>4. ASSUME NEW k \in Ids, Replace(k) PROVE Effect
  <2>1. requests' = requests /\ pc = "idle" /\ ReplaceId(k) /\ current' = current
    BY <1>4 DEF Replace, Command
  <2>2. Keep \/ Replaced
    BY <2>1 DEF ReplaceId, WithId, Replaced
  <2> QED BY <2>1, <2>2 DEF Effect
<1>5. ASSUME NEW op, NEW k, Remove(op, k) PROVE Effect
  BY <1>5 DEF Remove, Command, Effect
<1>6. CASE Clear
  <2>1. [op |-> "clearvm", shred |-> 0] \in Requests
    BY DEF Requests
  <2> QED BY <1>6, <2>1 DEF Clear, Command, Put, Effect
<1>7. CASE Reset
  <2>1. [op |-> "reset_id", shred |-> 0] \in Requests
    BY DEF Requests
  <2> QED BY <1>7, <2>1 DEF Reset, Command, Put, Effect
<1>8. CASE ShredsNext
  <2>1. requests' = requests /\ Counted /\ current' = current
    BY <1>8 DEF ShredsNext, Command, Counted
  <2> QED BY <2>1 DEF Effect
<1>9. CASE Fail
  BY <1>9 DEF Fail, Command, Effect
<1>10. CASE ComputeBegin
  BY <1>10 DEF ComputeBegin, Effect
<1>11. CASE HandleRequest
  <2>1. /\ pc = "requests" /\ requests # <<>> /\ requests' = Tail(requests)
        /\ current' = current
    BY <1>11 DEF HandleRequest, Rest
  <2>2. CASE Head(requests).op = "spork" /\ SporkPending(Head(requests).shred)
    BY <2>1, <2>2 DEF Effect, Started
  <2>3. CASE Head(requests).op = "clearvm" /\ RemoveAll
    BY <2>1, <2>3 DEF Effect, Emptied
  <2>4. CASE Head(requests).op = "reset_id" /\ ResetId
    BY <2>1, <2>4 DEF Effect, Turned
  <2> QED BY <1>11, <2>2, <2>3, <2>4 DEF HandleRequest
<1>12. CASE RequestsDone
  BY <1>12 DEF RequestsDone, Effect
<1>13. ASSUME NEW s \in Shred, RunShred(s) PROVE Effect
  <2>1. s \in Active
    BY <1>13 DEF RunShred, Active
  <2>2. Moved /\ requests' = requests
    BY <1>13, <2>1 DEF RunShred, InCompute, Moved
  <2> QED BY <2>2 DEF Effect
<1>14. ASSUME NEW s \in Shred, Wake(s) PROVE Effect
  <2>1. s \in Active /\ (s # current \/ current' = 0)
    BY <1>14 DEF Wake, Active, InCompute, Base, CurrentSound
  <2>2. Moved /\ requests' = requests
    BY <1>14, <2>1 DEF Wake, InCompute, Moved
  <2> QED BY <2>2 DEF Effect
<1>15. ASSUME Runs PROVE current \in Active /\ pc = "shreds"
  BY <1>15 DEF Runs, Active, Base, MessagesOK, Shred
<1>16. ASSUME NEW as \in {"ready", "blocked"}, Suspend(as) PROVE Effect
  <2>1. current \in Active
    BY <1>15, <1>16 DEF Suspend
  <2>2. Moved /\ requests' = requests
    BY <1>16, <2>1 DEF Suspend, InCompute, Moved
  <2> QED BY <2>2 DEF Effect
<1>17. CASE Return
  <2>1. /\ pc = "shreds" /\ current # 0 /\ Free(Leaving(current))
        /\ requests' = requests /\ current' = 0
    BY <1>17 DEF Return, InCompute
  <2>2. CASE state[current] = "done"
    BY <2>1, <2>2 DEF Leaving, Ended, Effect
  <2>3. CASE state[current] = "running"
    <3>1. current \in Active /\ Leaving(current) = Family(current)
      BY <2>1, <2>3 DEF Active, Base, MessagesOK, Shred, Leaving
    <3> QED BY <2>1, <3>1 DEF Ended, Effect
  <2> QED BY <2>1, <2>2, <2>3 DEF Base, CurrentSound
<1>18. CASE SporkChild
  <2>1. /\ Runs /\ Spork(ancestors[current] \cup {current}) /\ requests' = requests
        /\ current' = current
    BY <1>18 DEF SporkChild, InCompute
  <2> QED BY <1>15, <2>1 DEF Sporked, Effect
<1>19. ASSUME NEW k, RemoveId(k), pc \in {"shreds", "messages"} PROVE Ended \/ Keep
  BY <1>19 DEF RemoveId, WithId, Ended
<1>20. ASSUME RemoveLast, pc \in {"shreds", "messages"} PROVE Ended \/ Keep
  BY <1>20 DEF RemoveLast, Ended
<1>21. CASE Machine
  <2>1. Runs /\ requests' = requests /\ current' = current
    BY <1>21 DEF Machine, InCompute
  <2>2. pc = "shreds"
    BY <1>15, <2>1
  <2>3. \/ Spork({})
        \/ \E k \in Ids : RemoveId(k) \/ ReplaceId(k)
        \/ RemoveLast
        \/ RemoveAll
        \/ ResetId
    BY <1>21 DEF Machine
  <2>4. ASSUME NEW k \in Ids, ReplaceId(k) PROVE Keep \/ Replaced
    BY <2>2, <2>4 DEF ReplaceId, WithId, Replaced
  <2>5. Sporked \/ Ended \/ Keep \/ Replaced \/ Emptied \/ Turned
    BY <1>19, <1>20, <2>2, <2>3, <2>4 DEF Sporked, Emptied, Turned
  <2> QED BY <2>1, <2>5 DEF Effect
<1>22. CASE ShredsDone
  BY <1>22 DEF ShredsDone, Effect
<1>23. CASE HandleMessage
  <2>1. pc = "messages" /\ requests' = requests /\ current' = current
    BY <1>23 DEF HandleMessage
  <2>2. (\E k : RemoveId(k)) \/ RemoveLast \/ RemoveAll \/ Keep
    BY <1>23 DEF HandleMessage
  <2>3. Ended \/ Keep \/ Emptied
    BY <1>19, <1>20, <2>1, <2>2 DEF Emptied
  <2> QED BY <2>1, <2>3 DEF Effect
<1>24. CASE MessagesDone
  BY <1>24 DEF MessagesDone, Effect
<1> QED
  BY <1>1, <1>2, <1>3, <1>4, <1>5, <1>6, <1>7, <1>8, <1>9, <1>10, <1>11, <1>12, <1>13,
     <1>14, <1>16, <1>17, <1>18, <1>21, <1>22, <1>23, <1>24 DEF Next

-----------------------------------------------------------------------------
(* What the effects make of Active, Pending and the counters.              *)

LEMMA ActiveFinite ==
  /\ IsFiniteSet(Shred) /\ Cardinality(Shred) = MaxShreds
  /\ \A S \in SUBSET Shred :
       IsFiniteSet(S) /\ Cardinality(S) \in Nat /\ Cardinality(S) <= MaxShreds
<1>1. MaxShreds \in Nat
  BY ConstantsAssumption DEF ConstantsAssumption
<1>2. IsFiniteSet(Shred) /\ Cardinality(Shred) = MaxShreds
  BY <1>1, FS_Interval DEF Shred
<1> QED BY <1>1, <1>2, FS_Subset, FS_CardinalityType

LEMMA FamilyActive ==
  ASSUME NEW s \in Active
  PROVE  Family(s) \subseteq Active /\ s \in Family(s)
BY DEF Family

(* Taking shreds away takes as many from the count, which has not been     *)
(* zero: the guard of Less is never needed.                                *)
LEMMA LessCounts ==
  ASSUME NEW S \in SUBSET Shred, NEW F \in SUBSET S
  PROVE  Less(Cardinality(S), F) = Cardinality(S \ F)
<1>1. IsFiniteSet(S) /\ IsFiniteSet(F) /\ IsFiniteSet(S \ F)
  BY ActiveFinite
<1>2. /\ Cardinality(S) \in Nat /\ Cardinality(F) \in Nat /\ Cardinality(S \ F) \in Nat
      /\ Cardinality(F) <= Cardinality(S)
  BY <1>1, FS_CardinalityType, FS_Subset
<1>3. Cardinality(S) = Cardinality(F) + Cardinality(S \ F)
  <2>1. F \cap (S \ F) = {} /\ F \cup (S \ F) = S
    OBVIOUS
  <2>2. Cardinality(F \cup (S \ F)) =
          Cardinality(F) + Cardinality(S \ F) - Cardinality(F \cap (S \ F))
    BY <1>1, FS_Union
  <2>3. Cardinality(S) = Cardinality(F) + Cardinality(S \ F) - Cardinality({})
    BY <2>1, <2>2, Zenon
  <2>4. Cardinality({}) = 0
    BY FS_EmptySet
  <2> QED BY <1>2, <2>3, <2>4
<1> QED BY <1>2, <1>3 DEF Less

LEMMA MakeNew ==
  ASSUME LifeOK, NEW P, Make(P)
  PROVE  /\ made' = made + 1 /\ made' \in Shred /\ made' \in 0 .. MaxShreds
         /\ state[made'] = "none" /\ made' \notin Active \cup Pending
         /\ \A s \in Shred : s # made' => (s > made <=> s > made')
<1>1. MaxShreds \in Nat /\ made \in Nat /\ made < MaxShreds /\ made' = made + 1
  BY ConstantsAssumption DEF ConstantsAssumption, LifeOK, Make
<1>2. made' \in Shred /\ made' \in 0 .. MaxShreds /\ made' > made
  BY <1>1 DEF Shred
<1>3. \A s \in Shred : s # made' => (s > made <=> s > made')
  BY <1>1 DEF Shred
<1>4. state[made'] = "none"
  BY <1>2 DEF LifeOK
<1> QED BY <1>1, <1>2, <1>3, <1>4 DEF Active, Pending

LEMMA KeepEffect ==
  ASSUME Base, Keep \/ Moved \/ Counted \/ Turned
  PROVE  /\ LifeOK' /\ Active' = Active /\ Pending' = Pending
         /\ UNCHANGED <<num_shreds, xid, ancestors, balance, made>>
<1>1. CASE Keep
  BY <1>1 DEF Keep, life, births, counters, LifeOK, Active, Pending, Base
<1>2. CASE Moved
  <2>1. PICK s \in Active, place \in {"ready", "running", "blocked"} :
          /\ state' = [state EXCEPT ![s] = place]
          /\ UNCHANGED <<xid, balance, births, counters>>
    BY <1>2 DEF Moved
  <2>2. s \in Shred /\ state[s] \in {"ready", "running", "blocked"} /\ LifeOK
    BY DEF Active, Base
  <2>3. state' \in [Shred -> States] /\ state'[s] = place
        /\ \A t \in Shred : t # s => state'[t] = state[t]
    BY <2>1, <2>2 DEF LifeOK, States
  <2>4. Active' = Active /\ Pending' = Pending
    BY <2>1, <2>2, <2>3 DEF Active, Pending
  <2>5. \A t \in Shred : state'[t] = "none" <=> t > made'
    BY <2>1, <2>2, <2>3 DEF LifeOK, births
  <2>6. UNCHANGED <<num_shreds, shred_id, xid, ancestors, balance, made>>
    BY <2>1 DEF births, counters
  <2> QED BY <2>2, <2>3, <2>4, <2>5, <2>6 DEF LifeOK
<1>3. CASE Counted
  <2>1. shred_id' \in 0 .. MaxId /\ UNCHANGED <<life, births, num_shreds>>
    BY <1>3, ConstantsAssumption DEF Counted, Base, LifeOK, ConstantsAssumption
  <2> QED BY <2>1 DEF life, births, LifeOK, Active, Pending, Base
<1>4. CASE Turned
  <2>1. shred_id' \in {xid[s] : s \in Active} \cup {0} /\ UNCHANGED <<life, births, num_shreds>>
    BY <1>4 DEF Turned, ResetId, AllShreds
  <2>2. shred_id' \in 0 .. MaxId
    BY <2>1, ConstantsAssumption DEF Base, LifeOK, ConstantsAssumption, Active
  <2> QED BY <2>1, <2>2 DEF life, births, LifeOK, Active, Pending, Base
<1> QED BY <1>1, <1>2, <1>3, <1>4

LEMMA SporkEffect ==
  ASSUME Base, NEW P \in SUBSET Shred, Spork(P)
  PROVE  /\ LifeOK' /\ CountAgrees'
         /\ Active' = Active \cup {made'} /\ Pending' = Pending
<1>1. LifeOK /\ CountAgrees /\ Make(P)
  BY DEF Base, Spork
<1>2. /\ made' = made + 1 /\ made' \in Shred /\ made' \in 0 .. MaxShreds
      /\ state[made'] = "none" /\ made' \notin Active \cup Pending
      /\ \A s \in Shred : s # made' => (s > made <=> s > made')
  BY <1>1, MakeNew
<1>3. /\ state' \in [Shred -> States] /\ state'[made'] = "ready"
      /\ \A t \in Shred : t # made' => state'[t] = state[t]
  BY <1>1, <1>2 DEF LifeOK, States, Spork
<1>4. Active' = Active \cup {made'} /\ Pending' = Pending
  BY <1>2, <1>3 DEF Active, Pending
<1>5. shred_id' \in 0 .. MaxId /\ shred_id' = shred_id + 1
  BY <1>1, ConstantsAssumption DEF Spork, LifeOK, ConstantsAssumption
<1>6. /\ xid' \in [Shred -> 0 .. MaxId] /\ ancestors' \in [Shred -> SUBSET Shred]
      /\ balance' \in [Ids -> Int]
  <2>1. xid' = [xid EXCEPT ![made'] = shred_id'] /\ xid \in [Shred -> 0 .. MaxId]
    BY <1>1 DEF Spork, LifeOK
  <2>2. ancestors' = [ancestors EXCEPT ![made'] = P] /\ ancestors \in [Shred -> SUBSET Shred]
    BY <1>1 DEF Make, LifeOK
  <2>3. balance' = [balance EXCEPT ![shred_id'] = balance[shred_id'] + 1]
        /\ balance \in [Ids -> Int]
    BY DEF Spork, Base, LifeOK
  <2>4. xid' \in [Shred -> 0 .. MaxId]
    BY <2>1, <1>5
  <2>5. ancestors' \in [Shred -> SUBSET Shred]
    BY <2>2
  <2>6. balance' \in [Ids -> Int]
    <3>1. shred_id' \in Ids
      BY <1>1, <1>5, ConstantsAssumption DEF Spork, LifeOK, ConstantsAssumption, Ids
    <3>2. balance[shred_id'] + 1 \in Int
      BY <2>3, <3>1
    <3> QED BY <2>3, <3>2
  <2> QED BY <2>4, <2>5, <2>6
<1>7. \A s \in Shred : state'[s] = "none" <=> s > made'
  BY <1>1, <1>2, <1>3 DEF LifeOK, Shred
<1>8. num_shreds' = Cardinality(Active')
  <2>1. IsFiniteSet(Active) /\ Active \subseteq Shred
    BY ActiveFinite DEF Active
  <2>2. Cardinality(Active') = Cardinality(Active) + 1
    BY <1>2, <1>4, <2>1, FS_AddElement
  <2> QED BY <1>1, <2>2 DEF Spork, CountAgrees
<1>9. num_shreds' \in 0 .. MaxShreds
  <2>1. Active' \subseteq Shred
    BY <1>2, <1>4 DEF Active
  <2> QED BY <1>8, <2>1, ActiveFinite, ConstantsAssumption DEF ConstantsAssumption
<1> QED BY <1>2, <1>3, <1>4, <1>5, <1>6, <1>7, <1>8, <1>9 DEF LifeOK, CountAgrees

LEMMA EvalEffect ==
  ASSUME Base, Evaluated
  PROVE  /\ LifeOK' /\ Active' = Active
         /\ \/ /\ Pending' = Pending
               /\ requests' = requests
            \/ /\ Pending' = Pending \cup {made'}
               /\ requests' = Append(requests, [op |-> "spork", shred |-> made'])
<1>1. LifeOK /\ Make({})
  BY DEF Base, Evaluated
<1>2. /\ made' = made + 1 /\ made' \in Shred /\ made' \in 0 .. MaxShreds
      /\ state[made'] = "none" /\ made' \notin Active \cup Pending
      /\ \A s \in Shred : s # made' => (s > made <=> s > made')
  BY <1>1, MakeNew
<1>3. PICK place \in {"lost", "pending"} :
        /\ state' = [state EXCEPT ![made'] = place]
        /\ requests' = IF place = "lost" THEN requests
                       ELSE Append(requests, [op |-> "spork", shred |-> made'])
  BY DEF Evaluated
<1>4. /\ state' \in [Shred -> States] /\ state'[made'] = place
      /\ \A t \in Shred : t # made' => state'[t] = state[t]
  BY <1>1, <1>2, <1>3 DEF LifeOK, States
<1>5. Active' = Active
  BY <1>2, <1>4 DEF Active, Pending
<1>6. Pending' = IF place = "lost" THEN Pending ELSE Pending \cup {made'}
  BY <1>2, <1>4 DEF Active, Pending
<1>7. shred_id' \in 0 .. MaxId /\ UNCHANGED <<balance, num_shreds>>
  BY <1>1, ConstantsAssumption DEF Evaluated, LifeOK, ConstantsAssumption
<1>8. xid' \in [Shred -> 0 .. MaxId]
  <2>1. xid' = [xid EXCEPT ![made'] = shred_id'] /\ xid \in [Shred -> 0 .. MaxId]
    BY <1>1 DEF Evaluated, LifeOK
  <2> QED BY <1>7, <2>1
<1>9. ancestors' \in [Shred -> SUBSET Shred]
  <2>1. ancestors' = [ancestors EXCEPT ![made'] = {}] /\ ancestors \in [Shred -> SUBSET Shred]
    BY <1>1 DEF Make, LifeOK
  <2> QED BY <2>1
<1>10. \A s \in Shred : state'[s] = "none" <=> s > made'
  BY <1>1, <1>2, <1>4 DEF LifeOK, Shred
<1>11. LifeOK'
  BY <1>1, <1>2, <1>4, <1>7, <1>8, <1>9, <1>10 DEF LifeOK
<1> QED BY <1>3, <1>5, <1>6, <1>11

(* The shred at the head of the queue. *)
LEMMA HeadPending ==
  ASSUME Base, requests # <<>>, Head(requests).op = "spork"
  PROVE  Head(requests).shred \in Pending /\ Head(requests).shred \in Shred
<1>1. requests \in Seq(Requests) /\ Len(requests) \in Nat /\ Len(requests) >= 1
  BY EmptySeq DEF Base, MessagesOK
<1>2. Head(requests) = requests[1] /\ 1 \in 1 .. Len(requests) /\ requests[1] \in Requests
  BY <1>1, ElementOfSeq
<1>3. Head(requests).shred \in Shred
  BY <1>2 DEF Requests
<1>4. Head(requests).shred \in Pending
  BY <1>2 DEF Base, QueueSound
<1> QED BY <1>3, <1>4

LEMMA StartEffect ==
  ASSUME Base, Started
  PROVE  \E s \in Pending :
           /\ s = Head(requests).shred /\ s \notin Active /\ s \in Shred
           /\ LifeOK' /\ CountAgrees'
           /\ Active' = Active \cup {s} /\ Pending' = Pending \ {s}
           /\ shred_id' = Raised(xid[s])
           /\ balance' = [balance EXCEPT ![xid[s]] = @ + 1]
           /\ UNCHANGED <<xid, births>>
<1> DEFINE s == Head(requests).shred
<1>1. LifeOK /\ CountAgrees /\ SporkPending(s) /\ s \in Pending /\ s \in Shred
  BY HeadPending DEF Base, Started
<1>2. state[s] = "pending" /\ s \notin Active
  BY <1>1 DEF Pending, Active
<1> HIDE DEF s
<1>3. /\ state' \in [Shred -> States] /\ state'[s] = "ready"
      /\ \A t \in Shred : t # s => state'[t] = state[t]
  BY <1>1 DEF LifeOK, States, SporkPending
<1>4. Active' = Active \cup {s} /\ Pending' = Pending \ {s}
  BY <1>1, <1>2, <1>3 DEF Active, Pending
<1>5. /\ shred_id' = Raised(xid[s]) /\ balance' = [balance EXCEPT ![xid[s]] = @ + 1]
      /\ num_shreds' = num_shreds + 1 /\ UNCHANGED <<xid, births>>
  BY <1>1 DEF SporkPending
<1>6. xid[s] \in 0 .. MaxId
  BY <1>1 DEF LifeOK
<1>7. shred_id' \in 0 .. MaxId
  BY <1>1, <1>5, <1>6 DEF Raised, LifeOK
<1>8. balance' \in [Ids -> Int]
  <2>1. balance \in [Ids -> Int] /\ \A k \in Ids : balance[k] + 1 \in Int
    BY <1>1 DEF LifeOK
  <2> QED BY <1>5, <2>1
<1>9. num_shreds' = Cardinality(Active')
  <2>1. IsFiniteSet(Active) /\ Active \subseteq Shred
    BY ActiveFinite DEF Active
  <2>2. Cardinality(Active') = Cardinality(Active) + 1
    BY <1>2, <1>4, <2>1, FS_AddElement
  <2> QED BY <1>1, <1>5, <2>2 DEF CountAgrees
<1>10. num_shreds' \in 0 .. MaxShreds
  <2>1. Active' \subseteq Shred
    BY <1>1, <1>4 DEF Active
  <2> QED BY <1>9, <2>1, ActiveFinite, ConstantsAssumption DEF ConstantsAssumption
<1>11. \A t \in Shred : state'[t] = "none" <=> t > made'
  BY <1>1, <1>2, <1>3, <1>5 DEF LifeOK, births
<1>12. LifeOK'
  BY <1>1, <1>3, <1>5, <1>7, <1>8, <1>10, <1>11 DEF LifeOK, births
<1>13. s = Head(requests).shred
  BY DEF s
<1> QED BY <1>1, <1>2, <1>4, <1>5, <1>9, <1>12, <1>13 DEF CountAgrees

(* The shreds of a set that end. *)
LEMMA EndOfSet ==
  ASSUME LifeOK, NEW F \in SUBSET Active
  PROVE  /\ StateWithout(F) \in [Shred -> States]
         /\ \A t \in Shred : StateWithout(F)[t] = IF t \in F THEN "done" ELSE state[t]
         /\ \A t \in Shred : StateWithout(F)[t] = "none" <=> state[t] = "none"
         /\ XidWithout(F) \in [Shred -> 0 .. MaxId]
         /\ BalanceWithout(F) \in [Ids -> Int]
<1>1. F \subseteq Shred /\ \A t \in F : state[t] # "none"
  BY DEF Active
<1>2. \A t \in Shred : StateWithout(F)[t] = IF t \in F THEN "done" ELSE state[t]
  BY DEF StateWithout
<1>3. StateWithout(F) \in [Shred -> States]
  BY DEF StateWithout, LifeOK, States
<1>4. XidWithout(F) \in [Shred -> 0 .. MaxId]
  BY ConstantsAssumption DEF XidWithout, LifeOK, ConstantsAssumption
<1>5. BalanceWithout(F) \in [Ids -> Int]
  <2>1. ASSUME NEW k \in Ids PROVE balance[k] - Farewells(F, k) \in Int
    <3>1. {s \in F : xid[s] = k} \in SUBSET Shred
      BY <1>1
    <3>2. Cardinality({s \in F : xid[s] = k}) \in Nat
      BY <3>1, ActiveFinite
    <3> QED BY <3>2 DEF Farewells, LifeOK
  <2> QED BY <2>1 DEF BalanceWithout
<1> QED BY <1>1, <1>2, <1>3, <1>4, <1>5

LEMMA FreeEffect ==
  ASSUME Base, NEW F \in SUBSET Active, Free(F)
  PROVE  /\ LifeOK' /\ CountAgrees'
         /\ Active' = Active \ F /\ Pending' = Pending
         /\ shred_id' = IF Active' = {} THEN 0 ELSE shred_id
<1>1. LifeOK /\ CountAgrees /\ Active \subseteq Shred
  BY DEF Base, Active
<1>2. /\ state' = StateWithout(F) /\ xid' = XidWithout(F) /\ balance' = BalanceWithout(F)
      /\ num_shreds' = Less(num_shreds, F) /\ UNCHANGED births
      /\ shred_id' = IF num_shreds' = 0 THEN 0 ELSE shred_id
  BY DEF Free, End
<1>3. /\ state' \in [Shred -> States]
      /\ \A t \in Shred : state'[t] = IF t \in F THEN "done" ELSE state[t]
      /\ \A t \in Shred : state'[t] = "none" <=> state[t] = "none"
      /\ xid' \in [Shred -> 0 .. MaxId] /\ balance' \in [Ids -> Int]
  BY <1>1, <1>2, EndOfSet
<1>4. Active' = Active \ F /\ Pending' = Pending
  BY <1>3 DEF Active, Pending
<1>5. num_shreds' = Cardinality(Active') /\ Active' \subseteq Shred
  BY <1>1, <1>2, <1>4, LessCounts DEF CountAgrees
<1>6. num_shreds' \in 0 .. MaxShreds
  BY <1>5, ActiveFinite, ConstantsAssumption DEF ConstantsAssumption
<1>7. num_shreds' = 0 <=> Active' = {}
  BY <1>5, ActiveFinite, FS_EmptySet
<1>8. LifeOK'
  BY <1>1, <1>2, <1>3, <1>6, ConstantsAssumption DEF LifeOK, births, ConstantsAssumption
<1> QED BY <1>2, <1>4, <1>5, <1>7, <1>8 DEF CountAgrees

LEMMA EmptyEffect ==
  ASSUME Base, RemoveAll
  PROVE  LifeOK' /\ CountAgrees' /\ Active' = {} /\ Pending' = Pending
<1>1. LifeOK
  BY DEF Base
<1>2. /\ state' = StateWithout(Active) /\ xid' = XidWithout(Active)
      /\ balance' = BalanceWithout(Active)
      /\ num_shreds' = 0 /\ shred_id' = 0 /\ UNCHANGED births
  BY DEF RemoveAll, End, AllShreds
<1>3. /\ state' \in [Shred -> States]
      /\ \A t \in Shred : state'[t] = IF t \in Active THEN "done" ELSE state[t]
      /\ \A t \in Shred : state'[t] = "none" <=> state[t] = "none"
      /\ xid' \in [Shred -> 0 .. MaxId] /\ balance' \in [Ids -> Int]
  BY <1>1, <1>2, EndOfSet
<1>4. Active' = {} /\ Pending' = Pending
  BY <1>3 DEF Active, Pending
<1>5. LifeOK'
  BY <1>1, <1>2, <1>3, ConstantsAssumption DEF LifeOK, births, ConstantsAssumption
<1> QED BY <1>2, <1>4, <1>5, FS_EmptySet DEF CountAgrees

LEMMA ReplaceEffect ==
  ASSUME Base, Replaced
  PROVE  \E k \in Ids, s \in Active :
           /\ xid[s] = k /\ made' \in Shred /\ made' \notin Active \cup Pending
           /\ LifeOK' /\ CountAgrees'
           /\ Active' = (Active \ Family(s)) \cup {made'} /\ Pending' = Pending
           /\ xid' = [XidWithout(Family(s)) EXCEPT ![made'] = k]
           /\ balance' = [BalanceWithout(Family(s)) EXCEPT ![k] = @ + 1]
           /\ ancestors' = [ancestors EXCEPT ![made'] = {}]
           /\ shred_id' = IF k > shred_id THEN k ELSE shred_id
<1>1. PICK k \in Ids, s \in Active :
        /\ xid[s] = k
        /\ Make({})
        /\ state' = [StateWithout(Family(s)) EXCEPT ![made'] = "ready"]
        /\ xid' = [XidWithout(Family(s)) EXCEPT ![made'] = k]
        /\ balance' = [BalanceWithout(Family(s)) EXCEPT ![k] = @ + 1]
        /\ num_shreds' = Less(num_shreds + 1, Family(s))
        /\ shred_id' = IF k > shred_id THEN k ELSE shred_id
  BY DEF Replaced
<1>2. LifeOK /\ CountAgrees /\ Active \subseteq Shred
  BY DEF Base, Active
<1> DEFINE F == Family(s)
<1>3. F \in SUBSET Active
  BY FamilyActive
<1> HIDE DEF F
<1>4. /\ made' = made + 1 /\ made' \in Shred /\ made' \in 0 .. MaxShreds
      /\ state[made'] = "none" /\ made' \notin Active \cup Pending
      /\ \A t \in Shred : t # made' => (t > made <=> t > made')
  BY <1>1, <1>2, MakeNew
<1>5. /\ StateWithout(F) \in [Shred -> States]
      /\ \A t \in Shred : StateWithout(F)[t] = IF t \in F THEN "done" ELSE state[t]
      /\ \A t \in Shred : StateWithout(F)[t] = "none" <=> state[t] = "none"
      /\ XidWithout(F) \in [Shred -> 0 .. MaxId]
      /\ BalanceWithout(F) \in [Ids -> Int]
  BY <1>2, <1>3, EndOfSet
<1>6. /\ state' = [StateWithout(F) EXCEPT ![made'] = "ready"]
      /\ xid' = [XidWithout(F) EXCEPT ![made'] = k]
      /\ balance' = [BalanceWithout(F) EXCEPT ![k] = BalanceWithout(F)[k] + 1]
      /\ num_shreds' = Less(num_shreds + 1, F)
  BY <1>1 DEF F
<1>7. /\ state' \in [Shred -> States] /\ state'[made'] = "ready"
      /\ \A t \in Shred : t # made' => state'[t] = IF t \in F THEN "done" ELSE state[t]
  BY <1>4, <1>5, <1>6 DEF States
<1>8. Active' = (Active \ F) \cup {made'} /\ Pending' = Pending
  BY <1>3, <1>4, <1>7 DEF Active, Pending
<1>9. k \in 0 .. MaxId /\ shred_id' \in 0 .. MaxId
  BY <1>1, <1>2, ConstantsAssumption DEF LifeOK, Ids, ConstantsAssumption
<1>10. xid' \in [Shred -> 0 .. MaxId]
  BY <1>5, <1>6, <1>9
<1>11. balance' \in [Ids -> Int]
  <2>1. BalanceWithout(F)[k] + 1 \in Int
    BY <1>5
  <2> QED BY <1>5, <1>6, <2>1
<1>12. /\ ancestors' = [ancestors EXCEPT ![made'] = {}]
       /\ ancestors' \in [Shred -> SUBSET Shred]
  BY <1>1, <1>2 DEF Make, LifeOK
<1>13. num_shreds' = Cardinality(Active')
  <2> DEFINE S == Active \cup {made'}
  <2>1. Cardinality(S) = num_shreds + 1 /\ S \in SUBSET Shred
    BY <1>2, <1>4, ActiveFinite, FS_AddElement DEF CountAgrees
  <2>2. F \in SUBSET S /\ S \ F = Active'
    BY <1>3, <1>4, <1>8
  <2> HIDE DEF S
  <2>3. Less(Cardinality(S), F) = Cardinality(S \ F)
    BY <2>1, <2>2, LessCounts
  <2> QED BY <1>6, <2>1, <2>2, <2>3
<1>14. num_shreds' \in 0 .. MaxShreds
  <2>1. Active' \subseteq Shred
    BY <1>2, <1>4, <1>8
  <2> QED BY <1>13, <2>1, ActiveFinite, ConstantsAssumption DEF ConstantsAssumption
<1>15. \A t \in Shred : state'[t] = "none" <=> t > made'
  <2>1. ASSUME NEW t \in Shred, t # made' PROVE state'[t] = "none" <=> t > made'
    BY <1>2, <1>4, <1>5, <1>7, <2>1 DEF LifeOK
  <2>2. state'[made'] # "none" /\ ~(made' > made')
    BY <1>4, <1>7 DEF Shred
  <2> QED BY <2>1, <2>2
<1>16. LifeOK'
  BY <1>4, <1>7, <1>9, <1>10, <1>11, <1>12, <1>14, <1>15 DEF LifeOK
<1> QED BY <1>1, <1>4, <1>8, <1>12, <1>13, <1>16 DEF CountAgrees, F

-----------------------------------------------------------------------------
(* The base invariant. *)

LEMMA Phases ==
  ASSUME [Next]_vars
  PROVE  PhaseStep
<1> USE DEF PhaseStep
<1>1. CASE UNCHANGED vars
  BY <1>1 DEF vars
<1>2. ASSUME NEW cmd, Command(cmd) PROVE pc = "idle" /\ pc' = pc
  BY <1>2 DEF Command
<1>3. CASE Add
  BY <1>2, <1>3 DEF Add
<1>4. CASE Eval
  BY <1>2, <1>4 DEF Eval
<1>5. ASSUME NEW k, Replace(k) PROVE PhaseStep
  BY <1>2, <1>5 DEF Replace
<1>6. ASSUME NEW op, NEW k, Remove(op, k) PROVE PhaseStep
  BY <1>2, <1>6 DEF Remove
<1>7. CASE Clear
  BY <1>2, <1>7 DEF Clear
<1>8. CASE Reset
  BY <1>2, <1>8 DEF Reset
<1>9. CASE ShredsNext
  BY <1>2, <1>9 DEF ShredsNext
<1>10. CASE Fail
  BY <1>2, <1>10 DEF Fail
<1>11. CASE ComputeBegin
  BY <1>11 DEF ComputeBegin
<1>12. CASE HandleRequest
  BY <1>12 DEF HandleRequest
<1>13. CASE RequestsDone
  BY <1>13 DEF RequestsDone
<1>14. ASSUME NEW s, RunShred(s) \/ Wake(s) PROVE PhaseStep
  BY <1>14 DEF RunShred, Wake, InCompute
<1>15. ASSUME NEW as, Suspend(as) PROVE PhaseStep
  BY <1>15 DEF Suspend, InCompute
<1>16. CASE Return
  BY <1>16 DEF Return, InCompute
<1>17. CASE SporkChild
  BY <1>17 DEF SporkChild, InCompute
<1>18. CASE Machine
  BY <1>18 DEF Machine, InCompute
<1>19. CASE ShredsDone
  BY <1>19 DEF ShredsDone
<1>20. CASE HandleMessage
  BY <1>20 DEF HandleMessage
<1>21. CASE MessagesDone
  BY <1>21 DEF MessagesDone
<1> QED
  BY <1>1, <1>3, <1>4, <1>5, <1>6, <1>7, <1>8, <1>9, <1>10, <1>11, <1>12, <1>13, <1>14,
     <1>15, <1>16, <1>17, <1>18, <1>19, <1>20, <1>21 DEF Next

LEMMA PutTyped ==
  ASSUME MessagesOK, NEW r \in Requests, Put(r)
  PROVE  requests' \in Seq(Requests) /\ Len(requests') <= RequestCap
<1>1. requests \in Seq(Requests) /\ Len(requests) <= RequestCap /\ RequestCap \in Nat
  BY ConstantsAssumption DEF MessagesOK, ConstantsAssumption
<1>2. CASE Full
  BY <1>1, <1>2 DEF Put
<1>3. CASE ~Full
  <2>1. Append(requests, r) \in Seq(Requests) /\ Len(Append(requests, r)) = Len(requests) + 1
    BY <1>1, AppendProperties
  <2> QED BY <1>1, <1>3, <2>1, LenProperties DEF Put, Full
<1> QED BY <1>2, <1>3

LEMMA NextPlaceTyped ==
  ASSUME NEW i \in Places
  PROVE  NextPlace(i) \in Places
BY ConstantsAssumption DEF Places, NextPlace, ConstantsAssumption

LEMMA MessagesTyped ==
  ASSUME Base, [Next]_vars
  PROVE  MessagesOK'
<1>1. MessagesOK /\ made \in 0 .. MaxShreds /\ MaxSent \in Nat /\ MaxShreds \in Nat
  BY ConstantsAssumption DEF Base, LifeOK, ConstantsAssumption
<1>2. ASSUME UNCHANGED <<current, requests, ring, pc, sent, handled, halted>>
      PROVE  MessagesOK'
  BY <1>1, <1>2 DEF MessagesOK, ring
<1>3. ASSUME NEW cmd, Command(cmd)
      PROVE  /\ sent' \in 0 .. MaxSent /\ sent' = sent + 1
             /\ UNCHANGED <<current, pc, handled>>
  BY <1>1, <1>3 DEF Command, MessagesOK
<1>4. ASSUME NEW cmd, Command(cmd), UNCHANGED ring, halted' \in BOOLEAN,
             requests' \in Seq(Requests) /\ Len(requests') <= RequestCap
      PROVE  MessagesOK'
  BY <1>1, <1>3, <1>4 DEF MessagesOK, ring
<1>5. ASSUME NEW cmd, Command(cmd), UNCHANGED <<ring, requests>>, halted' \in BOOLEAN
      PROVE  MessagesOK'
  BY <1>1, <1>4, <1>5 DEF MessagesOK
<1>6. ASSUME NEW cmd, Command(cmd), UNCHANGED <<ring, halted>>, NEW r \in Requests, Put(r)
      PROVE  MessagesOK'
  <2>1. halted' \in BOOLEAN
    BY <1>1, <1>6 DEF MessagesOK
  <2>2. requests' \in Seq(Requests) /\ Len(requests') <= RequestCap
    BY <1>1, <1>6, PutTyped
  <2> QED BY <1>4, <1>6, <2>1, <2>2
<1>7. CASE UNCHANGED vars
  BY <1>2, <1>7 DEF vars
<1>8. CASE Add
  BY <1>1, <1>5, <1>8 DEF Add, MessagesOK
<1>9. CASE Eval
  <2>1. [op |-> "spork", shred |-> made'] \in Requests
    BY <1>9, MakeNew DEF Eval, Base, Requests
  <2> QED BY <1>6, <1>9, <2>1 DEF Eval
<1>10. ASSUME NEW k, Replace(k) PROVE MessagesOK'
  BY <1>1, <1>5, <1>10 DEF Replace, MessagesOK
<1>11. ASSUME NEW op \in {"remove", "last", "all", "none"}, NEW k \in 0 .. MaxId, Remove(op, k)
       PROVE  MessagesOK'
  <2>1. [op |-> op, id |-> k, no |-> sent', made |-> made] \in Messages
    BY <1>1, <1>3, <1>11 DEF Remove, Messages
  <2>2. buffer' \in [Places -> Messages]
    BY <1>1, <1>11, <2>1 DEF Remove, MessagesOK
  <2>3. write_offset' \in Places
    BY <1>1, <1>11, NextPlaceTyped DEF Remove, MessagesOK
  <2>4. UNCHANGED <<requests, read_offset, halted, current, pc, handled>>
        /\ sent' \in 0 .. MaxSent
    BY <1>3, <1>11 DEF Remove
  <2> QED BY <1>1, <2>2, <2>3, <2>4 DEF MessagesOK
<1>12. CASE Clear
  <2>1. [op |-> "clearvm", shred |-> 0] \in Requests
    BY DEF Requests
  <2> QED BY <1>6, <1>12, <2>1 DEF Clear
<1>13. CASE Reset
  <2>1. [op |-> "reset_id", shred |-> 0] \in Requests
    BY DEF Requests
  <2> QED BY <1>6, <1>13, <2>1 DEF Reset
<1>14. CASE ShredsNext
  BY <1>1, <1>5, <1>14 DEF ShredsNext, MessagesOK
<1>15. CASE Fail
  BY <1>5, <1>15 DEF Fail
<1>16. ASSUME UNCHANGED <<current, requests, ring, sent, handled, halted>>,
              pc' \in {"idle", "requests", "shreds", "messages"}
       PROVE  MessagesOK'
  BY <1>1, <1>16 DEF MessagesOK, ring
<1>17. CASE ComputeBegin
  BY <1>16, <1>17 DEF ComputeBegin
<1>18. CASE HandleRequest
  <2>1. /\ requests # <<>> /\ requests' = Tail(requests)
        /\ UNCHANGED <<current, ring, pc, sent, handled, halted>>
    BY <1>18 DEF HandleRequest, Rest
  <2>2. requests' \in Seq(Requests) /\ Len(requests') = Len(requests) - 1
    BY <1>1, <2>1, HeadTailProperties DEF MessagesOK
  <2>3. Len(requests) \in Nat /\ Len(requests) <= RequestCap /\ RequestCap \in Nat
    BY <1>1, LenProperties, ConstantsAssumption DEF MessagesOK, ConstantsAssumption
  <2> QED BY <1>1, <2>1, <2>2, <2>3 DEF MessagesOK, ring
<1>19. CASE RequestsDone
  BY <1>16, <1>19 DEF RequestsDone
<1>20. ASSUME InCompute, current' \in 0 .. MaxShreds
       PROVE  MessagesOK'
  BY <1>1, <1>20 DEF InCompute, MessagesOK, ring
<1>21. ASSUME NEW s \in Shred, RunShred(s) \/ Wake(s) PROVE MessagesOK'
  <2>1. s \in 0 .. MaxShreds /\ current \in 0 .. MaxShreds
    BY <1>1 DEF Shred, MessagesOK
  <2> QED BY <1>20, <1>21, <2>1 DEF RunShred, Wake
<1>22. ASSUME NEW as, Suspend(as) PROVE MessagesOK'
  BY <1>1, <1>20, <1>22 DEF Suspend
<1>23. CASE Return
  BY <1>1, <1>20, <1>23 DEF Return
<1>24. CASE SporkChild \/ Machine
  BY <1>1, <1>20, <1>24 DEF SporkChild, Machine, MessagesOK
<1>25. CASE ShredsDone
  BY <1>16, <1>25 DEF ShredsDone
<1>26. CASE HandleMessage
  <2>1. /\ read_offset' = NextPlace(read_offset) /\ handled' = buffer[read_offset].no
        /\ UNCHANGED <<current, requests, buffer, write_offset, pc, sent, halted>>
    BY <1>26 DEF HandleMessage, ReadOn
  <2>2. read_offset' \in Places
    BY <1>1, <2>1, NextPlaceTyped DEF MessagesOK
  <2>3. handled' \in 0 .. MaxSent
    BY <1>1, <2>1 DEF MessagesOK, Messages
  <2> QED BY <1>1, <2>1, <2>2, <2>3 DEF MessagesOK
<1>27. CASE MessagesDone
  BY <1>16, <1>27 DEF MessagesDone
<1>28. ASSUME NEW k \in Ids PROVE k \in 0 .. MaxId
  BY ConstantsAssumption DEF Ids, ConstantsAssumption
<1>29. 0 \in 0 .. MaxId
  BY ConstantsAssumption DEF ConstantsAssumption
<1> QED
  BY <1>7, <1>8, <1>9, <1>10, <1>11, <1>12, <1>13, <1>14, <1>15, <1>17, <1>18, <1>19,
     <1>21, <1>22, <1>23, <1>24, <1>25, <1>26, <1>27, <1>28, <1>29 DEF Next

LEMMA QueueStaysSound ==
  ASSUME Base, QueueKept, Pending' = Pending, PhaseStep
  PROVE  QueueSound'
<1>1. requests \in Seq(Requests) /\ Len(requests) \in Nat
  BY LenProperties DEF Base, MessagesOK
<1>2. QueueSound
  BY DEF Base
<1>3. pc' \in {"shreds", "messages"} => requests' = <<>>
  BY <1>2 DEF QueueSound, PhaseStep
<1>4. CASE requests' = requests
  BY <1>2, <1>3, <1>4 DEF QueueSound
<1>5. CASE requests' = Tail(requests) /\ requests # <<>> /\ Head(requests).op # "spork"
  <2>1. /\ Len(requests') = Len(requests) - 1 /\ Head(requests) = requests[1]
        /\ \A i \in 1 .. Len(requests') : requests'[i] = requests[i + 1]
    BY <1>1, <1>5, HeadTailProperties
  <2>2. \A i \in 1 .. Len(requests') : i + 1 \in 1 .. Len(requests)
    BY <1>1, <2>1
  <2>3. \A s \in Pending' :
          \E i \in 1 .. Len(requests') : requests'[i].op = "spork" /\ requests'[i].shred = s
    <3> SUFFICES ASSUME NEW s \in Pending
                 PROVE  \E i \in 1 .. Len(requests') :
                          requests'[i].op = "spork" /\ requests'[i].shred = s
      OBVIOUS
    <3>1. PICK i \in 1 .. Len(requests) : requests[i].op = "spork" /\ requests[i].shred = s
      BY <1>2 DEF QueueSound
    <3>2. i # 1
      BY <1>5, <2>1, <3>1
    <3>3. i - 1 \in 1 .. Len(requests') /\ requests'[i - 1] = requests[i]
      BY <1>1, <2>1, <3>2
    <3> QED BY <3>1, <3>3
  <2>4. \A i \in 1 .. Len(requests') :
          requests'[i].op = "spork" => requests'[i].shred \in Pending'
    BY <1>2, <2>1, <2>2 DEF QueueSound
  <2>5. ASSUME NEW i \in 1 .. Len(requests'), NEW j \in 1 .. Len(requests'),
               requests'[i].op = "spork", requests'[j].op = "spork",
               requests'[i].shred = requests'[j].shred
        PROVE  i = j
    <3>1. i + 1 = j + 1
      BY <1>2, <2>1, <2>2, <2>5 DEF QueueSound
    <3> QED BY <1>1, <2>1, <3>1
  <2> QED BY <1>3, <2>3, <2>4, <2>5 DEF QueueSound
<1>6. CASE \E q \in Requests : requests' = Append(requests, q) /\ q.op # "spork"
  <2>1. PICK q \in Requests : requests' = Append(requests, q) /\ q.op # "spork"
    BY <1>6
  <2>2. /\ Len(requests') = Len(requests) + 1 /\ requests'[Len(requests) + 1] = q
        /\ \A i \in 1 .. Len(requests) : requests'[i] = requests[i]
    BY <1>1, <2>1, AppendProperties
  <2>3. \A i \in 1 .. Len(requests') :
          requests'[i].op = "spork" => i \in 1 .. Len(requests)
    BY <1>1, <2>1, <2>2
  <2>4. 1 .. Len(requests) \subseteq 1 .. Len(requests')
    BY <1>1, <2>2
  <2> QED BY <1>2, <1>3, <2>2, <2>3, <2>4 DEF QueueSound
<1> QED BY <1>4, <1>5, <1>6 DEF QueueKept

LEMMA QueueAfterEval ==
  ASSUME Base, Evaluated, PhaseStep
  PROVE  QueueSound'
<1>1. requests \in Seq(Requests) /\ Len(requests) \in Nat /\ QueueSound
  BY LenProperties DEF Base, MessagesOK
<1>2. CASE Pending' = Pending /\ requests' = requests
  BY <1>2, QueueStaysSound DEF QueueKept
<1>3. CASE /\ Pending' = Pending \cup {made'}
           /\ requests' = Append(requests, [op |-> "spork", shred |-> made'])
  <2> DEFINE q == [op |-> "spork", shred |-> made']
  <2>1. q \in Requests /\ made' \notin Pending
    BY MakeNew DEF Base, Evaluated, Requests
  <2>2. q.op = "spork" /\ q.shred = made'
    OBVIOUS
  <2> HIDE DEF q
  <2>3. /\ Len(requests') = Len(requests) + 1 /\ requests'[Len(requests) + 1] = q
        /\ \A i \in 1 .. Len(requests) : requests'[i] = requests[i]
    BY <1>1, <1>3, <2>1, AppendProperties DEF q
  <2>4. 1 .. Len(requests') = (1 .. Len(requests)) \cup {Len(requests) + 1}
    BY <1>1, <2>3
  <2>5. \A i \in 1 .. Len(requests) :
          requests[i].op = "spork" => requests[i].shred # made'
    BY <1>1, <2>1 DEF QueueSound
  <2>6. pc' \in {"shreds", "messages"} => requests' = <<>>
    BY <1>1 DEF QueueSound, PhaseStep, Evaluated
  <2>7. \A i \in 1 .. Len(requests') :
          requests'[i].op = "spork" => requests'[i].shred \in Pending'
    BY <1>1, <1>3, <2>2, <2>3, <2>4 DEF QueueSound
  <2>8. ASSUME NEW i \in 1 .. Len(requests'), NEW j \in 1 .. Len(requests'),
               requests'[i].op = "spork", requests'[j].op = "spork",
               requests'[i].shred = requests'[j].shred
        PROVE  i = j
    BY <1>1, <2>2, <2>3, <2>4, <2>5, <2>8 DEF QueueSound
  <2>9. \A s \in Pending' :
          \E i \in 1 .. Len(requests') : requests'[i].op = "spork" /\ requests'[i].shred = s
    BY <1>1, <1>3, <2>2, <2>3, <2>4 DEF QueueSound
  <2> QED BY <2>6, <2>7, <2>8, <2>9 DEF QueueSound
<1> QED BY <1>2, <1>3, EvalEffect

LEMMA QueueAfterStart ==
  ASSUME Base, Started, PhaseStep
  PROVE  QueueSound'
<1>1. requests \in Seq(Requests) /\ Len(requests) \in Nat /\ QueueSound
  BY LenProperties DEF Base, MessagesOK
<1>2. requests # <<>> /\ requests' = Tail(requests) /\ Head(requests).op = "spork"
  BY DEF Started
<1>3. Pending' = Pending \ {Head(requests).shred}
  BY StartEffect
<1>4. /\ Len(requests') = Len(requests) - 1 /\ Head(requests) = requests[1]
      /\ \A i \in 1 .. Len(requests') : requests'[i] = requests[i + 1]
  BY <1>1, <1>2, HeadTailProperties
<1>5. Len(requests) >= 1 /\ \A i \in 1 .. Len(requests') : i + 1 \in 1 .. Len(requests)
  BY <1>1, <1>2, <1>4, EmptySeq
<1>6. pc' \in {"shreds", "messages"} => requests' = <<>>
  BY <1>1 DEF QueueSound, PhaseStep, Started
<1>7. ASSUME NEW i \in 1 .. Len(requests'), requests'[i].op = "spork"
      PROVE  requests'[i].shred \in Pending'
  <2>1. requests[i + 1].op = "spork" /\ i + 1 \in 1 .. Len(requests) /\ 1 \in 1 .. Len(requests)
    BY <1>1, <1>4, <1>5, <1>7
  <2>2. requests[i + 1].shred \in Pending /\ i + 1 # 1
    BY <1>1, <2>1 DEF QueueSound
  <2>3. requests[i + 1].shred # requests[1].shred
    BY <1>1, <1>2, <1>4, <2>1, <2>2 DEF QueueSound
  <2> QED BY <1>3, <1>4, <2>2, <2>3
<1>8. ASSUME NEW i \in 1 .. Len(requests'), NEW j \in 1 .. Len(requests'),
             requests'[i].op = "spork", requests'[j].op = "spork",
             requests'[i].shred = requests'[j].shred
      PROVE  i = j
  <2>1. i + 1 = j + 1
    BY <1>1, <1>4, <1>5, <1>8 DEF QueueSound
  <2> QED BY <1>1, <1>4, <2>1
<1>9. ASSUME NEW s \in Pending'
      PROVE  \E i \in 1 .. Len(requests') : requests'[i].op = "spork" /\ requests'[i].shred = s
  <2>1. s \in Pending /\ s # requests[1].shred
    BY <1>3, <1>4
  <2>2. PICK i \in 1 .. Len(requests) : requests[i].op = "spork" /\ requests[i].shred = s
    BY <1>1, <2>1 DEF QueueSound
  <2>3. i # 1
    BY <2>1, <2>2
  <2>4. i - 1 \in 1 .. Len(requests') /\ requests'[i - 1] = requests[i]
    BY <1>1, <1>4, <2>3
  <2> QED BY <2>2, <2>4
<1> QED BY <1>6, <1>7, <1>8, <1>9 DEF QueueSound

(* What ran or has been removed still does, or has. *)
LEMMA StateLater ==
  ASSUME Base, Effect, ~Moved, NEW s \in Shred, state[s] \in {"running", "done"}
  PROVE  state'[s] \in {"running", "done"}
<1>1. LifeOK /\ state[s] # "none" /\ state[s] # "pending"
  BY DEF Base
<1>2. ASSUME NEW P, Make(P) PROVE made' # s
  BY <1>1, <1>2, MakeNew
<1>3. ASSUME NEW F PROVE StateWithout(F)[s] \in {"running", "done"}
  BY DEF StateWithout
<1>4. CASE Keep \/ Counted \/ Turned
  BY <1>4 DEF Keep, Counted, Turned, ResetId, life
<1>5. ASSUME NEW P, Spork(P) PROVE state'[s] \in {"running", "done"}
  <2>1. Make(P) /\ state' = [state EXCEPT ![made'] = "ready"]
    BY <1>5 DEF Spork
  <2> QED BY <1>1, <1>2, <2>1 DEF LifeOK
<1>6. CASE Sporked
  BY <1>5, <1>6 DEF Sporked
<1>7. CASE Ended
  BY <1>3, <1>7 DEF Ended, Free, End
<1>8. CASE Emptied
  BY <1>3, <1>8 DEF Emptied, RemoveAll, End
<1>9. CASE Replaced
  <2>1. \E F : Make({}) /\ state' = [StateWithout(F) EXCEPT ![made'] = "ready"]
    BY <1>9 DEF Replaced
  <2> QED BY <1>2, <1>3, <2>1 DEF StateWithout
<1>10. CASE Evaluated
  <2>1. Make({}) /\ \E place : state' = [state EXCEPT ![made'] = place]
    BY <1>10 DEF Evaluated
  <2> QED BY <1>1, <1>2, <2>1 DEF LifeOK
<1>11. CASE Started
  <2>1. Head(requests).shred # s
    BY <1>1, <1>11, HeadPending DEF Started, Pending
  <2>2. state' = [state EXCEPT ![Head(requests).shred] = "ready"]
    BY <1>11 DEF Started, SporkPending
  <2> QED BY <1>1, <2>1, <2>2 DEF LifeOK
<1> QED BY <1>4, <1>6, <1>7, <1>8, <1>9, <1>10, <1>11 DEF Effect

LEMMA CurrentStaysSound ==
  ASSUME Base, Effect
  PROVE  CurrentSound'
<1>1. LifeOK /\ CurrentSound /\ current \in 0 .. MaxShreds
  BY DEF Base, MessagesOK
<1>2. CASE Moved
  <2>1. PICK s \in Active, place \in {"ready", "running", "blocked"} :
          /\ state' = [state EXCEPT ![s] = place]
          /\ \/ current' = 0
             \/ current' = s /\ place = "running"
             \/ current' = current /\ s # current
    BY <1>2 DEF Moved
  <2>2. state'[s] = place /\ \A t \in Shred : t # s => state'[t] = state[t]
    BY <1>1, <2>1 DEF LifeOK, Active
  <2>3. current # 0 => current \in Shred
    BY <1>1 DEF Shred
  <2> QED BY <1>1, <2>1, <2>2, <2>3 DEF CurrentSound
<1>3. CASE ~Moved
  <2>1. current' \in {current, 0}
    BY <1>3 DEF Effect, CurrentStays
  <2>2. current # 0 => current \in Shred /\ state[current] \in {"running", "done"}
    BY <1>1 DEF Shred, CurrentSound
  <2>3. current # 0 => state'[current] \in {"running", "done"}
    BY <1>3, <2>2, StateLater
  <2> QED BY <2>1, <2>3 DEF CurrentSound
<1> QED BY <1>2, <1>3

LEMMA BaseStep ==
  ASSUME Base, [Next]_vars
  PROVE  Base'
<1>1. Effect /\ PhaseStep /\ MessagesOK'
  BY Effects, Phases, MessagesTyped
<1>2. CurrentSound'
  BY <1>1, CurrentStaysSound
<1>3. ASSUME LifeOK', CountAgrees', QueueSound' PROVE Base'
  BY <1>1, <1>2, <1>3 DEF Base
<1>4. ASSUME LifeOK', CountAgrees', Pending' = Pending, QueueKept PROVE Base'
  BY <1>1, <1>3, <1>4, QueueStaysSound
<1>5. ASSUME QueueKept, Keep \/ Moved \/ Counted \/ Turned PROVE Base'
  BY <1>4, <1>5, KeepEffect DEF Base, CountAgrees
<1>6. ASSUME QueueKept, Sporked PROVE Base'
  <2>1. ASSUME NEW s \in Active PROVE ancestors[s] \cup {s} \in SUBSET Shred
    BY DEF Base, LifeOK, Active
  <2>2. PICK P \in SUBSET Shred : Spork(P)
    BY <1>6, <2>1 DEF Sporked
  <2> QED BY <1>4, <1>6, <2>2, SporkEffect
<1>7. ASSUME QueueKept, Ended PROVE Base'
  <2>1. PICK F \in SUBSET Active : Free(F)
    BY <1>7, FamilyActive DEF Ended
  <2> QED BY <1>4, <1>7, <2>1, FreeEffect
<1>8. ASSUME QueueKept, Emptied PROVE Base'
  BY <1>4, <1>8, EmptyEffect DEF Emptied
<1>9. ASSUME QueueKept, Replaced PROVE Base'
  BY <1>4, <1>9, ReplaceEffect
<1>10. CASE Evaluated
  <2>1. CountAgrees'
    BY <1>10, EvalEffect DEF Base, CountAgrees, Evaluated
  <2> QED BY <1>1, <1>3, <1>10, <2>1, EvalEffect, QueueAfterEval
<1>11. CASE Started
  <2>1. LifeOK' /\ CountAgrees'
    BY <1>11, StartEffect
  <2> QED BY <1>1, <1>3, <1>11, <2>1, QueueAfterStart
<1> QED BY <1>1, <1>5, <1>6, <1>7, <1>8, <1>9, <1>10, <1>11 DEF Effect

LEMMA BaseInit ==
  ASSUME Init
  PROVE  Base
<1>1. Active = {} /\ Pending = {}
  BY DEF Init, Active, Pending
<1>2. CountAgrees
  BY <1>1, FS_EmptySet DEF Init, CountAgrees
<1>3. LifeOK
  BY ConstantsAssumption DEF Init, LifeOK, ConstantsAssumption, Shred, States, Ids
<1>4. NoMessage \in Messages /\ 0 \in Places
  BY ConstantsAssumption DEF NoMessage, Messages, Places, ConstantsAssumption
<1>5. <<>> \in Seq(Requests) /\ Len(<<>>) = 0
  BY EmptySeq
<1>6. MessagesOK
  <2>1. buffer \in [Places -> Messages]
    BY <1>4 DEF Init
  <2>2. requests \in Seq(Requests) /\ Len(requests) <= RequestCap
    BY <1>5, ConstantsAssumption DEF Init, ConstantsAssumption
  <2>3. current \in 0 .. MaxShreds /\ sent \in 0 .. MaxSent /\ handled \in 0 .. MaxSent
    BY ConstantsAssumption DEF Init, ConstantsAssumption
  <2>4. {read_offset, write_offset} \subseteq Places
    BY <1>4 DEF Init
  <2>5. pc \in {"idle", "requests", "shreds", "messages"} /\ halted \in BOOLEAN
    BY DEF Init
  <2> QED BY <2>1, <2>2, <2>3, <2>4, <2>5 DEF MessagesOK
<1>7. QueueSound
  BY <1>1, <1>5 DEF Init, QueueSound
<1> QED BY <1>2, <1>3, <1>6, <1>7 DEF Base, CurrentSound, Init

(* The inductive invariant: types, the count, and that what waits to be    *)
(* sporked is what the queue's spork requests name.                        *)
THEOREM BaseInvariant == Spec => []Base
<1>1. Init => Base
  BY BaseInit
<1>2. Base /\ [Next]_vars => Base'
  BY BaseStep
<1> QED BY <1>1, <1>2, PTL DEF Spec

(* Every variable keeps its type: in particular no count goes below zero   *)
(* or past the shreds there are, no offset leaves the message buffer and   *)
(* the request queue stays within its capacity.                            *)
THEOREM TypeCorrect == Spec => []TypeOK
<1>1. Base => TypeOK
  BY TypeParts DEF Base
<1> QED BY <1>1, BaseInvariant, PTL

(* m_num_shreds is the number of shreds there, through every way a shred   *)
(* can come and go.                                                        *)
THEOREM CountCorrect == Spec => []CountAgrees
<1>1. Base => CountAgrees
  BY DEF Base
<1> QED BY <1>1, BaseInvariant, PTL

-----------------------------------------------------------------------------
(* Ids.  While requests are handled the counter may be below the id of a   *)
(* shred that waits, but no id is given.                                   *)
IdsInv ==
  /\ IdsUnique
  /\ \A s \in Active : xid[s] <= shred_id
  /\ pc # "requests" => \A s \in Pending : xid[s] <= shred_id

LEMMA NobodyPending ==
  ASSUME Base, requests = <<>> \/ pc \in {"shreds", "messages"}
  PROVE  Pending = {}
<1>1. requests = <<>>
  BY DEF Base, QueueSound
<1>2. 1 .. Len(requests) = {}
  BY <1>1, EmptySeq
<1> QED BY <1>2 DEF Base, QueueSound

LEMMA IdsKept ==
  ASSUME Base, IdsInv, Keep \/ Moved \/ Counted \/ Turned
  PROVE  /\ IdsUnique' /\ \A s \in Active' : xid'[s] <= shred_id'
         /\ pc # "requests" => \A s \in Pending' : xid'[s] <= shred_id'
<1>1. LifeOK /\ UNCHANGED xid /\ Active' = Active /\ Pending' = Pending
  BY KeepEffect DEF Base
<1>2. IdsUnique'
  BY <1>1 DEF IdsInv, IdsUnique
<1>3. CASE Keep \/ Moved
  <2>1. shred_id' = shred_id
    BY <1>3 DEF Keep, Moved, counters
  <2> QED BY <1>1, <1>2, <2>1 DEF IdsInv
<1>4. CASE Counted
  <2>1. shred_id' = shred_id + 1
    BY <1>4 DEF Counted
  <2>2. \A s \in Active \cup Pending : xid[s] <= shred_id => xid[s] <= shred_id'
    BY <1>1, <2>1 DEF LifeOK, Active, Pending
  <2> QED BY <1>1, <1>2, <2>2 DEF IdsInv
<1>5. CASE Turned
  <2>1. \A s \in Active : xid[s] <= shred_id'
    BY <1>5 DEF Turned, ResetId, AllShreds
  <2>2. pc # "requests" => Pending = {}
    BY <1>5, NobodyPending DEF Turned, Base, MessagesOK
  <2> QED BY <1>1, <1>2, <2>1, <2>2
<1> QED BY <1>3, <1>4, <1>5

LEMMA IdsSporked ==
  ASSUME Base, IdsInv, Sporked
  PROVE  /\ IdsUnique' /\ \A s \in Active' : xid'[s] <= shred_id'
         /\ pc # "requests" => \A s \in Pending' : xid'[s] <= shred_id'
<1>1. ASSUME NEW s \in Active PROVE ancestors[s] \cup {s} \in SUBSET Shred
  BY DEF Base, LifeOK, Active
<1>2. PICK P \in SUBSET Shred : Spork(P)
  BY <1>1 DEF Sporked
<1>3. Active' = Active \cup {made'} /\ Pending' = Pending /\ LifeOK
  BY <1>2, SporkEffect DEF Base
<1>4. made' \in Shred /\ made' \notin Active \cup Pending
  BY <1>2, <1>3, MakeNew DEF Spork
<1>5. /\ shred_id' = shred_id + 1 /\ shred_id \in Nat /\ xid'[made'] = shred_id'
      /\ \A s \in Active \cup Pending : xid'[s] = xid[s] /\ xid[s] \in Nat
  BY <1>2, <1>3, <1>4, ConstantsAssumption
     DEF Spork, LifeOK, Active, Pending, ConstantsAssumption
<1>6. \A s \in Active \cup Pending : xid[s] <= shred_id
  BY DEF IdsInv, Sporked
<1>7. \A s \in Active \cup Pending : xid'[s] < shred_id' /\ xid'[s] # 0
  BY <1>5, <1>6 DEF IdsInv, IdsUnique
<1>8. IdsUnique'
  <2>1. ASSUME NEW s \in Active \cup Pending, NEW t \in Active \cup Pending, xid'[s] = xid'[t]
        PROVE  s = t
    BY <1>5, <2>1 DEF IdsInv, IdsUnique
  <2> QED BY <1>3, <1>5, <1>7, <2>1 DEF IdsUnique
<1> QED BY <1>3, <1>5, <1>7, <1>8

LEMMA IdsEvaluated ==
  ASSUME Base, IdsInv, Evaluated
  PROVE  /\ IdsUnique' /\ \A s \in Active' : xid'[s] <= shred_id'
         /\ pc # "requests" => \A s \in Pending' : xid'[s] <= shred_id'
<1>1. LifeOK /\ Active' = Active /\ Pending' \subseteq Pending \cup {made'}
  BY EvalEffect DEF Base
<1>2. made' \in Shred /\ made' \notin Active \cup Pending
  BY <1>1, MakeNew DEF Evaluated
<1>3. /\ shred_id' = shred_id + 1 /\ shred_id \in Nat /\ xid'[made'] = shred_id'
      /\ \A s \in Active \cup Pending : xid'[s] = xid[s] /\ xid[s] \in Nat
  BY <1>1, <1>2, ConstantsAssumption
     DEF Evaluated, LifeOK, Active, Pending, ConstantsAssumption
<1>4. \A s \in Active \cup Pending : xid[s] <= shred_id
  BY DEF IdsInv, Evaluated
<1>5. \A s \in Active \cup Pending : xid'[s] < shred_id' /\ xid'[s] # 0
  BY <1>3, <1>4 DEF IdsInv, IdsUnique
<1>6. IdsUnique'
  <2>1. ASSUME NEW s \in Active \cup Pending, NEW t \in Active \cup Pending, xid'[s] = xid'[t]
        PROVE  s = t
    BY <1>3, <2>1 DEF IdsInv, IdsUnique
  <2> QED BY <1>1, <1>3, <1>5, <2>1 DEF IdsUnique
<1> QED BY <1>1, <1>3, <1>5, <1>6

LEMMA IdsStarted ==
  ASSUME Base, IdsInv, Started
  PROVE  IdsUnique' /\ (\A s \in Active' : xid'[s] <= shred_id')
<1>1. PICK s \in Pending :
        /\ s \in Shred
        /\ Active' = Active \cup {s} /\ Pending' = Pending \ {s}
        /\ shred_id' = Raised(xid[s]) /\ xid' = xid
  BY StartEffect
<1>2. Active' \cup Pending' = Active \cup Pending
  BY <1>1
<1>3. IdsUnique'
  BY <1>1, <1>2 DEF IdsInv, IdsUnique
<1>4. shred_id \in Nat /\ \A t \in Active \cup Pending : xid[t] \in Nat
  BY ConstantsAssumption DEF Base, LifeOK, Active, Pending, ConstantsAssumption
<1>5. shred_id' \in Nat /\ shred_id <= shred_id' /\ xid[s] <= shred_id'
  BY <1>1, <1>4 DEF Raised
<1> QED BY <1>1, <1>3, <1>4, <1>5 DEF IdsInv

LEMMA IdsEnded ==
  ASSUME Base, IdsInv, NEW F \in SUBSET Active, Free(F), pc \in {"shreds", "messages"}
  PROVE  IdsUnique' /\ Pending' = {} /\ (\A s \in Active' : xid'[s] <= shred_id')
<1>1. LifeOK /\ Active' = Active \ F /\ Pending' = Pending
      /\ shred_id' = IF Active' = {} THEN 0 ELSE shred_id
  BY FreeEffect DEF Base
<1>2. Pending = {}
  BY NobodyPending
<1>3. \A s \in Active' : xid'[s] = xid[s]
  BY <1>1 DEF Free, End, XidWithout, Active
<1>4. IdsUnique'
  BY <1>1, <1>2, <1>3 DEF IdsInv, IdsUnique
<1> QED BY <1>1, <1>2, <1>3, <1>4 DEF IdsInv

LEMMA IdsEmptied ==
  ASSUME Base, IdsInv, Emptied
  PROVE  /\ IdsUnique' /\ Active' = {}
         /\ pc # "requests" => Pending' = {}
<1>1. LifeOK /\ Active' = {} /\ Pending' = Pending
  BY EmptyEffect DEF Emptied, Base
<1>2. pc # "requests" => Pending = {}
  BY NobodyPending DEF Emptied, Base, MessagesOK
<1>3. \A s \in Pending : xid'[s] = xid[s]
  BY <1>1 DEF Emptied, RemoveAll, End, XidWithout, AllShreds, Active, Pending
<1>4. IdsUnique'
  BY <1>1, <1>3 DEF IdsInv, IdsUnique
<1> QED BY <1>1, <1>2, <1>4

LEMMA IdsReplaced ==
  ASSUME Base, IdsInv, Replaced
  PROVE  /\ IdsUnique' /\ \A s \in Active' : xid'[s] <= shred_id'
         /\ pc # "requests" => \A s \in Pending' : xid'[s] <= shred_id'
<1>1. PICK k \in Ids, s \in Active :
        /\ xid[s] = k /\ made' \in Shred /\ made' \notin Active \cup Pending
        /\ Active' = (Active \ Family(s)) \cup {made'} /\ Pending' = Pending
        /\ xid' = [XidWithout(Family(s)) EXCEPT ![made'] = k]
        /\ shred_id' = IF k > shred_id THEN k ELSE shred_id
  BY ReplaceEffect
<1>2. s \in Family(s) /\ Family(s) \subseteq Active /\ LifeOK
  BY FamilyActive DEF Base
<1>3. Family(s) \cap Pending = {}
  BY <1>2 DEF Active, Pending
<1>4. /\ xid'[made'] = k
      /\ \A t \in (Active \ Family(s)) \cup Pending : xid'[t] = xid[t] /\ t # s
  BY <1>1, <1>2, <1>3 DEF XidWithout, Active, Pending
<1>5. /\ k \in Nat /\ k # 0 /\ shred_id \in Nat
      /\ \A t \in Active \cup Pending : xid[t] \in Nat
  BY <1>2, ConstantsAssumption DEF LifeOK, Active, Pending, ConstantsAssumption, Ids
<1>6. \A t \in (Active \ Family(s)) \cup Pending : xid'[t] # k /\ xid'[t] # 0
  BY <1>1, <1>4 DEF IdsInv, IdsUnique
<1>7. IdsUnique'
  <2>1. ASSUME NEW t \in (Active \ Family(s)) \cup Pending,
               NEW u \in (Active \ Family(s)) \cup Pending, xid'[t] = xid'[u]
        PROVE  t = u
    BY <1>4, <2>1 DEF IdsInv, IdsUnique
  <2> QED BY <1>1, <1>4, <1>5, <1>6, <2>1 DEF IdsUnique
<1>8. shred_id' \in Nat /\ shred_id <= shred_id' /\ k <= shred_id'
  BY <1>1, <1>5
<1>9. \A t \in Active \cup Pending : xid[t] <= shred_id
  BY DEF IdsInv, Replaced
<1>10. \A t \in (Active \ Family(s)) \cup Pending : xid'[t] <= shred_id'
  BY <1>4, <1>5, <1>8, <1>9
<1> QED BY <1>1, <1>4, <1>7, <1>8, <1>10

LEMMA IdsStep ==
  ASSUME Base, Base', IdsInv, Effect, PhaseStep
  PROVE  IdsInv'
<1>1. ASSUME IdsUnique', \A s \in Active' : xid'[s] <= shred_id',
             pc # "requests" => \A s \in Pending' : xid'[s] <= shred_id'
      PROVE  IdsInv'
  <2>1. CASE pc # "requests"
    BY <1>1, <2>1 DEF IdsInv
  <2>2. CASE pc = "requests" /\ pc' # "requests"
    <3>1. requests' = <<>> /\ pc' = "shreds"
      BY <2>2 DEF PhaseStep
    <3>2. Pending' = {}
      <4>1. 1 .. Len(requests') = {}
        BY <3>1, EmptySeq
      <4> QED BY <4>1 DEF Base, QueueSound
    <3> QED BY <1>1, <3>2 DEF IdsInv
  <2>3. CASE pc' = "requests"
    BY <1>1, <2>3 DEF IdsInv
  <2> QED BY <2>1, <2>2, <2>3
<1>2. CASE Keep \/ Moved \/ Counted \/ Turned
  BY <1>1, <1>2, IdsKept
<1>3. CASE Sporked
  BY <1>1, <1>3, IdsSporked
<1>4. CASE Evaluated
  BY <1>1, <1>4, IdsEvaluated
<1>5. CASE Started
  BY <1>1, <1>5, IdsStarted DEF Started
<1>6. CASE Ended
  <2>1. PICK F \in SUBSET Active : Free(F)
    BY <1>6, FamilyActive DEF Ended
  <2> QED BY <1>1, <1>6, <2>1, IdsEnded DEF Ended
<1>7. CASE Emptied
  BY <1>1, <1>7, IdsEmptied
<1>8. CASE Replaced
  BY <1>1, <1>8, IdsReplaced
<1> QED BY <1>2, <1>3, <1>4, <1>5, <1>6, <1>7, <1>8 DEF Effect

(* The ids' inductive invariant: the counter is not below an id in use,    *)
(* but while requests are handled and shreds that have one wait behind.    *)
THEOREM IdsInvariant == Spec => [](Base /\ IdsInv)
<1>1. Init => Base /\ IdsInv
  <2>1. ASSUME Init PROVE Active = {} /\ Pending = {}
    BY <2>1 DEF Init, Active, Pending
  <2> QED BY <2>1, BaseInit DEF IdsInv, IdsUnique
<1>2. Base /\ IdsInv /\ [Next]_vars => (Base /\ IdsInv)'
  BY BaseStep, Effects, Phases, IdsStep
<1> QED BY <1>1, <1>2, PTL DEF Spec

(* No two shreds that run or wait to be sporked have the same id, though   *)
(* the counter goes back when the last shred ends, with removeall, clear   *)
(* and reset id.                                                           *)
THEOREM IdsCorrect == Spec => []IdsUnique
<1>1. IdsInv => IdsUnique
  BY DEF IdsInv
<1> QED BY <1>1, IdsInvariant, PTL

-----------------------------------------------------------------------------
(* The replies. *)

(* Somebody of S has the id. *)
Has(S, k) == \E s \in S : xid[s] = k

LEMMA FarewellsTell ==
  ASSUME IdsUnique, NEW F \in SUBSET Active, NEW k \in Ids
  PROVE  Farewells(F, k) = IF Has(F, k) THEN 1 ELSE 0
<1> DEFINE S == {s \in F : xid[s] = k}
<1>1. CASE Has(F, k)
  <2>1. PICK s \in F : xid[s] = k
    BY <1>1 DEF Has
  <2>2. S = {s}
    BY <2>1 DEF IdsUnique
  <2> QED BY <1>1, <2>2, FS_Singleton DEF Farewells
<1>2. CASE ~Has(F, k)
  <2>1. S = {}
    BY <1>2 DEF Has
  <2> QED BY <1>2, <2>1, FS_EmptySet DEF Farewells
<1> QED BY <1>1, <1>2

(* When shreds end the replies tell who is left. *)
LEMMA RepliesAfterEnd ==
  ASSUME LifeOK, IdsUnique, RepliesTell, NEW F \in SUBSET Active, NEW k \in Ids
  PROVE  BalanceWithout(F)[k] = IF Has(Active \ F, k) THEN 1 ELSE 0
<1>1. BalanceWithout(F)[k] = balance[k] - Farewells(F, k)
  BY DEF BalanceWithout
<1>2. Farewells(F, k) = IF Has(F, k) THEN 1 ELSE 0
  BY FarewellsTell
<1>3. balance[k] = IF Has(Active, k) THEN 1 ELSE 0
  BY DEF RepliesTell, WithId, Has
<1>4. Has(F, k) => Has(Active, k) /\ ~Has(Active \ F, k)
  BY DEF Has, IdsUnique
<1>5. ~Has(F, k) => (Has(Active, k) <=> Has(Active \ F, k))
  BY DEF Has
<1> QED BY <1>1, <1>2, <1>3, <1>4, <1>5

LEMMA RepliesMeaning ==
  RepliesTell <=> \A k \in Ids : balance[k] = IF Has(Active, k) THEN 1 ELSE 0
BY DEF RepliesTell, WithId, Has

LEMMA RepliesStep ==
  ASSUME Base, IdsInv, RepliesTell, Effect
  PROVE  RepliesTell'
<1>1. LifeOK /\ IdsUnique /\ \A k \in Ids : balance[k] = IF Has(Active, k) THEN 1 ELSE 0
  BY RepliesMeaning DEF Base, IdsInv
<1> SUFFICES ASSUME NEW k \in Ids
             PROVE  balance'[k] = IF \E s \in Active' : xid'[s] = k THEN 1 ELSE 0
  BY DEF RepliesTell, WithId
<1>2. CASE Keep \/ Moved \/ Counted \/ Turned
  BY <1>1, <1>2, KeepEffect DEF Has
<1>3. ASSUME NEW n \in Ids, NEW new, ~Has(Active, n),
             balance' = [balance EXCEPT ![n] = @ + 1],
             Active' = Active \cup {new}, xid'[new] = n,
             \A s \in Active : xid'[s] = xid[s]
      PROVE  balance'[k] = IF \E s \in Active' : xid'[s] = k THEN 1 ELSE 0
  <2>1. CASE k = n
    BY <1>1, <1>3, <2>1 DEF LifeOK
  <2>2. CASE k # n
    <3>1. balance'[k] = balance[k]
      BY <1>1, <1>3, <2>2 DEF LifeOK
    <3>2. (\E s \in Active' : xid'[s] = k) <=> Has(Active, k)
      BY <1>3, <2>2 DEF Has
    <3> QED BY <1>1, <3>1, <3>2
  <2> QED BY <2>1, <2>2
<1>4. CASE Sporked
  <2>1. ASSUME NEW s \in Active PROVE ancestors[s] \cup {s} \in SUBSET Shred
    BY <1>1 DEF LifeOK, Active
  <2>2. PICK P \in SUBSET Shred : Spork(P)
    BY <1>4, <2>1 DEF Sporked
  <2>3. Active' = Active \cup {made'} /\ made' \in Shred /\ made' \notin Active
    BY <1>1, <2>2, SporkEffect, MakeNew DEF Spork
  <2>4. /\ shred_id' \in Ids /\ shred_id' = shred_id + 1 /\ shred_id \in Nat
        /\ balance' = [balance EXCEPT ![shred_id'] = @ + 1]
        /\ xid' = [xid EXCEPT ![made'] = shred_id']
    BY <1>1, <2>2, ConstantsAssumption DEF Spork, LifeOK, ConstantsAssumption, Ids
  <2>5. xid'[made'] = shred_id' /\ \A s \in Active : xid'[s] = xid[s]
    BY <1>1, <2>3, <2>4 DEF LifeOK, Active
  <2>6. ~Has(Active, shred_id')
    BY <1>1, <2>4, ConstantsAssumption DEF Has, IdsInv, LifeOK, Active, ConstantsAssumption
  <2> QED BY <1>3, <2>3, <2>4, <2>5, <2>6
<1>5. CASE Evaluated
  <2>1. Active' = Active /\ made' \notin Active /\ balance' = balance
    BY <1>1, <1>5, EvalEffect, MakeNew DEF Evaluated
  <2>2. \A s \in Active : xid'[s] = xid[s]
    BY <1>1, <1>5, <2>1 DEF Evaluated, LifeOK, Active
  <2> QED BY <1>1, <2>1, <2>2 DEF Has
<1>6. CASE Started
  <2>1. PICK s \in Pending :
          /\ s \notin Active /\ s \in Shred /\ Active' = Active \cup {s}
          /\ balance' = [balance EXCEPT ![xid[s]] = @ + 1] /\ xid' = xid
    BY <1>6, StartEffect
  <2>2. xid[s] \in Ids
    BY <1>1, <2>1, ConstantsAssumption DEF LifeOK, IdsUnique, Ids, ConstantsAssumption
  <2>3. ~Has(Active, xid[s])
    BY <1>1, <2>1 DEF Has, IdsUnique
  <2> QED BY <1>3, <2>1, <2>2, <2>3
<1>7. CASE Ended
  <2>1. PICK F \in SUBSET Active : Free(F)
    BY <1>7, FamilyActive DEF Ended
  <2>2. Active' = Active \ F /\ balance' = BalanceWithout(F) /\ xid' = XidWithout(F)
    BY <2>1, FreeEffect DEF Free, End
  <2>3. \A s \in Active' : xid'[s] = xid[s]
    BY <2>2 DEF XidWithout, Active
  <2>4. BalanceWithout(F)[k] = IF Has(Active \ F, k) THEN 1 ELSE 0
    BY <1>1, RepliesAfterEnd
  <2>5. (\E s \in Active' : xid'[s] = k) <=> Has(Active \ F, k)
    BY <2>2, <2>3 DEF Has
  <2> QED BY <2>2, <2>4, <2>5
<1>8. CASE Emptied
  <2>1. Active' = {} /\ balance' = BalanceWithout(Active)
    BY <1>8, EmptyEffect DEF Emptied, RemoveAll, End, AllShreds
  <2>2. BalanceWithout(Active)[k] = IF Has(Active \ Active, k) THEN 1 ELSE 0
    BY <1>1, RepliesAfterEnd
  <2>3. ~Has(Active \ Active, k)
    BY DEF Has
  <2> QED BY <2>1, <2>2, <2>3
<1>9. CASE Replaced
  <2>1. PICK n \in Ids, s \in Active :
          /\ xid[s] = n /\ made' \in Shred /\ made' \notin Active \cup Pending
          /\ Active' = (Active \ Family(s)) \cup {made'}
          /\ xid' = [XidWithout(Family(s)) EXCEPT ![made'] = n]
          /\ balance' = [BalanceWithout(Family(s)) EXCEPT ![n] = @ + 1]
    BY <1>9, ReplaceEffect
  <2>2. s \in Family(s) /\ Family(s) \in SUBSET Active
    BY FamilyActive
  <2>3. ~Has(Active \ Family(s), n)
    BY <1>1, <2>1, <2>2 DEF Has, IdsUnique
  <2>4. /\ xid'[made'] = n
        /\ \A t \in Active \ Family(s) : xid'[t] = xid[t]
    BY <2>1 DEF XidWithout, Active
  <2>5. BalanceWithout(Family(s))[k] = IF Has(Active \ Family(s), k) THEN 1 ELSE 0
    BY <1>1, <2>2, RepliesAfterEnd
  <2>6. BalanceWithout(Family(s)) \in [Ids -> Int]
    BY <1>1, <2>2, EndOfSet
  <2>7. CASE k = n
    <3>1. balance'[k] = 1
      BY <2>1, <2>3, <2>5, <2>6, <2>7
    <3>2. \E t \in Active' : xid'[t] = k
      BY <2>1, <2>4, <2>7
    <3> QED BY <3>1, <3>2
  <2>8. CASE k # n
    <3>1. balance'[k] = BalanceWithout(Family(s))[k]
      BY <2>1, <2>6, <2>8
    <3>2. (\E t \in Active' : xid'[t] = k) <=> Has(Active \ Family(s), k)
      BY <2>1, <2>4, <2>8 DEF Has
    <3> QED BY <2>5, <3>1, <3>2
  <2> QED BY <2>7, <2>8
<1> QED BY <1>2, <1>4, <1>5, <1>6, <1>7, <1>8, <1>9 DEF Effect

(* The replies shred add and shred remove tell which ids are running, one  *)
(* add and one remove for each, through replaced, removed and ended shreds *)
(* and all that descend from them.                                         *)
THEOREM RepliesCorrect == Spec => []RepliesTell
<1>1. Init => RepliesTell
  <2>1. ASSUME Init PROVE Active = {}
    BY <2>1 DEF Init, Active
  <2> QED BY <2>1 DEF Init, RepliesTell, WithId
<1>2. Base /\ IdsInv /\ RepliesTell /\ [Next]_vars => RepliesTell'
  BY Effects, RepliesStep
<1> QED BY <1>1, <1>2, IdsInvariant, PTL DEF Spec

-----------------------------------------------------------------------------
(* Families.  Ancestors are shreds made before, with all of theirs, and a  *)
(* shred that waits to be sporked has none.                                *)
FamilyInv ==
  /\ NoOrphans
  /\ \A s \in Pending : ancestors[s] = {}
  /\ \A s \in Shred : \A a \in ancestors[s] : a <= made /\ ancestors[a] \subseteq ancestors[s]

(* A family leaves nobody behind. *)
LEMMA FamilyComplete ==
  ASSUME LifeOK, FamilyInv, NEW s \in Active, NEW t \in Active \ Family(s)
  PROVE  ancestors[t] \subseteq Active \ Family(s)
<1> SUFFICES ASSUME NEW a \in ancestors[t] PROVE a \in Active /\ a \notin Family(s)
  OBVIOUS
<1>1. a \in Active /\ ancestors[a] \subseteq ancestors[t]
  BY DEF FamilyInv, NoOrphans, Active
<1>2. t # s /\ s \notin ancestors[t]
  BY DEF Family
<1> QED BY <1>1, <1>2 DEF Family

(* The newly made shred is nobody's ancestor. *)
LEMMA MadeFamily ==
  ASSUME LifeOK, FamilyInv, NEW P \in SUBSET Shred, Make(P),
         \A a \in P : a <= made /\ ancestors[a] \subseteq P
  PROVE  /\ \A s \in Shred : s # made' => ancestors'[s] = ancestors[s]
         /\ ancestors'[made'] = P
         /\ \A s \in Shred : \A a \in ancestors'[s] :
              a <= made' /\ ancestors'[a] \subseteq ancestors'[s]
<1>1. made' = made + 1 /\ made' \in Shred /\ made \in Nat
  BY MakeNew, ConstantsAssumption DEF LifeOK, ConstantsAssumption
<1>2. ancestors' = [ancestors EXCEPT ![made'] = P] /\ ancestors \in [Shred -> SUBSET Shred]
  BY DEF Make, LifeOK
<1>3. /\ \A s \in Shred : s # made' => ancestors'[s] = ancestors[s]
      /\ ancestors'[made'] = P
  BY <1>1, <1>2
<1>4. ASSUME NEW s \in Shred, NEW a \in ancestors'[s]
      PROVE  a \in Shred /\ a <= made /\ ancestors[a] \subseteq ancestors'[s]
  BY <1>1, <1>2, <1>3, <1>4 DEF FamilyInv
<1>5. ASSUME NEW s \in Shred, NEW a \in ancestors'[s]
      PROVE  a <= made' /\ ancestors'[a] \subseteq ancestors'[s]
  <2>1. a \in Nat /\ a # made' /\ a <= made'
    BY <1>1, <1>4 DEF Shred
  <2> QED BY <1>3, <1>4, <2>1
<1> QED BY <1>3, <1>5

LEMMA FamilyStep ==
  ASSUME Base, FamilyInv, Effect
  PROVE  FamilyInv'
<1>1. LifeOK /\ Active \subseteq Shred /\ Pending \subseteq Shred
  BY DEF Base, Active, Pending
<1>2. CASE Keep \/ Moved \/ Counted \/ Turned
  BY <1>2, KeepEffect DEF FamilyInv, NoOrphans
<1>3. CASE Sporked
  <2>1. ASSUME NEW c \in Active
        PROVE  /\ ancestors[c] \cup {c} \in SUBSET Shred
               /\ ancestors[c] \cup {c} \subseteq Active
               /\ \A a \in ancestors[c] \cup {c} :
                    a <= made /\ ancestors[a] \subseteq ancestors[c] \cup {c}
    <3>1. c \in Shred /\ ~(c > made) /\ made \in Nat
      BY <1>1, ConstantsAssumption DEF LifeOK, Active, ConstantsAssumption
    <3>2. c <= made
      BY <3>1 DEF Shred
    <3> QED BY <1>1, <3>1, <3>2 DEF FamilyInv, NoOrphans, LifeOK
  <2>2. PICK P \in SUBSET Shred :
          /\ Spork(P) /\ P \subseteq Active
          /\ \A a \in P : a <= made /\ ancestors[a] \subseteq P
    <3>1. CASE Spork({})
      <4>1. {} \in SUBSET Shred /\ {} \subseteq Active /\ \A a \in {} : a <= made
        OBVIOUS
      <4> QED BY <3>1, <4>1
    <3>2. ASSUME NEW s \in Active, Spork(ancestors[s] \cup {s})
          PROVE  \E P \in SUBSET Shred :
                   /\ Spork(P) /\ P \subseteq Active
                   /\ \A a \in P : a <= made /\ ancestors[a] \subseteq P
      <4>1. ancestors[s] \cup {s} \in SUBSET Shred
        BY <2>1, Zenon
      <4> QED BY <2>1, <3>2, <4>1, Zenon
    <3> QED BY <1>3, <3>1, <3>2 DEF Sporked
  <2>3. Active' = Active \cup {made'} /\ Pending' = Pending /\ made' \notin Active \cup Pending
    BY <1>1, <2>2, SporkEffect, MakeNew DEF Spork
  <2>4. /\ \A s \in Shred : s # made' => ancestors'[s] = ancestors[s]
        /\ ancestors'[made'] = P
        /\ \A s \in Shred : \A a \in ancestors'[s] :
             a <= made' /\ ancestors'[a] \subseteq ancestors'[s]
    BY <1>1, <2>2, MadeFamily DEF Spork
  <2>5. NoOrphans'
    BY <1>1, <2>2, <2>3, <2>4 DEF FamilyInv, NoOrphans
  <2>6. \A s \in Pending' : ancestors'[s] = {}
    BY <1>1, <2>3, <2>4 DEF FamilyInv
  <2> QED BY <2>4, <2>5, <2>6 DEF FamilyInv
<1>4. CASE Evaluated
  <2>1. Active' = Active /\ Pending' \subseteq Pending \cup {made'} /\ made' \notin Active \cup Pending
    BY <1>1, <1>4, EvalEffect, MakeNew DEF Evaluated
  <2>2. /\ \A s \in Shred : s # made' => ancestors'[s] = ancestors[s]
        /\ ancestors'[made'] = {}
        /\ \A s \in Shred : \A a \in ancestors'[s] :
             a <= made' /\ ancestors'[a] \subseteq ancestors'[s]
    <3>1. Make({}) /\ {} \in SUBSET Shred
      BY <1>4 DEF Evaluated
    <3> QED BY <1>1, <3>1, MadeFamily
  <2>3. NoOrphans'
    BY <1>1, <2>1, <2>2 DEF FamilyInv, NoOrphans
  <2>4. \A s \in Pending' : ancestors'[s] = {}
    BY <1>1, <2>1, <2>2 DEF FamilyInv
  <2> QED BY <2>2, <2>3, <2>4 DEF FamilyInv
<1>5. CASE Started
  <2>1. PICK s \in Pending :
          Active' = Active \cup {s} /\ Pending' = Pending \ {s} /\ UNCHANGED births
    BY <1>5, StartEffect
  <2> QED BY <1>1, <2>1 DEF FamilyInv, NoOrphans, births
<1>6. CASE Ended
  <2>1. CASE Free({})
    <3>1. Active' = Active /\ Pending' = Pending /\ UNCHANGED births
      BY <2>1, FreeEffect DEF Free
    <3> QED BY <3>1 DEF FamilyInv, NoOrphans, births
  <2>2. ASSUME NEW s \in Active, Free(Family(s)) PROVE FamilyInv'
    <3>1. Active' = Active \ Family(s) /\ Pending' = Pending /\ UNCHANGED births
      BY <2>2, FreeEffect, FamilyActive DEF Free
    <3>2. \A t \in Active \ Family(s) : ancestors[t] \subseteq Active \ Family(s)
      BY <1>1, FamilyComplete
    <3> QED BY <3>1, <3>2 DEF FamilyInv, NoOrphans, births
  <2> QED BY <1>6, <2>1, <2>2 DEF Ended
<1>7. CASE Emptied
  <2>1. Active' = {} /\ Pending' = Pending /\ UNCHANGED births
    BY <1>7, EmptyEffect DEF Emptied, RemoveAll
  <2> QED BY <2>1 DEF FamilyInv, NoOrphans, births
<1>8. CASE Replaced
  <2>1. PICK s \in Active :
          /\ made' \in Shred /\ made' \notin Active \cup Pending
          /\ Active' = (Active \ Family(s)) \cup {made'} /\ Pending' = Pending
    BY <1>8, ReplaceEffect
  <2>2. /\ \A t \in Shred : t # made' => ancestors'[t] = ancestors[t]
        /\ ancestors'[made'] = {}
        /\ \A t \in Shred : \A a \in ancestors'[t] :
             a <= made' /\ ancestors'[a] \subseteq ancestors'[t]
    <3>1. Make({}) /\ {} \in SUBSET Shred
      BY <1>8 DEF Replaced
    <3> QED BY <1>1, <3>1, MadeFamily
  <2>3. \A t \in Active \ Family(s) : ancestors[t] \subseteq Active \ Family(s)
    BY <1>1, FamilyComplete
  <2>4. NoOrphans'
    BY <1>1, <2>1, <2>2, <2>3 DEF NoOrphans
  <2>5. \A t \in Pending' : ancestors'[t] = {}
    BY <1>1, <2>1, <2>2 DEF FamilyInv
  <2> QED BY <2>2, <2>4, <2>5 DEF FamilyInv
<1> QED BY <1>2, <1>3, <1>4, <1>5, <1>6, <1>7, <1>8 DEF Effect

(* No shred outlives the one that sporked it, nor that one's.              *)
THEOREM FamiliesCorrect == Spec => []NoOrphans
<1>1. Init => FamilyInv
  <2>1. ASSUME Init PROVE Active = {} /\ Pending = {}
    BY <2>1 DEF Init, Active, Pending
  <2> QED BY <2>1 DEF Init, FamilyInv, NoOrphans
<1>2. Base /\ FamilyInv /\ [Next]_vars => FamilyInv'
  BY Effects, FamilyStep
<1>3. FamilyInv => NoOrphans
  BY DEF FamilyInv
<1> QED BY <1>1, <1>2, <1>3, BaseInvariant, PTL DEF Spec

-----------------------------------------------------------------------------
(* The order of removals.                                                  *)

\* How far place i is from the reader.
Ahead(i) == IF i >= read_offset THEN i - read_offset ELSE i - read_offset + MsgSize

\* What waits is in order, above what was handled; an overrun makes it start anew.
BufferOrdered ==
  /\ handled <= sent
  /\ \A i \in Places : Ahead(i) < Ahead(write_offset) =>
       handled < buffer[i].no /\ buffer[i].no <= sent
  /\ \A i, j \in Places : Ahead(i) < Ahead(j) /\ Ahead(j) < Ahead(write_offset) =>
       buffer[i].no < buffer[j].no

\* A step leaves the buffer and its offsets, or writes to it, or reads from it.
BufferStep ==
  \/ UNCHANGED <<ring, handled>> /\ sent' \in {sent, sent + 1}
     /\ (pc # "messages" \/ pc' # pc \/ UNCHANGED vars)
  \/ \E op, k : Remove(op, k)
  \/ HandleMessage

LEMMA BufferSteps ==
  ASSUME [Next]_vars
  PROVE  BufferStep
<1> USE DEF BufferStep
<1>1. CASE UNCHANGED vars
  BY <1>1 DEF vars
<1>2. ASSUME NEW cmd, Command(cmd)
      PROVE  sent' = sent + 1 /\ handled' = handled /\ pc = "idle"
  BY <1>2 DEF Command
<1>3. CASE Add \/ Eval \/ Clear \/ Reset \/ ShredsNext \/ Fail
  <2>1. \E cmd : Command(cmd)
    BY <1>3 DEF Add, Eval, Clear, Reset, ShredsNext, Fail
  <2>2. UNCHANGED ring
    BY <1>3 DEF Add, Eval, Clear, Reset, ShredsNext, Fail
  <2> QED BY <1>2, <2>1, <2>2
<1>4. ASSUME NEW k, Replace(k) PROVE BufferStep
  BY <1>2, <1>4 DEF Replace
<1>5. CASE ComputeBegin \/ RequestsDone \/ ShredsDone \/ MessagesDone
  BY <1>5 DEF ComputeBegin, RequestsDone, ShredsDone, MessagesDone
<1>6. CASE HandleRequest
  BY <1>6 DEF HandleRequest
<1>7. ASSUME NEW s, RunShred(s) \/ Wake(s) PROVE BufferStep
  BY <1>7 DEF RunShred, Wake, InCompute
<1>8. ASSUME NEW as, Suspend(as) PROVE BufferStep
  BY <1>8 DEF Suspend, Runs, InCompute
<1>9. CASE Return \/ SporkChild \/ Machine
  BY <1>9 DEF Return, SporkChild, Machine, Runs, InCompute
<1> QED
  BY <1>1, <1>3, <1>4, <1>5, <1>6, <1>7, <1>8, <1>9 DEF Next

LEMMA NextPlaceIs ==
  ASSUME NEW i \in Places
  PROVE  NextPlace(i) = IF i = MsgSize - 1 THEN 0 ELSE i + 1
<1>1. MsgSize \in Nat \ {0} /\ i \in 0 .. MsgSize - 1
  BY ConstantsAssumption DEF ConstantsAssumption, Places
<1>2. CASE i = MsgSize - 1
  BY <1>1, <1>2 DEF NextPlace
<1>3. CASE i # MsgSize - 1
  <2>1. i + 1 \in 0 .. MsgSize - 1
    BY <1>1, <1>3
  <2>2. (i + 1) % MsgSize = i + 1
    BY <1>1, <2>1
  <2> QED BY <1>3, <2>2 DEF NextPlace
<1> QED BY <1>2, <1>3

LEMMA Buffered ==
  ASSUME MessagesOK
  PROVE  /\ MsgSize \in Nat \ {0} /\ Places = 0 .. MsgSize - 1
         /\ read_offset \in Places /\ write_offset \in Places
         /\ sent \in Nat /\ handled \in Nat
         /\ buffer \in [Places -> Messages]
         /\ \A i \in Places : buffer[i].no \in Nat /\ i \in Nat
<1>1. /\ MsgSize \in Nat \ {0} /\ Places = 0 .. MsgSize - 1
      /\ read_offset \in Places /\ write_offset \in Places
      /\ sent \in Nat /\ handled \in Nat
      /\ buffer \in [Places -> Messages]
  BY ConstantsAssumption DEF ConstantsAssumption, MessagesOK, Places
<1>2. \A m \in Messages : m.no \in Nat
  BY DEF Messages
<1> QED BY <1>1, <1>2

\* Writing puts the newest behind all that wait, or in an overrun leaves none.
LEMMA OrderAfterWrite ==
  ASSUME MessagesOK, BufferOrdered, NEW op, NEW k, Remove(op, k)
  PROVE  BufferOrdered'
<1>0. PICK w \in Places : w = write_offset
  BY Buffered
<1> DEFINE m == [op |-> op, id |-> k, no |-> sent', made |-> made]
<1>1. /\ sent' = sent + 1 /\ UNCHANGED <<read_offset, handled>>
      /\ buffer' = [buffer EXCEPT ![w] = m]
      /\ write_offset' = NextPlace(w)
  BY <1>0 DEF Remove, Command
<1>2. /\ MsgSize \in Nat \ {0} /\ Places = 0 .. MsgSize - 1
      /\ read_offset \in Places /\ w \in Places /\ sent \in Nat /\ handled \in Nat
      /\ buffer \in [Places -> Messages]
      /\ \A i \in Places : buffer[i].no \in Nat /\ i \in Nat
  BY Buffered
<1>3. write_offset' = IF w = MsgSize - 1 THEN 0 ELSE w + 1
  BY <1>1, <1>2, NextPlaceIs
<1>4. \A i \in Places : buffer'[i].no = IF i = w THEN sent + 1 ELSE buffer[i].no
  BY <1>1, <1>2
<1>5. ASSUME NEW i \in Places
      PROVE  Ahead(i)' = Ahead(i) /\ Ahead(i) \in 0 .. MsgSize - 1
  BY <1>1, <1>2 DEF Ahead
<1>6. ASSUME NEW i \in Places, Ahead(i)' < Ahead(write_offset)'
      PROVE  i = w \/ Ahead(i) < Ahead(w)
  BY <1>1, <1>0, <1>2, <1>3, <1>6 DEF Ahead
<1>7. \A i \in Places : Ahead(i) < Ahead(w) => i # w
  BY <1>5
<1> HIDE DEF m
<1>8. \A i \in Places : Ahead(i)' < Ahead(write_offset)' =>
        handled < buffer'[i].no /\ buffer'[i].no <= sent + 1
  BY <1>0, <1>2, <1>4, <1>6 DEF BufferOrdered
<1>9. ASSUME NEW i \in Places, NEW j \in Places,
             Ahead(i)' < Ahead(j)', Ahead(j)' < Ahead(write_offset)'
      PROVE  buffer'[i].no < buffer'[j].no
  <2>1. Ahead(i) < Ahead(j)
    BY <1>5, <1>9
  <2>2. j = w \/ Ahead(j) < Ahead(w)
    BY <1>6, <1>9
  <2>3. Ahead(i) < Ahead(w)
    <3>1. PICK x \in Nat, y \in Nat, z \in Nat : x = Ahead(i) /\ y = Ahead(j) /\ z = Ahead(w)
      BY <1>0, <1>2, <1>5
    <3>2. CASE j = w
      BY <2>1, <3>2
    <3>3. CASE j # w
      <4>1. x < y /\ y < z
        BY <2>1, <2>2, <3>1, <3>3
      <4> QED BY <3>1, <4>1
    <3> QED BY <3>2, <3>3
  <2>4. i # w
    BY <1>7, <2>3
  <2>5. CASE j = w
    BY <1>0, <1>2, <1>4, <2>3, <2>4, <2>5 DEF BufferOrdered
  <2>6. CASE j # w
    BY <1>0, <1>4, <2>1, <2>2, <2>3, <2>4, <2>6 DEF BufferOrdered
  <2> QED BY <2>5, <2>6
<1> QED BY <1>1, <1>2, <1>8, <1>9 DEF BufferOrdered

\* Reading takes the oldest of those that wait.
LEMMA OrderAfterRead ==
  ASSUME MessagesOK, BufferOrdered, HandleMessage
  PROVE  BufferOrdered' /\ handled' > handled
<1>0. PICK r \in Places : r = read_offset
  BY Buffered
<1>1. /\ r # write_offset /\ read_offset' = NextPlace(r) /\ handled' = buffer[r].no
      /\ UNCHANGED <<buffer, write_offset, sent>>
  BY <1>0 DEF HandleMessage, ReadOn
<1>2. /\ MsgSize \in Nat \ {0} /\ Places = 0 .. MsgSize - 1
      /\ r \in Places /\ write_offset \in Places /\ sent \in Nat /\ handled \in Nat
      /\ \A i \in Places : buffer[i].no \in Nat /\ i \in Nat
  BY Buffered
<1>3. read_offset' = IF r = MsgSize - 1 THEN 0 ELSE r + 1
  BY <1>1, <1>2, NextPlaceIs
<1>4. Ahead(r) = 0 /\ \A i \in Places : i # r => Ahead(i) > 0 /\ Ahead(i)' = Ahead(i) - 1
                                              /\ Ahead(i) \in Nat
  BY <1>0, <1>2, <1>3 DEF Ahead
<1>5. Ahead(r)' = MsgSize - 1 /\ \A i \in Places : Ahead(i) \in 0 .. MsgSize - 1
  BY <1>0, <1>2, <1>3 DEF Ahead
<1>6. Ahead(write_offset)' = Ahead(write_offset) - 1 /\ Ahead(write_offset) > 0
  BY <1>0, <1>1, <1>2, <1>4 DEF Ahead
<1>7. handled < buffer[r].no /\ buffer[r].no <= sent
  BY <1>2, <1>4, <1>6 DEF BufferOrdered
<1>8. ASSUME NEW i \in Places, Ahead(i)' < Ahead(write_offset)'
      PROVE  i # r /\ Ahead(i) < Ahead(write_offset) /\ Ahead(r) < Ahead(i)
  <2>1. PICK y \in Nat : y = Ahead(write_offset)
    BY <1>2, <1>5
  <2>2. y <= MsgSize - 1 /\ Ahead(i)' < y - 1
    BY <1>0, <1>2, <1>5, <1>6, <1>8, <2>1
  <2>3. i # r
    BY <1>2, <1>5, <2>2
  <2>4. PICK x \in Nat : x = Ahead(i)
    BY <1>4, <2>3
  <2>5. x > 0 /\ x - 1 < y - 1
    BY <1>4, <2>2, <2>3, <2>4
  <2>6. x < y
    BY <2>5
  <2> QED BY <1>4, <2>1, <2>3, <2>4, <2>5, <2>6
<1>9. \A i \in Places : Ahead(i)' < Ahead(write_offset)' =>
        buffer[r].no < buffer[i].no /\ buffer[i].no <= sent
  BY <1>2, <1>8 DEF BufferOrdered
<1>10. ASSUME NEW i \in Places, NEW j \in Places,
              Ahead(i)' < Ahead(j)', Ahead(j)' < Ahead(write_offset)'
       PROVE  buffer[i].no < buffer[j].no
  <2>1. j # r /\ Ahead(j) < Ahead(write_offset)
    BY <1>8, <1>10
  <2>2. i # r
    BY <1>2, <1>4, <1>5, <1>10, <2>1
  <2>3. Ahead(i) < Ahead(j)
    BY <1>4, <1>10, <2>1, <2>2
  <2> QED BY <2>1, <2>3 DEF BufferOrdered
<1> QED BY <1>1, <1>2, <1>7, <1>9, <1>10 DEF BufferOrdered

LEMMA OrderStep ==
  ASSUME MessagesOK, BufferOrdered, [Next]_vars
  PROVE  BufferOrdered'
<1>1. CASE UNCHANGED <<ring, handled>> /\ sent' \in {sent, sent + 1}
  <2>1. UNCHANGED <<read_offset, write_offset, buffer, handled>>
    BY <1>1 DEF ring
  <2>2. \A i \in Places : buffer[i].no \in Nat /\ sent \in Nat /\ handled \in Nat
    BY Buffered
  <2>3. handled <= sent'
    BY <1>1, Buffered DEF BufferOrdered
  <2> QED BY <1>1, <2>1, <2>2, <2>3 DEF BufferOrdered, Ahead
<1> QED BY <1>1, BufferSteps, OrderAfterWrite, OrderAfterRead DEF BufferStep

(* Removals are handled in the order they were sent, none twice, in a      *)
(* buffer of any size that is written without a look at whether it is      *)
(* full: an overrun loses removals but does not bring back old ones.       *)
THEOREM RemovalsInOrder == Spec => HandledInOrder
<1>1. Init => BufferOrdered
  <2> SUFFICES ASSUME Init PROVE BufferOrdered
    OBVIOUS
  <2>1. \A i \in Places : ~(Ahead(i) < Ahead(write_offset))
    BY ConstantsAssumption DEF Init, Ahead, Places, ConstantsAssumption
  <2> QED BY <2>1 DEF Init, BufferOrdered
<1>2. Base /\ BufferOrdered /\ [Next]_vars => BufferOrdered'
  BY OrderStep DEF Base
<1>3. Base /\ BufferOrdered /\ [Next]_vars
        => [pc = "messages" /\ pc' = pc => handled' > handled]_vars
  <2>1. ASSUME NEW op, NEW k, Remove(op, k) PROVE pc = "idle"
    BY <2>1 DEF Remove, Command
  <2> QED BY <2>1, BufferSteps, OrderAfterRead DEF BufferStep, Base
<1> QED BY <1>1, <1>2, <1>3, BaseInvariant, PTL DEF Spec, HandledInOrder
=============================================================================
