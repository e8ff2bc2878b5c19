---------------------------- MODULE HostIn_proofs ----------------------------
(***************************************************************************)
(* Theorems about HostIn, for every number of shreds, HostIns, names and   *)
(* messages and every size of queue.                                       *)
(***************************************************************************)
EXTENDS HostIn, SequenceTheorems, TLAPS

(* What recv and msg do to a queue. *)
LEMMA QueueSteps ==
  ASSUME NEW S, NEW q \in Seq(S), NEW e \in S
  PROVE  /\ Append(q, e) \in Seq(S)
         /\ Len(Append(q, e)) = Len(q) + 1
         /\ \A i \in 1 .. Len(q) : Append(q, e)[i] = q[i]
         /\ Append(q, e)[Len(q) + 1] = e
         /\ q # <<>> => /\ Len(q) > 0
                        /\ Head(q) = q[1] /\ Head(q) \in S
                        /\ Tail(q) \in Seq(S) /\ Len(Tail(q)) = Len(q) - 1
                        /\ \A i \in 1 .. Len(q) - 1 : Tail(q)[i] = q[i + 1]
<1>1. /\ Append(q, e) \in Seq(S)
      /\ Len(Append(q, e)) = Len(q) + 1
      /\ \A i \in 1 .. Len(q) : Append(q, e)[i] = q[i]
      /\ Append(q, e)[Len(q) + 1] = e
  BY AppendProperties
<1>2. ASSUME q # <<>>
      PROVE  /\ Len(q) > 0
             /\ Head(q) = q[1] /\ Head(q) \in S
             /\ Tail(q) \in Seq(S) /\ Len(Tail(q)) = Len(q) - 1
             /\ \A i \in 1 .. Len(q) - 1 : Tail(q)[i] = q[i + 1]
  <2>1. /\ Tail(q) \in Seq(S) /\ Len(Tail(q)) = Len(q) - 1
        /\ \A i \in 1 .. Len(Tail(q)) : Tail(q)[i] = q[i + 1]
        /\ Head(q) \in S
    BY <1>2, HeadTailProperties
  <2>2. Head(q) = q[1]
    BY <1>2
  <2>3. Len(q) > 0
    BY <1>2, EmptySeq, LenProperties
  <2> QED BY <2>1, <2>2, <2>3
<1> QED BY <1>1, <1>2

-----------------------------------------------------------------------------
(* Why the list is sound: a HostIn in it was made by a shred that has not  *)
(* ended and still reads it, so that whatever ends the shred or the HostIn *)
(* goes through Unregister; and only a HostIn in the list has mail.        *)
Listed ==
  /\ entries = {h \in HostIns : registered[h]}
  /\ \A h \in entries :
       /\ h \in alive
       /\ owner[h] \in Shreds
       /\ shred[owner[h]] # "absent"
       /\ pin[owner[h]] = h

MailIsListed == \A h \in HostIns : pending[h] # <<>> => h \in entries

(* A queue holds messages sent, newer ones after older ones, and all of    *)
(* them newer than what was received.                                      *)
Ordered(q, low, high) ==
  \A i \in 1 .. Len(q) :
    /\ low < q[i] /\ q[i] <= high
    /\ \A j \in 1 .. i - 1 : q[j] < q[i]

QueuesInOrder ==
  \A h \in HostIns : received[h] <= sent /\ Ordered(pending[h], received[h], sent)

-----------------------------------------------------------------------------
(* The lists stay within their types when HostIns are unlisted. *)
LEMMA UnregisterType ==
  ASSUME TypeOK, NEW H, Unregister(H)
  PROVE  /\ entries' \subseteq HostIns
         /\ registered' \in [HostIns -> BOOLEAN]
         /\ pending' \in [HostIns -> Seq(1 .. MaxMsg)]
         /\ \A h \in HostIns : Len(pending'[h]) <= MaxPending
<1> USE ConstantsAssumption DEF ConstantsAssumption
<1>1. entries' \subseteq HostIns
  BY DEF TypeOK, Unregister
<1>2. registered' \in [HostIns -> BOOLEAN]
  BY Zenon DEF TypeOK, Unregister
<1>3. ASSUME NEW h \in HostIns
      PROVE  pending'[h] \in Seq(1 .. MaxMsg) /\ Len(pending'[h]) <= MaxPending
  <2>1. pending'[h] = <<>> \/ pending'[h] = pending[h]
    BY DEF Unregister
  <2>2. <<>> \in Seq(1 .. MaxMsg) /\ Len(<<>>) <= MaxPending
    BY EmptySeq
  <2>3. pending[h] \in Seq(1 .. MaxMsg) /\ Len(pending[h]) <= MaxPending
    BY DEF TypeOK
  <2>4. CASE pending'[h] = <<>>
    BY <2>2, <2>4
  <2>5. CASE pending'[h] = pending[h]
    BY <2>3, <2>5
  <2> QED BY <2>1, <2>4, <2>5
<1>4. pending' = [h \in HostIns |-> pending'[h]]
  BY DEF Unregister
<1> QED BY <1>1, <1>2, <1>3, <1>4

(* A message keeps the queues within their types and their limit. *)
LEMMA MsgType ==
  ASSUME TypeOK, NEW n \in Names, Msg(n)
  PROVE  /\ sent' = sent + 1 /\ sent' \in 1 .. MaxMsg
         /\ pending' \in [HostIns -> Seq(1 .. MaxMsg)]
         /\ \A h \in HostIns : Len(pending'[h]) <= MaxPending
<1> USE ConstantsAssumption DEF ConstantsAssumption
<1>1. sent' = sent + 1 /\ sent' \in 1 .. MaxMsg
  BY DEF TypeOK, Msg
<1>2. ASSUME NEW h \in HostIns
      PROVE  pending'[h] \in Seq(1 .. MaxMsg) /\ Len(pending'[h]) <= MaxPending
  <2>1. pending[h] \in Seq(1 .. MaxMsg) /\ Len(pending[h]) <= MaxPending
    BY DEF TypeOK
  <2>2. CASE h \in Takers(n)
    <3>1. Len(pending[h]) < MaxPending /\ Len(pending[h]) \in Nat
      BY <2>1, <2>2, LenProperties DEF Takers
    <3>2. /\ Append(pending[h], sent') \in Seq(1 .. MaxMsg)
          /\ Len(Append(pending[h], sent')) = Len(pending[h]) + 1
      BY <1>1, <2>1, QueueSteps
    <3>3. pending'[h] = Append(pending[h], sent')
      BY <2>2 DEF Msg
    <3> QED BY <3>1, <3>2, <3>3
  <2>3. CASE h \notin Takers(n)
    BY <2>1, <2>3 DEF Msg
  <2> QED BY <2>2, <2>3
<1>3. pending' = [h \in HostIns |-> pending'[h]]
  BY DEF Msg
<1> QED BY <1>1, <1>2, <1>3

(* recv takes the oldest message out of one queue. *)
LEMMA RecvType ==
  ASSUME TypeOK, NEW s \in Shreds, Recv(s)
  PROVE  /\ pin[s] \in HostIns
         /\ pending[pin[s]] # <<>>
         /\ received' = [received EXCEPT ![pin[s]] = pending[pin[s]][1]]
         /\ pending' = [pending EXCEPT ![pin[s]] = Tail(@)]
         /\ received' \in [HostIns -> 0 .. MaxMsg]
         /\ pending' \in [HostIns -> Seq(1 .. MaxMsg)]
         /\ \A h \in HostIns : Len(pending'[h]) <= MaxPending
<1> USE ConstantsAssumption DEF ConstantsAssumption
<1>1. pin[s] \in HostIns /\ pending[pin[s]] # <<>>
  BY DEF TypeOK, Recv
<1> DEFINE q == pending[pin[s]]
<1>2. q \in Seq(1 .. MaxMsg) /\ Len(q) <= MaxPending
  BY <1>1 DEF TypeOK
<1>3. Len(q) \in Nat
  BY <1>2, LenProperties
<1>4. /\ Head(q) = q[1] /\ Head(q) \in 1 .. MaxMsg
      /\ Tail(q) \in Seq(1 .. MaxMsg) /\ Len(Tail(q)) = Len(q) - 1
  <2>1. Head(q) \in 1 .. MaxMsg
    BY <1>1, <1>2, HeadTailProperties
  <2> QED BY <1>1, <1>2, <2>1, QueueSteps
<1>5. /\ received' = [received EXCEPT ![pin[s]] = q[1]]
      /\ pending' = [pending EXCEPT ![pin[s]] = Tail(@)]
  BY <1>4 DEF Recv
<1> HIDE DEF q
<1>6. received' \in [HostIns -> 0 .. MaxMsg]
  BY <1>1, <1>4, <1>5 DEF TypeOK
<1>7. pending' = [pending EXCEPT ![pin[s]] = Tail(q)]
  BY <1>5 DEF q
<1>8. /\ pending' \in [HostIns -> Seq(1 .. MaxMsg)]
      /\ \A h \in HostIns : Len(pending'[h]) <= MaxPending
  BY <1>1, <1>2, <1>3, <1>4, <1>7 DEF TypeOK
<1> QED BY <1>1, <1>5, <1>6, <1>8 DEF q

(* So do the removals of shreds. *)
LEMMA RemovedType ==
  ASSUME TypeOK, NEW S \in SUBSET Shreds, Removed(S)
  PROVE  TypeOK'
<1>1. UNCHANGED <<objects, pc, sent, received, halted>>
  BY DEF Removed
<1>2. /\ shred' \in [Shreds -> {"absent", "ready", "asleep", "waiting"}]
      /\ pin' \in [Shreds -> HostIns \cup {NULL}]
  BY DEF TypeOK, Removed
<1>3. /\ entries' \subseteq HostIns
      /\ registered' \in [HostIns -> BOOLEAN]
      /\ pending' \in [HostIns -> Seq(1 .. MaxMsg)]
      /\ \A h \in HostIns : Len(pending'[h]) <= MaxPending
  <2>1. Unregister(Owned(S))
    BY DEF Removed
  <2> QED BY <2>1, UnregisterType
<1> QED BY <1>1, <1>2, <1>3 DEF TypeOK, objects

(* Every handler keeps the types. *)
LEMMA NextType ==
  ASSUME TypeOK, [Next]_vars
  PROVE  TypeOK'
<1> USE DEF objects, lists, shreds
<1>1. ASSUME NEW n \in Names, Msg(n) PROVE TypeOK'
  <2>1. shred' \in [Shreds -> {"absent", "ready", "asleep", "waiting"}]
    BY <1>1 DEF TypeOK, Msg, Woken
  <2>2. sent' \in 0 .. MaxMsg
    BY <1>1, MsgType
  <2> QED BY <1>1, <2>1, <2>2, MsgType DEF TypeOK, Msg
<1>2. CASE MsgMalformed
  BY <1>2 DEF TypeOK, MsgMalformed
<1>3. ASSUME NEW s \in Shreds, Add(s) PROVE TypeOK'
  BY <1>3 DEF TypeOK, Add
<1>4. ASSUME NEW S \in SUBSET Shreds, Remove(S) PROVE TypeOK'
  BY <1>4, RemovedType DEF Remove
<1>5. ASSUME NEW s \in Shreds, NEW h \in HostIns, NEW N \in SUBSET Names, New(s, h, N)
      PROVE  TypeOK'
  BY <1>5 DEF TypeOK, New
<1>6. ASSUME NEW s \in Shreds, NEW h \in HostIns, Share(s, h) PROVE TypeOK'
  BY <1>6 DEF TypeOK, Share
<1>7. ASSUME NEW s \in Shreds, Recv(s) PROVE TypeOK'
  <2>1. UNCHANGED <<objects, lists, shreds, pc, sent, halted>>
    BY <1>7 DEF Recv
  <2> QED BY <1>7, <2>1, RecvType DEF TypeOK
<1>8. ASSUME NEW s \in Shreds, RecvNone(s) PROVE TypeOK'
  BY <1>8 DEF TypeOK, RecvNone
<1>9. ASSUME NEW s \in Shreds, Sleep(s) PROVE TypeOK'
  BY <1>9 DEF TypeOK, Sleep
<1>10. ASSUME NEW s \in Shreds, Wake(s) PROVE TypeOK'
  BY <1>10 DEF TypeOK, Wake
<1>11. ASSUME NEW s \in Shreds, Drop(s) PROVE TypeOK'
  <2>1. /\ Unregister({pin[s]})
        /\ alive' \subseteq HostIns
        /\ pin' \in [Shreds -> HostIns \cup {NULL}]
        /\ UNCHANGED <<owner, names, shred, pc, sent, received, halted>>
    BY <1>11 DEF TypeOK, Drop
  <2>2. /\ entries' \subseteq HostIns
        /\ registered' \in [HostIns -> BOOLEAN]
        /\ pending' \in [HostIns -> Seq(1 .. MaxMsg)]
        /\ \A h \in HostIns : Len(pending'[h]) <= MaxPending
    BY <2>1, UnregisterType
  <2> QED BY <2>1, <2>2 DEF TypeOK
<1>12. ASSUME NEW s \in Shreds, End(s) PROVE TypeOK'
  BY <1>12, RemovedType DEF End
<1>13. CASE PerformBegin
  BY <1>13 DEF TypeOK, PerformBegin
<1>14. CASE PerformEnd
  BY <1>14 DEF TypeOK, PerformEnd
<1>15. CASE UNCHANGED vars
  BY <1>15 DEF TypeOK, vars
<1> QED BY <1>1, <1>2, <1>3, <1>4, <1>5, <1>6, <1>7, <1>8, <1>9, <1>10, <1>11, <1>12,
           <1>13, <1>14, <1>15 DEF Next, Loop

(* Before any HostIn is made they hold. *)
LEMMA InitType == Init => TypeOK
<1> SUFFICES ASSUME Init PROVE TypeOK
  OBVIOUS
<1>1. <<>> \in Seq(1 .. MaxMsg) /\ Len(<<>>) <= MaxPending
  BY EmptySeq, ConstantsAssumption DEF ConstantsAssumption
<1>2. registered \in [HostIns -> BOOLEAN] /\ halted \in BOOLEAN
  BY DEF Init
<1>3. sent \in 0 .. MaxMsg /\ received \in [HostIns -> 0 .. MaxMsg]
  BY ConstantsAssumption DEF ConstantsAssumption, Init
<1>4. /\ pending \in [HostIns -> Seq(1 .. MaxMsg)]
      /\ \A h \in HostIns : Len(pending[h]) <= MaxPending
  BY <1>1 DEF Init
<1> QED BY <1>2, <1>3, <1>4 DEF Init, TypeOK

(* Every variable keeps its type; in particular no inbox holds more than   *)
(* PDIN_MAX_PENDING messages, whoever shares it and however it is unlisted.*)
THEOREM TypeCorrect == Spec => []TypeOK
BY InitType, NextType, PTL DEF Spec

-----------------------------------------------------------------------------
(* What unlisting the HostIns of the shreds of S leaves in the list. *)
LEMMA RemovedListed ==
  ASSUME TypeOK, Listed, NEW S \in SUBSET Shreds, Removed(S)
  PROVE  Listed'
<1>1. UNCHANGED <<alive, owner>>
  BY DEF Removed, objects
<1>2. /\ entries' = entries \ Owned(S)
      /\ registered' = [h \in HostIns |-> registered[h] /\ h \notin Owned(S)]
  BY DEF Removed, Unregister
<1>3. entries' = {h \in HostIns : registered'[h]}
  BY <1>2 DEF Listed
<1>4. ASSUME NEW h \in entries'
      PROVE  /\ h \in alive' /\ owner'[h] \in Shreds
             /\ shred'[owner'[h]] # "absent" /\ pin'[owner'[h]] = h
  <2>1. h \in entries /\ owner[h] \notin S
    BY <1>2, <1>4 DEF Owned
  <2>2. owner[h] \in Shreds /\ h \in alive
    BY <2>1 DEF Listed
  <2>3. shred'[owner[h]] = shred[owner[h]] /\ pin'[owner[h]] = pin[owner[h]]
    BY <2>1, <2>2 DEF Removed
  <2> QED BY <1>1, <2>1, <2>2, <2>3 DEF Listed
<1> QED BY <1>3, <1>4 DEF Listed

(* Steps that unlist nothing and keep the creators where they are. *)
LEMMA ListedKept ==
  ASSUME Listed, UNCHANGED <<entries, registered, alive, owner>>,
         \A t \in Shreds : shred[t] # "absent" =>
           shred'[t] # "absent" /\ (pin[t] \in HostIns => pin'[t] = pin[t])
  PROVE  Listed'
<1>1. ASSUME NEW h \in entries
      PROVE  /\ h \in alive /\ owner[h] \in Shreds
             /\ shred'[owner[h]] # "absent" /\ pin'[owner[h]] = h
  BY <1>1 DEF Listed
<1> QED BY <1>1 DEF Listed

(* Every handler leaves on the list only HostIns whose creator is alive. *)
LEMMA NextListed ==
  ASSUME TypeOK, Listed, [Next]_vars
  PROVE  Listed'
<1> USE DEF objects, lists, shreds
<1>1. ASSUME NEW n \in Names, Msg(n) PROVE Listed'
  BY <1>1, ListedKept DEF TypeOK, Msg, Woken
<1>2. CASE MsgMalformed
  BY <1>2, ListedKept DEF MsgMalformed
<1>3. ASSUME NEW s \in Shreds, Add(s) PROVE Listed'
  BY <1>3, ListedKept DEF TypeOK, Add
<1>4. ASSUME NEW S \in SUBSET Shreds, Remove(S) PROVE Listed'
  BY <1>4, RemovedListed DEF Remove
<1>5. ASSUME NEW s \in Shreds, NEW h \in HostIns, NEW N \in SUBSET Names, New(s, h, N)
      PROVE  Listed'
  <2>1. entries' = {g \in HostIns : registered'[g]}
    BY <1>5 DEF TypeOK, New, Listed
  <2>2. ASSUME NEW g \in entries'
        PROVE  /\ g \in alive' /\ owner'[g] \in Shreds
               /\ shred'[owner'[g]] # "absent" /\ pin'[owner'[g]] = g
    <3>1. CASE g = h
      BY <1>5, <3>1 DEF TypeOK, New, Runs
    <3>2. CASE g # h
      <4>1. /\ g \in entries /\ g \in alive /\ owner[g] \in Shreds
            /\ shred[owner[g]] # "absent" /\ pin[owner[g]] = g
        BY <1>5, <2>2, <3>2 DEF New, Listed
      <4>2. owner[g] # s
        BY <1>5, <4>1, ConstantsAssumption DEF ConstantsAssumption, New, TypeOK
      <4> QED BY <1>5, <3>2, <4>1, <4>2 DEF New, TypeOK
    <3> QED BY <3>1, <3>2
  <2> QED BY <2>1, <2>2 DEF Listed
<1>6. ASSUME NEW s \in Shreds, NEW h \in HostIns, Share(s, h) PROVE Listed'
  BY <1>6, ListedKept, ConstantsAssumption DEF ConstantsAssumption, TypeOK, Share
<1>7. ASSUME NEW s \in Shreds, Recv(s) PROVE Listed'
  BY <1>7, ListedKept DEF Recv
<1>8. ASSUME NEW s \in Shreds, RecvNone(s) PROVE Listed'
  BY <1>8, ListedKept DEF TypeOK, RecvNone
<1>9. ASSUME NEW s \in Shreds, Sleep(s) PROVE Listed'
  BY <1>9, ListedKept DEF TypeOK, Sleep
<1>10. ASSUME NEW s \in Shreds, Wake(s) PROVE Listed'
  BY <1>10, ListedKept DEF TypeOK, Wake
<1>11. ASSUME NEW s \in Shreds, Drop(s) PROVE Listed'
  <2>1. /\ entries' = entries \ {pin[s]}
        /\ registered' = [h \in HostIns |-> registered[h] /\ h \notin {pin[s]}]
    BY <1>11 DEF Drop, Unregister
  <2>2. entries' = {g \in HostIns : registered'[g]}
    BY <2>1 DEF Listed
  <2>3. ASSUME NEW g \in entries'
        PROVE  /\ g \in alive' /\ owner'[g] \in Shreds
               /\ shred'[owner'[g]] # "absent" /\ pin'[owner'[g]] = g
    <3>1. /\ g \in alive /\ owner[g] \in Shreds /\ g # pin[s]
          /\ shred[owner[g]] # "absent" /\ pin[owner[g]] = g
      BY <2>1, <2>3 DEF Listed
    <3> QED BY <1>11, <3>1 DEF Drop, TypeOK
  <2> QED BY <2>2, <2>3 DEF Listed
<1>12. ASSUME NEW s \in Shreds, End(s) PROVE Listed'
  BY <1>12, RemovedListed DEF End
<1>13. CASE PerformBegin
  BY <1>13, ListedKept DEF PerformBegin
<1>14. CASE PerformEnd
  BY <1>14, ListedKept DEF PerformEnd
<1>15. CASE UNCHANGED vars
  BY <1>15, ListedKept DEF vars
<1> QED BY <1>1, <1>2, <1>3, <1>4, <1>5, <1>6, <1>7, <1>8, <1>9, <1>10, <1>11, <1>12,
           <1>13, <1>14, <1>15 DEF Next, Loop

(* msg never meets an entry of a HostIn that is gone, or whose creator has *)
(* ended: ListedAreUsable holds for any number of shreds and HostIns and   *)
(* any order of removals, drops and sharing.                               *)
THEOREM ListSound == Spec => []ListedAreUsable
<1>1. Init => TypeOK /\ Listed
  <2>1. Init => Listed
    BY DEF Init, Listed
  <2> QED BY <2>1, InitType
<1>2. TypeOK /\ Listed /\ [Next]_vars => (TypeOK /\ Listed)'
  BY NextType, NextListed
<1>3. Listed => ListedAreUsable
  BY DEF Listed, ListedAreUsable
<1> QED BY <1>1, <1>2, <1>3, PTL DEF Spec

-----------------------------------------------------------------------------
Mail == MailIsListed /\ NoSleeperHasMail

(* Steps that bring no mail, start no wait and list nothing new. *)
LEMMA MailKept ==
  ASSUME TypeOK, Mail, owner' = owner, alive' \subseteq alive,
         \A h \in HostIns : pending'[h] # <<>> =>
           pending[h] # <<>> /\ (h \in entries => h \in entries'),
         \A t \in Shreds : shred'[t] = "waiting" /\ pin'[t] \in HostIns =>
           shred[t] = "waiting" /\ pin[t] = pin'[t]
  PROVE  Mail'
<1>1. MailIsListed'
  BY DEF Mail, MailIsListed
<1>2. ASSUME NEW h \in alive', pending'[h] # <<>>, owner'[h] \in Waiters(h)'
      PROVE  FALSE
  <2>1. h \in HostIns /\ h \in alive
    BY <1>2 DEF TypeOK
  <2>2. owner[h] \in Shreds /\ shred'[owner[h]] = "waiting" /\ pin'[owner[h]] = h
    BY <1>2 DEF Waiters
  <2>3. owner[h] \in Waiters(h)
    BY <2>1, <2>2 DEF Waiters
  <2> QED BY <1>2, <2>1, <2>3 DEF Mail, NoSleeperHasMail
<1> QED BY <1>1, <1>2 DEF Mail, NoSleeperHasMail

(* What removals unlist has no mail afterwards. *)
LEMMA RemovedMail ==
  ASSUME TypeOK, Listed, Mail, NEW S \in SUBSET Shreds, Removed(S)
  PROVE  Mail'
<1>1. owner' = owner /\ alive' = alive
  BY DEF Removed, objects
<1>2. ASSUME NEW h \in HostIns, pending'[h] # <<>>
      PROVE  pending[h] # <<>> /\ (h \in entries => h \in entries')
  BY <1>2 DEF Removed, Unregister, Listed
<1>3. ASSUME NEW t \in Shreds, shred'[t] = "waiting", pin'[t] \in HostIns
      PROVE  shred[t] = "waiting" /\ pin[t] = pin'[t]
  BY <1>3 DEF Removed
<1> QED BY <1>1, <1>2, <1>3, MailKept

(* A message wakes every shred that waits on a HostIn that takes it. *)
LEMMA MsgMail ==
  ASSUME TypeOK, Mail, NEW n \in Names, Msg(n)
  PROVE  Mail'
<1>1. /\ UNCHANGED <<alive, owner, entries, pin>>
      /\ shred' = Woken(Takers(n))
      /\ \A h \in HostIns \ Takers(n) : pending'[h] = pending[h]
  BY DEF Msg, objects, lists
<1>2. MailIsListed'
  <2>1. ASSUME NEW h \in HostIns, pending'[h] # <<>> PROVE h \in entries'
    <3>1. CASE h \in Takers(n)
      BY <1>1, <3>1 DEF Takers
    <3>2. CASE h \notin Takers(n)
      BY <1>1, <2>1, <3>2 DEF Mail, MailIsListed
    <3> QED BY <3>1, <3>2
  <2> QED BY <2>1 DEF MailIsListed
<1>3. ASSUME NEW h \in alive', pending'[h] # <<>>, owner'[h] \in Waiters(h)'
      PROVE  FALSE
  <2>1. h \in HostIns /\ h \in alive
    BY <1>1, <1>3 DEF TypeOK
  <2>2. owner[h] \in Shreds /\ Woken(Takers(n))[owner[h]] = "waiting" /\ pin[owner[h]] = h
    BY <1>1, <1>3 DEF Waiters
  <2>3. owner[h] \in Waiters(h) /\ h \notin Takers(n)
    BY <2>2 DEF Waiters, Woken
  <2>4. pending[h] # <<>>
    BY <1>1, <1>3, <2>1, <2>3
  <2> QED BY <2>1, <2>3, <2>4 DEF Mail, NoSleeperHasMail
<1> QED BY <1>2, <1>3 DEF Mail, NoSleeperHasMail

(* No handler leaves a shred waiting on a HostIn that has mail. *)
LEMMA NextMail ==
  ASSUME TypeOK, Listed, Mail, [Next]_vars
  PROVE  Mail'
<1> USE DEF objects, lists, shreds
<1>1. ASSUME NEW n \in Names, Msg(n) PROVE Mail'
  BY <1>1, MsgMail
<1>2. CASE MsgMalformed
  BY <1>2, MailKept DEF MsgMalformed
<1>3. ASSUME NEW s \in Shreds, Add(s) PROVE Mail'
  BY <1>3, MailKept DEF TypeOK, Add
<1>4. ASSUME NEW S \in SUBSET Shreds, Remove(S) PROVE Mail'
  BY <1>4, RemovedMail DEF Remove
<1>5. ASSUME NEW s \in Shreds, NEW h \in HostIns, NEW N \in SUBSET Names, New(s, h, N)
      PROVE  Mail'
  <2>1. MailIsListed'
    BY <1>5 DEF New, Mail, MailIsListed
  <2>2. pending[h] = <<>>
    BY <1>5, ConstantsAssumption DEF ConstantsAssumption, New, Mail, MailIsListed, Listed
  <2>3. ASSUME NEW g \in alive', pending'[g] # <<>>, owner'[g] \in Waiters(g)'
        PROVE  FALSE
    <3>1. g # h /\ g \in alive
      BY <1>5, <2>2, <2>3 DEF New
    <3>2. owner'[g] = owner[g]
      BY <1>5, <3>1 DEF New, TypeOK
    <3>3. owner[g] \in Shreds /\ shred[owner[g]] = "waiting" /\ pin'[owner[g]] = g
      BY <1>5, <2>3, <3>2 DEF New, Waiters
    <3>4. owner[g] # s
      BY <1>5, <3>3 DEF New, Runs
    <3>5. owner[g] \in Waiters(g)
      BY <1>5, <3>3, <3>4 DEF New, TypeOK, Waiters
    <3> QED BY <1>5, <2>3, <3>1, <3>5 DEF New, Mail, NoSleeperHasMail
  <2> QED BY <2>1, <2>3 DEF Mail, NoSleeperHasMail
<1>6. ASSUME NEW s \in Shreds, NEW h \in HostIns, Share(s, h) PROVE Mail'
  <2>1. MailIsListed'
    BY <1>6 DEF Share, Mail, MailIsListed
  <2>2. ASSUME NEW g \in alive', pending'[g] # <<>>, owner'[g] \in Waiters(g)'
        PROVE  FALSE
    <3>1. g \in alive /\ g \in HostIns /\ pending[g] # <<>> /\ owner'[g] = owner[g]
      BY <1>6, <2>2 DEF Share, TypeOK
    <3>2. g \in entries /\ pin[owner[g]] = g /\ owner[g] \in Shreds
      BY <3>1 DEF Mail, MailIsListed, Listed
    <3>3. owner[g] # s
      BY <1>6, <3>1, <3>2, ConstantsAssumption DEF ConstantsAssumption, Share
    <3>4. owner[g] \in Waiters(g)
      BY <1>6, <2>2, <3>1, <3>2, <3>3 DEF Share, TypeOK, Waiters
    <3> QED BY <3>1, <3>4 DEF Mail, NoSleeperHasMail
  <2> QED BY <2>1, <2>2 DEF Mail, NoSleeperHasMail
<1>7. ASSUME NEW s \in Shreds, Recv(s) PROVE Mail'
  <2>1. \A h \in HostIns : pending'[h] # <<>> => pending[h] # <<>>
    BY <1>7, RecvType DEF TypeOK
  <2> QED BY <1>7, <2>1, MailKept DEF Recv
<1>8. ASSUME NEW s \in Shreds, RecvNone(s) PROVE Mail'
  <2>1. MailIsListed'
    BY <1>8 DEF RecvNone, Mail, MailIsListed
  <2>2. ASSUME NEW g \in alive', pending'[g] # <<>>, owner'[g] \in Waiters(g)'
        PROVE  FALSE
    <3>1. g \in alive /\ pending[g] # <<>> /\ owner'[g] = owner[g] /\ g # pin[s]
      BY <1>8, <2>2 DEF RecvNone
    <3>2. owner[g] \in Shreds /\ pin[owner[g]] = g
      BY <1>8, <2>2, <3>1 DEF RecvNone, Waiters
    <3>3. owner[g] \in Waiters(g)
      BY <1>8, <2>2, <3>1, <3>2 DEF RecvNone, TypeOK, Waiters
    <3> QED BY <3>1, <3>3 DEF Mail, NoSleeperHasMail
  <2> QED BY <2>1, <2>2 DEF Mail, NoSleeperHasMail
<1>9. ASSUME NEW s \in Shreds, Sleep(s) PROVE Mail'
  BY <1>9, MailKept DEF TypeOK, Sleep
<1>10. ASSUME NEW s \in Shreds, Wake(s) PROVE Mail'
  BY <1>10, MailKept DEF TypeOK, Wake
<1>11. ASSUME NEW s \in Shreds, Drop(s) PROVE Mail'
  <2>1. \A h \in HostIns : pending'[h] # <<>> =>
          pending[h] # <<>> /\ (h \in entries => h \in entries')
    BY <1>11 DEF Drop, Unregister, Listed
  <2>2. \A t \in Shreds : shred'[t] = "waiting" /\ pin'[t] \in HostIns =>
          shred[t] = "waiting" /\ pin[t] = pin'[t]
    BY <1>11, ConstantsAssumption DEF ConstantsAssumption, Drop, TypeOK
  <2>3. owner' = owner /\ alive' \subseteq alive
    BY <1>11 DEF Drop
  <2> QED BY <2>1, <2>2, <2>3, MailKept
<1>12. ASSUME NEW s \in Shreds, End(s) PROVE Mail'
  BY <1>12, RemovedMail DEF End
<1>13. CASE PerformBegin
  BY <1>13, MailKept DEF PerformBegin
<1>14. CASE PerformEnd
  BY <1>14, MailKept DEF PerformEnd
<1>15. CASE UNCHANGED vars
  BY <1>15, MailKept DEF vars
<1> QED BY <1>1, <1>2, <1>3, <1>4, <1>5, <1>6, <1>7, <1>8, <1>9, <1>10, <1>11, <1>12,
           <1>13, <1>14, <1>15 DEF Next, Loop

(* No lost wakeup, for any number of shreds that share a HostIn, end or    *)
(* are removed: a HostIn with mail never has its creator waiting on it.    *)
THEOREM NoLostWakeup == Spec => []NoSleeperHasMail
<1>1. Init => TypeOK /\ Listed /\ Mail
  <2>1. Init => Listed /\ Mail
    BY DEF Init, Listed, Mail, MailIsListed, NoSleeperHasMail
  <2> QED BY <2>1, InitType
<1>2. TypeOK /\ Listed /\ Mail /\ [Next]_vars => (TypeOK /\ Listed /\ Mail)'
  BY NextType, NextListed, NextMail
<1>3. Mail => NoSleeperHasMail
  BY DEF Mail
<1> QED BY <1>1, <1>2, <1>3, PTL DEF Spec

-----------------------------------------------------------------------------
(* A new message goes behind older ones. *)
LEMMA AppendOrdered ==
  ASSUME NEW q \in Seq(Nat), NEW low \in Nat, NEW high \in Nat,
         low <= high, Ordered(q, low, high)
  PROVE  Ordered(Append(q, high + 1), low, high + 1)
<1>1. /\ Len(Append(q, high + 1)) = Len(q) + 1 /\ Len(q) \in Nat
      /\ \A i \in 1 .. Len(q) : Append(q, high + 1)[i] = q[i] /\ q[i] \in Nat
      /\ Append(q, high + 1)[Len(q) + 1] = high + 1
  <2>1. high + 1 \in Nat
    OBVIOUS
  <2>2. Len(q) \in Nat /\ \A i \in 1 .. Len(q) : q[i] \in Nat
    BY LenProperties
  <2> QED BY <2>1, <2>2, QueueSteps
<1>2. ASSUME NEW i \in 1 .. Len(q) + 1
      PROVE  /\ low < Append(q, high + 1)[i] /\ Append(q, high + 1)[i] <= high + 1
             /\ \A j \in 1 .. i - 1 : Append(q, high + 1)[j] < Append(q, high + 1)[i]
  <2>1. CASE i = Len(q) + 1
    <3>1. \A j \in 1 .. Len(q) : q[j] < high + 1
      BY <1>1 DEF Ordered
    <3> QED BY <1>1, <2>1, <3>1
  <2>2. CASE i # Len(q) + 1
    <3>1. i \in 1 .. Len(q) /\ \A j \in 1 .. i - 1 : j \in 1 .. Len(q)
      BY <1>1, <2>2
    <3> QED BY <1>1, <3>1 DEF Ordered
  <2> QED BY <2>1, <2>2
<1> QED BY <1>1, <1>2 DEF Ordered

(* What is left of a queue is newer than what was taken. *)
LEMMA TailOrdered ==
  ASSUME NEW q \in Seq(Nat), q # <<>>, NEW low \in Nat, NEW high \in Nat,
         Ordered(q, low, high)
  PROVE  /\ q[1] \in Nat /\ low < q[1] /\ q[1] <= high
         /\ Ordered(Tail(q), q[1], high)
<1>1. /\ Len(q) \in Nat /\ Len(q) > 0
      /\ Len(Tail(q)) = Len(q) - 1
      /\ \A i \in 1 .. Len(q) - 1 : Tail(q)[i] = q[i + 1]
  <2>1. Len(q) \in Nat /\ Head(q) \in Nat
    BY HeadTailProperties, LenProperties
  <2> QED BY <2>1, QueueSteps
<1>2. q[1] \in Nat /\ low < q[1] /\ q[1] <= high
  <2>1. q[1] \in Nat
    BY <1>1, LenProperties
  <2> QED BY <1>1, <2>1 DEF Ordered
<1>3. ASSUME NEW i \in 1 .. Len(q) - 1
      PROVE  /\ q[1] < Tail(q)[i] /\ Tail(q)[i] <= high
             /\ \A j \in 1 .. i - 1 : Tail(q)[j] < Tail(q)[i]
  <2>1. i + 1 \in 1 .. Len(q) /\ 1 \in 1 .. i + 1 - 1
    BY <1>1
  <2>2. \A j \in 1 .. i - 1 : j + 1 \in 1 .. i + 1 - 1 /\ j \in 1 .. Len(q) - 1
    BY <1>1
  <2>3. /\ q[i + 1] <= high
        /\ \A j \in 1 .. i + 1 - 1 : q[j] < q[i + 1]
    BY <2>1 DEF Ordered
  <2> QED BY <1>1, <2>1, <2>2, <2>3
<1> QED BY <1>1, <1>2, <1>3 DEF Ordered

(* Steps that send and receive nothing, and at most empty queues. *)
LEMMA OrderKept ==
  ASSUME TypeOK, QueuesInOrder, UNCHANGED <<sent, received>>,
         \A h \in HostIns : pending'[h] = <<>> \/ pending'[h] = pending[h]
  PROVE  QueuesInOrder'
<1>1. ASSUME NEW h \in HostIns PROVE Ordered(pending'[h], received[h], sent)
  <2>1. CASE pending'[h] = <<>>
    <3>1. Len(<<>>) = 0
      OBVIOUS
    <3> QED BY <2>1, <3>1 DEF Ordered
  <2>2. CASE pending'[h] = pending[h]
    BY <2>2 DEF QueuesInOrder
  <2> QED BY <2>1, <2>2
<1> QED BY <1>1 DEF QueuesInOrder, Ordered

(* Messages are numbers, so queues can be compared. *)
LEMMA QueueOfNumbers ==
  ASSUME TypeOK, NEW h \in HostIns
  PROVE  pending[h] \in Seq(Nat)
<1>1. pending[h] \in Seq(1 .. MaxMsg) /\ 1 .. MaxMsg \subseteq Nat
  BY DEF TypeOK
<1> QED BY <1>1, SeqMonotonic

(* Every handler keeps the queues in order, and recv takes a newer message *)
(* than the last one. *)
LEMMA NextOrder ==
  ASSUME TypeOK, QueuesInOrder, [Next]_vars
  PROVE  /\ QueuesInOrder'
         /\ \A h \in HostIns : received'[h] # received[h] => received'[h] > received[h]
<1> USE DEF objects, lists, shreds
<1>1. ASSUME NEW n \in Names, Msg(n)
      PROVE  QueuesInOrder' /\ received' = received
  <2>1. received' = received /\ sent' = sent + 1 /\ sent' \in 1 .. MaxMsg /\ sent \in Nat
    BY <1>1, MsgType DEF Msg, TypeOK
  <2>2. ASSUME NEW h \in HostIns
        PROVE  received[h] <= sent + 1 /\ Ordered(pending'[h], received[h], sent + 1)
    <3>1. /\ received[h] \in Nat /\ received[h] <= sent
          /\ pending[h] \in Seq(Nat) /\ Ordered(pending[h], received[h], sent)
      BY QueueOfNumbers DEF TypeOK, QueuesInOrder
    <3>2. CASE h \in Takers(n)
      <4>1. pending'[h] = Append(pending[h], sent + 1)
        BY <1>1, <2>1, <3>2 DEF Msg
      <4>2. Ordered(Append(pending[h], sent + 1), received[h], sent + 1)
        BY <2>1, <3>1, AppendOrdered
      <4> QED BY <2>1, <3>1, <4>1, <4>2
    <3>3. CASE h \notin Takers(n)
      <4>1. pending'[h] = pending[h]
        BY <1>1, <3>3 DEF Msg
      <4>2. ASSUME NEW i \in 1 .. Len(pending[h])
            PROVE  /\ received[h] < pending[h][i] /\ pending[h][i] <= sent + 1
                   /\ \A j \in 1 .. i - 1 : pending[h][j] < pending[h][i]
        <5>1. pending[h][i] \in Nat
          BY <3>1, ElementOfSeq
        <5> QED BY <2>1, <3>1, <5>1 DEF Ordered
      <4>3. Ordered(pending[h], received[h], sent + 1)
        BY <4>2 DEF Ordered
      <4> QED BY <2>1, <3>1, <4>1, <4>3
    <3> QED BY <3>2, <3>3
  <2> QED BY <2>1, <2>2 DEF QueuesInOrder
<1>2. ASSUME NEW s \in Shreds, Recv(s)
      PROVE  /\ QueuesInOrder'
             /\ \A h \in HostIns : received'[h] # received[h] => received'[h] > received[h]
  <2> DEFINE g == pin[s]
             q == pending[g]
  <2>1. /\ g \in HostIns /\ q # <<>> /\ sent' = sent /\ sent \in Nat
        /\ q \in Seq(Nat) /\ received[g] \in Nat
        /\ Ordered(q, received[g], sent)
    BY <1>2, RecvType, QueueOfNumbers DEF Recv, TypeOK, QueuesInOrder
  <2>2. /\ q[1] \in Nat /\ received[g] < q[1] /\ q[1] <= sent
        /\ Ordered(Tail(q), q[1], sent)
    BY <2>1, TailOrdered
  <2>3. /\ received' = [received EXCEPT ![g] = q[1]]
        /\ pending' = [pending EXCEPT ![g] = Tail(q)]
    BY <1>2, RecvType
  <2> HIDE DEF g, q
  <2>4. ASSUME NEW h \in HostIns
        PROVE  /\ received'[h] <= sent' /\ Ordered(pending'[h], received'[h], sent')
               /\ received'[h] # received[h] => received'[h] > received[h]
    <3>1. CASE h = g
      <4>1. received'[h] = q[1] /\ pending'[h] = Tail(q)
        BY <2>1, <2>3, <3>1 DEF TypeOK
      <4> QED BY <2>1, <2>2, <3>1, <4>1
    <3>2. CASE h # g
      <4>1. received'[h] = received[h] /\ pending'[h] = pending[h]
        BY <2>3, <3>2 DEF TypeOK
      <4> QED BY <2>1, <4>1 DEF QueuesInOrder
    <3> QED BY <3>1, <3>2
  <2> QED BY <2>4 DEF QueuesInOrder
<1>3. ASSUME NEW H, Unregister(H), UNCHANGED <<sent, received>>
      PROVE  QueuesInOrder' /\ received' = received
  <2>1. \A h \in HostIns : pending'[h] = <<>> \/ pending'[h] = pending[h]
    BY <1>3 DEF Unregister
  <2> QED BY <1>3, <2>1, OrderKept
<1>4. ASSUME UNCHANGED <<pending, sent, received>>
      PROVE  QueuesInOrder' /\ received' = received
  BY <1>4, OrderKept
<1>5. ASSUME NEW S \in SUBSET Shreds, Removed(S) PROVE QueuesInOrder' /\ received' = received
  BY <1>3, <1>5 DEF Removed
<1>6. ASSUME NEW s \in Shreds, Drop(s) PROVE QueuesInOrder' /\ received' = received
  BY <1>3, <1>6 DEF Drop
<1>7. CASE \E n \in Names : Msg(n)
  BY <1>1, <1>7
<1>8. CASE \E s \in Shreds : Recv(s)
  BY <1>2, <1>8
<1>9. CASE \E S \in SUBSET Shreds : Remove(S)
  BY <1>5, <1>9 DEF Remove
<1>10. CASE \E s \in Shreds : End(s)
  BY <1>5, <1>10 DEF End
<1>11. CASE \E s \in Shreds : Drop(s)
  BY <1>6, <1>11
<1>12. CASE \/ MsgMalformed \/ PerformBegin \/ PerformEnd \/ UNCHANGED vars
            \/ \E s \in Shreds : Add(s) \/ RecvNone(s) \/ Sleep(s) \/ Wake(s)
            \/ \E s \in Shreds, h \in HostIns : Share(s, h)
            \/ \E s \in Shreds, h \in HostIns, N \in SUBSET Names : New(s, h, N)
  <2>1. UNCHANGED <<pending, sent, received>>
    BY <1>12 DEF MsgMalformed, PerformBegin, PerformEnd, vars, Add, RecvNone, Sleep, Wake,
                 Share, New
  <2> QED BY <1>4, <2>1
<1> QED BY <1>7, <1>8, <1>9, <1>10, <1>11, <1>12 DEF Next, Loop

(* Messages come out of each HostIn in the order they were sent, for any   *)
(* number of messages, HostIns and shreds that share them.                 *)
THEOREM InboxesInOrder == Spec => ReceivedInOrder
<1>1. Init => TypeOK /\ QueuesInOrder
  <2>1. Init => QueuesInOrder
    <3>1. Len(<<>>) = 0
      OBVIOUS
    <3> QED BY <3>1 DEF Init, QueuesInOrder, Ordered
  <2> QED BY <2>1, InitType
<1>2. TypeOK /\ QueuesInOrder /\ [Next]_vars => (TypeOK /\ QueuesInOrder)'
  BY NextType, NextOrder
<1>3. TypeOK /\ QueuesInOrder /\ [Next]_vars =>
        [\A h \in HostIns : received'[h] # received[h] => received'[h] > received[h]]_vars
  BY NextOrder
<1> QED BY <1>1, <1>2, <1>3, PTL DEF Spec, ReceivedInOrder
=============================================================================
