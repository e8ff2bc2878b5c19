---------------------------- MODULE Reply_proofs ----------------------------
(***************************************************************************)
(* Theorems about the reply ring, for every ring size, every number of     *)
(* replies and, where the statement does not say otherwise, every patch    *)
(* behind the reply outlet.                                                *)
(***************************************************************************)
EXTENDS Reply, SequenceTheorems, TLAPS

(* What the remainder in NextSlot amounts to: the slot after the last one  *)
(* is slot 0.                                                              *)
LEMMA NextSlotWraps ==
  ASSUME NEW i \in Slots
  PROVE  /\ NextSlot(i) \in Slots
         /\ NextSlot(i) = IF i + 1 = QueueSize THEN 0 ELSE i + 1
<1> USE ConstantsAssumption DEF ConstantsAssumption, Slots, NextSlot
<1>1. CASE i + 1 = QueueSize
  BY <1>1
<1>2. CASE i + 1 # QueueSize
  <2>1. i + 1 \in 0 .. QueueSize - 1
    BY <1>2
  <2>2. (i + 1) % QueueSize = i + 1
    BY <2>1
  <2> QED BY <2>1, <2>2, <1>2
<1> QED BY <1>1, <1>2

-----------------------------------------------------------------------------
(* The cursors stay in the ring and every variable keeps its type, whatever *)
(* the patch sends back during a delivery.                                  *)
THEOREM TypeCorrect == Spec => []TypeOK
<1> USE ConstantsAssumption DEF ConstantsAssumption, TypeOK
<1>1. Init => TypeOK
  <2> SUFFICES ASSUME Init PROVE TypeOK
    OBVIOUS
  <2>1. reply_enabled \in BOOLEAN /\ reply_clock \in BOOLEAN
    BY DEF Init
  <2> QED BY <2>1 DEF Init, Slots
<1>2. TypeOK /\ [Next]_vars => TypeOK'
  <2> SUFFICES ASSUME TypeOK, [Next]_vars PROVE TypeOK'
    OBVIOUS
  <2>1. CASE ReplyPush
    BY <2>1, NextSlotWraps DEF ReplyPush, drain
  <2>2. CASE ReplyDrain
    BY <2>2 DEF ReplyDrain, ring
  <2>3. CASE DrainOutlet
    BY <2>3 DEF DrainOutlet, ring
  <2>4. CASE DrainAdvance
    BY <2>4, NextSlotWraps DEF DrainAdvance
  <2>5. CASE DrainReturn
    BY <2>5 DEF DrainReturn, ring
  <2>6. CASE ReplyOn
    BY <2>6 DEF ReplyOn, ring, drain
  <2>7. CASE ReplyOff
    BY <2>7 DEF ReplyOff, drain
  <2>8. CASE UNCHANGED vars
    BY <2>8 DEF vars, ring, drain
  <2> QED BY <2>1, <2>2, <2>3, <2>4, <2>5, <2>6, <2>7, <2>8 DEF Next
<1> QED BY <1>1, <1>2, PTL DEF Spec
-----------------------------------------------------------------------------
(* Why deliveries follow the order of acceptance.  The slots from           *)
(* reply_head up to reply_tail hold the numbers pushed - Pending + 1 to     *)
(* pushed, in order; during a drain the local cursor is the shared one; and *)
(* everything up to the oldest held reply is delivered or discarded.  The   *)
(* second part needs a patch that does not turn replies off during a        *)
(* delivery.                                                                *)
Distance(s) ==
  IF s >= reply_head THEN s - reply_head ELSE s + QueueSize - reply_head

Pending == Distance(reply_tail)

Contents ==
  /\ Pending <= pushed
  /\ \A s \in Slots :
       Distance(s) < Pending =>
         reply_queue[s] = pushed - Pending + 1 + Distance(s)

DrainInStep ==
  /\ pc # "idle" => head = reply_head
  /\ pc = "outlet" => head # reply_tail

Settled ==
  /\ delivered <= pushed
  /\ flushed <= pushed
  /\ pc # "outlet" => Newest(delivered, flushed) = pushed - Pending
  /\ pc = "outlet" => delivered = pushed - Pending + 1 /\ flushed < delivered

RingInv == TypeOK /\ Contents /\ DrainInStep /\ Settled

(* Moving one cursor by one slot moves the distances by one. *)
LEMMA DistanceInSlots ==
  ASSUME TypeOK, NEW s \in Slots
  PROVE  /\ Distance(s) \in Slots
         /\ \A t \in Slots : Distance(s) = Distance(t) => s = t
BY ConstantsAssumption DEF ConstantsAssumption, TypeOK, Slots, Distance

(* A push that finds room adds one pending reply and leaves the others      *)
(* where they are.                                                          *)
LEMMA PushKeeps ==
  ASSUME TypeOK, Contents, ReplyPush
  PROVE  /\ Contents'
         /\ Pending' = Pending + 1
<1> USE ConstantsAssumption
    DEF ConstantsAssumption, TypeOK, Slots
<1>1. /\ reply_tail' = IF reply_tail + 1 = QueueSize THEN 0 ELSE reply_tail + 1
      /\ reply_tail' # reply_head
      /\ reply_head' = reply_head
      /\ pushed' = pushed + 1
      /\ reply_queue' = [reply_queue EXCEPT ![reply_tail] = pushed + 1]
  BY NextSlotWraps DEF ReplyPush, Full
<1>2. \A s \in Slots : Distance(s)' = Distance(s)
  BY <1>1 DEF Distance
<1>3. Pending' = Pending + 1 /\ Pending \in Nat
  BY <1>1 DEF Pending, Distance
<1>4. ASSUME NEW s \in Slots, Distance(s) < Pending + 1
      PROVE  reply_queue'[s] = pushed' - Pending' + 1 + Distance(s)
  <2>1. CASE s = reply_tail
    BY <2>1, <1>1, <1>3 DEF Pending
  <2>2. CASE s # reply_tail
    <3>1. Distance(s) # Pending /\ Distance(s) \in Nat
      BY <2>2, DistanceInSlots DEF Pending
    <3>2. Distance(s) < Pending
      BY <3>1, <1>3, <1>4
    <3>3. reply_queue'[s] = reply_queue[s]
      BY <2>2, <1>1
    <3> QED BY <3>1, <3>2, <3>3, <1>1, <1>3 DEF Contents
  <2> QED BY <2>1, <2>2
<1>5. Contents'
  BY <1>1, <1>2, <1>3, <1>4 DEF Contents
<1> QED BY <1>3, <1>5

(* Moving the read cursor past the oldest pending reply removes just it. *)
LEMMA AdvanceKeeps ==
  ASSUME TypeOK, Contents, DrainAdvance, head = reply_head, head # reply_tail
  PROVE  /\ Contents'
         /\ Pending' = Pending - 1
         /\ head' = reply_head'
<1> USE ConstantsAssumption
    DEF ConstantsAssumption, TypeOK, Slots
<1>1. /\ reply_head' = IF reply_head + 1 = QueueSize THEN 0 ELSE reply_head + 1
      /\ head' = reply_head'
      /\ UNCHANGED <<reply_tail, reply_queue, pushed>>
  BY NextSlotWraps DEF DrainAdvance
<1>2. Pending' = Pending - 1 /\ Pending \in Nat /\ Pending # 0
  BY <1>1 DEF Pending, Distance
<1>3. ASSUME NEW s \in Slots, Distance(s)' < Pending'
      PROVE  Distance(s)' = Distance(s) - 1 /\ Distance(s) \in Nat
  BY <1>1, <1>3 DEF Pending, Distance
<1>4. ASSUME NEW s \in Slots, Distance(s)' < Pending'
      PROVE  reply_queue'[s] = pushed' - Pending' + 1 + Distance(s)'
  <2>1. Distance(s) < Pending /\ Distance(s)' = Distance(s) - 1
    BY <1>2, <1>3, <1>4
  <2>2. reply_queue[s] = pushed - Pending + 1 + Distance(s)
    BY <2>1 DEF Contents
  <2> QED BY <2>1, <2>2, <1>1, <1>2, <1>3, <1>4
<1>5. Pending' <= pushed'
  BY <1>1, <1>2 DEF Contents
<1> QED BY <1>1, <1>2, <1>4, <1>5 DEF Contents

(* Where the patch does not send reply 0 from inside a delivery, the        *)
(* ordering argument is inductive.                                          *)
THEOREM RingInvariant ==
  ASSUME "off" \notin PatchSends
  PROVE  Spec => []RingInv
<1> USE ConstantsAssumption DEF ConstantsAssumption
<1>1. Init => Contents /\ DrainInStep /\ Settled
  BY DEF Init, Contents, DrainInStep, Settled, Distance, Pending, Newest, Slots
<1>2. TypeOK /\ RingInv /\ [Next]_vars => (Contents /\ DrainInStep /\ Settled)'
  <2> SUFFICES ASSUME TypeOK, Contents, DrainInStep, Settled, [Next]_vars
               PROVE  (Contents /\ DrainInStep /\ Settled)'
    BY DEF RingInv
  <2>0. Pending \in Nat /\ Pending <= pushed /\ pushed \in Nat
    BY DistanceInSlots DEF Pending, Contents, TypeOK, Slots
  <2>1. CASE ReplyPush
    <3>1. Contents' /\ Pending' = Pending + 1
      BY <2>1, PushKeeps
    <3>2. /\ pushed' = pushed + 1
          /\ reply_tail' # reply_head'
          /\ UNCHANGED <<pc, head, reply_head, delivered, flushed>>
      BY <2>1 DEF ReplyPush, Full, drain
    <3>3. DrainInStep'
      BY <3>2 DEF DrainInStep
    <3>4. Settled'
      BY <2>0, <3>1, <3>2 DEF Settled, Newest, TypeOK
    <3> QED BY <3>1, <3>3, <3>4
  <2>2. CASE ReplyDrain
    <3>1. UNCHANGED <<ring, pushed, delivered, flushed>> /\ pc = "idle"
          /\ pc' = "loop" /\ head' = reply_head
      BY <2>2 DEF ReplyDrain
    <3> QED BY <3>1 DEF ring, Contents, DrainInStep, Settled, Distance, Pending, Newest
  <2>3. CASE DrainOutlet
    <3>1. /\ UNCHANGED <<ring, pushed, head, flushed>>
          /\ pc = "loop" /\ pc' = "outlet"
          /\ head = reply_head /\ head # reply_tail
          /\ delivered' = reply_queue[reply_head]
      BY <2>3 DEF DrainOutlet, DrainInStep
    <3>2. Pending # 0 /\ Distance(reply_head) = 0
      BY <3>1 DEF Pending, Distance, TypeOK, Slots
    <3>3. reply_queue[reply_head] = pushed - Pending + 1
      BY <2>0, <3>2 DEF Contents, TypeOK
    <3>4. Pending' = Pending /\ Contents'
      BY <3>1 DEF ring, Contents, Distance, Pending
    <3>5. DrainInStep'
      BY <3>1 DEF ring, DrainInStep
    <3>6. Settled'
      BY <2>0, <3>1, <3>2, <3>3, <3>4 DEF Settled, Newest, TypeOK
    <3> QED BY <3>4, <3>5, <3>6
  <2>4. CASE DrainAdvance
    <3>1. /\ head = reply_head /\ head # reply_tail
          /\ pc = "outlet" /\ pc' = "loop"
          /\ UNCHANGED <<pushed, delivered, flushed>>
      BY <2>4 DEF DrainAdvance, DrainInStep
    <3>2. Contents' /\ Pending' = Pending - 1 /\ head' = reply_head'
      BY <2>4, <3>1, AdvanceKeeps
    <3>3. DrainInStep'
      BY <3>1, <3>2 DEF DrainInStep
    <3>4. Settled'
      BY <2>0, <3>1, <3>2 DEF Settled, Newest, TypeOK
    <3> QED BY <3>2, <3>3, <3>4
  <2>5. CASE DrainReturn
    <3>1. UNCHANGED <<ring, pushed, delivered, flushed, head>> /\ pc = "loop"
          /\ pc' = "idle"
      BY <2>5 DEF DrainReturn
    <3> QED BY <3>1 DEF ring, Contents, DrainInStep, Settled, Distance, Pending, Newest
  <2>6. CASE ReplyOn
    BY <2>6 DEF ReplyOn, ring, drain, Contents, DrainInStep, Settled, Distance, Pending,
                Newest
  <2>7. CASE ReplyOff
    <3>1. /\ pc = "idle" /\ pc' = "idle"
          /\ reply_head' = reply_tail /\ reply_tail' = reply_tail
          /\ flushed' = pushed
          /\ UNCHANGED <<pushed, delivered, reply_queue>>
      BY <2>7 DEF ReplyOff, MayRun, drain
    <3>2. Pending' = 0
      BY <3>1 DEF Pending, Distance, TypeOK, Slots
    <3>3. Contents'
      <4>1. \A s \in Slots : Distance(s)' \in Nat
        BY <3>1 DEF Distance, TypeOK, Slots
      <4> QED BY <2>0, <3>1, <3>2, <4>1 DEF Contents
    <3>4. DrainInStep'
      BY <3>1 DEF DrainInStep
    <3>5. Settled'
      BY <2>0, <3>1, <3>2 DEF Settled, Newest, TypeOK
    <3> QED BY <3>3, <3>4, <3>5
  <2>8. CASE UNCHANGED vars
    BY <2>8 DEF vars, ring, drain, Contents, DrainInStep, Settled, Distance, Pending,
                Newest
  <2> QED BY <2>1, <2>2, <2>3, <2>4, <2>5, <2>6, <2>7, <2>8 DEF Next
<1> QED BY <1>1, <1>2, TypeCorrect, PTL DEF Spec, RingInv

(* The slot handed to outlet_anything keeps its reply until the call        *)
(* returns.                                                                 *)
THEOREM SlotStable ==
  ASSUME "off" \notin PatchSends
  PROVE  Spec => []SlotStableInOutlet
<1>1. RingInv => SlotStableInOutlet
  <2> SUFFICES ASSUME TypeOK, Contents, DrainInStep, Settled, pc = "outlet"
               PROVE  reply_queue[head] = delivered
    BY DEF RingInv, SlotStableInOutlet
  <2>1. head = reply_head /\ head # reply_tail
    BY DEF DrainInStep
  <2>2. Distance(head) = 0 /\ Pending # 0 /\ Pending \in Nat
    BY <2>1, ConstantsAssumption DEF Pending, Distance, TypeOK, Slots
  <2>3. reply_queue[head] = pushed - Pending + 1
    BY <2>2 DEF Contents, TypeOK
  <2> QED BY <2>3 DEF Settled
<1> QED BY <1>1, RingInvariant, PTL

(* Deliveries are the accepted replies in order, each once, none skipped    *)
(* but those reply 0 discarded.                                             *)
THEOREM DeliversInOrder ==
  ASSUME "off" \notin PatchSends
  PROVE  Spec => DeliversNextReply
<1>1. RingInv /\ [Next]_vars =>
        [DrainOutlet => delivered' = Newest(delivered, flushed) + 1]_vars
  <2> SUFFICES ASSUME TypeOK, Contents, DrainInStep, Settled, DrainOutlet
               PROVE  delivered' = Newest(delivered, flushed) + 1
    BY DEF RingInv
  <2>1. pc = "loop" /\ head = reply_head /\ head # reply_tail
        /\ delivered' = reply_queue[head]
    BY DEF DrainOutlet, DrainInStep
  <2>2. Distance(head) = 0 /\ Pending # 0 /\ Pending \in Nat
    BY <2>1, ConstantsAssumption DEF Pending, Distance, TypeOK, Slots
  <2>3. reply_queue[head] = pushed - Pending + 1
    BY <2>2 DEF Contents, TypeOK
  <2>4. Newest(delivered, flushed) = pushed - Pending
    BY <2>1 DEF Settled
  <2> QED BY <2>1, <2>2, <2>3, <2>4 DEF TypeOK
<1> QED BY <1>1, RingInvariant, PTL DEF Spec, DeliversNextReply

-----------------------------------------------------------------------------
(* Whatever the patch sends back, an enabled object always has a drain due  *)
(* or running, and a disabled one never has one due.                        *)
THEOREM ClockCorrect == Spec => []ClockFollowsEnabled
<1>1. Init => ClockFollowsEnabled
  BY DEF Init, ClockFollowsEnabled
<1>2. TypeOK /\ ClockFollowsEnabled /\ [Next]_vars => ClockFollowsEnabled'
  <2> SUFFICES ASSUME TypeOK, ClockFollowsEnabled, [Next]_vars
               PROVE  ClockFollowsEnabled'
    OBVIOUS
  <2> USE DEF ClockFollowsEnabled
  <2>1. CASE ReplyPush
    BY <2>1 DEF ReplyPush, drain
  <2>2. CASE ReplyDrain
    BY <2>2 DEF ReplyDrain
  <2>3. CASE DrainOutlet
    BY <2>3 DEF DrainOutlet
  <2>4. CASE DrainAdvance
    BY <2>4 DEF DrainAdvance
  <2>5. CASE DrainReturn
    BY <2>5 DEF DrainReturn
  <2>6. CASE ReplyOn
    BY <2>6 DEF ReplyOn
  <2>7. CASE ReplyOff
    BY <2>7 DEF ReplyOff
  <2>8. CASE UNCHANGED vars
    BY <2>8 DEF vars, drain
  <2> QED BY <2>1, <2>2, <2>3, <2>4, <2>5, <2>6, <2>7, <2>8 DEF Next
<1> QED BY <1>1, <1>2, TypeCorrect, PTL DEF Spec

-----------------------------------------------------------------------------
(* The ring implements the channel.  What the channel holds is the slots   *)
(* from reply_head on, and these are the numbers pushed - Pending + 1 to   *)
(* pushed.                                                                 *)
Held(p, n) == [i \in 1 .. n |-> p - n + i]

LEMMA Remainders ==
  ASSUME NEW n \in Nat \ {0}, NEW x \in Nat
  PROVE  /\ x < n => x % n = x
         /\ n <= x /\ x < 2 * n => x % n = x - n
<1>1. x < n => x % n = x
  OBVIOUS
<1>2. ASSUME n <= x, x < 2 * n PROVE x % n = x - n
  <2> DEFINE q == x \div n
             r == x % n
  <2>1. q \in Int /\ r \in 0 .. n - 1 /\ x = n * q + r
    OBVIOUS
  <2> HIDE DEF q, r
  <2>2. q = 1
    <3>1. q <= 0 => n * q <= 0
      BY <2>1
    <3>2. q >= 2 => n * q >= 2 * n
      BY <2>1
    <3> QED BY <1>2, <2>1, <3>1, <3>2
  <2>3. r = x - n
    BY <2>1, <2>2
  <2> QED BY <2>3 DEF r
<1> QED BY <1>1, <1>2

LEMMA Wraps ==
  ASSUME NEW x \in Nat, x < 2 * QueueSize
  PROVE  x % QueueSize = IF x < QueueSize THEN x ELSE x - QueueSize
<1>1. QueueSize \in Nat \ {0}
  BY ConstantsAssumption DEF ConstantsAssumption
<1>2. /\ x < QueueSize => x % QueueSize = x
      /\ QueueSize <= x /\ x < 2 * QueueSize => x % QueueSize = x - QueueSize
  BY <1>1, Remainders, Zenon
<1>3. ~(x < QueueSize) => QueueSize <= x
  BY <1>1
<1> DEFINE r == x % QueueSize
<1>4. r = IF x < QueueSize THEN x ELSE x - QueueSize
  <2>1. /\ x < QueueSize => r = x
        /\ QueueSize <= x /\ x < 2 * QueueSize => r = x - QueueSize
    BY <1>2
  <2> HIDE DEF r
  <2> QED BY <1>3, <2>1
<1> QED BY <1>4

LEMMA DistanceBounds ==
  ASSUME NEW N \in Nat, NEW h \in 0 .. N - 1, NEW t \in 0 .. N - 1,
         NEW d, d = IF t >= h THEN t - h ELSE t + N - h
  PROVE  d \in Nat /\ d < N
OBVIOUS

\* What the channel's queue is mapped to, where the slots hold what Contents says.
LEMMA QueueIsHeld ==
  ASSUME NEW h \in Slots, NEW t \in Slots, NEW q \in [Slots -> Nat], NEW p \in Nat,
         LET from(s) == IF s >= h THEN s - h ELSE s + QueueSize - h IN
           \A s \in Slots : from(s) < from(t) => q[s] = p - from(t) + 1 + from(s)
  PROVE  LET n == IF t >= h THEN t - h ELSE t + QueueSize - h IN
         [i \in 1 .. (t + QueueSize - h) % QueueSize |-> q[(h + i - 1) % QueueSize]]
           = Held(p, n)
<1> DEFINE from(s) == IF s >= h THEN s - h ELSE s + QueueSize - h
           n == from(t)
<1>1. /\ QueueSize \in Nat \ {0} /\ h \in 0 .. QueueSize - 1 /\ t \in 0 .. QueueSize - 1
      /\ n \in 0 .. QueueSize - 1
  BY ConstantsAssumption DEF ConstantsAssumption, Slots
<1>2. (t + QueueSize - h) % QueueSize = n
  <2> DEFINE x == t + QueueSize - h
  <2>1. x \in Nat /\ x < 2 * QueueSize /\ (x < QueueSize => n = x)
        /\ (QueueSize <= x => n = x - QueueSize)
    BY <1>1
  <2> HIDE DEF x, n
  <2>2. x % QueueSize = IF x < QueueSize THEN x ELSE x - QueueSize
    BY <2>1, Wraps, Zenon
  <2>3. n = IF x < QueueSize THEN x ELSE x - QueueSize
    BY <1>1, <2>1
  <2>4. x % QueueSize = n
    BY <2>2, <2>3, Zenon
  <2> QED BY <2>4 DEF x
<1>3. ASSUME NEW i \in 1 .. n
      PROVE  q[(h + i - 1) % QueueSize] = p - n + i
  <2>1. PICK x \in Nat : x = h + i - 1 /\ x < 2 * QueueSize
    BY <1>1
  <2> DEFINE s == x % QueueSize
  <2>2. s = IF x < QueueSize THEN x ELSE x - QueueSize
    BY <2>1, Wraps
  <2> HIDE DEF s
  <2>3. s \in Slots /\ from(s) = i - 1
    BY <1>1, <2>1, <2>2 DEF Slots
  <2>4. q[s] = p - n + 1 + (i - 1)
    BY <1>1, <2>3
  <2>5. q[s] = p - n + i
    BY <1>1, <2>4
  <2> QED BY <2>1, <2>5 DEF s
<1> QED BY <1>2, <1>3 DEF Held

LEMMA HeldIsSequence ==
  ASSUME NEW p \in Nat, NEW n \in Nat, n <= p
  PROVE  /\ Held(p, n) \in Seq(Nat) /\ Len(Held(p, n)) = n
         /\ Append(Held(p, n), p + 1) = Held(p + 1, n + 1)
         /\ n # 0 => /\ Head(Held(p, n)) = p - n + 1
                     /\ Tail(Held(p, n)) = Held(p, n - 1)
         /\ Held(p, n) = <<>> <=> n = 0
<1>1. \A k \in Nat : k <= p => /\ Held(p, k) \in Seq(Nat) /\ Len(Held(p, k)) = k
                             /\ \A i \in 1 .. k : Held(p, k)[i] = p - k + i
  BY DEF Held
<1>2. /\ Held(p + 1, n + 1) \in Seq(Nat) /\ Len(Held(p + 1, n + 1)) = n + 1
      /\ \A i \in 1 .. n + 1 : Held(p + 1, n + 1)[i] = p - n + i
  BY DEF Held
<1> DEFINE H == Held(p, n)
<1>3. H \in Seq(Nat) /\ Len(H) = n /\ \A i \in 1 .. n : H[i] = p - n + i
  BY <1>1
<1>4. Held(p, n) = <<>> <=> n = 0
  BY <1>3, EmptySeq
<1>5. ASSUME n # 0
      PROVE  Head(H) = p - n + 1 /\ Tail(H) = Held(p, n - 1)
  <2>1. /\ Held(p, n - 1) \in Seq(Nat) /\ Len(Held(p, n - 1)) = n - 1
        /\ \A i \in 1 .. n - 1 : Held(p, n - 1)[i] = p - (n - 1) + i
    BY <1>1, <1>5
  <2> DEFINE G == Held(p, n - 1)
  <2> HIDE DEF H, G
  <2>2. H # <<>>
    BY <1>3, <1>5, EmptySeq
  <2>3. /\ Head(H) = H[1] /\ Tail(H) \in Seq(Nat) /\ Len(Tail(H)) = n - 1
        /\ \A i \in 1 .. n - 1 : Tail(H)[i] = H[i + 1]
    BY <1>3, <2>2, HeadTailProperties
  <2>4. Head(H) = p - n + 1
    BY <1>3, <1>5, <2>3
  <2>5. \A i \in 1 .. n - 1 : Tail(H)[i] = G[i]
    BY <1>3, <2>1, <2>3 DEF G
  <2>6. Tail(H) = G
    BY <2>1, <2>3, <2>5, SeqEqual DEF G
  <2> QED BY <2>4, <2>6 DEF G
<1>6. Append(H, p + 1) = Held(p + 1, n + 1)
  <2> DEFINE G == Held(p + 1, n + 1)
             A == Append(H, p + 1)
  <2> HIDE DEF H, G
  <2>1. /\ A \in Seq(Nat) /\ Len(A) = n + 1 /\ A[n + 1] = p + 1
        /\ \A i \in 1 .. n : A[i] = H[i]
    BY <1>3, AppendProperties
  <2>2. \A i \in 1 .. n + 1 : A[i] = G[i]
    BY <1>2, <1>3, <2>1 DEF G
  <2> HIDE DEF A
  <2>3. A = G
    BY <1>2, <2>1, <2>2, SeqEqual DEF G
  <2> QED BY <2>3 DEF A, G
<1> QED BY <1>3, <1>4, <1>5, <1>6

Mapped == [i \in 1 .. QueueLen |-> reply_queue[(reply_head + i - 1) % QueueSize]]

LEMMA MappedIsHeld ==
  ASSUME TypeOK, Contents
  PROVE  Mapped = Held(pushed, Pending)
BY QueueIsHeld DEF TypeOK, Contents, Mapped, QueueLen, Pending, Distance

LEMMA MappedIsHeldNext ==
  ASSUME TypeOK', Contents'
  PROVE  Mapped' = Held(pushed', Pending')
<1>1. /\ reply_head' \in Slots /\ reply_tail' \in Slots /\ reply_queue' \in [Slots -> Nat]
      /\ pushed' \in Nat
  BY DEF TypeOK
<1> QED BY <1>1, QueueIsHeld DEF Contents, Mapped, QueueLen, Pending, Distance

(* The ring, its drain and its clock are the channel that ReplyChannel      *)
(* describes, for every size: a push is an Accept, the call of the outlet a *)
(* Deliver, its return a Done, reply 1 and 0 turn it on and off, and the    *)
(* clock and the drain's start and end are not seen.                        *)
THEOREM RingIsChannel ==
  ASSUME "off" \notin PatchSends
  PROVE  Spec => ImplementsChannel
<1>1. Init => Channel!Init
  <2> SUFFICES ASSUME Init PROVE Channel!Init
    OBVIOUS
  <2>1. QueueLen = 0
    BY ConstantsAssumption DEF ConstantsAssumption, Init, QueueLen
  <2> QED BY <2>1 DEF Init, Channel!Init
<1>2. RingInv /\ RingInv' /\ [Next]_vars => [Channel!Next]_(Channel!vars)
  <2> SUFFICES ASSUME RingInv, RingInv', [Next]_vars
               PROVE  [Channel!Next]_(Channel!vars)
    OBVIOUS
  <2> DEFINE n == Pending
  <2>1. /\ Mapped = Held(pushed, n) /\ Mapped' = Held(pushed', n')
        /\ n \in Nat /\ n < QueueSize /\ n' \in Nat /\ n' < QueueSize
        /\ n <= pushed /\ n' <= pushed' /\ pushed \in Nat
    <3>1. TypeOK /\ Contents /\ TypeOK' /\ Contents'
      BY DEF RingInv
    <3>2. Mapped = Held(pushed, n) /\ Mapped' = Held(pushed', n')
      BY <3>1, MappedIsHeld, MappedIsHeldNext
    <3>3. n \in Nat /\ n < QueueSize /\ n' \in Nat /\ n' < QueueSize
      <4>1. n \in Nat /\ n < QueueSize
        BY <3>1, ConstantsAssumption
           DEF ConstantsAssumption, TypeOK, Slots, Pending, Distance
      <4>2. n' \in Nat /\ n' < QueueSize
        <5>1. /\ QueueSize \in Nat
              /\ reply_head' \in 0 .. QueueSize - 1 /\ reply_tail' \in 0 .. QueueSize - 1
          BY <3>1, ConstantsAssumption DEF ConstantsAssumption, TypeOK, Slots
        <5>2. n' = IF reply_tail' >= reply_head' THEN reply_tail' - reply_head'
                   ELSE reply_tail' + QueueSize - reply_head'
          BY <5>1 DEF Pending, Distance
        <5> HIDE DEF n
        <5> QED BY <5>1, <5>2, DistanceBounds
      <4> QED BY <4>1, <4>2
    <3> QED BY <3>1, <3>2, <3>3 DEF TypeOK, Contents
  <2> HIDE DEF n
  <2>2. CASE ReplyPush
    <3>1. /\ reply_enabled /\ pushed < MaxPush /\ pushed' = pushed + 1
          /\ UNCHANGED <<pc, reply_enabled, delivered>>
      BY <2>2 DEF ReplyPush, drain
    <3>2. n' = n + 1
      BY <2>2, PushKeeps DEF RingInv, n
    <3>3. Mapped' = Append(Mapped, pushed + 1) /\ Len(Mapped) < QueueSize - 1
      <4>1. Len(Mapped) = n /\ Append(Mapped, pushed + 1) = Held(pushed + 1, n + 1)
        BY <2>1, HeldIsSequence
      <4>2. n < QueueSize - 1
        BY <2>1, <3>2, ConstantsAssumption DEF ConstantsAssumption
      <4> QED BY <2>1, <3>1, <3>2, <4>1, <4>2
    <3>4. PICK r \in 1 .. MaxPush : r = pushed + 1
      <4>1. pushed + 1 \in 1 .. MaxPush
        BY <2>1, <3>1, ConstantsAssumption DEF ConstantsAssumption
      <4> QED BY <4>1
    <3>5. Channel!Accept(r)
      BY <3>1, <3>3, <3>4 DEF Channel!Accept, Mapped
    <3> QED BY <3>5 DEF Channel!Next
  <2>3. CASE ReplyDrain
    <3>1. /\ pc = "idle" /\ pc' = "loop"
          /\ UNCHANGED <<reply_queue, reply_head, reply_tail, reply_enabled, delivered>>
      BY <2>3 DEF ReplyDrain, ring
    <3> QED BY <3>1 DEF Channel!vars, QueueLen
  <2>4. CASE DrainOutlet
    <3>1. /\ pc = "loop" /\ pc' = "outlet" /\ head # reply_tail
          /\ delivered' = reply_queue[head]
          /\ UNCHANGED <<reply_queue, reply_head, reply_tail, reply_enabled, pushed>>
      BY <2>4 DEF DrainOutlet, ring
    <3>2. n' = n
      BY <3>1 DEF n, Pending, Distance
    <3>3. delivered' = pushed - n + 1 /\ n # 0
      <4>1. delivered' = pushed' - n' + 1
        BY <3>1 DEF RingInv, Settled, n
      <4>2. head = reply_head
        BY <3>1 DEF RingInv, DrainInStep
      <4>3. n # 0
        BY <3>1, <4>2, ConstantsAssumption
           DEF ConstantsAssumption, RingInv, TypeOK, Slots, n, Pending, Distance
      <4> QED BY <3>1, <3>2, <4>1, <4>3
    <3>4. Mapped # <<>> /\ Head(Mapped) = delivered' /\ Mapped' = Mapped
      BY <2>1, <3>1, <3>2, <3>3, HeldIsSequence
    <3>5. Channel!Deliver
      BY <3>1, <3>4 DEF Channel!Deliver, Mapped
    <3> QED BY <3>5 DEF Channel!Next
  <2>5. CASE DrainAdvance
    <3>1. /\ pc = "outlet" /\ pc' = "loop" /\ head = reply_head /\ head # reply_tail
          /\ UNCHANGED <<reply_enabled, delivered, pushed>>
      BY <2>5 DEF DrainAdvance, RingInv, DrainInStep
    <3>2. n' = n - 1
      BY <2>5, <3>1, AdvanceKeeps DEF RingInv, n
    <3>3. Mapped' = Tail(Mapped)
      <4>1. n # 0
        BY <2>1, <3>2
      <4>2. Tail(Mapped) = Held(pushed, n - 1)
        BY <2>1, <4>1, HeldIsSequence
      <4> QED BY <2>1, <3>1, <3>2, <4>2
    <3>4. Channel!Done
      BY <3>1, <3>3 DEF Channel!Done, Mapped
    <3> QED BY <3>4 DEF Channel!Next
  <2>6. CASE DrainReturn
    <3>1. /\ pc = "loop" /\ pc' = "idle"
          /\ UNCHANGED <<reply_queue, reply_head, reply_tail, reply_enabled, delivered>>
      BY <2>6 DEF DrainReturn, ring
    <3> QED BY <3>1 DEF Channel!vars, QueueLen
  <2>7. CASE ReplyOn
    <3>1. /\ reply_enabled' = TRUE
          /\ UNCHANGED <<reply_queue, reply_head, reply_tail, pc, delivered>>
      BY <2>7 DEF ReplyOn, ring, drain
    <3>2. Channel!TurnOn
      BY <3>1 DEF Channel!TurnOn, QueueLen
    <3> QED BY <3>2 DEF Channel!Next
  <2>8. CASE ReplyOff
    <3>1. /\ pc = "idle" /\ pc' = "idle" /\ reply_enabled' = FALSE
          /\ reply_head' = reply_tail /\ reply_tail' = reply_tail
          /\ UNCHANGED delivered
      BY <2>8 DEF ReplyOff, MayRun, drain
    <3>2. n' = 0
      BY <3>1 DEF RingInv, TypeOK, Slots, n, Pending, Distance
    <3>3. Mapped' = <<>>
      BY <2>1, <3>2 DEF Held
    <3>4. Channel!TurnOff
      BY <3>1, <3>3 DEF Channel!TurnOff, Mapped
    <3> QED BY <3>4 DEF Channel!Next
  <2>9. CASE UNCHANGED vars
    BY <2>9 DEF vars, ring, drain, Channel!vars, QueueLen
  <2> QED BY <2>2, <2>3, <2>4, <2>5, <2>6, <2>7, <2>8, <2>9 DEF Next
<1> QED BY <1>1, <1>2, RingInvariant, PTL DEF Spec, ImplementsChannel, Channel!Spec
=============================================================================
