--------------------------- MODULE Globals_proofs ---------------------------
(***************************************************************************)
(* Theorems about listening to global events and reading global variables, *)
(* for every set of names and whatever is declared, every size of the      *)
(* tables and of the request queue, and any number of messages.            *)
(***************************************************************************)
EXTENDS Globals, SequenceTheorems, WellFoundedInduction, TLAPS

-----------------------------------------------------------------------------
(* Induction over the naturals, in the form of a set that holds them all.  *)

LEMMA Least ==
  ASSUME NEW S \in SUBSET Nat, S # {}
  PROVE  \E m \in S : \A n \in S : m <= n
<1>1. \E m \in S : \A n \in S : ~(<<n, m>> \in OpToRel(<, Nat))
  BY WFMin, NatLessThanWellFounded, Zenon
<1>2. \E m \in S : \A n \in S : ~(n < m)
  BY <1>1, Zenon DEF OpToRel
<1> QED BY <1>2

LEMMA Induction ==
  ASSUME NEW S, 0 \in S, \A n \in Nat : n \in S => n + 1 \in S
  PROVE  \A n \in Nat : n \in S
<1> SUFFICES ASSUME NEW n \in Nat, n \notin S PROVE FALSE
  OBVIOUS
<1> DEFINE T == {k \in Nat : k \notin S}
<1>1. PICK m \in T : \A k \in T : m <= k
  <2>1. T \in SUBSET Nat /\ T # {}
    OBVIOUS
  <2> HIDE DEF T
  <2> QED BY <2>1, Least, Zenon
<1>2. m \in Nat /\ m \notin S /\ m # 0
  OBVIOUS
<1>3. m - 1 \in Nat /\ (m - 1) + 1 = m /\ ~(m <= m - 1)
  BY <1>2
<1>4. m - 1 \in S
  BY <1>1, <1>3
<1> QED BY <1>2, <1>3, <1>4

-----------------------------------------------------------------------------
(* What a broadcast keeps are listeners it served.                         *)

LEMMA CallAgainKeeps ==
  ASSUME NEW L, NEW served \in Seq(L), \A i \in 1 .. Len(served) : served[i].forever \in BOOLEAN
  PROVE  CallAgain(served) \in Seq({served[i] : i \in 1 .. Len(served)})
<1> DEFINE R == {served[i] : i \in 1 .. Len(served)}
           N == Len(served)
           Up(f, m) == [n \in 0 .. m |->
                          IF n = 0 THEN <<>>
                          ELSE IF served[n].forever THEN Append(f[n - 1], served[n])
                          ELSE f[n - 1]]
           S == {m \in Nat : m <= N => \E f : f = Up(f, m)}
           Kept == CHOOSE f : f = Up(f, N)
<1>0. N \in Nat
  OBVIOUS
<1>1. \A m \in Nat : m \in S
  <2>1. 0 \in S
    <3> DEFINE f == [n \in 0 .. 0 |-> <<>>]
    <3>1. f = Up(f, 0)
      OBVIOUS
    <3> QED BY <3>1
  <2>2. ASSUME NEW m \in Nat, m \in S PROVE m + 1 \in S
    <3> HIDE DEF Up
    <3> SUFFICES ASSUME m + 1 <= N PROVE \E f : f = Up(f, m + 1)
      OBVIOUS
    <3> USE DEF Up
    <3>1. PICK f : f = Up(f, m)
      BY <2>2, <1>0
    <3> DEFINE last == IF served[m + 1].forever THEN Append(f[m], served[m + 1]) ELSE f[m]
               g == [n \in 0 .. m + 1 |-> IF n = m + 1 THEN last ELSE f[n]]
    <3>2. ASSUME NEW n \in 0 .. m + 1
          PROVE  g[n] = IF n = 0 THEN <<>>
                        ELSE IF served[n].forever THEN Append(g[n - 1], served[n])
                        ELSE g[n - 1]
      <4>1. CASE n = m + 1
        <5>1. g[n] = last /\ g[n - 1] = f[m] /\ n # 0
          BY <4>1
        <5> HIDE DEF g
        <5> QED BY <4>1, <5>1
      <4>2. CASE n # m + 1
        <5>1. n \in 0 .. m /\ g[n] = f[n] /\ (n # 0 => g[n - 1] = f[n - 1])
          BY <4>2
        <5>2. f[n] = IF n = 0 THEN <<>>
                     ELSE IF served[n].forever THEN Append(f[n - 1], served[n])
                     ELSE f[n - 1]
          BY <3>1, <5>1
        <5> HIDE DEF g
        <5> QED BY <5>1, <5>2
      <4> QED BY <4>1, <4>2
    <3>3. g = Up(g, m + 1)
      <4>1. DOMAIN g = 0 .. m + 1 /\ g = [n \in 0 .. m + 1 |-> g[n]]
        OBVIOUS
      <4> HIDE DEF g
      <4> QED BY <3>2, <4>1
    <3> QED BY <3>3
  <2> HIDE DEF S
  <2> QED BY <2>1, <2>2, Induction
<1>2. Kept = Up(Kept, N)
  <2> HIDE DEF Up
  <2>1. \E f : f = Up(f, N)
    BY <1>0, <1>1
  <2> QED BY <2>1
<1>3. CallAgain(served) = Kept[N]
  BY DEF CallAgain
<1> HIDE DEF Kept
<1>4. Kept[N] \in Seq(R)
  <2> DEFINE T == {n \in Nat : n <= N => Kept[n] \in Seq(R)}
  <2>1. 0 \in T
    <3>1. Kept[0] = <<>>
      BY <1>0, <1>2
    <3>2. Kept[0] \in Seq(R)
      <4> HIDE DEF R
      <4> QED BY <3>1
    <3> QED BY <3>2, Zenon
  <2>2. ASSUME NEW n \in Nat, n \in T PROVE n + 1 \in T
    <3> SUFFICES ASSUME n + 1 <= N PROVE Kept[n + 1] \in Seq(R)
      OBVIOUS
    <3>1. Kept[n + 1] = IF served[n + 1].forever THEN Append(Kept[n], served[n + 1]) ELSE Kept[n]
      <4>1. n + 1 \in 0 .. N /\ n + 1 # 0 /\ (n + 1) - 1 = n
        BY <1>0
      <4> QED BY <1>2, <4>1
    <3>2. Kept[n] \in Seq(R) /\ served[n + 1] \in R
      BY <2>2, <1>0
    <3> HIDE DEF R
    <3> QED BY <3>1, <3>2, AppendProperties
  <2>3. \A n \in Nat : n \in T
    <3> HIDE DEF T
    <3> QED BY <2>1, <2>2, Induction
  <2> QED BY <1>0, <2>3
<1> QED BY <1>3, <1>4

-----------------------------------------------------------------------------
(* The helpers.                                                            *)

LEMMA TicketsFound ==
  ASSUME TypeOK, NEW e \in Events
  PROVE  /\ Stops(e) # {} => ListenTicket(e) \in Stops(e)
         /\ TicketsOf(e) # {} => Min(TicketsOf(e)) \in TicketsOf(e)
<1>1. Stops(e) \in SUBSET Nat /\ TicketsOf(e) \in SUBSET Nat
  BY ConstantsAssumption DEF Stops, TicketsOf, Tickets, ConstantsAssumption
<1>2. ASSUME NEW S \in SUBSET Nat, S # {} PROVE Min(S) \in S
  BY <1>2, Least DEF Min
<1> QED BY <1>1, <1>2 DEF ListenTicket

LEMMA PutKeeps ==
  ASSUME NEW queue \in Seq(Requests), Len(queue) <= RequestCap, NEW r \in Requests
  PROVE  /\ Put(queue, r) \in Seq(Requests)
         /\ Len(Put(queue, r)) <= RequestCap
         /\ \A i \in 1 .. Len(Put(queue, r)) :
              \/ i \in 1 .. Len(queue) /\ Put(queue, r)[i] = queue[i]
              \/ i = Len(queue) + 1 /\ Put(queue, r)[i] = r
         /\ queue = <<>> => Put(queue, r) = <<r>>
         /\ queue # <<>> => Put(queue, r) # <<>> /\ Put(queue, r)[1] = queue[1]
<1>1. RequestCap \in Nat \ {0} /\ Len(queue) \in Nat
  BY ConstantsAssumption DEF ConstantsAssumption
<1> HIDE DEF Requests
<1>2. /\ Append(queue, r) \in Seq(Requests)
      /\ Len(Append(queue, r)) = Len(queue) + 1
      /\ \A i \in 1 .. Len(queue) : Append(queue, r)[i] = queue[i]
      /\ Append(queue, r)[Len(queue) + 1] = r
  BY AppendProperties
<1>3. queue = <<>> => Append(queue, r) = <<r>>
  OBVIOUS
<1>4. queue # <<>> => Len(queue) >= 1
  OBVIOUS
<1> QED BY <1>1, <1>2, <1>3, <1>4 DEF Put

LEMMA TakeKeeps ==
  ASSUME NEW R, NEW queue \in Seq(R), queue # <<>>
  PROVE  /\ Tail(queue) \in Seq(R)
         /\ Head(queue) \in R /\ Head(queue) = queue[1] /\ 1 \in 1 .. Len(queue)
         /\ Len(Tail(queue)) = Len(queue) - 1
         /\ \A i \in 1 .. Len(Tail(queue)) : i + 1 \in 1 .. Len(queue) /\ Tail(queue)[i] = queue[i + 1]
<1>1. Len(queue) \in Nat /\ Len(queue) # 0
  OBVIOUS
<1> QED BY <1>1, HeadTailProperties

LEMMA SeqOfItems ==
  ASSUME NEW L, NEW queue \in Seq(L)
  PROVE  /\ queue \in Seq({queue[i] : i \in 1 .. Len(queue)})
         /\ {queue[i] : i \in 1 .. Len(queue)} \subseteq L
<1> DEFINE R == {queue[i] : i \in 1 .. Len(queue)}
<1>1. Len(queue) \in Nat /\ queue = [i \in 1 .. Len(queue) |-> queue[i]]
  BY LenProperties
<1>2. \A i \in 1 .. Len(queue) : queue[i] \in R
  OBVIOUS
<1>3. queue \in Seq(R)
  <2> HIDE DEF R
  <2> QED BY <1>1, <1>2, IsASeq
<1>4. \A i \in 1 .. Len(queue) : queue[i] \in L
  BY ElementOfSeq
<1> QED BY <1>3, <1>4

\* The listeners fired at, and those that stay, were all in the queue.
LEMMA FireKeeps ==
  ASSUME TypeOK, NEW e \in Events, NEW all \in BOOLEAN, Fire(e, all)
  PROVE  /\ listeners' \in [Events -> Seq([ticket : Tickets, forever : BOOLEAN])]
         /\ \A d \in Events \ {e} : listeners'[d] = listeners[d]
         /\ \A i \in 1 .. Len(listeners'[e]) :
              \E j \in 1 .. Len(listeners[e]) : listeners'[e][i] = listeners[e][j]
         /\ \A r \in replies' :
              \E j \in 1 .. Len(listeners[e]) : r \in EventReply(e, listeners[e][j].ticket)
         /\ listeners[e] = <<>> => listeners'[e] = <<>>
<1> DEFINE L == [ticket : Tickets, forever : BOOLEAN]
           queue == listeners[e]
           R == {queue[i] : i \in 1 .. Len(queue)}
           served == IF all \/ queue = <<>> THEN queue ELSE <<Head(queue)>>
           rest == IF all \/ queue = <<>> THEN <<>> ELSE Tail(queue)
           left == rest \o CallAgain(served)
<1>1. queue \in Seq(L) /\ listeners \in [Events -> Seq(L)]
  BY DEF TypeOK
<1>2. /\ listeners' = [listeners EXCEPT ![e] = left]
      /\ replies' = UNION {EventReply(e, served[i].ticket) : i \in 1 .. Len(served)}
  BY DEF Fire
<1>3. R \subseteq L /\ queue \in Seq(R)
  <2> HIDE DEF L, queue
  <2> QED BY <1>1, SeqOfItems
<1>4. served \in Seq(R) /\ rest \in Seq(R)
  <2> HIDE DEF R, L, queue
  <2> QED BY <1>3, TakeKeeps
<1>5. CallAgain(served) \in Seq(R)
  <2>1. \A i \in 1 .. Len(served) : served[i] \in R
    <3> HIDE DEF R, served
    <3> QED BY <1>4
  <2>2. \A i \in 1 .. Len(served) : served[i].forever \in BOOLEAN
    BY <1>3, <2>1
  <2>3. CallAgain(served) \in Seq({served[i] : i \in 1 .. Len(served)})
    <3> HIDE DEF served, R
    <3> QED BY <1>4, <2>2, CallAgainKeeps
  <2>4. {served[i] : i \in 1 .. Len(served)} \subseteq R
    <3> HIDE DEF served, R
    <3> QED BY <2>1
  <2> HIDE DEF served, R
  <2> QED BY <2>3, <2>4, SeqMonotonic
<1>6. left \in Seq(R) /\ \A i \in 1 .. Len(left) : left[i] \in R
  <2> HIDE DEF rest, served, R
  <2> QED BY <1>4, <1>5, ConcatProperties
<1>7. left \in Seq(L)
  <2> HIDE DEF left, R, L
  <2> QED BY <1>3, <1>6, SeqMonotonic
<1>8. listeners'[e] = left /\ \A d \in Events \ {e} : listeners'[d] = listeners[d]
  <2> HIDE DEF left, L
  <2> QED BY <1>1, <1>2
<1>9. \A i \in 1 .. Len(listeners'[e]) : \E j \in 1 .. Len(queue) : listeners'[e][i] = queue[j]
  <2> HIDE DEF left
  <2> QED BY <1>6, <1>8
<1>10. \A i \in 1 .. Len(served) : \E j \in 1 .. Len(queue) : served[i] = queue[j]
  <2>1. \A i \in 1 .. Len(served) : served[i] \in R
    <3> HIDE DEF R, served
    <3> QED BY <1>4
  <2> HIDE DEF served
  <2> QED BY <2>1
<1>11. \A r \in replies' : \E j \in 1 .. Len(queue) : r \in EventReply(e, queue[j].ticket)
  <2> HIDE DEF served, queue
  <2> QED BY <1>2, <1>10
<1>12. queue = <<>> => left = <<>>
  <2> SUFFICES ASSUME queue = <<>> PROVE left = <<>>
    OBVIOUS
  <2>1. R = {}
    OBVIOUS
  <2> HIDE DEF left, R
  <2> QED BY <1>6, <2>1
<1>13. listeners' \in [Events -> Seq(L)]
  <2> HIDE DEF left, L
  <2> QED BY <1>1, <1>2, <1>7
<1> QED BY <1>8, <1>9, <1>11, <1>12, <1>13

-----------------------------------------------------------------------------
(* Types.                                                                  *)

\* What waits to be tried again may be tried once more, and waits no longer
\* than compute handles requests; it fits where it came from.
RetriesRight ==
  /\ \A i \in 1 .. Len(retry) : retry[i].retries = 1
  /\ pc # "requests" => retry = <<>>

Typed == TypeOK /\ RetriesRight

LEMMA InitTyped == Init => Typed
<1> SUFFICES ASSUME Init PROVE Typed
  OBVIOUS
<1>1. MaxListens \in Nat \ {0} /\ PendingSize \in Nat \ {0} /\ RequestCap \in Nat \ {0} /\ MaxSent \in Nat
  BY ConstantsAssumption DEF ConstantsAssumption
<1>2. listeners \in [Events -> Seq([ticket : Tickets, forever : BOOLEAN])]
  BY DEF Init
<1>3. requests \in Seq(Requests) /\ Len(requests) <= RequestCap /\ retry \in Seq(Requests)
  <2> HIDE DEF Requests
  <2> QED BY <1>1 DEF Init
<1>4. RetriesRight
  BY DEF Init, RetriesRight
<1>5. TypeOK
  <2>1. /\ listen_names \in [Tickets -> Events \cup {NULL}]
        /\ pending_names \in [0 .. PendingSize - 1 -> Variables \cup {NULL}]
        /\ globals \in [Objects -> {"absent", "declared", "constructed"}]
    BY DEF Init
  <2>2. pending_ticket \in Nat /\ ahead \in Nat /\ sent \in 0 .. MaxSent
    BY <1>1 DEF Init
  <2>3. /\ pc \in {"idle", "requests", "shreds"} /\ halted \in BOOLEAN
        /\ attending \subseteq Events
        /\ replies \subseteq [kind : {"event", "val"}, about : Names, name : Names \cup {NULL}]
    BY DEF Init
  <2> QED BY <1>2, <1>3, <2>1, <2>2, <2>3 DEF TypeOK
<1> QED BY <1>4, <1>5 DEF Typed

LEMMA Kinds ==
  ASSUME NEW r \in Requests
  PROVE  /\ r.op \in {"listen", "unlisten", "signal", "broadcast", "get", "clear"}
         /\ r.op \in {"listen", "unlisten"} =>
              r.name \in Events /\ r.ticket \in Tickets /\ r.forever \in BOOLEAN
         /\ r.op \in {"signal", "broadcast"} => r.name \in Events
         /\ r.op = "get" => r.name \in Variables /\ r.ticket \in Nat
         /\ r.retries \in 0 .. 1
BY DEF Requests

LEMMA AgainTyped ==
  ASSUME NEW r \in Requests, r.retries = 1
  PROVE  /\ Again(r) \in Requests
         /\ Again(r).op = r.op /\ Again(r).retries = 0
         /\ r.op \in {"listen", "unlisten", "get"} => Again(r).name = r.name /\ Again(r).ticket = r.ticket
<1>1. CASE r \in [op : {"listen", "unlisten"}, name : Events, ticket : Tickets,
                  forever : BOOLEAN, retries : 0 .. 1]
  BY <1>1 DEF Requests, Again
<1>2. CASE r \in [op : {"signal", "broadcast"}, name : Events, retries : 0 .. 1]
  BY <1>2 DEF Requests, Again
<1>3. CASE r \in [op : {"get"}, name : Variables, ticket : Nat, retries : 0 .. 1]
  BY <1>3 DEF Requests, Again
<1> QED BY <1>1, <1>2, <1>3 DEF Requests

\* What HandleRetries puts back.
LEMMA PutBack ==
  ASSUME Typed, HandleRetries
  PROVE  /\ requests' \in Seq(Requests)
         /\ Len(requests') <= RequestCap
         /\ \A i \in 1 .. Len(requests') : i \in 1 .. Len(retry) /\ requests'[i] = Again(retry[i])
<1> DEFINE all == [i \in 1 .. Len(retry) |-> Again(retry[i])]
           n == Min({Len(retry), RequestCap})
<1>1. Len(retry) \in Nat /\ RequestCap \in Nat
  BY ConstantsAssumption DEF ConstantsAssumption, Typed, TypeOK
<1>2. n \in 0 .. Len(retry) /\ n <= RequestCap
  <2>1. {Len(retry), RequestCap} \in SUBSET Nat /\ {Len(retry), RequestCap} # {}
    BY <1>1
  <2>2. \E m \in {Len(retry), RequestCap} : \A k \in {Len(retry), RequestCap} : m <= k
    BY <2>1, Least
  <2>3. n \in {Len(retry), RequestCap} /\ n <= Len(retry) /\ n <= RequestCap
    BY <2>2, Zenon DEF Min
  <2> QED BY <1>1, <2>3
<1>3. \A i \in 1 .. Len(retry) : Again(retry[i]) \in Requests
  <2>1. \A i \in 1 .. Len(retry) : retry[i] \in Requests /\ retry[i].retries = 1
    BY ElementOfSeq DEF Typed, TypeOK, RetriesRight
  <2> HIDE DEF Requests
  <2> QED BY <2>1, AgainTyped
<1>4. all \in Seq(Requests) /\ Len(all) = Len(retry) /\ \A i \in 1 .. Len(retry) : all[i] = Again(retry[i])
  <2> HIDE DEF Again, Requests
  <2> QED BY <1>1, <1>3, IsASeq
<1>5. requests' = SubSeq(all, 1, n)
  BY DEF HandleRetries
<1> HIDE DEF all, n
<1>6. /\ SubSeq(all, 1, n) \in Seq(Requests)
      /\ Len(SubSeq(all, 1, n)) = n
      /\ \A i \in 1 .. n : SubSeq(all, 1, n)[i] = all[i]
  <2> HIDE DEF Requests
  <2> QED BY <1>1, <1>2, <1>4, SubSeqProperties
<1> QED BY <1>1, <1>2, <1>4, <1>5, <1>6

LEMMA Constants ==
  /\ MaxListens \in Nat \ {0} /\ PendingSize \in Nat \ {0} /\ RequestCap \in Nat \ {0}
  /\ MaxAhead \in Nat /\ MaxSent \in Nat
  /\ Arrays \subseteq Variables /\ Declared \subseteq Objects
  /\ NULL \notin Events \cup Variables
  /\ 0 .. MaxListens - 1 = Tickets /\ Tickets \subseteq Nat
BY ConstantsAssumption DEF ConstantsAssumption, Objects, Tickets

\* What a message queues, and what a request brings: the parts of the state a
\* message may change, and those that handling a request may.
Asked ==
  /\ pc = "idle" /\ sent < MaxSent /\ sent' = sent + 1
  /\ UNCHANGED <<engine, pc, replies>>
  /\ \/ requests' = requests
     \/ \E r \in Requests : requests' = Put(requests, r)

LEMMA AskedTyped ==
  ASSUME Typed, Asked
  PROVE  /\ requests' \in Seq(Requests) /\ Len(requests') <= RequestCap
         /\ retry' \in Seq(Requests)
         /\ globals' \in [Objects -> {"absent", "declared", "constructed"}]
         /\ listeners' \in [Events -> Seq([ticket : Tickets, forever : BOOLEAN])]
         /\ pc' \in {"idle", "requests", "shreds"}
         /\ replies' \subseteq [kind : {"event", "val"}, about : Names, name : Names \cup {NULL}]
         /\ sent' \in 0 .. MaxSent
         /\ RetriesRight'
<1>1. requests' \in Seq(Requests) /\ Len(requests') <= RequestCap
  <2>1. CASE requests' = requests
    BY <2>1 DEF Typed, TypeOK
  <2>2. CASE \E r \in Requests : requests' = Put(requests, r)
    BY <2>2, PutKeeps DEF Typed, TypeOK
  <2> QED BY <2>1, <2>2 DEF Asked
<1>2. sent' \in 0 .. MaxSent
  BY Constants DEF Asked, Typed, TypeOK
<1> QED BY <1>1, <1>2 DEF Asked, engine, Typed, TypeOK, RetriesRight

LEMMA Issued ==
  ASSUME Typed, NEW v \in Variables, PendingIssue(v)
  PROVE  /\ pending_names' \in [0 .. PendingSize - 1 -> Variables \cup {NULL}]
         /\ pending_ticket' \in Nat /\ ahead' \in Nat
         /\ pending_ticket % PendingSize \in 0 .. PendingSize - 1
         /\ pending_names'[pending_ticket % PendingSize] = v
<1>1. pending_ticket % PendingSize \in 0 .. PendingSize - 1
  BY Constants DEF Typed, TypeOK
<1> DEFINE i == pending_ticket % PendingSize
<1>2. pending_names' = [pending_names EXCEPT ![i] = v]
  BY DEF PendingIssue
<1> HIDE DEF i
<1> QED BY <1>1, <1>2 DEF PendingIssue, Typed, TypeOK, i

LEMMA MessageTyped ==
  ASSUME Typed, Handlers
  PROVE  Typed'
<1> USE DEF tables
<1>1. ASSUME NEW e \in Events, NEW forever \in BOOLEAN, Listen(e, forever) PROVE Typed'
  <2>1. ListenTicket(e) \in Tickets
    BY <1>1, TicketsFound DEF Listen, Typed, Stops
  <2> DEFINE r == [op |-> "listen", name |-> e, ticket |-> ListenTicket(e),
                   forever |-> forever, retries |-> 1]
  <2>2. r \in Requests
    BY <1>1, <2>1 DEF Requests
  <2>3. Asked
    <3> HIDE DEF Requests
    <3> QED BY <1>1, <2>2 DEF Listen, Message, Asked
  <2>4. listen_names' \in [Tickets -> Events \cup {NULL}] /\ attending' \subseteq Events
    BY <1>1, <2>1 DEF Listen, Typed, TypeOK
  <2> QED BY <1>1, <2>3, <2>4, AskedTyped DEF Listen, Typed, TypeOK
<1>2. ASSUME NEW e \in Events, ListenRefused(e) PROVE Typed'
  <2>1. Asked
    BY <1>2 DEF ListenRefused, Message, Asked
  <2> QED BY <1>2, <2>1, AskedTyped DEF ListenRefused, Typed, TypeOK
<1>3. ASSUME \/ \E e \in Events : ListenFull(e) \/ UnlistenUnknown(e)
             \/ GetMalformed \/ ClearMalformed
      PROVE  Typed'
  <2>1. Asked /\ Error
    BY <1>3 DEF ListenFull, UnlistenUnknown, GetMalformed, ClearMalformed, Message, Error, Asked
  <2> QED BY <2>1, AskedTyped DEF Error, Typed, TypeOK
<1>4. ASSUME NEW e \in Events, Unlisten(e) PROVE Typed'
  <2>1. Min(TicketsOf(e)) \in Tickets
    BY <1>4, TicketsFound DEF Unlisten, Typed, TicketsOf
  <2> DEFINE r == [op |-> "unlisten", name |-> e, ticket |-> Min(TicketsOf(e)),
                   forever |-> FALSE, retries |-> 0]
  <2>2. r \in Requests
    BY <1>4, <2>1 DEF Requests
  <2>3. Asked
    <3> HIDE DEF Requests
    <3> QED BY <1>4, <2>2 DEF Unlisten, Message, Asked
  <2>4. listen_names' \in [Tickets -> Events \cup {NULL}] /\ attending' \subseteq Events
    BY <1>4, <2>1 DEF Unlisten, Typed, TypeOK
  <2> QED BY <1>4, <2>3, <2>4, AskedTyped DEF Unlisten, Typed, TypeOK
<1>5. ASSUME NEW e \in Events, NEW op \in {"signal", "broadcast"}, Trigger(e, op) PROVE Typed'
  <2> DEFINE r == [op |-> op, name |-> e, retries |-> IF op = "broadcast" THEN 1 ELSE 0]
  <2>1. r \in Requests
    BY DEF Requests
  <2>2. Asked
    <3> HIDE DEF Requests
    <3> QED BY <1>5, <2>1 DEF Trigger, Message, Asked
  <2> QED BY <1>5, <2>2, AskedTyped DEF Trigger, Typed, TypeOK
<1>6. ASSUME NEW v \in Variables, Get(v) PROVE Typed'
  <2> DEFINE r == [op |-> "get", name |-> v, ticket |-> pending_ticket,
                   retries |-> IF v \in Arrays THEN 1 ELSE 0]
  <2>1. r \in Requests
    BY DEF Requests, Typed, TypeOK
  <2>2. Asked
    <3> HIDE DEF Requests
    <3> QED BY <1>6, <2>1 DEF Get, Message, Asked
  <2> QED BY <1>6, <2>2, AskedTyped, Issued DEF Get, PendingIssue, Typed, TypeOK
<1>7. ASSUME NEW v \in Variables, GetUnknownType(v) PROVE Typed'
  <2>1. Asked
    BY <1>7 DEF GetUnknownType, Message, Asked
  <2> QED BY <1>7, <2>1, AskedTyped, Issued DEF GetUnknownType, PendingIssue, Typed, TypeOK
<1>8. ASSUME ClearVM PROVE Typed'
  <2>1. [op |-> "clear", retries |-> 0] \in Requests
    BY DEF Requests
  <2>2. Asked
    <3> HIDE DEF Requests
    <3> QED BY <1>8, <2>1 DEF ClearVM, Message, Asked
  <2> QED BY <1>8, <2>2, AskedTyped DEF ClearVM, Typed, TypeOK
<1>9. ASSUME NEW n \in Objects, Compile(n) PROVE Typed'
  BY <1>9 DEF Compile, Typed, TypeOK, RetriesRight
<1> QED BY <1>1, <1>2, <1>3, <1>4, <1>5, <1>6, <1>7, <1>8, <1>9 DEF Handlers

\* The request handled.
LEMMA Taken ==
  ASSUME Typed, TakeRequest
  PROVE  /\ Request \in Requests /\ Request = requests[1] /\ 1 \in 1 .. Len(requests)
         /\ requests' \in Seq(Requests) /\ Len(requests') <= RequestCap
         /\ \A i \in 1 .. Len(requests') :
              i + 1 \in 1 .. Len(requests) /\ requests'[i] = requests[i + 1]
<1>1. requests \in Seq(Requests) /\ Len(requests) <= RequestCap /\ requests # <<>> /\ requests' = Tail(requests)
  BY DEF TakeRequest, Typed, TypeOK
<1>2. /\ Tail(requests) \in Seq(Requests)
      /\ Head(requests) \in Requests /\ Head(requests) = requests[1] /\ 1 \in 1 .. Len(requests)
      /\ Len(Tail(requests)) = Len(requests) - 1
      /\ \A i \in 1 .. Len(Tail(requests)) : i + 1 \in 1 .. Len(requests) /\ Tail(requests)[i] = requests[i + 1]
  BY <1>1, TakeKeeps
<1>3. Len(requests) \in Nat /\ RequestCap \in Nat
  BY <1>1, Constants
<1> HIDE DEF Requests
<1> QED BY <1>1, <1>2, <1>3 DEF Request

LEMMA RetryKeeps ==
  ASSUME Typed, NEW r \in Requests, Retry(r) \/ UNCHANGED retry
  PROVE  /\ retry' \in Seq(Requests)
         /\ \A i \in 1 .. Len(retry') :
              \/ i \in 1 .. Len(retry) /\ retry'[i] = retry[i]
              \/ retry'[i] = r /\ r.retries > 0
<1>1. retry \in Seq(Requests)
  BY DEF Typed, TypeOK
<1>2. /\ Append(retry, r) \in Seq(Requests)
      /\ Len(Append(retry, r)) = Len(retry) + 1
      /\ \A i \in 1 .. Len(retry) : Append(retry, r)[i] = retry[i]
      /\ Append(retry, r)[Len(retry) + 1] = r
  <2> HIDE DEF Requests
  <2> QED BY <1>1, AppendProperties
<1>3. Len(retry) \in Nat
  BY <1>1
<1> HIDE DEF Requests
<1> QED BY <1>1, <1>2, <1>3 DEF Retry

LEMMA RetryTyped ==
  ASSUME Typed, NEW r \in Requests, Retry(r) \/ UNCHANGED retry
  PROVE  retry' \in Seq(Requests) /\ \A i \in 1 .. Len(retry') : retry'[i].retries = 1
<1>1. r.retries \in 0 .. 1
  BY Kinds
<1>2. \A i \in 1 .. Len(retry) : retry[i].retries = 1
  BY DEF Typed, RetriesRight
<1> HIDE DEF Requests
<1> QED BY <1>1, <1>2, RetryKeeps

LEMMA EventReplyTyped ==
  ASSUME Typed, NEW e \in Events, NEW t \in Tickets, NEW r \in EventReply(e, t)
  PROVE  /\ r = [kind |-> "event", about |-> e, name |-> listen_names[t]]
         /\ listen_names[t] \in Events
BY DEF EventReply, Typed, TypeOK

LEMMA FireTyped ==
  ASSUME Typed, NEW e \in Events, NEW all \in BOOLEAN, Fire(e, all)
  PROVE  /\ listeners' \in [Events -> Seq([ticket : Tickets, forever : BOOLEAN])]
         /\ replies' \subseteq [kind : {"event", "val"}, about : Names, name : Names \cup {NULL}]
<1> DEFINE L == [ticket : Tickets, forever : BOOLEAN]
<1>1. listeners[e] \in Seq(L)
  BY DEF Typed, TypeOK
<1>2. \A j \in 1 .. Len(listeners[e]) : listeners[e][j].ticket \in Tickets
  <2>1. \A j \in 1 .. Len(listeners[e]) : listeners[e][j] \in L
    BY <1>1, ElementOfSeq
  <2> QED BY <2>1
<1>3. \A r \in replies' : \E j \in 1 .. Len(listeners[e]) : r \in EventReply(e, listeners[e][j].ticket)
  BY FireKeeps DEF Typed
<1>4. \A r \in replies' : \E d \in Events : r = [kind |-> "event", about |-> e, name |-> d]
  BY <1>2, <1>3, EventReplyTyped
<1>5. replies' \subseteq [kind : {"event", "val"}, about : Names, name : Names \cup {NULL}]
  BY <1>4 DEF Names
<1>6. listeners' \in [Events -> Seq([ticket : Tickets, forever : BOOLEAN])]
  BY FireKeeps DEF Typed
<1> QED BY <1>5, <1>6

LEMMA PendingTyped ==
  ASSUME Typed, NEW r \in Requests, r.op = "get"
  PROVE  ValueReply(r) \subseteq [kind : {"event", "val"}, about : Names, name : Names \cup {NULL}]
<1>1. r.name \in Variables /\ r.ticket \in Nat
  BY Kinds
<1>2. r.ticket % PendingSize \in 0 .. PendingSize - 1
  BY <1>1, Constants
<1>3. PendingName(r.ticket) \in Variables \cup {NULL}
  BY <1>2 DEF PendingName, Typed, TypeOK
<1> QED BY <1>1, <1>3 DEF ValueReply, Names

Computing ==
  \/ Compute
  \/ \E n \in Objects : ShredBuilds(n)
  \/ \E e \in Events, all \in BOOLEAN : ShredFires(e, all)

LEMMA ComputeTyped ==
  ASSUME Typed, Computing
  PROVE  Typed'
<1> USE DEF tables, engine
<1>1. CASE ComputeBegin
  BY <1>1 DEF ComputeBegin, Typed, TypeOK, RetriesRight
<1>2. CASE HandleListen
  <2>1. Retry(Request) \/ UNCHANGED retry
    BY <1>2 DEF HandleListen
  <2>2. TakeRequest /\ Request.op \in {"listen", "unlisten"}
    BY <1>2 DEF HandleListen
  <2>3. Request \in Requests /\ requests' \in Seq(Requests) /\ Len(requests') <= RequestCap
    BY <2>2, Taken
  <2>4. retry' \in Seq(Requests) /\ \A i \in 1 .. Len(retry') : retry'[i].retries = 1
    BY <2>1, <2>3, RetryTyped
  <2>5. Request.name \in Events /\ Request.ticket \in Tickets /\ Request.forever \in BOOLEAN
    BY <2>2, <2>3, Kinds
  <2> DEFINE L == [ticket : Tickets, forever : BOOLEAN]
             l == [ticket |-> Request.ticket, forever |-> Request.forever]
  <2>6. listeners \in [Events -> Seq(L)] /\ l \in L
    BY <2>5 DEF Typed, TypeOK
  <2>7. \A e \in Events : Append(listeners[e], l) \in Seq(L) /\ <<>> \in Seq(L)
    <3> HIDE DEF L, l
    <3> QED BY <2>6
  <2>8. \/ UNCHANGED listeners
        \/ listeners' = [listeners EXCEPT ![Request.name] = Append(@, l)]
        \/ listeners' = [listeners EXCEPT ![Request.name] = <<>>]
    BY <1>2 DEF HandleListen
  <2>9. listeners' \in [Events -> Seq(L)]
    <3> HIDE DEF L, l
    <3> QED BY <2>5, <2>6, <2>7, <2>8
  <2> HIDE DEF L, l
  <2>10. pc' = "requests" /\ replies' = {} /\ UNCHANGED <<tables, globals, halted, attending, ahead, sent>>
    BY <1>2 DEF HandleListen, TakeRequest
  <2> QED BY <2>3, <2>4, <2>9, <2>10 DEF L, Typed, TypeOK, RetriesRight
<1>3. CASE HandleTrigger
  <2>1. Retry(Request) \/ UNCHANGED retry
    BY <1>3 DEF HandleTrigger
  <2>2. TakeRequest /\ Request.op \in {"signal", "broadcast"}
    BY <1>3 DEF HandleTrigger
  <2>3. Request \in Requests /\ requests' \in Seq(Requests) /\ Len(requests') <= RequestCap
    BY <2>2, Taken
  <2>4. retry' \in Seq(Requests) /\ \A i \in 1 .. Len(retry') : retry'[i].retries = 1
    BY <2>1, <2>3, RetryTyped
  <2>5. Request.name \in Events
    BY <2>2, <2>3, Kinds
  <2>6. \/ Fire(Request.name, Request.op = "broadcast")
        \/ replies' = {} /\ UNCHANGED listeners
    BY <1>3 DEF HandleTrigger
  <2>7. /\ listeners' \in [Events -> Seq([ticket : Tickets, forever : BOOLEAN])]
        /\ replies' \subseteq [kind : {"event", "val"}, about : Names, name : Names \cup {NULL}]
    <3>1. CASE Fire(Request.name, Request.op = "broadcast")
      <4>1. (Request.op = "broadcast") \in BOOLEAN
        OBVIOUS
      <4> QED BY <2>5, <3>1, <4>1, FireTyped
    <3>2. CASE replies' = {} /\ UNCHANGED listeners
      BY <3>2 DEF Typed, TypeOK
    <3> QED BY <2>6, <3>1, <3>2
  <2>8. pc' = "requests" /\ UNCHANGED <<tables, globals, halted, attending, ahead, sent>>
    BY <1>3 DEF HandleTrigger, TakeRequest
  <2> QED BY <2>3, <2>4, <2>7, <2>8 DEF Typed, TypeOK, RetriesRight
<1>4. CASE HandleGet
  <2>1. Retry(Request) \/ UNCHANGED retry
    BY <1>4 DEF HandleGet
  <2>2. TakeRequest /\ Request.op = "get"
    BY <1>4 DEF HandleGet
  <2>3. /\ Request \in Requests /\ Request = requests[1] /\ 1 \in 1 .. Len(requests)
        /\ requests' \in Seq(Requests) /\ Len(requests') <= RequestCap
    BY <2>2, Taken
  <2>4. retry' \in Seq(Requests) /\ \A i \in 1 .. Len(retry') : retry'[i].retries = 1
    BY <2>1, <2>3, RetryTyped
  <2>6. replies' \subseteq [kind : {"event", "val"}, about : Names, name : Names \cup {NULL}]
    <3>1. replies' = {} \/ replies' = ValueReply(Request)
      BY <1>4 DEF HandleGet
    <3> QED BY <2>2, <2>3, <3>1, PendingTyped
  <2>7. pc' = "requests" /\ UNCHANGED <<tables, globals, listeners, halted, attending, ahead, sent>>
    BY <1>4 DEF HandleGet, TakeRequest
  <2> QED BY <2>3, <2>4, <2>6, <2>7 DEF Typed, TypeOK, RetriesRight
<1>5. CASE HandleClear
  <2>1. requests' \in Seq(Requests) /\ Len(requests') <= RequestCap
    BY <1>5, Taken DEF HandleClear
  <2>2. listeners' \in [Events -> Seq([ticket : Tickets, forever : BOOLEAN])]
    BY <1>5 DEF HandleClear
  <2>3. globals' \in [Objects -> {"absent", "declared", "constructed"}]
    BY <1>5 DEF HandleClear
  <2>4. pc' = "requests" /\ replies' = {} /\ UNCHANGED <<tables, retry, halted, attending, ahead, sent>>
    BY <1>5 DEF HandleClear, TakeRequest
  <2> QED BY <2>1, <2>2, <2>3, <2>4 DEF Typed, TypeOK, RetriesRight
<1>6. CASE HandleRetries
  <2>1. requests' \in Seq(Requests) /\ Len(requests') <= RequestCap
    BY <1>6, PutBack
  <2>2. retry' \in Seq(Requests) /\ retry' = <<>> /\ RetriesRight'
    <3> HIDE DEF Requests
    <3> QED BY <1>6 DEF HandleRetries, RetriesRight
  <2>3. pc' = "shreds" /\ replies' = {} /\ ahead' = 0
        /\ UNCHANGED <<tables, globals, listeners, halted, attending, sent>>
    BY <1>6 DEF HandleRetries
  <2> QED BY <2>1, <2>2, <2>3 DEF Typed, TypeOK
<1>7. CASE ComputeEnd
  BY <1>7 DEF ComputeEnd, Typed, TypeOK, RetriesRight
<1>8. ASSUME NEW n \in Objects, ShredBuilds(n) PROVE Typed'
  BY <1>8 DEF ShredBuilds, Typed, TypeOK, RetriesRight
<1>9. ASSUME NEW e \in Events, NEW all \in BOOLEAN, ShredFires(e, all) PROVE Typed'
  <2>1. /\ listeners' \in [Events -> Seq([ticket : Tickets, forever : BOOLEAN])]
        /\ replies' \subseteq [kind : {"event", "val"}, about : Names, name : Names \cup {NULL}]
    BY <1>9, FireTyped DEF ShredFires
  <2>2. sent' \in 0 .. MaxSent
    BY <1>9, Constants DEF ShredFires, Typed, TypeOK
  <2> QED BY <1>9, <2>1, <2>2 DEF ShredFires, Typed, TypeOK, RetriesRight
<1> QED BY <1>1, <1>2, <1>3, <1>4, <1>5, <1>6, <1>7, <1>8, <1>9 DEF Computing, Compute

LEMMA TypedNext ==
  ASSUME Typed, [Next]_vars
  PROVE  Typed'
<1>1. CASE UNCHANGED vars
  BY <1>1 DEF vars, tables, engine, Typed, TypeOK, RetriesRight
<1>2. CASE Handlers
  BY <1>2, MessageTyped
<1>3. CASE Computing
  BY <1>3, ComputeTyped
<1> QED BY <1>1, <1>2, <1>3 DEF Next, Computing

LEMMA TypedAlways == Spec => []Typed
BY InitTyped, TypedNext, PTL DEF Spec

(* The type invariant of module Globals: tickets stand for events, the     *)
(* queue is never overfull, also when retries are put back into it.        *)
THEOREM TypeCorrect == Spec => []TypeOK
<1>1. Typed => TypeOK
  BY DEF Typed
<1> QED BY <1>1, TypedAlways, PTL

-----------------------------------------------------------------------------
(* Gets are answered under their own names, if the patch does not get      *)
(* further ahead of compute than half the ring of pending gets.            *)

\* The slot of a get is its own still.  What was asked before the latest
\* compute can only be a retry of it.
Held(r, late) ==
  r.op = "get" =>
    /\ r.ticket < pending_ticket
    /\ pending_ticket <= r.ticket + ahead + late
    /\ PendingName(r.ticket) = r.name

GetsHeld ==
  /\ ahead <= MaxAhead
  /\ \A i \in 1 .. Len(requests) :
       Held(requests[i], IF requests[i].retries = 1 THEN 0 ELSE MaxAhead)
  /\ \A i \in 1 .. Len(retry) : Held(retry[i], 0)
  /\ pc = "idle" => replies = {}
  /\ GetReplyNamesVariable

LEMMA Apart ==
  ASSUME NEW n \in Nat \ {0}, NEW a \in Nat, NEW b \in Nat, a < b, b < a + n
  PROVE  a % n # b % n
<1> DEFINE qa == a \div n
           qb == b \div n
           ra == a % n
           rb == b % n
<1>1. qa \in Int /\ ra \in 0 .. n - 1 /\ a = n * qa + ra
  OBVIOUS
<1>2. qb \in Int /\ rb \in 0 .. n - 1 /\ b = n * qb + rb
  OBVIOUS
<1> HIDE DEF qa, qb, ra, rb
<1> SUFFICES ASSUME ra = rb PROVE FALSE
  BY DEF ra, rb
<1>3. b - a = n * (qb - qa)
  BY <1>1, <1>2
<1>4. qb - qa <= 0 => n * (qb - qa) <= 0
  BY <1>1, <1>2
<1>5. qb - qa >= 1 => n * (qb - qa) >= n
  BY <1>1, <1>2
<1> QED BY <1>1, <1>2, <1>3, <1>4, <1>5

\* Asking for another variable leaves the slots of those on their way alone.
LEMMA IssueHolds ==
  ASSUME Typed, 2 * MaxAhead <= PendingSize, ahead < MaxAhead,
         NEW v \in Variables, PendingIssue(v),
         NEW r \in Requests, NEW late \in 0 .. MaxAhead, Held(r, late)
  PROVE  Held(r, late)'
<1> SUFFICES ASSUME r.op = "get" PROVE Held(r, late)'
  BY DEF Held
<1>1. /\ r.ticket \in Nat /\ pending_ticket \in Nat /\ ahead \in Nat /\ late \in Nat /\ late <= MaxAhead
      /\ PendingSize \in Nat \ {0} /\ MaxAhead \in Nat
  BY Constants, Kinds DEF Typed, TypeOK
<1>2. /\ r.ticket < pending_ticket
      /\ pending_ticket <= r.ticket + ahead + late
      /\ PendingName(r.ticket) = r.name
  BY DEF Held
<1>3. pending_ticket < r.ticket + PendingSize
  BY <1>1, <1>2
<1>4. r.ticket % PendingSize # pending_ticket % PendingSize
  BY <1>1, <1>2, <1>3, Apart
<1> DEFINE slot == r.ticket % PendingSize
           new == pending_ticket % PendingSize
<1>5. slot \in 0 .. PendingSize - 1
  BY <1>1
<1>6. pending_names' = [pending_names EXCEPT ![new] = v] /\ pending_ticket' = pending_ticket + 1 /\ ahead' = ahead + 1
  BY DEF PendingIssue
<1>7. pending_names'[slot] = pending_names[slot]
  <2> HIDE DEF slot, new
  <2> QED BY <1>4, <1>5, <1>6 DEF slot, new, Typed, TypeOK
<1>8. PendingName(r.ticket)' = r.name
  <2>1. PendingName(r.ticket) = pending_names[slot] /\ PendingName(r.ticket)' = pending_names'[slot]
    BY DEF PendingName
  <2> QED BY <1>2, <1>7, <2>1
<1>9. r.ticket < pending_ticket' /\ pending_ticket' <= r.ticket + ahead' + late
  BY <1>1, <1>2, <1>6
<1> QED BY <1>8, <1>9 DEF Held

LEMMA GetsHeldInit == Init /\ Typed => GetsHeld
<1> SUFFICES ASSUME Init, Typed PROVE GetsHeld
  OBVIOUS
<1>1. Len(requests) = 0 /\ Len(retry) = 0
  BY DEF Init
<1> QED BY <1>1, Constants DEF Init, GetsHeld, GetReplyNamesVariable, RepliesOf

\* How far behind the latest ticket a request can have fallen.
LateOf(r) == IF r.retries = 1 THEN 0 ELSE MaxAhead

LEMMA QueueHeld ==
  ASSUME Typed, GetsHeld
  PROVE  /\ \A i \in 1 .. Len(requests) : requests[i] \in Requests /\ Held(requests[i], LateOf(requests[i]))
         /\ \A i \in 1 .. Len(retry) : retry[i] \in Requests /\ Held(retry[i], 0) /\ retry[i].retries = 1
BY ElementOfSeq DEF Typed, TypeOK, RetriesRight, GetsHeld, LateOf

LEMMA PutHeld ==
  ASSUME Typed, NEW r \in Requests, requests' = requests \/ requests' = Put(requests, r),
         Held(r, LateOf(r))',
         \A q \in Requests : (\E i \in 1 .. Len(requests) : q = requests[i]) => Held(q, LateOf(q))'
  PROVE  \A i \in 1 .. Len(requests') : Held(requests[i], LateOf(requests[i]))'
<1> SUFFICES ASSUME NEW i \in 1 .. Len(requests')
             PROVE  Held(requests[i], LateOf(requests[i]))'
  OBVIOUS
<1>1. \/ \E j \in 1 .. Len(requests) : requests'[i] = requests[j] /\ requests'[i] \in Requests
      \/ requests'[i] = r
  <2>0. requests \in Seq(Requests) /\ Len(requests) <= RequestCap
    BY DEF Typed, TypeOK
  <2>1. CASE requests' = requests
    <3>1. requests[i] \in Requests /\ i \in 1 .. Len(requests)
      BY <2>0, <2>1, ElementOfSeq
    <3> HIDE DEF Requests
    <3> QED BY <2>1, <3>1
  <2>2. CASE requests' = Put(requests, r)
    <3>1. \A j \in 1 .. Len(requests) : requests[j] \in Requests
      BY <2>0, ElementOfSeq
    <3>2. (i \in 1 .. Len(requests) /\ requests'[i] = requests[i]) \/ requests'[i] = r
      BY <2>0, <2>2, PutKeeps
    <3> QED BY <3>1, <3>2
  <2> QED BY <2>1, <2>2
<1>2. CASE requests'[i] = r
  BY <1>2 DEF Held, LateOf, PendingName
<1>3. CASE \E j \in 1 .. Len(requests) : requests'[i] = requests[j] /\ requests'[i] \in Requests
  <2> DEFINE q == requests'[i]
  <2>1. q \in Requests /\ \E j \in 1 .. Len(requests) : q = requests[j]
    BY <1>3
  <2>2. PICK p \in Requests : p = q
    BY <2>1
  <2>3. Held(p, LateOf(p))'
    BY <2>1, <2>2
  <2> QED BY <2>2, <2>3 DEF Held, LateOf, PendingName
<1> QED BY <1>1, <1>2, <1>3

LEMMA GetsMessage ==
  ASSUME Typed, GetsHeld, 2 * MaxAhead <= PendingSize, Handlers
  PROVE  GetsHeld'
<1> USE DEF tables, engine
<1>1. ASSUME NEW v \in Variables, Get(v) \/ GetUnknownType(v) PROVE GetsHeld'
  <2>1. /\ PendingIssue(v) /\ ahead < MaxAhead
        /\ pc = "idle" /\ UNCHANGED <<retry, replies, pc>>
    BY <1>1 DEF Get, GetUnknownType, Message
  <2>2. PICK r \in Requests :
          /\ r.op = "get" /\ r.name = v /\ r.ticket = pending_ticket
          /\ requests' = requests \/ requests' = Put(requests, r)
    <3> DEFINE r == [op |-> "get", name |-> v, ticket |-> pending_ticket,
                     retries |-> IF v \in Arrays THEN 1 ELSE 0]
    <3>1. r \in Requests
      BY DEF Requests, Typed, TypeOK
    <3>2. requests' = requests \/ requests' = Put(requests, r)
      BY <1>1 DEF Get, GetUnknownType
    <3> QED BY <3>1, <3>2
  <2>3. Held(r, LateOf(r))'
    <3>1. /\ pending_ticket' = pending_ticket + 1 /\ ahead' = ahead + 1
          /\ pending_names'[pending_ticket % PendingSize] = v
          /\ pending_ticket \in Nat /\ ahead \in Nat /\ MaxAhead \in Nat
      BY <2>1, Issued, Constants DEF PendingIssue, Typed, TypeOK
    <3>2. PendingName(r.ticket)' = v
      BY <2>2, <3>1 DEF PendingName
    <3>3. LateOf(r) \in Nat
      BY <3>1 DEF LateOf
    <3>4. r.ticket < pending_ticket' /\ pending_ticket' <= r.ticket + ahead' + LateOf(r)
      BY <2>2, <3>1, <3>3
    <3> QED BY <2>2, <3>2, <3>4 DEF Held, LateOf
  <2>4. \A late \in {0, MaxAhead} : late \in 0 .. MaxAhead
    BY Constants
  <2>5. \A q \in Requests : (\E i \in 1 .. Len(requests) : q = requests[i]) => Held(q, LateOf(q))'
    <3> SUFFICES ASSUME NEW q \in Requests, NEW i \in 1 .. Len(requests), q = requests[i]
                 PROVE  Held(q, LateOf(q))'
      OBVIOUS
    <3>1. Held(q, LateOf(q)) /\ LateOf(q) \in 0 .. MaxAhead
      BY <2>4, QueueHeld DEF LateOf
    <3>2. CASE q.retries = 1
      <4>1. Held(q, 0)'
        BY <2>1, <2>4, <3>1, <3>2, IssueHolds DEF LateOf
      <4> QED BY <3>2, <4>1 DEF LateOf
    <3>3. CASE q.retries # 1
      <4>1. Held(q, MaxAhead)'
        BY <2>1, <2>4, <3>1, <3>3, IssueHolds DEF LateOf
      <4> QED BY <3>3, <4>1 DEF LateOf
    <3> QED BY <3>2, <3>3
  <2>6. \A i \in 1 .. Len(requests') : Held(requests[i], LateOf(requests[i]))'
    <3> HIDE DEF Requests
    <3> QED BY <2>2, <2>3, <2>5, PutHeld
  <2>7. \A i \in 1 .. Len(retry') : Held(retry[i], 0)'
    <3> SUFFICES ASSUME NEW i \in 1 .. Len(retry) PROVE Held(retry[i], 0)'
      BY <2>1
    <3>1. PICK q \in Requests : q = retry[i] /\ Held(q, 0)
      BY QueueHeld
    <3>2. Held(q, 0)'
      BY <2>1, <2>4, <3>1, IssueHolds
    <3> QED BY <2>1, <3>1, <3>2 DEF Held, PendingName
  <2>8. ahead' <= MaxAhead
    BY <2>1, Constants DEF PendingIssue, Typed, TypeOK
  <2>9. replies' = {}
    BY <2>1 DEF GetsHeld
  <2> QED BY <2>1, <2>6, <2>7, <2>8, <2>9 DEF GetsHeld, LateOf, GetReplyNamesVariable, RepliesOf
<1>2. ASSUME UNCHANGED <<pending_names, pending_ticket, ahead, retry>>,
             pc' \in {pc, "idle"}, replies' = {},
             NEW r \in Requests, r.op # "get", requests' = requests \/ requests' = Put(requests, r)
      PROVE  GetsHeld'
  <2>1. Held(r, LateOf(r))'
    BY <1>2 DEF Held
  <2>2. \A q \in Requests : (\E i \in 1 .. Len(requests) : q = requests[i]) => Held(q, LateOf(q))'
    <3> SUFFICES ASSUME NEW q \in Requests, NEW i \in 1 .. Len(requests), q = requests[i]
                 PROVE  Held(q, LateOf(q))'
      OBVIOUS
    <3>1. Held(q, LateOf(q))
      BY QueueHeld
    <3> QED BY <1>2, <3>1 DEF Held, LateOf, PendingName
  <2>3. \A i \in 1 .. Len(requests') : Held(requests[i], LateOf(requests[i]))'
    BY <1>2, <2>1, <2>2, PutHeld
  <2>4. \A i \in 1 .. Len(retry') : Held(retry[i], 0)'
    BY <1>2, QueueHeld DEF Held, PendingName
  <2> QED BY <1>2, <2>3, <2>4 DEF GetsHeld, LateOf, GetReplyNamesVariable, RepliesOf
<1> DEFINE clear == [op |-> "clear", retries |-> 0]
<1>3. clear \in Requests /\ clear.op # "get"
  BY DEF Requests
<1>4. pc = "idle" => replies = {}
  BY DEF GetsHeld
<1>5. ASSUME NEW e \in Events, NEW forever \in BOOLEAN, Listen(e, forever) PROVE GetsHeld'
  <2>1. ListenTicket(e) \in Tickets
    BY <1>5, TicketsFound DEF Listen, Typed, Stops
  <2> DEFINE r == [op |-> "listen", name |-> e, ticket |-> ListenTicket(e),
                   forever |-> forever, retries |-> 1]
  <2>2. r \in Requests /\ r.op # "get"
    BY <2>1 DEF Requests
  <2>3. requests' = Put(requests, r) /\ pc' = pc /\ replies' = {}
        /\ UNCHANGED <<pending_names, pending_ticket, ahead, retry>>
    BY <1>4, <1>5 DEF Listen, Message
  <2> HIDE DEF r
  <2> QED BY <1>2, <2>2, <2>3
<1>6. ASSUME NEW e \in Events, Unlisten(e) PROVE GetsHeld'
  <2>1. Min(TicketsOf(e)) \in Tickets
    BY <1>6, TicketsFound DEF Unlisten, Typed, TicketsOf
  <2> DEFINE r == [op |-> "unlisten", name |-> e, ticket |-> Min(TicketsOf(e)),
                   forever |-> FALSE, retries |-> 0]
  <2>2. r \in Requests /\ r.op # "get"
    BY <2>1 DEF Requests
  <2>3. requests' = Put(requests, r) /\ pc' = pc /\ replies' = {}
        /\ UNCHANGED <<pending_names, pending_ticket, ahead, retry>>
    BY <1>4, <1>6 DEF Unlisten, Message
  <2> HIDE DEF r
  <2> QED BY <1>2, <2>2, <2>3
<1>7. ASSUME NEW e \in Events, NEW op \in {"signal", "broadcast"}, Trigger(e, op) PROVE GetsHeld'
  <2> DEFINE r == [op |-> op, name |-> e, retries |-> IF op = "broadcast" THEN 1 ELSE 0]
  <2>2. r \in Requests /\ r.op # "get"
    BY DEF Requests
  <2>3. requests' = Put(requests, r) /\ pc' = pc /\ replies' = {}
        /\ UNCHANGED <<pending_names, pending_ticket, ahead, retry>>
    BY <1>4, <1>7 DEF Trigger, Message
  <2> HIDE DEF r
  <2> QED BY <1>2, <2>2, <2>3
<1>8. CASE ClearVM
  <2>1. requests' = Put(requests, clear) /\ pc' = pc /\ replies' = {}
        /\ UNCHANGED <<pending_names, pending_ticket, ahead, retry>>
    BY <1>4, <1>8 DEF ClearVM, Message
  <2> HIDE DEF clear
  <2> QED BY <1>2, <1>3, <2>1
<1>9. ASSUME \/ \E e \in Events : ListenRefused(e) \/ ListenFull(e) \/ UnlistenUnknown(e)
             \/ GetMalformed \/ ClearMalformed
             \/ \E n \in Objects : Compile(n)
      PROVE  GetsHeld'
  <2>1. requests' = requests /\ pc' = pc /\ replies' = {}
        /\ UNCHANGED <<pending_names, pending_ticket, ahead, retry>>
    BY <1>4, <1>9 DEF ListenRefused, ListenFull, UnlistenUnknown, GetMalformed, ClearMalformed,
                      Compile, Message, Error
  <2> HIDE DEF clear
  <2> QED BY <1>2, <1>3, <2>1
<1> QED BY <1>1, <1>5, <1>6, <1>7, <1>8, <1>9 DEF Handlers

\* Handling a request takes it off the queue, perhaps to be retried.
LEMMA GetsTaken ==
  ASSUME Typed, GetsHeld, TakeRequest, Retry(Request) \/ UNCHANGED retry
  PROVE  /\ \A i \in 1 .. Len(requests') : Held(requests[i], LateOf(requests[i]))'
         /\ \A i \in 1 .. Len(retry') : Held(retry[i], 0)'
<1>1. UNCHANGED <<pending_names, pending_ticket, ahead>>
  BY DEF TakeRequest, tables
<1>2. PICK r \in Requests : r = Request /\ Held(r, LateOf(r))
  BY Taken, QueueHeld
<1>3. ASSUME NEW i \in 1 .. Len(requests') PROVE Held(requests[i], LateOf(requests[i]))'
  <2>1. PICK q \in Requests : q = requests'[i] /\ Held(q, LateOf(q))
    BY Taken, QueueHeld
  <2> QED BY <1>1, <2>1 DEF Held, LateOf, PendingName
<1>4. ASSUME NEW i \in 1 .. Len(retry') PROVE Held(retry[i], 0)'
  <2>1. CASE i \in 1 .. Len(retry) /\ retry'[i] = retry[i]
    <3>1. PICK q \in Requests : q = retry[i] /\ Held(q, 0)
      BY <2>1, QueueHeld
    <3> QED BY <1>1, <2>1, <3>1 DEF Held, PendingName
  <2>2. CASE retry'[i] = r /\ r.retries > 0
    <3>1. r.retries = 1
      BY <2>2, Kinds
    <3>2. Held(r, 0)
      BY <1>2, <3>1 DEF LateOf
    <3> QED BY <1>1, <2>2, <3>2 DEF Held, PendingName
  <2> QED BY <1>2, <2>1, <2>2, RetryKeeps
<1> QED BY <1>3, <1>4

LEMMA FireEvents ==
  ASSUME Typed, NEW e \in Events, NEW all \in BOOLEAN, Fire(e, all)
  PROVE  /\ \A r \in replies' : r.kind = "event" /\ r.about = e
         /\ \A r \in replies' : \E j \in 1 .. Len(listeners[e]) :
              /\ listeners[e][j].ticket \in Tickets
              /\ r.name = listen_names[listeners[e][j].ticket]
<1> DEFINE L == [ticket : Tickets, forever : BOOLEAN]
<1>1. listeners[e] \in Seq(L)
  BY DEF Typed, TypeOK
<1>2. \A j \in 1 .. Len(listeners[e]) : listeners[e][j].ticket \in Tickets
  <2>1. \A j \in 1 .. Len(listeners[e]) : listeners[e][j] \in L
    BY <1>1, ElementOfSeq
  <2> QED BY <2>1
<1>3. \A r \in replies' : \E j \in 1 .. Len(listeners[e]) : r \in EventReply(e, listeners[e][j].ticket)
  BY FireKeeps DEF Typed
<1>4. \A t \in Tickets : \A r \in EventReply(e, t) :
        r = [kind |-> "event", about |-> e, name |-> listen_names[t]]
  BY EventReplyTyped
<1> QED BY <1>2, <1>3, <1>4

LEMMA GetsCompute ==
  ASSUME Typed, GetsHeld, Computing
  PROVE  GetsHeld'
<1> USE DEF tables, engine
<1>1. CASE \/ ComputeBegin \/ ComputeEnd \/ \E n \in Objects : ShredBuilds(n)
  <2>1. UNCHANGED <<pending_names, pending_ticket, ahead, requests, retry>>
    BY <1>1 DEF ComputeBegin, ComputeEnd, ShredBuilds
  <2>2. replies' = {}
    BY <1>1 DEF ComputeBegin, ComputeEnd, ShredBuilds, GetsHeld
  <2> QED BY <2>1, <2>2 DEF GetsHeld, Held, PendingName, GetReplyNamesVariable, RepliesOf
<1>2. CASE HandleListen \/ HandleTrigger \/ HandleGet \/ HandleClear
  <2>1. TakeRequest /\ (Retry(Request) \/ UNCHANGED retry) /\ pc' = "requests" /\ ahead' = ahead
    BY <1>2 DEF HandleListen, HandleTrigger, HandleGet, HandleClear, TakeRequest
  <2>2. GetReplyNamesVariable'
    <3>1. CASE HandleListen \/ HandleClear
      <4>1. replies' = {}
        BY <3>1 DEF HandleListen, HandleClear
      <4> QED BY <4>1 DEF GetReplyNamesVariable, RepliesOf
    <3>2. CASE HandleTrigger
      <4>1. TakeRequest /\ Request.op \in {"signal", "broadcast"}
        BY <3>2 DEF HandleTrigger
      <4>2. Request.name \in Events /\ (Request.op = "broadcast") \in BOOLEAN
        BY <4>1, Taken, Kinds
      <4>3. \A r \in replies' : r.kind = "event"
        <5>1. CASE Fire(Request.name, Request.op = "broadcast")
          BY <4>2, <5>1, FireEvents
        <5>2. CASE replies' = {}
          BY <5>2
        <5> QED BY <3>2, <5>1, <5>2 DEF HandleTrigger
      <4> QED BY <4>3 DEF GetReplyNamesVariable, RepliesOf
    <3>3. CASE HandleGet
      <4>1. TakeRequest /\ Request.op = "get" /\ (replies' = {} \/ replies' = ValueReply(Request))
        BY <3>3 DEF HandleGet
      <4>2. PendingName(Request.ticket) = Request.name
        BY <4>1, Taken, QueueHeld DEF Held
      <4>3. \A r \in replies' : r.name = r.about
        BY <4>1, <4>2 DEF ValueReply
      <4> QED BY <4>3 DEF GetReplyNamesVariable, RepliesOf
    <3> QED BY <1>2, <3>1, <3>2, <3>3
  <2> QED BY <2>1, <2>2, GetsTaken DEF GetsHeld, LateOf
<1>3. CASE HandleRetries
  <2>1. /\ pc' = "shreds" /\ retry' = <<>> /\ ahead' = 0 /\ replies' = {}
        /\ UNCHANGED <<pending_names, pending_ticket>>
    BY <1>3 DEF HandleRetries
  <2>2. Len(retry') = 0
    BY <2>1
  <2>3. ASSUME NEW i \in 1 .. Len(requests') PROVE Held(requests[i], LateOf(requests[i]))'
    <3>1. i \in 1 .. Len(retry) /\ requests'[i] = Again(retry[i])
      BY <1>3, PutBack
    <3>2. PICK q \in Requests : q = retry[i] /\ Held(q, 0) /\ q.retries = 1
      BY <3>1, QueueHeld
    <3>3. PICK p \in Requests : p = requests'[i] /\ p.op = q.op /\ p.retries = 0
                                /\ (p.op = "get" => p.name = q.name /\ p.ticket = q.ticket)
      BY <3>1, <3>2, AgainTyped
    <3>4. SUFFICES ASSUME p.op = "get" PROVE Held(p, MaxAhead)'
      BY <3>3 DEF Held, LateOf, PendingName
    <3>5. q.ticket \in Nat /\ pending_ticket \in Nat /\ ahead \in Nat /\ ahead <= MaxAhead /\ MaxAhead \in Nat
      BY <3>2, <3>3, <3>4, Kinds, Constants DEF GetsHeld, Typed, TypeOK
    <3>6. q.ticket < pending_ticket /\ pending_ticket <= q.ticket + ahead /\ PendingName(q.ticket) = q.name
      BY <3>2, <3>3, <3>4, <3>5 DEF Held
    <3>7. q.ticket < pending_ticket' /\ pending_ticket' <= q.ticket + ahead' + MaxAhead
      BY <2>1, <3>5, <3>6
    <3>8. PendingName(q.ticket)' = q.name
      BY <2>1, <3>6 DEF PendingName
    <3> QED BY <3>3, <3>4, <3>7, <3>8 DEF Held
  <2> QED BY <2>1, <2>2, <2>3, Constants DEF GetsHeld, LateOf, GetReplyNamesVariable, RepliesOf
<1>4. ASSUME NEW e \in Events, NEW all \in BOOLEAN, ShredFires(e, all) PROVE GetsHeld'
  <2>1. /\ Fire(e, all) /\ pc = "shreds" /\ pc' = pc
        /\ UNCHANGED <<pending_names, pending_ticket, ahead, requests, retry>>
    BY <1>4 DEF ShredFires
  <2>2. \A r \in replies' : r.kind = "event"
    BY <2>1, FireEvents
  <2> QED BY <2>1, <2>2 DEF GetsHeld, Held, PendingName, GetReplyNamesVariable, RepliesOf
<1> QED BY <1>1, <1>2, <1>3, <1>4 DEF Computing, Compute

LEMMA GetsHeldNext ==
  ASSUME Typed, GetsHeld, 2 * MaxAhead <= PendingSize, [Next]_vars
  PROVE  GetsHeld'
<1>1. CASE UNCHANGED vars
  BY <1>1 DEF vars, tables, engine, GetsHeld, Held, PendingName, GetReplyNamesVariable, RepliesOf
<1>2. CASE Handlers
  BY <1>2, GetsMessage
<1>3. CASE Computing
  BY <1>3, GetsCompute
<1> QED BY <1>1, <1>2, <1>3 DEF Next, Computing

(* "val <name>" answers the get of <name>, retries included, however many  *)
(* gets there are, if the patch never gets further ahead of compute than   *)
(* half the ring of pending names (ck_pending_issue).                      *)
THEOREM GetsAnswered ==
  ASSUME 2 * MaxAhead <= PendingSize
  PROVE  Spec => []GetReplyNamesVariable
<1>1. GetsHeld => GetReplyNamesVariable
  BY DEF GetsHeld
<1>2. Typed /\ GetsHeld /\ [Next]_vars => GetsHeld'
  BY GetsHeldNext
<1>3. Init /\ Typed => GetsHeld
  BY GetsHeldInit
<1> QED BY <1>1, <1>2, <1>3, TypedAlways, PTL DEF Spec

-----------------------------------------------------------------------------
(* Events are told under their own names, and only while they are listened *)
(* to, if the patch lets requests be handled before it listens or          *)
(* unlistens.                                                              *)

Heard(ticket, e) == listen_names[ticket] = e /\ e \in attending

\* The patch has stopped listening to e, and the next request says so.
Going(e) == requests # <<>> /\ requests[1].op = "unlisten" /\ requests[1].name = e

\* Whoever listens is known by its ticket, but for those about to go; so are
\* those who will listen.  Nothing comes before an unlisten.
EventsHeard ==
  /\ \A e \in Events : globals[e] = "absent" => listeners[e] = <<>>
  /\ \A e \in Events :
       Going(e) \/ \A i \in 1 .. Len(listeners[e]) : Heard(listeners[e][i].ticket, e)
  /\ \A i \in 1 .. Len(requests) :
       /\ requests[i].op = "listen" => Heard(requests[i].ticket, requests[i].name)
       /\ requests[i].op = "unlisten" => i = 1 /\ requests[i].retries = 0 /\ pc # "shreds"
  /\ \A i \in 1 .. Len(retry) :
       /\ retry[i].op = "listen" => Heard(retry[i].ticket, retry[i].name)
       /\ retry[i].op # "unlisten"
  /\ pc = "idle" => replies = {}
  /\ \A r \in RepliesOf("event") : r.name = r.about /\ r.about \in attending

LEMMA EventsHeardInit == Init => EventsHeard
<1> SUFFICES ASSUME Init PROVE EventsHeard
  OBVIOUS
<1>1. Len(requests) = 0 /\ Len(retry) = 0 /\ replies = {}
  BY DEF Init
<1>2. \A e \in Events : listeners[e] = <<>> /\ Len(listeners[e]) = 0
  BY DEF Init
<1> QED BY <1>1, <1>2 DEF EventsHeard, RepliesOf

LEMMA EventsMessage ==
  ASSUME Typed, EventsHeard, Quiet, Handlers
  PROVE  EventsHeard'
<1> USE DEF tables, engine
<1>0. /\ requests \in Seq(Requests) /\ Len(requests) <= RequestCap
      /\ listen_names \in [Tickets -> Events \cup {NULL}]
      /\ listeners \in [Events -> Seq([ticket : Tickets, forever : BOOLEAN])]
  BY DEF Typed, TypeOK
<1>1. ASSUME UNCHANGED <<listen_names, attending, retry, listeners, pc>>, replies' = {},
             \A e \in Events : globals'[e] = "absent" => globals[e] = "absent",
             NEW r \in Requests, r.op \notin {"listen", "unlisten"},
             requests' = requests \/ requests' = Put(requests, r)
      PROVE  EventsHeard'
  <2>1. \A i \in 1 .. Len(requests') :
          (i \in 1 .. Len(requests) /\ requests'[i] = requests[i]) \/ requests'[i] = r
    <3>1. CASE requests' = requests
      BY <3>1
    <3>2. CASE requests' = Put(requests, r)
      BY <1>0, <3>2, PutKeeps
    <3> QED BY <1>1, <3>1, <3>2
  <2>2. requests # <<>> => requests' # <<>> /\ requests'[1] = requests[1]
    BY <1>0, <1>1, PutKeeps
  <2>3. \A e \in Events : Going(e) => Going(e)'
    BY <2>2 DEF Going
  <2> QED BY <1>1, <2>1, <2>3 DEF EventsHeard, Heard, RepliesOf
<1>2. pc = "idle" => replies = {} /\ Len(retry) = 0
  BY DEF EventsHeard, Typed, RetriesRight
<1>3. ASSUME NEW e \in Events, NEW forever \in BOOLEAN, Listen(e, forever) PROVE EventsHeard'
  <2>1. PICK t \in Tickets : t = ListenTicket(e) /\ listen_names[t] = NULL
    BY <1>3, TicketsFound DEF Listen, Typed, Stops
  <2> DEFINE r == [op |-> "listen", name |-> e, ticket |-> t, forever |-> forever, retries |-> 1]
  <2>2. /\ requests = <<>> /\ requests' = Put(requests, r) /\ pc = "idle"
        /\ listen_names' = [listen_names EXCEPT ![t] = e] /\ attending' = attending \cup {e}
        /\ UNCHANGED <<retry, listeners, globals, pc, replies>>
    BY <1>3, <2>1 DEF Listen, Message
  <2>3. r \in Requests
    BY DEF Requests
  <2>4. requests' = <<r>>
    <3> HIDE DEF r, Requests
    <3> QED BY <1>0, <2>2, <2>3, PutKeeps
  <2>5. Len(requests') = 1 /\ requests'[1] = r /\ r.op = "listen" /\ r.name = e /\ r.ticket = t
    BY <2>4
  <2>6. \A u \in Tickets, d \in Events : Heard(u, d) => Heard(u, d)'
    BY <1>0, <2>1, <2>2, Constants DEF Heard
  <2>7. Heard(t, e)'
    BY <1>0, <2>2 DEF Heard
  <2>8. \A d \in Events : ~Going(d)
    BY <2>2 DEF Going
  <2>9. \A d \in Events : \A i \in 1 .. Len(listeners[d]) : listeners[d][i].ticket \in Tickets
    <3> DEFINE L == [ticket : Tickets, forever : BOOLEAN]
    <3>1. \A d \in Events : \A i \in 1 .. Len(listeners[d]) : listeners[d][i] \in L
      BY <1>0, ElementOfSeq
    <3> QED BY <3>1
  <2>10. \A d \in Events : \A i \in 1 .. Len(listeners[d]) : Heard(listeners[d][i].ticket, d)'
    <3> SUFFICES ASSUME NEW d \in Events, NEW i \in 1 .. Len(listeners[d])
                 PROVE  Heard(listeners[d][i].ticket, d)'
      BY <2>2
    <3>1. PICK u \in Tickets : u = listeners[d][i].ticket
      BY <2>9
    <3>2. Heard(u, d)
      BY <2>8, <3>1 DEF EventsHeard
    <3> QED BY <2>2, <2>6, <3>1, <3>2 DEF Heard
  <2> HIDE DEF r
  <2> QED BY <1>2, <2>2, <2>5, <2>7, <2>10 DEF EventsHeard, Heard, RepliesOf
<1>4. ASSUME NEW e \in Events, Unlisten(e) PROVE EventsHeard'
  <2>1. PICK t \in Tickets : t = Min(TicketsOf(e)) /\ listen_names[t] = e
    BY <1>4, TicketsFound DEF Unlisten, Typed, TicketsOf
  <2> DEFINE r == [op |-> "unlisten", name |-> e, ticket |-> t, forever |-> FALSE, retries |-> 0]
  <2>2. /\ requests = <<>> /\ requests' = Put(requests, r) /\ pc = "idle"
        /\ listen_names' = [listen_names EXCEPT ![t] = NULL] /\ attending' = attending \ {e}
        /\ UNCHANGED <<retry, listeners, globals, pc, replies>>
    BY <1>4, <2>1 DEF Unlisten, Message
  <2>3. r \in Requests
    BY DEF Requests
  <2>4. requests' = <<r>>
    <3> HIDE DEF r, Requests
    <3> QED BY <1>0, <2>2, <2>3, PutKeeps
  <2>5. Len(requests') = 1 /\ requests'[1] = r /\ r.op = "unlisten" /\ r.name = e /\ r.retries = 0
    BY <2>4
  <2>6. \A u \in Tickets, d \in Events \ {e} : Heard(u, d) => Heard(u, d)'
    BY <1>0, <2>1, <2>2 DEF Heard
  <2>7. Going(e)' /\ \A d \in Events : ~Going(d)
    <3> HIDE DEF r
    <3> QED BY <2>2, <2>4, <2>5 DEF Going
  <2>8. \A d \in Events : \A i \in 1 .. Len(listeners[d]) : listeners[d][i].ticket \in Tickets
    <3> DEFINE L == [ticket : Tickets, forever : BOOLEAN]
    <3>1. \A d \in Events : \A i \in 1 .. Len(listeners[d]) : listeners[d][i] \in L
      BY <1>0, ElementOfSeq
    <3> QED BY <3>1
  <2>9. \A d \in Events \ {e} : \A i \in 1 .. Len(listeners[d]) : Heard(listeners[d][i].ticket, d)'
    <3> SUFFICES ASSUME NEW d \in Events \ {e}, NEW i \in 1 .. Len(listeners[d])
                 PROVE  Heard(listeners[d][i].ticket, d)'
      BY <2>2
    <3>1. PICK u \in Tickets : u = listeners[d][i].ticket
      BY <2>8
    <3>2. Heard(u, d)
      BY <2>7, <3>1 DEF EventsHeard
    <3> QED BY <2>2, <2>6, <3>1, <3>2 DEF Heard
  <2> HIDE DEF r
  <2> QED BY <1>2, <2>2, <2>5, <2>7, <2>9 DEF EventsHeard, Heard, RepliesOf
<1>5. ASSUME NEW e \in Events, NEW op \in {"signal", "broadcast"}, Trigger(e, op) PROVE EventsHeard'
  <2>1. PICK r \in Requests : r.op = op /\ requests' = Put(requests, r)
    <3> DEFINE r == [op |-> op, name |-> e, retries |-> IF op = "broadcast" THEN 1 ELSE 0]
    <3>1. r \in Requests /\ r.op = op
      BY DEF Requests
    <3>2. requests' = Put(requests, r)
      BY <1>5 DEF Trigger
    <3> HIDE DEF r
    <3> QED BY <3>1, <3>2
  <2>2. /\ UNCHANGED <<listen_names, attending, retry, listeners, pc, globals>>
        /\ replies' = {}
    BY <1>2, <1>5 DEF Trigger, Message
  <2> QED BY <1>1, <2>1, <2>2
<1>6. ASSUME NEW v \in Variables, Get(v) \/ GetUnknownType(v) PROVE EventsHeard'
  <2>1. PICK r \in Requests : r.op = "get" /\ (requests' = requests \/ requests' = Put(requests, r))
    <3> DEFINE r == [op |-> "get", name |-> v, ticket |-> pending_ticket,
                     retries |-> IF v \in Arrays THEN 1 ELSE 0]
    <3>1. r \in Requests /\ r.op = "get"
      BY DEF Requests, Typed, TypeOK
    <3>2. requests' = requests \/ requests' = Put(requests, r)
      BY <1>6 DEF Get, GetUnknownType
    <3> HIDE DEF r
    <3> QED BY <3>1, <3>2
  <2>2. /\ UNCHANGED <<listen_names, attending, retry, listeners, pc, globals>>
        /\ replies' = {}
    BY <1>2, <1>6 DEF Get, GetUnknownType, PendingIssue, Message
  <2> QED BY <1>1, <2>1, <2>2
<1>7. ASSUME \/ ClearVM
             \/ \E e \in Events : ListenRefused(e) \/ ListenFull(e) \/ UnlistenUnknown(e)
             \/ GetMalformed \/ ClearMalformed
      PROVE  EventsHeard'
  <2>1. PICK r \in Requests : r.op = "clear" /\ (requests' = requests \/ requests' = Put(requests, r))
    <3> DEFINE r == [op |-> "clear", retries |-> 0]
    <3>1. r \in Requests /\ r.op = "clear"
      BY DEF Requests
    <3>2. requests' = requests \/ requests' = Put(requests, r)
      BY <1>7 DEF ClearVM, ListenRefused, ListenFull, UnlistenUnknown, GetMalformed,
                  ClearMalformed, Error
    <3> HIDE DEF r
    <3> QED BY <3>1, <3>2
  <2>2. /\ UNCHANGED <<listen_names, attending, retry, listeners, pc, globals>>
        /\ replies' = {}
    BY <1>2, <1>7 DEF ClearVM, ListenRefused, ListenFull, UnlistenUnknown, GetMalformed,
                      ClearMalformed, Error, Message
  <2> QED BY <1>1, <2>1, <2>2
<1>8. ASSUME NEW n \in Objects, Compile(n) PROVE EventsHeard'
  <2>1. [op |-> "clear", retries |-> 0] \in Requests
    BY DEF Requests
  <2>2. /\ UNCHANGED <<listen_names, attending, retry, listeners, pc, requests>>
        /\ replies' = {}
    BY <1>8 DEF Compile
  <2>3. \A e \in Events : globals'[e] = "absent" => globals[e] = "absent"
    BY <1>8 DEF Compile, Typed, TypeOK, Objects
  <2> QED BY <1>1, <2>1, <2>2, <2>3
<1> QED BY <1>3, <1>4, <1>5, <1>6, <1>7, <1>8 DEF Handlers

LEMMA EventsTaken ==
  ASSUME Typed, EventsHeard, TakeRequest, Retry(Request) \/ UNCHANGED retry
  PROVE  /\ \A i \in 1 .. Len(requests') :
              /\ requests'[i].op = "listen" => Heard(requests[i].ticket, requests[i].name)'
              /\ requests'[i].op # "unlisten"
         /\ \A i \in 1 .. Len(retry') :
              /\ retry'[i].op = "listen" => Heard(retry[i].ticket, retry[i].name)'
              /\ retry'[i].op # "unlisten"
         /\ \A e \in Events : Going(e) <=> Request.op = "unlisten" /\ Request.name = e
<1>1. UNCHANGED <<listen_names, attending>>
  BY DEF TakeRequest, tables
<1>2. PICK r \in Requests : r = Request /\ r = requests[1] /\ 1 \in 1 .. Len(requests)
  BY Taken
<1>3. ASSUME NEW i \in 1 .. Len(requests')
      PROVE  /\ requests'[i].op = "listen" => Heard(requests[i].ticket, requests[i].name)'
             /\ requests'[i].op # "unlisten"
  <2>1. i + 1 \in 1 .. Len(requests) /\ requests'[i] = requests[i + 1] /\ i + 1 # 1
    BY Taken
  <2> QED BY <1>1, <2>1 DEF EventsHeard, Heard
<1>4. ASSUME NEW i \in 1 .. Len(retry')
      PROVE  /\ retry'[i].op = "listen" => Heard(retry[i].ticket, retry[i].name)'
             /\ retry'[i].op # "unlisten"
  <2>1. CASE i \in 1 .. Len(retry) /\ retry'[i] = retry[i]
    BY <1>1, <2>1 DEF EventsHeard, Heard
  <2>2. CASE retry'[i] = r /\ r.retries > 0
    <3>1. r.retries # 0
      BY <2>2
    <3>2. r.op = "listen" => Heard(r.ticket, r.name)
      BY <1>2 DEF EventsHeard
    <3>3. r.op # "unlisten"
      BY <1>2, <3>1 DEF EventsHeard
    <3> QED BY <1>1, <2>2, <3>2, <3>3 DEF Heard
  <2> QED BY <1>2, <2>1, <2>2, RetryKeeps
<1>5. requests # <<>>
  BY DEF TakeRequest
<1> QED BY <1>2, <1>3, <1>4, <1>5 DEF Going

\* Firing e tells of listeners the patch still hears, and keeps some of them.
LEMMA EventsFire ==
  ASSUME Typed, EventsHeard, NEW e \in Events, NEW all \in BOOLEAN, Fire(e, all),
         \A d \in Events : ~Going(d), UNCHANGED <<listen_names, attending, globals>>
  PROVE  /\ \A d \in Events : \A i \in 1 .. Len(listeners'[d]) : Heard(listeners[d][i].ticket, d)'
         /\ \A d \in Events : globals'[d] = "absent" => listeners'[d] = <<>>
         /\ \A r \in RepliesOf("event")' : r.name = r.about /\ r.about \in attending'
<1>1. \A d \in Events : \A i \in 1 .. Len(listeners[d]) : Heard(listeners[d][i].ticket, d)
  BY DEF EventsHeard
<1>2. ASSUME NEW d \in Events, NEW i \in 1 .. Len(listeners'[d])
      PROVE  Heard(listeners[d][i].ticket, d)'
  <2>1. \E j \in 1 .. Len(listeners[d]) : listeners'[d][i] = listeners[d][j]
    BY FireKeeps DEF Typed
  <2> QED BY <1>1, <2>1 DEF Heard
<1>3. \A d \in Events : globals'[d] = "absent" => listeners'[d] = <<>>
  BY FireKeeps DEF EventsHeard, Typed
<1>4. \A r \in replies' : r.about = e /\ r.name = e /\ e \in attending
  BY <1>1, FireEvents DEF Heard
<1> QED BY <1>2, <1>3, <1>4 DEF RepliesOf

LEMMA EventsCompute ==
  ASSUME Typed, EventsHeard, Computing
  PROVE  EventsHeard'
<1> USE DEF tables, engine
<1>0. /\ listeners \in [Events -> Seq([ticket : Tickets, forever : BOOLEAN])]
      /\ globals \in [Objects -> {"absent", "declared", "constructed"}]
      /\ Events \subseteq Objects
  BY DEF Typed, TypeOK, Objects
<1>1. CASE ComputeBegin \/ ComputeEnd
  <2>1. UNCHANGED <<listen_names, attending, requests, retry, listeners, globals>>
    BY <1>1 DEF ComputeBegin, ComputeEnd
  <2>2. replies' = {} /\ pc' # "shreds"
    BY <1>1 DEF ComputeBegin, ComputeEnd, EventsHeard
  <2> QED BY <2>1, <2>2 DEF EventsHeard, Heard, Going, RepliesOf
<1>2. ASSUME NEW n \in Objects, ShredBuilds(n) PROVE EventsHeard'
  <2>1. UNCHANGED <<listen_names, attending, requests, retry, listeners, pc>> /\ replies' = {}
    BY <1>2 DEF ShredBuilds
  <2>2. \A e \in Events : globals'[e] = "absent" => globals[e] = "absent"
    BY <1>0, <1>2 DEF ShredBuilds
  <2> QED BY <2>1, <2>2 DEF EventsHeard, Heard, Going, RepliesOf
<1>3. ASSUME NEW e \in Events, NEW all \in BOOLEAN, ShredFires(e, all) PROVE EventsHeard'
  <2>1. /\ pc = "shreds" /\ pc' = pc /\ Fire(e, all)
        /\ UNCHANGED <<listen_names, attending, requests, retry, globals>>
    BY <1>3 DEF ShredFires
  <2>2. \A d \in Events : ~Going(d)
    <3> SUFFICES ASSUME NEW d \in Events, Going(d) PROVE FALSE
      OBVIOUS
    <3>1. requests \in Seq(Requests) /\ requests # <<>>
      BY DEF Going, Typed, TypeOK
    <3>2. 1 \in 1 .. Len(requests)
      BY <3>1, TakeKeeps
    <3> QED BY <2>1, <3>2 DEF Going, EventsHeard
  <2> QED BY <2>1, <2>2, EventsFire DEF EventsHeard, Heard
<1>4. CASE HandleListen
  <2>1. /\ TakeRequest /\ (Retry(Request) \/ UNCHANGED retry)
        /\ Request.op \in {"listen", "unlisten"} /\ pc' = "requests" /\ replies' = {}
        /\ UNCHANGED <<listen_names, attending, globals>>
    BY <1>4 DEF HandleListen, TakeRequest
  <2>2. PICK r \in Requests : r = Request /\ r = requests[1] /\ 1 \in 1 .. Len(requests)
    BY <2>1, Taken
  <2>3. r.name \in Events /\ r.op \in {"listen", "unlisten"}
    BY <2>1, <2>2, Kinds
  <2> DEFINE l == [ticket |-> r.ticket, forever |-> r.forever]
  <2>4. \/ globals[r.name] = "absent" /\ UNCHANGED listeners
        \/ globals[r.name] # "absent" /\ r.op = "listen"
           /\ listeners' = [listeners EXCEPT ![r.name] = Append(@, l)]
        \/ globals[r.name] # "absent" /\ r.op # "listen"
           /\ listeners' = [listeners EXCEPT ![r.name] = <<>>]
    BY <1>4, <2>2 DEF HandleListen
  <2>5. ASSUME NEW e \in Events, globals'[e] = "absent" PROVE listeners'[e] = <<>>
    BY <1>0, <2>1, <2>3, <2>4, <2>5 DEF EventsHeard
  <2>6. ASSUME NEW e \in Events, NEW i \in 1 .. Len(listeners'[e])
        PROVE  Heard(listeners[e][i].ticket, e)'
    <3>1. CASE listeners'[e] = listeners[e]
      <4>1. ~Going(e)
        <5> SUFFICES ASSUME Going(e) PROVE FALSE
          OBVIOUS
        <5>1. r.op = "unlisten" /\ r.name = e
          BY <2>2 DEF Going
        <5>2. listeners'[e] = <<>>
          BY <1>0, <2>1, <2>4, <2>5, <5>1
        <5> QED BY <5>2
      <4> QED BY <2>1, <3>1, <4>1 DEF EventsHeard, Heard
    <3>2. CASE listeners'[e] # listeners[e]
      <4>1. e = r.name /\ ((r.op = "listen" /\ listeners'[e] = Append(listeners[e], l)) \/ listeners'[e] = <<>>)
        BY <1>0, <2>3, <2>4, <3>2
      <4>2. r.op = "listen" /\ listeners'[e] = Append(listeners[e], l)
        BY <4>1
      <4>3. ~Going(e)
        BY <2>2, <4>2 DEF Going
      <4>4. Heard(r.ticket, e) /\ l.ticket = r.ticket
        BY <2>2, <4>1, <4>2 DEF EventsHeard
      <4>5. (i \in 1 .. Len(listeners[e]) /\ listeners'[e][i] = listeners[e][i]) \/ listeners'[e][i] = l
        <5>1. listeners[e] \in Seq([ticket : Tickets, forever : BOOLEAN])
          BY <1>0
        <5> HIDE DEF l
        <5> QED BY <4>2, <5>1
      <4> HIDE DEF l
      <4> QED BY <2>1, <4>3, <4>4, <4>5 DEF EventsHeard, Heard
    <3> QED BY <3>1, <3>2
  <2> QED BY <2>1, <2>5, <2>6, EventsTaken DEF EventsHeard, RepliesOf
<1>5. CASE HandleTrigger \/ HandleGet
  <2>1. /\ TakeRequest /\ (Retry(Request) \/ UNCHANGED retry) /\ pc' = "requests"
        /\ Request.op \in {"signal", "broadcast", "get"}
        /\ UNCHANGED <<listen_names, attending, globals>>
    BY <1>5 DEF HandleTrigger, HandleGet, TakeRequest
  <2>2. \A e \in Events : ~Going(e)
    BY <2>1, EventsTaken
  <2>3. ASSUME UNCHANGED listeners, RepliesOf("event")' = {} PROVE EventsHeard'
    BY <2>1, <2>2, <2>3, EventsTaken DEF EventsHeard, Heard
  <2>4. CASE HandleGet
    <3>1. UNCHANGED listeners /\ (replies' = {} \/ replies' = ValueReply(Request))
      BY <2>4 DEF HandleGet
    <3>2. RepliesOf("event")' = {}
      BY <3>1 DEF RepliesOf, ValueReply
    <3> QED BY <2>3, <3>1, <3>2
  <2>5. CASE HandleTrigger
    <3>1. Request.name \in Events /\ (Request.op = "broadcast") \in BOOLEAN
      <4>1. Request \in Requests /\ Request.op \in {"signal", "broadcast"}
        BY <2>1, <2>5, Taken DEF HandleTrigger
      <4> QED BY <4>1, Kinds
    <3>2. CASE Fire(Request.name, Request.op = "broadcast")
      <4>1. /\ \A d \in Events : \A i \in 1 .. Len(listeners'[d]) : Heard(listeners[d][i].ticket, d)'
            /\ \A d \in Events : globals'[d] = "absent" => listeners'[d] = <<>>
            /\ \A r \in RepliesOf("event")' : r.name = r.about /\ r.about \in attending'
        BY <2>1, <2>2, <3>1, <3>2, EventsFire
      <4> QED BY <2>1, <4>1, EventsTaken DEF EventsHeard
    <3>3. CASE replies' = {} /\ UNCHANGED listeners
      BY <2>3, <3>3 DEF RepliesOf
    <3> QED BY <2>5, <3>2, <3>3 DEF HandleTrigger
  <2> QED BY <1>5, <2>4, <2>5
<1>6. CASE HandleClear
  <2>1. /\ TakeRequest /\ UNCHANGED retry /\ pc' = "requests" /\ replies' = {}
        /\ listeners' = [e \in Events |-> <<>>]
    BY <1>6 DEF HandleClear, TakeRequest
  <2>2. \A e \in Events : listeners'[e] = <<>> /\ Len(listeners'[e]) = 0
    BY <2>1
  <2> QED BY <2>1, <2>2, EventsTaken DEF EventsHeard, RepliesOf
<1>7. CASE HandleRetries
  <2>1. /\ pc' = "shreds" /\ retry' = <<>> /\ Len(retry') = 0 /\ replies' = {} /\ requests = <<>>
        /\ UNCHANGED <<listen_names, attending, listeners, globals>>
    BY <1>7 DEF HandleRetries
  <2>2. ASSUME NEW i \in 1 .. Len(requests')
        PROVE  /\ requests'[i].op = "listen" => Heard(requests[i].ticket, requests[i].name)'
               /\ requests'[i].op # "unlisten"
    <3>1. i \in 1 .. Len(retry) /\ requests'[i] = Again(retry[i])
      BY <1>7, PutBack
    <3>2. PICK q \in Requests : q = retry[i] /\ q.retries = 1
      BY <3>1, ElementOfSeq DEF Typed, TypeOK, RetriesRight
    <3>3. /\ requests'[i].op = q.op
          /\ q.op = "listen" => requests'[i].name = q.name /\ requests'[i].ticket = q.ticket
      BY <3>1, <3>2, AgainTyped
    <3> QED BY <2>1, <3>1, <3>2, <3>3 DEF EventsHeard, Heard
  <2>3. \A e \in Events : ~Going(e)
    BY <2>1 DEF Going
  <2> QED BY <2>1, <2>2, <2>3 DEF EventsHeard, Heard, RepliesOf
<1> QED BY <1>1, <1>2, <1>3, <1>4, <1>5, <1>6, <1>7 DEF Computing, Compute

LEMMA EventsHeardNext ==
  ASSUME Typed, EventsHeard, Quiet, [Next]_vars
  PROVE  EventsHeard'
<1>1. CASE UNCHANGED vars
  BY <1>1 DEF vars, tables, engine, EventsHeard, Heard, Going, RepliesOf
<1>2. CASE Handlers
  BY <1>2, EventsMessage
<1>3. CASE Computing
  BY <1>3, EventsCompute
<1> QED BY <1>1, <1>2, <1>3 DEF Next, Computing

LEMMA EventsHeardAlways ==
  ASSUME Quiet
  PROVE  Spec => []EventsHeard
<1>1. Typed /\ EventsHeard /\ [Next]_vars => EventsHeard'
  BY EventsHeardNext
<1> QED BY <1>1, EventsHeardInit, TypedAlways, PTL DEF Spec

(* "event <name>" is told when the event <name> fires and no other, though *)
(* the listener knows but a ticket that may have been given to another     *)
(* event since, if listen and unlisten wait for the queue to be handled.   *)
THEOREM RepliesNameEvents ==
  ASSUME Quiet
  PROVE  Spec => []EventReplyNamesEvent
<1>1. EventsHeard => EventReplyNamesEvent
  BY DEF EventsHeard, EventReplyNamesEvent
<1> QED BY <1>1, EventsHeardAlways, PTL

(* An event the patch has stopped listening to is told of no more, not     *)
(* even while its listener waits for the next compute to be removed.       *)
THEOREM UnlistenedIsSilent ==
  ASSUME Quiet
  PROVE  Spec => []NoReplyAfterUnlisten
<1>1. EventsHeard => NoReplyAfterUnlisten
  BY DEF EventsHeard, NoReplyAfterUnlisten
<1> QED BY <1>1, EventsHeardAlways, PTL
=============================================================================
