--------------------------- MODULE Values_proofs ---------------------------
(***************************************************************************)
(* Theorems about setting global variables, for every set of variables and *)
(* whatever the program declares, all numbers and lists, every size of the *)
(* request queue and any number of messages.                               *)
(***************************************************************************)
EXTENDS Values, SequenceTheorems, TLAPS

-----------------------------------------------------------------------------
(* The requests a message makes are well formed.                           *)

Proper(r) ==
  /\ r.op \in {"set", "get"} => r.target \in Targets
  /\ r.target.array => /\ r.op \in {"set", "get"}
                       /\ r.target.type \in Elements
  /\ r.op = "set" => r.value # <<>>
  /\ r.op = "clear globals" => r.op \in Commands

NewRequests ==
  {r \in Requests : Proper(r) /\ r.no = sent + 1 /\ (r.target.array => r.retries = 1)}

RequestsProper ==
  /\ \A i \in 1 .. Len(requests) : Proper(requests[i])
  /\ \A i \in 1 .. Len(retry) : Proper(retry[i])

RetriesInCompute == pc # "requests" => retry = <<>>

RetriesPositive == \A i \in 1 .. Len(retry) : retry[i].retries = 1

Base == TypeOK /\ RequestsProper /\ RetriesInCompute /\ RetriesPositive

-----------------------------------------------------------------------------
(* The effects a step has on the queue.                                    *)

Kept == UNCHANGED <<requests, retry, done>>

Queued ==
  /\ pc = "idle" /\ sent < MaxSent /\ sent' = sent + 1
  /\ \E rs \in Seq(NewRequests) : Put(rs)
  /\ fresh' = fresh \cup {sent'}
  /\ UNCHANGED <<tables, retry, shred, pc, crashed, done>>

Ignored ==
  /\ pc = "idle" /\ sent < MaxSent /\ sent' = sent + 1
  /\ shred' \in {shred, "due"}
  /\ pc' \in {pc, "halted"}
  /\ UNCHANGED <<tables, requests, retry, crashed, done, fresh, said>>

Handled ==
  /\ pc = "requests" /\ requests # <<>>
  /\ \/ HandleScalar(Head(requests))
     \/ HandleArray(Head(requests))
     \/ HandleUnknown(Head(requests))
     \/ HandleClear(Head(requests))

Ran ==
  \/ ShredDeclares \/ ShredEnds
  \/ \E n \in Names : ShredWrites(n) \/ ShredReads(n) \/ ShredWritesArray(n)

LEMMA RanEffect ==
  Ran => /\ pc = "shreds"
         /\ UNCHANGED <<requests, retry, pc, sent, done, fresh>>
BY DEF Ran, ShredDeclares, ShredEnds, ShredWrites, ShredReads, ShredWritesArray, Uses, Inside

Effect ==
  \/ Queued /\ said' \in [Names -> Seq(Nat)]
  \/ Ignored
  \/ ComputeBegin
  \/ Handled
  \/ HandleRetries
  \/ Ran
  \/ ComputeEnd
  \/ UNCHANGED vars

LEMMA Constants ==
  /\ RequestCap \in Nat \ {0} /\ MaxSent \in Nat
  /\ Numbers \subseteq Nat
  /\ \A v \in Lists : v \in Seq(Nat) /\ Len(v) \in Nat /\ Len(v) >= 2
  /\ \A n \in Names :
       /\ Declared[n].array \in BOOLEAN
       /\ Declared[n].type \in Scalars
       /\ Declared[n].array => Declared[n].type \in Elements
<1>1. \A v \in Lists : v \in Seq(Nat) /\ Len(v) \in Nat /\ Len(v) >= 2
  BY ConstantsAssumption, LenProperties DEF ConstantsAssumption
<1>2. \A n \in Names : Declared[n] \in Types
  BY ConstantsAssumption DEF ConstantsAssumption
<1>3. \A d \in Types : /\ d.array \in BOOLEAN /\ d.type \in Scalars
                       /\ d.array => d.type \in Elements
  BY DEF Types, Scalars, Elements
<1> QED BY <1>1, <1>2, <1>3, ConstantsAssumption DEF ConstantsAssumption

LEMMA OneRequest ==
  ASSUME NEW S, NEW r \in S
  PROVE  <<r>> \in Seq(S) /\ Len(<<r>>) = 1 /\ <<r>>[1] = r
OBVIOUS

LEMMA Converted ==
  ASSUME NEW t, NEW v \in Seq(Nat), v # <<>>
  PROVE  As(t, v) \in Seq(Nat) /\ As(t, v) # <<>>
<1>1. Len(v) \in Nat /\ DOMAIN v = 1 .. Len(v) /\ Len(v) # 0 /\ \A i \in 1 .. Len(v) : v[i] \in Nat
  BY EmptySeq, LenProperties
<1>2. \A x \in Nat : Truncated(x) \in Nat
  BY DEF Truncated
<1>3. As(t, v) = [i \in 1 .. Len(v) |-> IF t = "int" THEN Truncated(v[i]) ELSE v[i]]
  BY <1>1 DEF As
<1>4. \A i \in 1 .. Len(v) : (IF t = "int" THEN Truncated(v[i]) ELSE v[i]) \in Nat
  BY <1>1, <1>2
<1>5. As(t, v) \in Seq(Nat) /\ Len(As(t, v)) = Len(v)
  BY <1>1, <1>3, <1>4
<1> QED BY <1>1, <1>5, EmptySeq

LEMMA Made ==
  ASSUME sent \in 0 .. MaxSent, sent < MaxSent, NEW op \in {"set", "get"},
         NEW t \in Targets, t.array => t.type \in Elements,
         NEW v \in Seq(Nat), op = "set" => v # <<>>
  PROVE  Request(op, t, v) \in NewRequests
<1>1. sent + 1 \in 0 .. MaxSent
  BY Constants
<1>2. Request(op, t, v) \in Requests
  BY <1>1 DEF Request, Requests
<1> QED BY <1>2 DEF Request, NewRequests, Proper

LEMMA NextNumber ==
  ASSUME sent \in 0 .. MaxSent, sent < MaxSent
  PROVE  sent + 1 \in 0 .. MaxSent
BY Constants

LEMMA MadeClear ==
  ASSUME sent + 1 \in 0 .. MaxSent,
         NEW op \in {"clear globals", "clear vm"}, op \in Commands
  PROVE  Request(op, NoTarget, <<>>) \in NewRequests
<1>1. <<>> \in Seq(Nat)
  BY EmptySeq, Zenon
<1>2. Request(op, NoTarget, <<>>) \in Requests
  BY <1>1 DEF Request, Requests, NoTarget
<1> QED BY <1>2 DEF Request, NewRequests, Proper, NoTarget

-----------------------------------------------------------------------------
LEMMA SendsEffect ==
  ASSUME TypeOK, NEW cmd, Message(cmd), NEW rs \in Seq(NewRequests), Sends(rs)
  PROVE  Queued
BY DEF Message, Sends, Queued

LEMMA SaysTyped ==
  ASSUME TypeOK, NEW n, NEW fits, NEW v \in Seq(Nat), NEW rs, Says(n, fits, v, rs)
  PROVE  said' \in [Names -> Seq(Nat)]
<1>1. said \in [Names -> Seq(Nat)] /\ <<>> \in Seq(Nat)
  BY EmptySeq DEF TypeOK
<1> QED BY <1>1 DEF Says

LEMMA Enqueued ==
  ASSUME TypeOK, NEW cmd, Message(cmd), NEW op \in {"set", "get"},
         NEW t \in Targets, t.array => t.type \in Elements,
         NEW v \in Seq(Nat), op = "set" => v # <<>>
  PROVE  /\ <<Request(op, t, v)>> \in Seq(NewRequests)
         /\ Sends(<<Request(op, t, v)>>) => Queued
<1>1. sent \in 0 .. MaxSent /\ sent < MaxSent
  BY DEF TypeOK, Message
<1>2. Request(op, t, v) \in NewRequests
  BY <1>1, Made
<1>3. <<Request(op, t, v)>> \in Seq(NewRequests)
  BY <1>2, OneRequest
<1> QED BY <1>3, SendsEffect

LEMMA ScalarTarget ==
  ASSUME NEW n \in Names, NEW t \in Scalars
  PROVE  LET g == Target(n, FALSE, t, "all", 0) IN g \in Targets /\ ~g.array
BY DEF Target, Targets

LEMMA ArrayTarget ==
  ASSUME NEW n \in Names, NEW t \in Elements,
         NEW p \in {"all", "element", "key"}, NEW i \in Nat
  PROVE  LET g == Target(n, TRUE, t, p, i) IN g \in Targets /\ g.type \in Elements
BY DEF Target, Targets, Elements, Scalars

LEMMA OneValue ==
  ASSUME NEW x \in Nat
  PROVE  <<x>> \in Seq(Nat) /\ <<x>> # <<>>
OBVIOUS

LEMMA IndexOf ==
  ASSUME NEW v \in Lists
  PROVE  v \in Seq(Nat) /\ v # <<>> /\ ToInt(v[1]) \in Nat /\ v[2] \in Nat
<1>1. v \in Seq(Nat) /\ 1 \in 1 .. Len(v) /\ 2 \in 1 .. Len(v)
  BY Constants
<1>2. v[1] \in Nat /\ v[2] \in Nat
  BY <1>1, ElementOfSeq
<1> QED BY <1>1, <1>2, EmptySeq DEF ToInt

LEMMA ScalarEffect ==
  ASSUME TypeOK, NEW n \in Names, NEW x \in Numbers, NEW t \in {"float", "string"},
         SetScalarUntyped(n, x, t)
  PROVE  Queued /\ said' \in [Names -> Seq(Nat)]
<1> DEFINE r == Request("set", Target(n, FALSE, t, "all", 0), <<x>>)
<1>1. x \in Nat /\ <<x>> \in Seq(Nat) /\ <<x>> # <<>>
  BY Constants, OneValue
<1>2. Target(n, FALSE, t, "all", 0) \in Targets /\ ~Target(n, FALSE, t, "all", 0).array
  BY ScalarTarget DEF Scalars
<1>3. /\ Message("untyped") /\ Sends(<<r>>)
      /\ \E fits \in BOOLEAN : Says(n, fits, <<x>>, <<r>>)
  BY DEF SetScalarUntyped
<1> QED BY <1>1, <1>2, <1>3, Enqueued, SaysTyped

LEMMA KeyEffect ==
  ASSUME TypeOK, NEW n \in Names, NEW x \in Numbers, SetKeyUntyped(n, x)
  PROVE  Queued /\ said' \in [Names -> Seq(Nat)]
<1> DEFINE t == Target(n, TRUE, "float", "key", 0)
<1>1. x \in Nat /\ <<x>> \in Seq(Nat) /\ <<x>> # <<>>
  BY Constants, OneValue
<1>2. t \in Targets /\ t.type \in Elements
  BY ArrayTarget DEF Elements
<1>3. Message("untyped") /\ Sends(<<Request("set", t, <<x>>)>>) /\ said' = said
  BY DEF SetKeyUntyped
<1>4. said \in [Names -> Seq(Nat)]
  BY DEF TypeOK
<1> QED BY <1>1, <1>2, <1>3, <1>4, Enqueued

LEMMA ListEffect ==
  ASSUME TypeOK, NEW n \in Names, NEW v \in Lists, SetListUntyped(n, v)
  PROVE  Queued /\ said' \in [Names -> Seq(Nat)]
<1> DEFINE all == Target(n, TRUE, "float", "all", 0)
           one == Target(n, TRUE, "float", "element", ToInt(v[1]))
           rs == <<Request("set", all, v)>> \o Element(n, v)
<1>1. v \in Seq(Nat) /\ v # <<>> /\ ToInt(v[1]) \in Nat /\ v[2] \in Nat
  BY IndexOf
<1>2. all \in Targets /\ all.type \in Elements /\ one \in Targets /\ one.type \in Elements
  BY <1>1, ArrayTarget DEF Elements
<1>3. Message("untyped") /\ Sends(rs) /\ Says(n, Declared[n].array, v, rs)
  BY DEF SetListUntyped
<1>4. <<Request("set", all, v)>> \in Seq(NewRequests)
  BY <1>1, <1>2, <1>3, Enqueued
<1>5. <<Request("set", one, <<v[2]>>)>> \in Seq(NewRequests)
  BY <1>1, <1>2, <1>3, OneValue, Enqueued
<1>6. Element(n, v) \in Seq(NewRequests)
  BY <1>5, EmptySeq DEF Element
<1>7. rs \in Seq(NewRequests)
  BY <1>4, <1>6, ConcatProperties
<1> HIDE DEF rs
<1>8. Queued
  BY <1>3, <1>7, SendsEffect
<1>9. said' \in [Names -> Seq(Nat)]
  BY <1>1, <1>3, SaysTyped
<1> QED BY <1>8, <1>9

LEMMA SetEffect ==
  ASSUME TypeOK, NEW t \in Targets, t.array => t.type \in Elements,
         NEW v \in Seq(Nat), v # <<>>, Set(t, v)
  PROVE  Queued /\ said' \in [Names -> Seq(Nat)]
<1>1. As(t.type, v) \in Seq(Nat) /\ As(t.type, v) # <<>>
  BY Converted
<1>2. /\ Message("set") /\ Sends(<<Request("set", t, As(t.type, v))>>)
      /\ Says(t.name, FALSE, v, <<Request("set", t, As(t.type, v))>>)
  BY DEF Set
<1>3. Queued
  BY <1>1, <1>2, Enqueued
<1>4. said' \in [Names -> Seq(Nat)]
  BY <1>2, SaysTyped
<1> QED BY <1>3, <1>4

LEMMA TypedEffect ==
  ASSUME TypeOK, SetTyped
  PROVE  Queued /\ said' \in [Names -> Seq(Nat)]
<1>1. PICK n \in Names :
    \/ \E t \in Scalars, x \in Numbers : Set(Target(n, FALSE, t, "all", 0), <<x>>)
    \/ \E t \in Elements, v \in Lists : Set(Target(n, TRUE, t, "all", 0), v)
    \/ \E t \in Elements, v \in Lists :
         Set(Target(n, TRUE, t, "element", ToInt(v[1])), <<v[2]>>)
    \/ \E t \in Elements, x \in Numbers : Set(Target(n, TRUE, t, "key", 0), <<x>>)
  BY DEF SetTyped
<1>2. \A x \in Numbers : x \in Nat
  BY Constants
<1>3. ASSUME NEW t \in Scalars, NEW x \in Numbers, Set(Target(n, FALSE, t, "all", 0), <<x>>)
      PROVE  Queued /\ said' \in [Names -> Seq(Nat)]
  <2>1. Target(n, FALSE, t, "all", 0) \in Targets /\ ~Target(n, FALSE, t, "all", 0).array
    BY ScalarTarget
  <2> QED BY <1>2, <1>3, <2>1, OneValue, SetEffect
<1>4. ASSUME NEW t \in Elements, NEW v \in Lists, Set(Target(n, TRUE, t, "all", 0), v)
      PROVE  Queued /\ said' \in [Names -> Seq(Nat)]
  <2>1. Target(n, TRUE, t, "all", 0) \in Targets /\ Target(n, TRUE, t, "all", 0).type \in Elements
    BY ArrayTarget
  <2> QED BY <1>4, <2>1, IndexOf, SetEffect
<1>5. ASSUME NEW t \in Elements, NEW v \in Lists,
             Set(Target(n, TRUE, t, "element", ToInt(v[1])), <<v[2]>>)
      PROVE  Queued /\ said' \in [Names -> Seq(Nat)]
  <2>1. ToInt(v[1]) \in Nat /\ v[2] \in Nat
    BY IndexOf
  <2>2. /\ Target(n, TRUE, t, "element", ToInt(v[1])) \in Targets
        /\ Target(n, TRUE, t, "element", ToInt(v[1])).type \in Elements
    BY <2>1, ArrayTarget
  <2> QED BY <1>5, <2>1, <2>2, OneValue, SetEffect
<1>6. ASSUME NEW t \in Elements, NEW x \in Numbers, Set(Target(n, TRUE, t, "key", 0), <<x>>)
      PROVE  Queued /\ said' \in [Names -> Seq(Nat)]
  <2>1. Target(n, TRUE, t, "key", 0) \in Targets /\ Target(n, TRUE, t, "key", 0).type \in Elements
    BY ArrayTarget
  <2> QED BY <1>2, <1>6, <2>1, OneValue, SetEffect
<1> QED BY <1>1, <1>3, <1>4, <1>5, <1>6

LEMMA GetEffect ==
  ASSUME TypeOK, NEW n \in Names,
         \/ \E t \in Scalars : Get(n, FALSE, t)
         \/ \E t \in Elements : Get(n, TRUE, t)
  PROVE  Queued /\ said' \in [Names -> Seq(Nat)]
<1>1. PICK g \in Targets : /\ g.array => g.type \in Elements
                          /\ Message("get") /\ Sends(<<Request("get", g, <<>>)>>)
                          /\ said' = said
  BY ScalarTarget, ArrayTarget DEF Get
<1>2. said \in [Names -> Seq(Nat)] /\ <<>> \in Seq(Nat)
  BY DEF TypeOK
<1> QED BY <1>1, <1>2, Enqueued

LEMMA ClearEffect ==
  ASSUME TypeOK, NEW op \in {"clear globals", "clear vm"}, Clear(op)
  PROVE  Queued /\ said' \in [Names -> Seq(Nat)]
<1>1. /\ Message(op) /\ Sends(<<Request(op, NoTarget, <<>>)>>)
      /\ said' = [n \in Names |-> <<>>] /\ <<>> \in Seq(Nat)
  BY EmptySeq DEF Clear
<1>2. sent + 1 \in 0 .. MaxSent /\ op \in Commands
  <2>1. sent \in 0 .. MaxSent /\ sent < MaxSent /\ op \in Commands
    BY <1>1 DEF TypeOK, Message
  <2> QED BY <2>1, NextNumber, Zenon
<1>3. <<Request(op, NoTarget, <<>>)>> \in Seq(NewRequests)
  BY <1>2, MadeClear, OneRequest
<1>4. Queued
  BY <1>1, <1>3, SendsEffect
<1> QED BY <1>1, <1>4

LEMMA Effects ==
  ASSUME TypeOK, [Next]_vars
  PROVE  Effect
<1>1. ASSUME NEW n \in Names, NEW x \in Numbers, NEW t \in {"float", "string"},
             SetScalarUntyped(n, x, t)
      PROVE  Effect
  BY <1>1, ScalarEffect DEF Effect
<1>2. ASSUME NEW n \in Names, NEW x \in Numbers, SetKeyUntyped(n, x)
      PROVE  Effect
  BY <1>2, KeyEffect DEF Effect
<1>3. ASSUME NEW n \in Names, NEW v \in Lists, SetListUntyped(n, v)
      PROVE  Effect
  BY <1>3, ListEffect DEF Effect
<1>4. CASE SetTyped
  BY <1>4, TypedEffect DEF Effect
<1>5. CASE SetMalformed \/ SetIgnored
  BY <1>5 DEF SetMalformed, SetIgnored, Message, Ignored, Effect, tables
<1>6. ASSUME NEW n \in Names, NEW t \in Scalars, Get(n, FALSE, t)
      PROVE  Effect
  BY <1>6, GetEffect DEF Effect
<1>7. ASSUME NEW n \in Names, NEW t \in Elements, Get(n, TRUE, t)
      PROVE  Effect
  BY <1>7, GetEffect DEF Effect
<1>8. ASSUME NEW op \in {"clear globals", "clear vm"}, Clear(op)
      PROVE  Effect
  BY <1>8, ClearEffect DEF Effect
<1>9. CASE Add
  BY <1>9 DEF Add, Message, Ignored, Effect, tables
<1>10. CASE ComputeBegin \/ HandleRetries \/ ComputeEnd
  BY <1>10 DEF Effect
<1>11. CASE Handle
  BY <1>11 DEF Handle, Handled, Effect
<1>12. CASE ShredDeclares \/ ShredEnds
  BY <1>12 DEF Ran, Effect
<1>13. ASSUME NEW n \in Names, ShredWrites(n) \/ ShredReads(n) \/ ShredWritesArray(n)
       PROVE  Effect
  BY <1>13 DEF Ran, Effect
<1>14. CASE Halted \/ UNCHANGED vars
  BY <1>14 DEF Effect, Halted
<1> QED BY <1>1, <1>2, <1>3, <1>4, <1>5, <1>6, <1>7, <1>8, <1>9, <1>10, <1>11, <1>12, <1>13, <1>14
        DEF Next

-----------------------------------------------------------------------------
(* What the effects do to the requests that wait.                          *)

LEMMA PutEffect ==
  ASSUME requests \in Seq(Requests), Len(requests) <= RequestCap,
         NEW rs \in Seq(NewRequests), Put(rs)
  PROVE  /\ requests' \in Seq(Requests) /\ Len(requests') <= RequestCap
         /\ Len(requests) <= Len(requests')
         /\ \A i \in 1 .. Len(requests) : requests'[i] = requests[i]
         /\ \A i \in 1 .. Len(requests') :
              i \in 1 .. Len(requests) \/ requests'[i] \in NewRequests
<1> DEFINE all == requests \o rs
<1>1. rs \in Seq(Requests) /\ Len(rs) \in Nat /\ Len(requests) \in Nat /\ RequestCap \in Nat
  <2>1. NewRequests \subseteq Requests
    BY DEF NewRequests
  <2>2. rs \in Seq(Requests)
    BY <2>1, SeqMonotonic
  <2> QED BY <2>2, LenProperties, Constants
<1>2. /\ all \in Seq(Requests) /\ Len(all) = Len(requests) + Len(rs)
      /\ \A i \in 1 .. Len(requests) + Len(rs) :
           all[i] = IF i <= Len(requests) THEN requests[i] ELSE rs[i - Len(requests)]
  BY <1>1, ConcatProperties
<1>3. \A i \in 1 .. Len(rs) : rs[i] \in NewRequests
  BY ElementOfSeq
<1>4. \A i \in 1 .. Len(all) :
        IF i <= Len(requests) THEN all[i] = requests[i] ELSE all[i] \in NewRequests
  BY <1>1, <1>2, <1>3
<1>5. requests' = IF Len(all) <= RequestCap THEN all ELSE SubSeq(all, 1, RequestCap)
  BY DEF Put
<1> HIDE DEF all
<1>6. CASE Len(all) <= RequestCap
  BY <1>1, <1>2, <1>4, <1>5, <1>6
<1>7. CASE ~(Len(all) <= RequestCap)
  <2>1. requests' = SubSeq(all, 1, RequestCap) /\ RequestCap < Len(all)
    BY <1>1, <1>2, <1>5, <1>7
  <2>2. \A i \in 1 .. RequestCap : i \in 1 .. Len(all) /\ all[i] \in Requests
    BY <1>1, <1>2, <2>1, ElementOfSeq
  <2>3. /\ requests' \in Seq(Requests)
        /\ Len(requests') = IF 1 <= RequestCap THEN RequestCap - 1 + 1 ELSE 0
        /\ \A i \in 1 .. RequestCap - 1 + 1 : requests'[i] = all[1 + i - 1]
    BY <1>1, <2>1, <2>2, SubSeqProperties
  <2>4. Len(requests') = RequestCap /\ \A i \in 1 .. RequestCap : requests'[i] = all[i]
    BY <1>1, <2>3
  <2> QED BY <1>1, <1>4, <2>2, <2>3, <2>4
<1> QED BY <1>6, <1>7

\* The request at the head is tried again later, is given up or does not count, or is
\* carried out.
Deferred(r) ==
  /\ r.target.array /\ array[r.target.name] = Nowhere /\ r.retries > 0
  /\ retry' = Append(retry, r)
  /\ done' = done

Dropped(r) ==
  /\ ~(r.target.array /\ array[r.target.name] = Nowhere /\ r.retries > 0)
  /\ UNCHANGED <<retry, done>>

CarriedOut(r) ==
  /\ r.target \in Targets
  /\ r.target.array => array[r.target.name] # Nowhere
  /\ done' = [done EXCEPT ![Table(r)][r.target.name] = r.no]
  /\ retry' = retry

LEMMA HandledEffect ==
  ASSUME Base, Handled
  PROVE  /\ pc = "requests" /\ requests # <<>> /\ requests' = Tail(requests)
         /\ UNCHANGED <<pc, sent, crashed, fresh, said>>
         /\ Deferred(Head(requests)) \/ Dropped(Head(requests)) \/ CarriedOut(Head(requests))
         /\ \A n \in Names : array[n] = Nowhere => array'[n] = Nowhere
<1> DEFINE r == Head(requests)
<1>1. /\ pc = "requests" /\ requests # <<>> /\ Takes
      /\ HandleScalar(r) \/ HandleArray(r) \/ HandleUnknown(r) \/ HandleClear(r)
  BY DEF Handled, HandleScalar, HandleArray, HandleUnknown, HandleClear
<1>2. requests' = Tail(requests) /\ UNCHANGED <<pc, sent, crashed, fresh, said>>
  BY <1>1 DEF Takes
<1>3. r \in Requests /\ Proper(r)
  <2>1. requests \in Seq(Requests)
    BY DEF Base, TypeOK
  <2>2. r \in Requests /\ r = requests[1] /\ 1 \in 1 .. Len(requests)
    BY <1>1, <2>1, HeadTailProperties, EmptySeq
  <2> QED BY <2>2 DEF Base, RequestsProper
<1>4. array \in [Names -> [type : Elements \cup {"none"}, built : BOOLEAN,
                          elements : Seq(Nat), key : Nat]]
  BY DEF Base, TypeOK
<1> HIDE DEF r
<1>5. CASE HandleScalar(r)
  <2>1. r.target \in Targets /\ ~r.target.array /\ done' = [done EXCEPT ![Table(r)][r.target.name] = r.no]
        /\ UNCHANGED <<array, retry>>
    BY <1>3, <1>5 DEF HandleScalar, Done, Proper
  <2> QED BY <1>1, <1>2, <2>1 DEF CarriedOut, r
<1>6. CASE HandleArray(r)
  <2>1. r.target \in Targets /\ r.target.array /\ array[r.target.name] # Nowhere /\ retry' = retry
    BY <1>3, <1>6 DEF HandleArray, Proper
  <2>2. \/ done' = [done EXCEPT ![Table(r)][r.target.name] = r.no]
        \/ done' = done
    BY <1>6 DEF HandleArray, Done
  <2>3. \A n \in Names : array[n] = Nowhere => array'[n] = Nowhere
    <3>1. \A n \in Names : n # r.target.name => array'[n] = array[n]
      BY <1>4, <1>6 DEF HandleArray
    <3> QED BY <2>1, <3>1
  <2>4. Dropped(r) \/ CarriedOut(r)
    BY <2>1, <2>2 DEF Dropped, CarriedOut
  <2> QED BY <1>1, <1>2, <2>3, <2>4 DEF r
<1>7. CASE HandleUnknown(r)
  <2>1. r.target.array /\ array[r.target.name] = Nowhere /\ UNCHANGED <<array, done>>
        /\ retry' = IF r.retries > 0 THEN Append(retry, r) ELSE retry
    BY <1>7 DEF HandleUnknown, Again, tables
  <2>2. Deferred(r) \/ Dropped(r)
    BY <2>1 DEF Deferred, Dropped
  <2> QED BY <1>1, <1>2, <2>1, <2>2 DEF r
<1>8. CASE HandleClear(r)
  <2>1. UNCHANGED <<retry, done>> /\ array' = [n \in Names |-> Nowhere]
        /\ r.op \in {"clear globals", "clear vm"}
    BY <1>8 DEF HandleClear
  <2>2. Dropped(r)
    BY <1>3, <2>1 DEF Dropped, Proper
  <2> QED BY <1>1, <1>2, <2>1, <2>2 DEF r
<1> QED BY <1>1, <1>5, <1>6, <1>7, <1>8

Lowered(r) == [r EXCEPT !.retries = @ - 1]

LEMMA RetriesOf ==
  ASSUME NEW r \in Requests
  PROVE  r.retries \in {0, 1}
BY DEF Requests

LEMMA LoweredRecord ==
  ASSUME NEW Op, NEW Tg, NEW Vl, NEW No,
         NEW r \in [op : Op, target : Tg, value : Vl, no : No, retries : {0, 1}], r.retries = 1
  PROVE  /\ Lowered(r) \in [op : Op, target : Tg, value : Vl, no : No, retries : {0, 1}]
         /\ Lowered(r).op = r.op /\ Lowered(r).target = r.target
         /\ Lowered(r).value = r.value /\ Lowered(r).no = r.no
<1>1. Lowered(r) \in [op : Op, target : Tg, value : Vl, no : No, retries : {0, 1}]
  BY DEF Lowered
<1>2. /\ Lowered(r).op = r.op /\ Lowered(r).target = r.target
      /\ Lowered(r).value = r.value /\ Lowered(r).no = r.no
  BY DEF Lowered
<1> QED BY <1>1, <1>2

LEMMA LoweredIsRequest ==
  ASSUME NEW r \in Requests, r.retries = 1
  PROVE  /\ Lowered(r) \in Requests
         /\ Lowered(r).op = r.op /\ Lowered(r).target = r.target
         /\ Lowered(r).value = r.value /\ Lowered(r).no = r.no
<1> DEFINE Op == {"set", "get", "clear globals", "clear vm"}
           Tg == Targets \cup {NoTarget}
           Vl == Seq(Nat)
           No == 0 .. MaxSent
<1>1. Requests = [op : Op, target : Tg, value : Vl, no : No, retries : {0, 1}]
  BY DEF Requests
<1> HIDE DEF Op, Tg, Vl, No
<1> QED BY <1>1, LoweredRecord

LEMMA PutBackEffect ==
  ASSUME Base, HandleRetries
  PROVE  /\ requests = <<>> /\ retry' = <<>> /\ requests' \in Seq(Requests)
         /\ Len(requests') = Len(retry)
         /\ \A i \in 1 .. Len(requests') :
              /\ requests'[i].op = retry[i].op /\ requests'[i].target = retry[i].target
              /\ requests'[i].value = retry[i].value /\ requests'[i].no = retry[i].no
         /\ pc = "requests" /\ pc' = "shreds"
         /\ UNCHANGED <<tables, shred, sent, crashed, done, fresh, said>>
<1>1. /\ requests = <<>> /\ retry' = <<>> /\ requests' = PutBack
      /\ pc = "requests" /\ pc' = "shreds"
      /\ UNCHANGED <<tables, shred, sent, crashed, done, fresh, said>>
  BY DEF HandleRetries
<1>2. /\ retry \in Seq(Requests) /\ Len(retry) \in Nat /\ DOMAIN retry = 1 .. Len(retry)
      /\ \A i \in 1 .. Len(retry) : retry[i] \in Requests /\ retry[i].retries = 1
  BY LenProperties DEF Base, TypeOK, RetriesPositive
<1>3. requests' = [i \in 1 .. Len(retry) |-> Lowered(retry[i])]
  BY <1>1, <1>2 DEF PutBack, Lowered
<1>4. \A i \in 1 .. Len(retry) : Lowered(retry[i]) \in Requests
  BY <1>2, LoweredIsRequest
<1>5. requests' \in Seq(Requests) /\ Len(requests') = Len(retry)
  BY <1>2, <1>3, <1>4
<1>6. \A i \in 1 .. Len(requests') : requests'[i] = Lowered(retry[i])
  BY <1>3, <1>5
<1>7. \A i \in 1 .. Len(requests') :
        /\ requests'[i].op = retry[i].op /\ requests'[i].target = retry[i].target
        /\ requests'[i].value = retry[i].value /\ requests'[i].no = retry[i].no
  BY <1>2, <1>5, <1>6, LoweredIsRequest
<1> QED BY <1>1, <1>5, <1>7

-----------------------------------------------------------------------------
(* Type correctness: the queues, then the tables.                          *)

QueueOK ==
  /\ requests \in Seq(Requests) /\ retry \in Seq(Requests)
  /\ Len(requests) + Len(retry) <= RequestCap
  /\ pc \in {"idle", "requests", "shreds", "halted"}
  /\ sent \in 0 .. MaxSent
  /\ done \in [Tables -> [Names -> 0 .. MaxSent]]
  /\ fresh \subseteq 1 .. MaxSent
  /\ RequestsProper /\ RetriesInCompute /\ RetriesPositive

TablesOK ==
  /\ scalar \in [Scalars -> [Names -> Seq(Nat)]]
  /\ array \in [Names -> [type : Elements \cup {"none"}, built : BOOLEAN,
                          elements : Seq(Nat), key : Nat]]
  /\ shred \in {"none", "due", "runs"}
  /\ crashed \in BOOLEAN
  /\ said \in [Names -> Seq(Nat)]

LEMMA BaseParts == Base <=> QueueOK /\ TablesOK
BY DEF Base, TypeOK, QueueOK, TablesOK

LEMMA QueueAfterMessage ==
  ASSUME Base, Queued
  PROVE  QueueOK'
<1>1. QueueOK /\ retry = <<>> /\ retry' = <<>>
  BY BaseParts DEF Queued, Base, RetriesInCompute
<1>2. PICK rs \in Seq(NewRequests) : Put(rs)
  BY DEF Queued
<1>3. Len(requests) \in Nat /\ Len(<<>>) = 0 /\ requests \in Seq(Requests)
  BY <1>1, LenProperties, EmptySeq DEF QueueOK
<1>4. Len(requests) <= RequestCap
  BY <1>1, <1>3, Constants DEF QueueOK
<1>5. /\ requests' \in Seq(Requests) /\ Len(requests') <= RequestCap
      /\ \A i \in 1 .. Len(requests) : requests'[i] = requests[i]
      /\ \A i \in 1 .. Len(requests') :
           i \in 1 .. Len(requests) \/ requests'[i] \in NewRequests
  BY <1>2, <1>3, <1>4, PutEffect
<1>6. RequestsProper'
  <2>1. \A r \in NewRequests : Proper(r)
    BY DEF NewRequests
  <2>2. \A i \in 1 .. Len(requests) : Proper(requests[i])
    BY <1>1 DEF QueueOK, RequestsProper
  <2>3. \A i \in 1 .. Len(requests') : Proper(requests'[i])
    BY <1>5, <2>1, <2>2
  <2>4. 1 .. Len(retry') = {}
    BY <1>1, <1>3
  <2> QED BY <2>3, <2>4 DEF RequestsProper, Proper
<1>7. sent' \in 0 .. MaxSent /\ fresh' \subseteq 1 .. MaxSent
  <2>1. sent \in 0 .. MaxSent /\ sent < MaxSent /\ sent' = sent + 1
        /\ fresh' = fresh \cup {sent'} /\ fresh \subseteq 1 .. MaxSent
    BY <1>1 DEF QueueOK, Queued
  <2>2. sent + 1 \in 1 .. MaxSent
    BY <2>1, Constants
  <2> QED BY <2>1, <2>2
<1>8. Len(requests') + Len(retry') <= RequestCap /\ retry' \in Seq(Requests)
  <2>1. Len(requests') \in Nat
    BY <1>5, LenProperties
  <2> QED BY <1>1, <1>3, <1>5, <2>1 DEF QueueOK
<1>9. RetriesInCompute' /\ RetriesPositive'
  BY <1>1, <1>3 DEF RetriesInCompute, RetriesPositive
<1>10. UNCHANGED <<pc, done>>
  BY DEF Queued
<1> QED BY <1>1, <1>5, <1>6, <1>7, <1>8, <1>9, <1>10 DEF QueueOK

LEMMA HeadRequest ==
  ASSUME Base, requests # <<>>, requests' = Tail(requests)
  PROVE  /\ Head(requests) \in Requests /\ Proper(Head(requests))
         /\ Head(requests) = requests[1] /\ 1 \in 1 .. Len(requests)
         /\ requests' \in Seq(Requests) /\ Len(requests') = Len(requests) - 1
         /\ Len(requests) \in Nat /\ Len(requests') \in Nat
         /\ \A i \in 1 .. Len(requests') :
              requests'[i] = requests[i + 1] /\ i + 1 \in 1 .. Len(requests)
<1>1. requests \in Seq(Requests)
  BY DEF Base, TypeOK
<1>2. /\ Head(requests) \in Requests /\ Head(requests) = requests[1]
      /\ requests' \in Seq(Requests) /\ Len(requests') = Len(requests) - 1
      /\ \A i \in 1 .. Len(requests') : requests'[i] = requests[i + 1]
  BY <1>1, HeadTailProperties
<1>3. Len(requests) \in Nat \ {0} /\ Len(requests') \in Nat
  BY <1>1, <1>2, EmptySeq, LenProperties
<1>4. 1 \in 1 .. Len(requests) /\ \A i \in 1 .. Len(requests') : i + 1 \in 1 .. Len(requests)
  BY <1>2, <1>3
<1>5. Proper(Head(requests))
  BY <1>2, <1>4 DEF Base, RequestsProper
<1> QED BY <1>2, <1>3, <1>4, <1>5

LEMMA AppendedRetry ==
  ASSUME Base, NEW r \in Requests, retry' = Append(retry, r)
  PROVE  /\ retry' \in Seq(Requests) /\ Len(retry') = Len(retry) + 1 /\ Len(retry) \in Nat
         /\ \A i \in 1 .. Len(retry) : retry'[i] = retry[i]
         /\ retry'[Len(retry')] = r
         /\ \A i \in 1 .. Len(retry') : i \in 1 .. Len(retry) \/ i = Len(retry')
<1>1. retry \in Seq(Requests) /\ Len(retry) \in Nat
  BY LenProperties DEF Base, TypeOK
<1>2. /\ retry' \in Seq(Requests) /\ Len(retry') = Len(retry) + 1
      /\ \A i \in 1 .. Len(retry) : retry'[i] = retry[i]
      /\ retry'[Len(retry) + 1] = r
  BY <1>1, AppendProperties
<1> QED BY <1>1, <1>2

LEMMA QueueAfterHandled ==
  ASSUME Base, Handled
  PROVE  QueueOK'
<1> DEFINE r == Head(requests)
<1>1. /\ pc = "requests" /\ requests # <<>> /\ requests' = Tail(requests)
      /\ UNCHANGED <<pc, sent, crashed, fresh, said>>
      /\ Deferred(r) \/ Dropped(r) \/ CarriedOut(r)
  BY HandledEffect
<1>2. /\ r \in Requests /\ Proper(r)
      /\ requests' \in Seq(Requests) /\ Len(requests') = Len(requests) - 1
      /\ Len(requests) \in Nat
      /\ \A i \in 1 .. Len(requests') :
           requests'[i] = requests[i + 1] /\ i + 1 \in 1 .. Len(requests)
  BY <1>1, HeadRequest
<1> HIDE DEF r
<1>3. QueueOK
  BY BaseParts
<1>4. \A i \in 1 .. Len(requests') : Proper(requests'[i])
  BY <1>2, <1>3 DEF QueueOK, RequestsProper
<1>5. /\ retry' \in Seq(Requests) /\ Len(retry') \in Nat
      /\ Len(retry') <= Len(retry) + 1 /\ Len(retry) \in Nat
      /\ \A i \in 1 .. Len(retry') : Proper(retry'[i]) /\ retry'[i].retries = 1
  <2>1. /\ retry \in Seq(Requests) /\ Len(retry) \in Nat
        /\ \A i \in 1 .. Len(retry) : Proper(retry[i]) /\ retry[i].retries = 1
    BY <1>3, LenProperties DEF QueueOK, RequestsProper, RetriesPositive
  <2>2. CASE retry' = retry
    BY <2>1, <2>2
  <2>3. CASE Deferred(r)
    <3>1. r.retries = 1 /\ retry' = Append(retry, r)
      BY <1>2, <2>3, RetriesOf DEF Deferred
    <3>2. /\ retry' \in Seq(Requests) /\ Len(retry') = Len(retry) + 1 /\ Len(retry) \in Nat
          /\ \A i \in 1 .. Len(retry) : retry'[i] = retry[i]
          /\ retry'[Len(retry')] = r
          /\ \A i \in 1 .. Len(retry') : i \in 1 .. Len(retry) \/ i = Len(retry')
      BY <1>2, <3>1, AppendedRetry
    <3>3. \A i \in 1 .. Len(retry') : Proper(retry'[i]) /\ retry'[i].retries = 1
      BY <1>2, <2>1, <3>1, <3>2
    <3> QED BY <3>2, <3>3
  <2> QED BY <1>1, <2>2, <2>3 DEF Dropped, CarriedOut
<1>6. done' \in [Tables -> [Names -> 0 .. MaxSent]]
  <2>1. CASE done' = done
    BY <1>3, <2>1 DEF QueueOK
  <2>2. CASE CarriedOut(r)
    <3>1. Table(r) \in Tables /\ r.target.name \in Names /\ r.no \in 0 .. MaxSent
      BY <1>2, <2>2 DEF CarriedOut, Targets, Requests, Table, Tables
    <3>2. /\ done \in [Tables -> [Names -> 0 .. MaxSent]]
          /\ done' = [done EXCEPT ![Table(r)][r.target.name] = r.no]
      BY <1>3, <2>2 DEF CarriedOut, QueueOK
    <3> HIDE DEF Table
    <3> QED BY <3>1, <3>2
  <2> QED BY <1>1, <2>1, <2>2 DEF Deferred, Dropped
<1>7. Len(requests') + Len(retry') <= RequestCap
  BY <1>2, <1>3, <1>5, Constants DEF QueueOK
<1>8. RequestsProper' /\ RetriesPositive'
  BY <1>4, <1>5 DEF RequestsProper, RetriesPositive, Proper
<1>9. RetriesInCompute'
  BY <1>1 DEF RetriesInCompute
<1> QED BY <1>1, <1>2, <1>3, <1>5, <1>6, <1>7, <1>8, <1>9 DEF QueueOK

LEMMA QueueAfterPutBack ==
  ASSUME Base, HandleRetries
  PROVE  QueueOK'
<1>1. /\ requests = <<>> /\ retry' = <<>> /\ requests' \in Seq(Requests)
      /\ Len(requests') = Len(retry)
      /\ \A i \in 1 .. Len(requests') :
           /\ requests'[i].op = retry[i].op /\ requests'[i].target = retry[i].target
           /\ requests'[i].value = retry[i].value /\ requests'[i].no = retry[i].no
      /\ pc = "requests" /\ pc' = "shreds"
      /\ UNCHANGED <<tables, shred, sent, crashed, done, fresh, said>>
  BY PutBackEffect
<1>2. QueueOK /\ Len(<<>>) = 0 /\ Len(retry) \in Nat /\ retry' \in Seq(Requests)
  <2>1. QueueOK
    BY BaseParts
  <2>2. Len(retry) \in Nat
    BY <2>1, LenProperties DEF QueueOK
  <2>3. Len(<<>>) = 0 /\ <<>> \in Seq(Requests)
    BY EmptySeq
  <2> QED BY <1>1, <2>1, <2>2, <2>3
<1>3. \A i \in 1 .. Len(requests') : Proper(requests'[i])
  BY <1>1, <1>2 DEF QueueOK, RequestsProper, Proper
<1>4. RequestsProper' /\ RetriesPositive'
  <2>1. 1 .. Len(retry') = {}
    BY <1>1, <1>2
  <2> QED BY <1>3, <2>1 DEF RequestsProper, RetriesPositive, Proper
<1>5. RetriesInCompute' /\ pc' \in {"idle", "requests", "shreds", "halted"}
  BY <1>1 DEF RetriesInCompute
<1>6. Len(requests') + Len(retry') <= RequestCap
  BY <1>1, <1>2, Constants DEF QueueOK
<1>7. UNCHANGED <<sent, done, fresh>>
  BY <1>1
<1> QED BY <1>1, <1>2, <1>4, <1>5, <1>6, <1>7 DEF QueueOK

LEMMA QueueStep ==
  ASSUME Base, Effect
  PROVE  QueueOK'
<1>1. QueueOK
  BY BaseParts
<1>2. CASE Ignored
  <2>1. sent + 1 \in 0 .. MaxSent
    BY <1>1, <1>2, NextNumber DEF Ignored, QueueOK
  <2> QED BY <1>1, <1>2, <2>1
          DEF Ignored, QueueOK, RequestsProper, RetriesInCompute, RetriesPositive, Proper
<1>3. CASE ComputeBegin
  BY <1>1, <1>3
     DEF ComputeBegin, QueueOK, RequestsProper, RetriesInCompute, RetriesPositive, Proper
<1>4. CASE ComputeEnd
  <2>1. {} \subseteq 1 .. MaxSent
    OBVIOUS
  <2> QED BY <1>1, <1>4, <2>1
          DEF ComputeEnd, QueueOK, RequestsProper, RetriesInCompute, RetriesPositive, Proper
<1>5. CASE Ran
  BY <1>1, <1>5, RanEffect
     DEF QueueOK, RequestsProper, RetriesInCompute, RetriesPositive, Proper
<1>6. CASE UNCHANGED vars
  BY <1>1, <1>6
     DEF vars, tables, QueueOK, RequestsProper, RetriesInCompute, RetriesPositive, Proper
<1> QED BY <1>2, <1>3, <1>4, <1>5, <1>6, QueueAfterMessage, QueueAfterHandled, QueueAfterPutBack
        DEF Effect

Containers == [type : Elements \cup {"none"}, built : BOOLEAN, elements : Seq(Nat), key : Nat]

LEMMA Empty == Nowhere \in Containers /\ <<>> \in Seq(Nat) /\ <<0>> \in Seq(Nat)
BY DEF Nowhere, Containers

LEMMA WithTyped ==
  ASSUME NEW c \in Containers, NEW r \in Requests, r.value # <<>>
  PROVE  With(c, r) \in Containers
<1>1. r.value \in Seq(Nat)
  BY DEF Requests
<1>2. r.value[1] \in Nat
  BY <1>1, EmptySeq, ElementOfSeq
<1>3. c.elements \in Seq(Nat) /\ Len(c.elements) \in Nat /\ DOMAIN c.elements = 1 .. Len(c.elements)
      /\ \A j \in 1 .. Len(c.elements) : c.elements[j] \in Nat
  BY LenProperties DEF Containers
<1> DEFINE i == r.target.index + 1
           e == [j \in 1 .. Len(c.elements) |-> IF j = i THEN r.value[1] ELSE c.elements[j]]
<1>4. e \in Seq(Nat)
  BY <1>2, <1>3
<1>5. With(c, r) \in {[c EXCEPT !.elements = r.value], [c EXCEPT !.key = r.value[1]],
                      [c EXCEPT !.elements = e]}
  BY <1>3 DEF With
<1> HIDE DEF e
<1> QED BY <1>1, <1>2, <1>4, <1>5 DEF Containers

LEMMA TablesAfterScalar ==
  ASSUME Base, NEW r \in Requests, Proper(r), HandleScalar(r)
  PROVE  TablesOK'
<1>1. TablesOK
  BY BaseParts
<1> DEFINE t == r.target.type
           n == r.target.name
           e == CASE r.op = "set" -> r.value [] r.op = "get" /\ scalar[t][n] = <<>> -> <<0>> [] OTHER -> scalar[t][n]
<1>2. t \in Scalars /\ n \in Names
  BY DEF HandleScalar, Proper, Targets
<1>3. r.value \in Seq(Nat)
  BY DEF Requests
<1>4. scalar \in [Scalars -> [Names -> Seq(Nat)]] /\ scalar[t][n] \in Seq(Nat)
  BY <1>1, <1>2 DEF TablesOK
<1>5. e \in Seq(Nat)
  BY <1>3, <1>4, Empty
<1>6. scalar' = [scalar EXCEPT ![t][n] = e]
  BY <1>2, <1>4 DEF HandleScalar
<1>7. UNCHANGED <<array, shred, crashed, said>>
  BY DEF HandleScalar, Takes
<1> HIDE DEF t, n, e
<1>8. scalar' \in [Scalars -> [Names -> Seq(Nat)]]
  BY <1>2, <1>4, <1>5, <1>6
<1> QED BY <1>1, <1>7, <1>8 DEF TablesOK

LEMMA TablesAfterArray ==
  ASSUME Base, NEW r \in Requests, Proper(r), HandleArray(r)
  PROVE  TablesOK'
<1>1. TablesOK
  BY BaseParts
<1> DEFINE n == r.target.name
<1>2. r.target \in Targets /\ n \in Names
  BY DEF HandleArray, Proper, Targets
<1>3. array \in [Names -> Containers]
  BY <1>1 DEF TablesOK, Containers
<1>4. \/ array' = array
      \/ r.op = "set" /\ array' = [array EXCEPT ![n] = With(array[n], r)]
  BY <1>2, <1>3 DEF HandleArray
<1>5. UNCHANGED <<scalar, shred, crashed, said>>
  BY DEF HandleArray, Takes
<1>6. r.op = "set" => With(array[n], r) \in Containers
  BY <1>2, <1>3, WithTyped DEF Proper
<1> HIDE DEF n
<1>7. array' \in [Names -> Containers]
  BY <1>2, <1>3, <1>4, <1>6
<1> QED BY <1>1, <1>5, <1>7 DEF TablesOK, Containers

LEMMA TablesAfterClear ==
  ASSUME Base, NEW r, HandleClear(r)
  PROVE  TablesOK'
<1>1. TablesOK
  BY BaseParts
<1>2. /\ shred' \in {shred, "none"}
      /\ scalar' = [t \in Scalars |-> [n \in Names |-> <<>>]]
      /\ array' = [n \in Names |-> Nowhere]
      /\ UNCHANGED <<crashed, said>>
  BY DEF HandleClear, Takes, Stopped
<1>3. array' \in [Names -> Containers] /\ scalar' \in [Scalars -> [Names -> Seq(Nat)]]
  BY <1>2, Empty
<1> QED BY <1>1, <1>2, <1>3 DEF TablesOK, Containers

LEMMA TablesAfterHandled ==
  ASSUME Base, Handled
  PROVE  TablesOK'
<1> DEFINE r == Head(requests)
<1>1. requests # <<>> /\ requests' = Tail(requests)
  BY HandledEffect
<1>2. r \in Requests /\ Proper(r)
  BY <1>1, HeadRequest
<1>3. HandleScalar(r) \/ HandleArray(r) \/ HandleUnknown(r) \/ HandleClear(r)
  BY DEF Handled
<1> HIDE DEF r
<1>4. CASE HandleUnknown(r)
  <2>1. TablesOK /\ UNCHANGED <<tables, shred, crashed, said>>
    BY <1>4, BaseParts DEF HandleUnknown, Takes
  <2> QED BY <2>1 DEF TablesOK, tables
<1> QED BY <1>2, <1>3, <1>4, TablesAfterScalar, TablesAfterArray, TablesAfterClear

LEMMA TablesAfterDeclares ==
  ASSUME Base, ShredDeclares
  PROVE  TablesOK'
<1>1. TablesOK
  BY BaseParts
<1>2. scalar' = [t \in Scalars |-> [n \in Names |->
         IF Declared[n] = [array |-> FALSE, type |-> t] /\ scalar[t][n] = <<>>
         THEN <<0>> ELSE scalar[t][n]]]
  BY DEF ShredDeclares
<1>3. scalar' \in [Scalars -> [Names -> Seq(Nat)]]
  <2>1. \A t \in Scalars, n \in Names : scalar[t][n] \in Seq(Nat)
    BY <1>1 DEF TablesOK
  <2> QED BY <1>2, <2>1, Empty
<1>4. PICK sized \in SUBSET {n \in Names : Declared[n].array} :
        array' = [n \in Names |->
           CASE n \in sized -> Container(Declared[n].type, <<0, 0>>)
             [] n \notin sized /\ Declared[n].array /\ array[n] = Nowhere ->
                  [Nowhere EXCEPT !.type = Declared[n].type]
             [] OTHER -> array[n]]
  BY DEF ShredDeclares
<1>5. ASSUME NEW n \in Names
      PROVE  array'[n] \in Containers
  <2>1. array[n] \in Containers
    BY <1>1 DEF TablesOK, Containers
  <2>2. <<0, 0>> \in Seq(Nat)
    OBVIOUS
  <2>3. ASSUME Declared[n].array
        PROVE  /\ Container(Declared[n].type, <<0, 0>>) \in Containers
               /\ [Nowhere EXCEPT !.type = Declared[n].type] \in Containers
    <3>1. Declared[n].type \in Elements
      BY <2>3, Constants
    <3> QED BY <2>2, <3>1, Empty DEF Container, Containers, Nowhere
  <2>4. array'[n] \in {Container(Declared[n].type, <<0, 0>>), [Nowhere EXCEPT !.type = Declared[n].type], array[n]}
        /\ (Declared[n].array \/ array'[n] = array[n])
    BY <1>4
  <2> QED BY <2>1, <2>3, <2>4
<1>6. array' \in [Names -> Containers]
  <2>1. \E f : array' = [n \in Names |-> f[n]]
    <3> WITNESS array'
    <3> QED BY <1>4
  <2> QED BY <1>5, <2>1
<1>7. said' \in [Names -> Seq(Nat)] /\ shred' = "runs" /\ crashed' = crashed
  BY Empty DEF ShredDeclares
<1> QED BY <1>1, <1>3, <1>6, <1>7 DEF TablesOK, Containers

LEMMA TablesAfterUse ==
  ASSUME Base, NEW n \in Names, ShredWrites(n) \/ ShredReads(n) \/ ShredWritesArray(n)
  PROVE  TablesOK'
<1>1. TablesOK /\ <<>> \in Seq(Nat) /\ <<0>> \in Seq(Nat)
  BY BaseParts, Empty
<1>2. said' \in [Names -> Seq(Nat)] /\ Declared[n].type \in Scalars
  <2>1. Uses(n)
    BY DEF ShredWrites, ShredReads, ShredWritesArray
  <2> QED BY <1>1, <2>1, Constants DEF Uses, TablesOK
<1>3. CASE ShredWrites(n)
  <2> DEFINE t == Declared[n].type
             e == <<0>>
  <2>1. \/ scalar' = scalar
        \/ scalar' = [scalar EXCEPT ![t][n] = e]
    BY <1>3 DEF ShredWrites
  <2>2. scalar \in [Scalars -> [Names -> Seq(Nat)]] /\ t \in Scalars /\ e \in Seq(Nat)
    BY <1>1, <1>2 DEF TablesOK
  <2> HIDE DEF t, e
  <2>3. [scalar EXCEPT ![t][n] = e] \in [Scalars -> [Names -> Seq(Nat)]]
    BY <2>2
  <2>4. scalar' \in [Scalars -> [Names -> Seq(Nat)]]
    BY <2>1, <2>2, <2>3, Zenon
  <2>5. crashed' \in BOOLEAN /\ UNCHANGED <<array, shred>>
    BY <1>3 DEF ShredWrites
  <2> QED BY <1>1, <1>2, <2>4, <2>5 DEF TablesOK
<1>4. CASE ShredReads(n)
  <2> DEFINE t == Declared[n].type
             e == IF scalar[t][n] = <<>> THEN <<0>> ELSE scalar[t][n]
  <2>1. UNCHANGED <<array, shred, crashed>>
    BY <1>4 DEF ShredReads
  <2>2. scalar \in [Scalars -> [Names -> Seq(Nat)]] /\ t \in Scalars
    BY <1>1, <1>2 DEF TablesOK
  <2>3. scalar' = [scalar EXCEPT ![t][n] = e]
    BY <1>4, <2>2 DEF ShredReads
  <2>4. e \in Seq(Nat)
    BY <1>1, <2>2
  <2> HIDE DEF e, t
  <2>5. scalar' \in [Scalars -> [Names -> Seq(Nat)]]
    BY <2>2, <2>3, <2>4
  <2> QED BY <1>1, <1>2, <2>1, <2>5 DEF TablesOK
<1>5. CASE ShredWritesArray(n)
  <2> DEFINE e == [i \in DOMAIN array[n].elements |-> 0]
  <2>1. UNCHANGED <<scalar, crashed>> /\ shred' \in {shred, "none"}
        /\ (array' = array \/ array' = [array EXCEPT ![n].elements = e])
    BY <1>1, <1>5 DEF ShredWritesArray, TablesOK
  <2>2. array \in [Names -> Containers] /\ array[n] \in Containers
    BY <1>1 DEF TablesOK, Containers
  <2>3. e \in Seq(Nat)
    <3>1. /\ Len(array[n].elements) \in Nat
          /\ DOMAIN array[n].elements = 1 .. Len(array[n].elements)
      BY <2>2, LenProperties DEF Containers
    <3> QED BY <3>1
  <2> HIDE DEF e
  <2>4. [array[n] EXCEPT !.elements = e] \in Containers
    BY <2>2, <2>3 DEF Containers
  <2>5. array' \in [Names -> Containers]
    BY <2>1, <2>2, <2>4
  <2> QED BY <1>1, <1>2, <2>1, <2>5 DEF TablesOK, Containers
<1> QED BY <1>3, <1>4, <1>5

LEMMA TablesStep ==
  ASSUME Base, [Next]_vars
  PROVE  TablesOK'
<1>1. TablesOK /\ Effect
  BY BaseParts, Effects DEF Base
<1>2. CASE Queued /\ said' \in [Names -> Seq(Nat)]
  BY <1>1, <1>2 DEF Queued, TablesOK, tables
<1>3. CASE Ignored \/ ComputeBegin \/ HandleRetries \/ ComputeEnd \/ UNCHANGED vars
  BY <1>1, <1>3
     DEF Ignored, ComputeBegin, HandleRetries, ComputeEnd, vars, TablesOK, tables
<1>4. CASE Handled
  BY <1>4, TablesAfterHandled
<1>5. CASE Ran
  <2>1. CASE ShredEnds
    BY <1>1, <2>1 DEF ShredEnds, TablesOK, tables
  <2> QED BY <1>5, <2>1, TablesAfterDeclares, TablesAfterUse DEF Ran
<1> QED BY <1>1, <1>2, <1>3, <1>4, <1>5 DEF Effect

LEMMA BaseInit == Init => Base
<1> SUFFICES ASSUME Init PROVE Base
  OBVIOUS
<1>1. Len(<<>>) = 0 /\ <<>> \in Seq(Requests)
  BY EmptySeq
<1>2. QueueOK
  BY <1>1, Constants
     DEF Init, QueueOK, RequestsProper, RetriesInCompute, RetriesPositive
<1>3. TablesOK
  BY Empty DEF Init, TablesOK, Containers
<1> QED BY <1>2, <1>3, BaseParts

(* The inductive invariant: types, and requests that are well formed.      *)
THEOREM BaseInvariant == Spec => []Base
<1>1. Base /\ [Next]_vars => Base'
  <2>1. ASSUME Base, [Next]_vars PROVE QueueOK' /\ TablesOK'
    BY <2>1, Effects, QueueStep, TablesStep DEF Base
  <2>2. QueueOK' /\ TablesOK' => Base'
    BY DEF Base, TypeOK, QueueOK, TablesOK, RequestsProper, RetriesInCompute, RetriesPositive,
           Proper
  <2> QED BY <2>1, <2>2
<1> QED BY <1>1, BaseInit, PTL DEF Spec

(* Every variable keeps its type: in particular the two queues together    *)
(* never hold more than the buffer has room for, so that putting back what *)
(* is to be tried again cannot fail.                                       *)
THEOREM TypeCorrect == Spec => []TypeOK
<1>1. Base => TypeOK
  BY DEF Base
<1> QED BY <1>1, BaseInvariant, PTL

-----------------------------------------------------------------------------
(* The program's scalars are there while it runs.                          *)

ScalarsThere ==
  shred = "runs" => \A n \in Names : ~Declared[n].array => scalar[Declared[n].type][n] # <<>>

LEMMA ThereAfterHandled ==
  ASSUME Base, "clear globals" \notin Commands, ScalarsThere, Handled
  PROVE  ScalarsThere'
<1> DEFINE r == Head(requests)
<1>1. requests # <<>> /\ requests' = Tail(requests)
  BY HandledEffect
<1>2. r \in Requests /\ Proper(r)
  BY <1>1, HeadRequest
<1>3. HandleScalar(r) \/ HandleArray(r) \/ HandleUnknown(r) \/ HandleClear(r)
  BY DEF Handled
<1>4. scalar \in [Scalars -> [Names -> Seq(Nat)]]
  BY DEF Base, TypeOK
<1> HIDE DEF r
<1>5. CASE HandleScalar(r)
  <2> DEFINE t == r.target.type
             n == r.target.name
             e == CASE r.op = "set" -> r.value [] r.op = "get" /\ scalar[t][n] = <<>> -> <<0>> [] OTHER -> scalar[t][n]
  <2>1. t \in Scalars /\ n \in Names
    BY <1>2, <1>5 DEF HandleScalar, Proper, Targets
  <2>2. scalar' = [scalar EXCEPT ![t][n] = e] /\ shred' = shred
    BY <1>4, <1>5, <2>1 DEF HandleScalar
  <2>3. <<0>> # <<>>
    OBVIOUS
  <2>4. e # <<>>
    <3>1. r.op \in {"set", "get"} /\ (r.op = "set" => r.value # <<>>)
      BY <1>2, <1>5 DEF HandleScalar, Proper
    <3> QED BY <2>3, <3>1
  <2> HIDE DEF e, n, t
  <2>5. \A u \in Scalars, m \in Names : scalar[u][m] # <<>> => scalar'[u][m] # <<>>
    BY <1>4, <2>1, <2>2, <2>4
  <2> QED BY <2>2, <2>5, Constants DEF ScalarsThere
<1>6. CASE HandleArray(r) \/ HandleUnknown(r)
  BY <1>6 DEF HandleArray, HandleUnknown, ScalarsThere, tables
<1>7. CASE HandleClear(r)
  <2>1. r.op = "clear vm"
    BY <1>2, <1>7 DEF HandleClear, Proper
  <2> QED BY <1>7, <2>1 DEF HandleClear, Stopped, ScalarsThere
<1> QED BY <1>3, <1>5, <1>6, <1>7

LEMMA ThereAfterRan ==
  ASSUME Base, ScalarsThere, Ran
  PROVE  ScalarsThere'
<1>1. scalar \in [Scalars -> [Names -> Seq(Nat)]] /\ <<0>> # <<>>
  BY DEF Base, TypeOK
<1>2. CASE ShredDeclares
  <2>1. scalar' = [t \in Scalars |-> [n \in Names |->
           IF Declared[n] = [array |-> FALSE, type |-> t] /\ scalar[t][n] = <<>>
           THEN <<0>> ELSE scalar[t][n]]]
    BY <1>2 DEF ShredDeclares
  <2>2. ASSUME NEW n \in Names, ~Declared[n].array
        PROVE  scalar'[Declared[n].type][n] # <<>>
    <3>1. Declared[n] = [array |-> FALSE, type |-> Declared[n].type] /\ Declared[n].type \in Scalars
      BY <2>2, ConstantsAssumption, Constants DEF ConstantsAssumption, Types
    <3> QED BY <1>1, <2>1, <3>1
  <2> QED BY <2>2 DEF ScalarsThere
<1>3. CASE ShredEnds
  BY <1>3 DEF ShredEnds, ScalarsThere
<1>4. ASSUME NEW n \in Names, ShredWrites(n) \/ ShredReads(n) \/ ShredWritesArray(n)
      PROVE  ScalarsThere'
  <2>1. Declared[n].type \in Scalars
    BY Constants
  <2>2. \/ scalar' = scalar
        \/ \E e : e # <<>> /\ scalar' = [scalar EXCEPT ![Declared[n].type][n] = e]
    <3>1. CASE ShredWrites(n)
      BY <1>1, <3>1 DEF ShredWrites
    <3>2. CASE ShredReads(n)
      <4> DEFINE t == Declared[n].type
                 e == IF scalar[t][n] = <<>> THEN <<0>> ELSE scalar[t][n]
      <4>1. scalar' = [scalar EXCEPT ![t][n] = e]
        BY <1>1, <2>1, <3>2 DEF ShredReads
      <4>2. e # <<>>
        BY <1>1
      <4> HIDE DEF e
      <4> QED BY <4>1, <4>2
    <3>3. CASE ShredWritesArray(n)
      BY <3>3 DEF ShredWritesArray
    <3> QED BY <1>4, <3>1, <3>2, <3>3
  <2>3. \A u \in Scalars, m \in Names : scalar[u][m] # <<>> => scalar'[u][m] # <<>>
    BY <1>1, <2>1, <2>2
  <2>4. shred' \in {shred, "none"}
    BY <1>4 DEF ShredWrites, ShredReads, ShredWritesArray
  <2> QED BY <2>3, <2>4, Constants DEF ScalarsThere
<1> QED BY <1>2, <1>3, <1>4 DEF Ran

LEMMA ThereStep ==
  ASSUME Base, "clear globals" \notin Commands, ScalarsThere, WritesLand, Effect
  PROVE  ScalarsThere' /\ WritesLand'
<1>1. CASE Queued
  BY <1>1 DEF Queued, ScalarsThere, WritesLand, tables
<1>2. CASE Ignored
  BY <1>2 DEF Ignored, ScalarsThere, WritesLand, tables
<1>3. CASE ComputeBegin \/ HandleRetries \/ ComputeEnd \/ UNCHANGED vars
  <2>1. UNCHANGED <<scalar, shred, crashed>>
    BY <1>3 DEF ComputeBegin, HandleRetries, ComputeEnd, vars, tables
  <2> QED BY <2>1 DEF ScalarsThere, WritesLand
<1>4. CASE Handled
  <2>1. crashed' = crashed
    BY <1>4, HandledEffect
  <2> QED BY <1>4, <2>1, ThereAfterHandled DEF WritesLand
<1>5. CASE Ran
  <2>1. ASSUME NEW n \in Names, ShredWrites(n)
        PROVE  ~crashed'
    <3>1. shred = "runs" /\ ~Declared[n].array
          /\ crashed' = (scalar[Declared[n].type][n] = <<>>)
      BY <2>1 DEF ShredWrites, Uses
    <3> QED BY <3>1 DEF ScalarsThere
  <2>2. WritesLand'
    BY <1>5, <2>1 DEF Ran, WritesLand, ShredDeclares, ShredEnds, ShredReads, ShredWritesArray
  <2> QED BY <1>5, <2>2, ThereAfterRan
<1> QED BY <1>1, <1>2, <1>3, <1>4, <1>5 DEF Effect

(* No shred writes a variable that has been taken away, as long as the     *)
(* patch does not send clear globals: clear vm removes the shreds with     *)
(* their variables.                                                        *)
THEOREM WritesSafe == "clear globals" \notin Commands => (Spec => []WritesLand)
<1> SUFFICES ASSUME "clear globals" \notin Commands
             PROVE  Spec => []WritesLand
  OBVIOUS
<1>1. Init => ScalarsThere /\ WritesLand
  BY DEF Init, ScalarsThere, WritesLand
<1>2. Base /\ ScalarsThere /\ WritesLand /\ [Next]_vars => ScalarsThere' /\ WritesLand'
  BY Effects, ThereStep DEF Base
<1> QED BY <1>1, <1>2, BaseInvariant, PTL DEF Spec

-----------------------------------------------------------------------------
(* The order of the requests that wait.                                    *)

IsFor(r, t, n) == r.target \in Targets /\ Table(r) = t /\ r.target.name = n

\* What waits is in order, what is to be tried again is the older, and it is for arrays
\* that are not there; none has been overtaken.
Ordered ==
  /\ \A i, j \in 1 .. Len(requests) : i <= j => requests[i].no <= requests[j].no
  /\ \A i, j \in 1 .. Len(retry) : i <= j => retry[i].no <= retry[j].no
  /\ \A i \in 1 .. Len(retry), j \in 1 .. Len(requests) : retry[i].no <= requests[j].no

UpToSent ==
  /\ \A i \in 1 .. Len(requests) : requests[i].no <= sent
  /\ \A i \in 1 .. Len(retry) : retry[i].no <= sent
  /\ \A t \in Tables, n \in Names : done[t][n] <= sent

NotOvertaken ==
  /\ \A i \in 1 .. Len(requests), t \in Tables, n \in Names :
       IsFor(requests[i], t, n) => done[t][n] <= requests[i].no
  /\ \A i \in 1 .. Len(retry), t \in Tables, n \in Names :
       IsFor(retry[i], t, n) => done[t][n] <= retry[i].no

RetryUnknown ==
  \A i \in 1 .. Len(retry) :
    retry[i].target.array /\ retry[i].target \in Targets /\ array[retry[i].target.name] = Nowhere

OrderInv == Ordered /\ UpToSent /\ NotOvertaken /\ RetryUnknown

LEMMA Numbered ==
  ASSUME Base
  PROVE  /\ sent \in Nat /\ Len(requests) \in Nat /\ Len(retry) \in Nat
         /\ \A i \in 1 .. Len(requests) : requests[i].no \in Nat
         /\ \A i \in 1 .. Len(retry) : retry[i].no \in Nat
         /\ \A t \in Tables, n \in Names : done[t][n] \in Nat
<1>1. /\ requests \in Seq(Requests) /\ retry \in Seq(Requests)
      /\ sent \in 0 .. MaxSent /\ done \in [Tables -> [Names -> 0 .. MaxSent]]
  BY DEF Base, TypeOK
<1>2. \A r \in Requests : r.no \in 0 .. MaxSent
  BY DEF Requests
<1>3. /\ Len(requests) \in Nat /\ Len(retry) \in Nat
      /\ \A i \in 1 .. Len(requests) : requests[i] \in Requests
      /\ \A i \in 1 .. Len(retry) : retry[i] \in Requests
  BY <1>1, LenProperties, ElementOfSeq
<1> QED BY <1>1, <1>2, <1>3

LEMMA OrderAfterMessage ==
  ASSUME Base, OrderInv, Queued
  PROVE  OrderInv'
<1>1. retry = <<>> /\ retry' = <<>> /\ done' = done /\ array' = array /\ sent' = sent + 1
  BY DEF Queued, Base, RetriesInCompute, tables
<1>2. 1 .. Len(retry) = {} /\ 1 .. Len(retry') = {}
  BY <1>1, EmptySeq
<1>3. requests \in Seq(Requests) /\ Len(requests) <= RequestCap
  BY <1>1, EmptySeq, Numbered, Constants DEF Base, TypeOK
<1>4. /\ Len(requests) <= Len(requests') /\ requests' \in Seq(Requests)
      /\ \A i \in 1 .. Len(requests) : requests'[i] = requests[i]
      /\ \A i \in 1 .. Len(requests') :
           i \in 1 .. Len(requests) \/ requests'[i] \in NewRequests
  BY <1>3, PutEffect DEF Queued
<1>5. Len(requests') \in Nat
  BY <1>4, LenProperties
<1>6. \A i \in 1 .. Len(requests') :
        \/ i \in 1 .. Len(requests) /\ requests'[i] = requests[i]
        \/ i \notin 1 .. Len(requests) /\ requests'[i].no = sent + 1
  BY <1>4 DEF NewRequests
<1>7. Ordered'
  <2>1. ASSUME NEW i \in 1 .. Len(requests'), NEW j \in 1 .. Len(requests'), i <= j
        PROVE  requests'[i].no <= requests'[j].no
    <3>1. CASE j \in 1 .. Len(requests)
      <4>1. i \in 1 .. Len(requests)
        BY <1>5, <2>1, <3>1, Numbered
      <4> QED BY <1>4, <2>1, <3>1, <4>1 DEF OrderInv, Ordered
    <3>2. CASE j \notin 1 .. Len(requests)
      BY <1>6, <3>2, Numbered DEF OrderInv, UpToSent
    <3> QED BY <3>1, <3>2
  <2> QED BY <1>2, <2>1 DEF Ordered
<1>8. UpToSent'
  BY <1>1, <1>2, <1>6, Numbered DEF OrderInv, UpToSent
<1>9. NotOvertaken'
  <2>1. ASSUME NEW i \in 1 .. Len(requests'), NEW t \in Tables, NEW n \in Names,
               IsFor(requests'[i], t, n)
        PROVE  done[t][n] <= requests'[i].no
    BY <1>6, <2>1, Numbered DEF OrderInv, UpToSent, NotOvertaken
  <2> QED BY <1>1, <1>2, <2>1 DEF NotOvertaken, IsFor, Table
<1>10. RetryUnknown'
  BY <1>2 DEF RetryUnknown
<1> QED BY <1>7, <1>8, <1>9, <1>10 DEF OrderInv

LEMMA OrderAfterDeferred ==
  ASSUME Base, OrderInv, requests # <<>>, requests' = Tail(requests), sent' = sent,
         Deferred(Head(requests)),
         \A n \in Names : array[n] = Nowhere => array'[n] = Nowhere
  PROVE  OrderInv'
<1> DEFINE r == Head(requests)
<1>1. /\ r \in Requests /\ Proper(r) /\ r = requests[1] /\ 1 \in 1 .. Len(requests)
      /\ Len(requests) \in Nat /\ Len(requests') = Len(requests) - 1
      /\ \A i \in 1 .. Len(requests') :
           requests'[i] = requests[i + 1] /\ i + 1 \in 1 .. Len(requests)
  BY HeadRequest
<1>2. retry' = Append(retry, r) /\ r.target.array /\ array[r.target.name] = Nowhere /\ done' = done
  BY DEF Deferred
<1> HIDE DEF r
<1>3. /\ Len(retry') = Len(retry) + 1 /\ Len(retry) \in Nat
      /\ \A i \in 1 .. Len(retry) : retry'[i] = retry[i]
      /\ retry'[Len(retry')] = r
      /\ \A i \in 1 .. Len(retry') : i \in 1 .. Len(retry) \/ i = Len(retry')
  BY <1>1, <1>2, AppendedRetry
<1>4. Ordered'
  <2>1. \A i, j \in 1 .. Len(requests') : i <= j => requests'[i].no <= requests'[j].no
    BY <1>1 DEF OrderInv, Ordered
  <2>2. \A i \in 1 .. Len(retry) : retry[i].no <= r.no
    BY <1>1 DEF OrderInv, Ordered
  <2>3. ASSUME NEW i \in 1 .. Len(retry'), NEW j \in 1 .. Len(retry'), i <= j
        PROVE  retry'[i].no <= retry'[j].no
    <3>1. CASE j \in 1 .. Len(retry)
      <4>1. i \in 1 .. Len(retry)
        BY <1>3, <2>3, <3>1
      <4> QED BY <1>3, <2>3, <3>1, <4>1 DEF OrderInv, Ordered
    <3>2. CASE j = Len(retry') /\ i \in 1 .. Len(retry)
      BY <1>3, <2>2, <3>2
    <3>3. CASE j = Len(retry') /\ i = Len(retry')
      BY <1>1, <1>3, <3>3, Numbered
    <3> QED BY <1>3, <3>1, <3>2, <3>3
  <2>4. \A j \in 1 .. Len(requests') : r.no <= requests'[j].no
    BY <1>1 DEF OrderInv, Ordered
  <2>5. ASSUME NEW i \in 1 .. Len(retry'), NEW j \in 1 .. Len(requests')
        PROVE  retry'[i].no <= requests'[j].no
    BY <1>1, <1>3, <2>4 DEF OrderInv, Ordered
  <2> QED BY <2>1, <2>3, <2>5 DEF Ordered
<1>5. UpToSent'
  BY <1>1, <1>2, <1>3 DEF OrderInv, UpToSent
<1>6. NotOvertaken'
  <2>1. ASSUME NEW i \in 1 .. Len(requests'), NEW t \in Tables, NEW n \in Names,
               IsFor(requests'[i], t, n)
        PROVE  done[t][n] <= requests'[i].no
    BY <1>1, <2>1 DEF OrderInv, NotOvertaken
  <2>2. ASSUME NEW i \in 1 .. Len(retry'), NEW t \in Tables, NEW n \in Names,
               IsFor(retry'[i], t, n)
        PROVE  done[t][n] <= retry'[i].no
    BY <1>1, <1>3, <2>2 DEF OrderInv, NotOvertaken
  <2> QED BY <1>2, <2>1, <2>2 DEF NotOvertaken, IsFor, Table
<1>7. RetryUnknown'
  <2>1. r.target \in Targets /\ r.target.name \in Names
    BY <1>1, <1>2 DEF Proper, Targets
  <2>2. \A i \in 1 .. Len(retry) : retry[i].target.name \in Names
    BY DEF OrderInv, RetryUnknown, Targets
  <2> QED BY <1>2, <1>3, <2>1, <2>2 DEF OrderInv, RetryUnknown
<1> QED BY <1>4, <1>5, <1>6, <1>7 DEF OrderInv

LEMMA OrderAfterOther ==
  ASSUME Base, OrderInv, requests # <<>>, requests' = Tail(requests), sent' = sent,
         Dropped(Head(requests)) \/ CarriedOut(Head(requests)),
         \A n \in Names : array[n] = Nowhere => array'[n] = Nowhere
  PROVE  OrderInv'
<1> DEFINE r == Head(requests)
<1>1. /\ r \in Requests /\ Proper(r) /\ r = requests[1] /\ 1 \in 1 .. Len(requests)
      /\ Len(requests) \in Nat /\ Len(requests') = Len(requests) - 1
      /\ \A i \in 1 .. Len(requests') :
           requests'[i] = requests[i + 1] /\ i + 1 \in 1 .. Len(requests)
  BY HeadRequest
<1>2. retry' = retry
  BY DEF Dropped, CarriedOut
<1>3. \A t \in Tables, n \in Names :
        \/ done'[t][n] = done[t][n]
        \/ /\ done'[t][n] = r.no /\ r.target \in Targets /\ Table(r) = t /\ r.target.name = n
           /\ r.target.array => array[n] # Nowhere
  <2>1. done \in [Tables -> [Names -> 0 .. MaxSent]]
    BY DEF Base, TypeOK
  <2>2. CASE Dropped(r)
    BY <2>2 DEF Dropped
  <2>3. CASE CarriedOut(r)
    <3>1. /\ r.target \in Targets
          /\ r.target.array => array[r.target.name] # Nowhere
          /\ done' = [done EXCEPT ![Table(r)][r.target.name] = r.no]
      BY <2>3 DEF CarriedOut
    <3>2. Table(r) \in Tables /\ r.target.name \in Names
      BY <3>1 DEF Targets, Table, Tables
    <3> DEFINE u == Table(r)
    <3> HIDE DEF u, r
    <3> QED BY <2>1, <3>1, <3>2 DEF u
  <2> QED BY <2>2, <2>3
<1> HIDE DEF r
<1>4. \A j \in 1 .. Len(requests') : r.no <= requests'[j].no
  BY <1>1 DEF OrderInv, Ordered
<1>5. Ordered'
  BY <1>1, <1>2 DEF OrderInv, Ordered
<1>6. UpToSent'
  <2>1. r.no <= sent
    BY <1>1 DEF OrderInv, UpToSent
  <2> QED BY <1>1, <1>2, <1>3, <2>1 DEF OrderInv, UpToSent
<1>7. ASSUME NEW i \in 1 .. Len(requests'), NEW t \in Tables, NEW n \in Names,
             IsFor(requests'[i], t, n)
      PROVE  done'[t][n] <= requests'[i].no
  BY <1>1, <1>3, <1>4, <1>7 DEF OrderInv, NotOvertaken
<1>8. ASSUME NEW i \in 1 .. Len(retry), NEW t \in Tables, NEW n \in Names,
             IsFor(retry[i], t, n)
      PROVE  done'[t][n] <= retry[i].no
  <2>1. done[t][n] <= retry[i].no
    BY <1>8 DEF OrderInv, NotOvertaken
  <2>2. t = "array" /\ array[n] = Nowhere
    BY <1>8 DEF OrderInv, RetryUnknown, IsFor, Table
  <2>3. ~(r.target \in Targets /\ ~r.target.array /\ Table(r) = "array")
    BY DEF Targets, Table, Scalars
  <2> QED BY <1>3, <2>1, <2>2, <2>3
<1>9. NotOvertaken'
  BY <1>2, <1>7, <1>8 DEF NotOvertaken, IsFor, Table
<1>10. RetryUnknown'
  <2>1. \A i \in 1 .. Len(retry) : retry[i].target.name \in Names
    BY DEF OrderInv, RetryUnknown, Targets
  <2> QED BY <1>2, <2>1 DEF OrderInv, RetryUnknown
<1> QED BY <1>5, <1>6, <1>9, <1>10 DEF OrderInv

LEMMA OrderAfterPutBack ==
  ASSUME Base, OrderInv, HandleRetries
  PROVE  OrderInv'
<1>1. /\ requests = <<>> /\ retry' = <<>> /\ Len(requests') = Len(retry)
      /\ \A i \in 1 .. Len(requests') :
           requests'[i].target = retry[i].target /\ requests'[i].no = retry[i].no
      /\ sent' = sent /\ done' = done /\ array' = array
  BY PutBackEffect DEF tables
<1>2. 1 .. Len(retry') = {}
  BY <1>1, EmptySeq
<1>3. Ordered'
  BY <1>1, <1>2 DEF OrderInv, Ordered
<1>4. UpToSent'
  BY <1>1, <1>2 DEF OrderInv, UpToSent
<1>5. NotOvertaken'
  <2>1. ASSUME NEW i \in 1 .. Len(requests'), NEW t \in Tables, NEW n \in Names,
               IsFor(requests'[i], t, n)
        PROVE  done[t][n] <= requests'[i].no
    <3>1. IsFor(retry[i], t, n)
      BY <1>1, <2>1 DEF IsFor, Table
    <3> QED BY <1>1, <3>1 DEF OrderInv, NotOvertaken
  <2> QED BY <1>1, <1>2, <2>1 DEF NotOvertaken, IsFor, Table
<1> QED BY <1>2, <1>3, <1>4, <1>5 DEF OrderInv, RetryUnknown

LEMMA OrderStep ==
  ASSUME Base, OrderInv, Effect
  PROVE  OrderInv'
<1>1. CASE Ignored
  <2>1. UNCHANGED <<array, requests, retry, done>> /\ sent' = sent + 1
    BY <1>1 DEF Ignored, tables
  <2>2. UpToSent'
    BY <2>1, Numbered DEF OrderInv, UpToSent
  <2> QED BY <2>1, <2>2 DEF OrderInv, Ordered, NotOvertaken, RetryUnknown, IsFor, Table
<1>2. CASE ComputeBegin \/ ComputeEnd \/ UNCHANGED vars
  <2>1. UNCHANGED <<array, requests, retry, done, sent>>
    BY <1>2 DEF ComputeBegin, ComputeEnd, vars, tables
  <2> QED BY <2>1 DEF OrderInv, Ordered, UpToSent, NotOvertaken, RetryUnknown, IsFor, Table
<1>3. CASE Ran
  <2>1. UNCHANGED <<requests, retry, done, sent>> /\ retry = <<>>
    BY <1>3, RanEffect DEF Base, RetriesInCompute
  <2>2. 1 .. Len(retry') = {}
    BY <2>1, EmptySeq
  <2> QED BY <2>1, <2>2 DEF OrderInv, Ordered, UpToSent, NotOvertaken, RetryUnknown, IsFor, Table
<1>4. CASE Handled
  BY <1>4, HandledEffect, OrderAfterDeferred, OrderAfterOther
<1> QED BY <1>1, <1>2, <1>3, <1>4, OrderAfterMessage, OrderAfterPutBack DEF Effect

LEMMA DoneGrows ==
  ASSUME Base, OrderInv, Effect
  PROVE  \A t \in Tables, n \in Names : done'[t][n] >= done[t][n]
<1>1. \A t \in Tables, n \in Names : done[t][n] \in Nat
  BY Numbered
<1>2. CASE done' = done
  BY <1>1, <1>2
<1>3. CASE Handled
  <2> DEFINE r == Head(requests)
  <2>1. /\ requests # <<>> /\ requests' = Tail(requests)
        /\ Deferred(r) \/ Dropped(r) \/ CarriedOut(r)
    BY <1>3, HandledEffect
  <2>2. r = requests[1] /\ 1 \in 1 .. Len(requests)
    BY <2>1, HeadRequest
  <2> HIDE DEF r
  <2>3. CASE CarriedOut(r)
    <3>1. r.target \in Targets /\ done' = [done EXCEPT ![Table(r)][r.target.name] = r.no]
      BY <2>3 DEF CarriedOut
    <3>2. Table(r) \in Tables /\ r.target.name \in Names
      BY <3>1 DEF Targets, Table, Tables
    <3>3. done[Table(r)][r.target.name] <= r.no /\ r.no \in Nat
      BY <2>2, <3>1, <3>2, Numbered DEF OrderInv, NotOvertaken, IsFor
    <3>4. done \in [Tables -> [Names -> 0 .. MaxSent]]
      BY DEF Base, TypeOK
    <3> DEFINE u == Table(r)
               m == r.target.name
    <3>5. \A t \in Tables, n \in Names :
            done'[t][n] = IF t = u /\ n = m THEN r.no ELSE done[t][n]
      <4> HIDE DEF u, m
      <4> QED BY <3>1, <3>2, <3>4 DEF u, m
    <3> QED BY <1>1, <3>3, <3>5
  <2> QED BY <1>2, <2>1, <2>3 DEF Deferred, Dropped
<1>4. CASE ~Handled
  <2>1. done' = done
    BY <1>4, RanEffect
       DEF Effect, Queued, Ignored, ComputeBegin, HandleRetries, ComputeEnd, vars
  <2> QED BY <1>2, <2>1
<1> QED BY <1>3, <1>4

LEMMA OrderInit == Init => OrderInv
<1> SUFFICES ASSUME Init PROVE OrderInv
  OBVIOUS
<1>1. 1 .. Len(requests) = {} /\ 1 .. Len(retry) = {}
  BY EmptySeq DEF Init
<1> QED BY <1>1 DEF Init, OrderInv, Ordered, UpToSent, NotOvertaken, RetryUnknown

(* Whatever is sent, lost, tried again or given up: what is asked of one   *)
(* variable is carried out in the order it was sent.                       *)
THEOREM CarriedOutInOrder == Spec => InOrder
<1>1. Base /\ OrderInv /\ [Next]_vars => OrderInv'
  BY Effects, OrderStep DEF Base
<1>2. Base /\ OrderInv /\ [Next]_vars
        => [\A t \in Tables, n \in Names : done'[t][n] >= done[t][n]]_done
  BY Effects, DoneGrows DEF Base
<1> QED BY <1>1, <1>2, OrderInit, BaseInvariant, PTL DEF Spec, InOrder

-----------------------------------------------------------------------------
(* What is to be tried again is not given up before the shreds have run.   *)

FreshHasRetry ==
  pc # "shreds" =>
    \A i \in 1 .. Len(requests) :
      requests[i].target.array /\ requests[i].no \in fresh => requests[i].retries = 1

LEMMA FreshAfterMessage ==
  ASSUME Base, OrderInv, FreshHasRetry, Queued
  PROVE  FreshHasRetry'
<1>1. pc = "idle" /\ fresh' = fresh \cup {sent + 1} /\ retry = <<>>
  BY DEF Queued, Base, RetriesInCompute
<1>2. requests \in Seq(Requests) /\ Len(requests) <= RequestCap
  BY <1>1, EmptySeq, Numbered, Constants DEF Base, TypeOK
<1>3. /\ \A i \in 1 .. Len(requests) : requests'[i] = requests[i]
      /\ \A i \in 1 .. Len(requests') :
           i \in 1 .. Len(requests) \/ requests'[i] \in NewRequests
  BY <1>2, PutEffect DEF Queued
<1>4. ASSUME NEW i \in 1 .. Len(requests')
      PROVE  requests'[i].target.array /\ requests'[i].no \in fresh' => requests'[i].retries = 1
  <2>1. CASE i \in 1 .. Len(requests)
    <3>1. requests[i].no # sent + 1
      BY <2>1, Numbered DEF OrderInv, UpToSent
    <3> QED BY <1>1, <1>3, <2>1, <3>1 DEF FreshHasRetry
  <2>2. CASE requests'[i] \in NewRequests
    BY <2>2 DEF NewRequests
  <2> QED BY <1>3, <2>1, <2>2
<1> QED BY <1>4 DEF FreshHasRetry

LEMMA FreshStep ==
  ASSUME Base, OrderInv, FreshHasRetry, Effect
  PROVE  FreshHasRetry'
<1>1. CASE Ignored \/ ComputeBegin \/ UNCHANGED vars
  <2>1. UNCHANGED <<requests, fresh>> /\ (pc' = pc \/ pc = "idle")
    BY <1>1 DEF Ignored, ComputeBegin, vars
  <2> QED BY <2>1 DEF FreshHasRetry
<1>2. CASE ComputeEnd
  BY <1>2 DEF ComputeEnd, FreshHasRetry
<1>3. CASE HandleRetries
  BY <1>3 DEF HandleRetries, FreshHasRetry
<1>4. CASE Ran
  BY <1>4, RanEffect DEF FreshHasRetry
<1>5. CASE Handled
  <2>1. requests # <<>> /\ requests' = Tail(requests) /\ UNCHANGED <<pc, fresh>>
    BY <1>5, HandledEffect
  <2>2. \A i \in 1 .. Len(requests') :
          requests'[i] = requests[i + 1] /\ i + 1 \in 1 .. Len(requests)
    BY <2>1, HeadRequest
  <2> QED BY <2>1, <2>2 DEF FreshHasRetry
<1> QED BY <1>1, <1>2, <1>3, <1>4, <1>5, FreshAfterMessage DEF Effect

WaitsAt(w, q) == \E i \in 1 .. Len(q) : w.target = q[i].target /\ w.no = q[i].no

LEMMA WaitingIs ==
  ASSUME NEW S, requests \in Seq(S), retry \in Seq(S)
  PROVE  /\ \A w \in Waiting : WaitsAt(w, requests) \/ WaitsAt(w, retry)
         /\ \A w \in Waiting : w = [target |-> w.target, no |-> w.no]
<1>1. DOMAIN requests = 1 .. Len(requests) /\ DOMAIN retry = 1 .. Len(retry)
  BY LenProperties
<1> QED BY <1>1 DEF Waiting, WaitsAt

LEMMA StillWaiting ==
  ASSUME NEW S, requests' \in Seq(S), retry' \in Seq(S),
         NEW w, w = [target |-> w.target, no |-> w.no],
         \/ \E i \in 1 .. Len(requests') :
              w.target = requests'[i].target /\ w.no = requests'[i].no
         \/ \E i \in 1 .. Len(retry') : w.target = retry'[i].target /\ w.no = retry'[i].no
  PROVE  w \in Waiting'
<1>1. DOMAIN requests' = 1 .. Len(requests') /\ DOMAIN retry' = 1 .. Len(retry')
  BY LenProperties
<1> QED BY <1>1 DEF Waiting

LEMMA KeptByHandled ==
  ASSUME Base, FreshHasRetry, Handled, NEW w \in Waiting,
         w.target.array, w.no \in fresh, array[w.target.name] = Nowhere
  PROVE  \/ \E i \in 1 .. Len(requests') :
              w.target = requests'[i].target /\ w.no = requests'[i].no
         \/ \E i \in 1 .. Len(retry') : w.target = retry'[i].target /\ w.no = retry'[i].no
<1> DEFINE r == Head(requests)
<1>1. /\ pc = "requests" /\ requests # <<>> /\ requests' = Tail(requests)
      /\ Deferred(r) \/ Dropped(r) \/ CarriedOut(r)
  BY HandledEffect
<1>2. /\ r \in Requests /\ r = requests[1] /\ 1 \in 1 .. Len(requests)
      /\ Len(requests) \in Nat /\ Len(requests') = Len(requests) - 1
      /\ \A i \in 1 .. Len(requests') : requests'[i] = requests[i + 1]
  BY <1>1, HeadRequest
<1> HIDE DEF r
<1>3. Deferred(r) => /\ \A i \in 1 .. Len(retry) : i \in 1 .. Len(retry') /\ retry'[i] = retry[i]
                     /\ Len(retry') \in 1 .. Len(retry') /\ retry'[Len(retry')] = r
  <2> SUFFICES ASSUME Deferred(r)
               PROVE  /\ \A i \in 1 .. Len(retry) : i \in 1 .. Len(retry') /\ retry'[i] = retry[i]
                      /\ Len(retry') \in 1 .. Len(retry') /\ retry'[Len(retry')] = r
    OBVIOUS
  <2>1. /\ Len(retry') = Len(retry) + 1 /\ Len(retry) \in Nat
        /\ \A i \in 1 .. Len(retry) : retry'[i] = retry[i]
        /\ retry'[Len(retry')] = r
    BY <1>2, AppendedRetry DEF Deferred
  <2> QED BY <2>1
<1>4. CASE WaitsAt(w, retry)
  <2>1. PICK i \in 1 .. Len(retry) : w.target = retry[i].target /\ w.no = retry[i].no
    BY <1>4 DEF WaitsAt
  <2>2. i \in 1 .. Len(retry') /\ retry'[i] = retry[i]
    BY <1>1, <1>3 DEF Dropped, CarriedOut
  <2> QED BY <2>1, <2>2
<1>5. CASE WaitsAt(w, requests)
  <2>1. PICK i \in 1 .. Len(requests) : w.target = requests[i].target /\ w.no = requests[i].no
    BY <1>5 DEF WaitsAt
  <2>2. CASE i = 1
    <3>1. /\ w.target = r.target /\ w.no = r.no /\ r.retries = 1
      BY <1>1, <1>2, <2>1, <2>2 DEF FreshHasRetry
    <3>2. Deferred(r)
      BY <1>1, <3>1 DEF Dropped, CarriedOut
    <3> QED BY <1>3, <3>1, <3>2
  <2>3. CASE i # 1
    <3>1. i - 1 \in 1 .. Len(requests') /\ requests'[i - 1] = requests[i]
      BY <1>2, <2>3
    <3> QED BY <2>1, <3>1
  <2> QED BY <2>2, <2>3
<1>6. WaitsAt(w, requests) \/ WaitsAt(w, retry)
  BY WaitingIs DEF Base, TypeOK
<1> QED BY <1>4, <1>5, <1>6

LEMMA KeptByOthers ==
  ASSUME Base, Effect, ~Handled, NEW w \in Waiting
  PROVE  \/ \E i \in 1 .. Len(requests') :
              w.target = requests'[i].target /\ w.no = requests'[i].no
         \/ \E i \in 1 .. Len(retry') : w.target = retry'[i].target /\ w.no = retry'[i].no
<1>1. WaitsAt(w, requests) \/ WaitsAt(w, retry)
  BY WaitingIs DEF Base, TypeOK
<1>2. CASE UNCHANGED <<requests, retry>>
  BY <1>1, <1>2 DEF WaitsAt
<1>3. CASE Queued
  <2>1. retry' = retry /\ retry = <<>>
    BY <1>3 DEF Queued, Base, RetriesInCompute
  <2>2. requests \in Seq(Requests) /\ Len(requests) <= RequestCap
    BY <2>1, EmptySeq, Numbered, Constants DEF Base, TypeOK
  <2>3. /\ Len(requests) <= Len(requests') /\ requests' \in Seq(Requests)
        /\ \A i \in 1 .. Len(requests) : requests'[i] = requests[i]
    BY <1>3, <2>2, PutEffect DEF Queued
  <2>4. \A i \in 1 .. Len(requests) : i \in 1 .. Len(requests')
    BY <2>3, Numbered, LenProperties
  <2> QED BY <1>1, <2>1, <2>3, <2>4 DEF WaitsAt
<1>4. CASE HandleRetries
  <2>1. /\ requests = <<>> /\ Len(requests') = Len(retry)
        /\ \A i \in 1 .. Len(requests') :
             requests'[i].target = retry[i].target /\ requests'[i].no = retry[i].no
    BY <1>4, PutBackEffect
  <2>2. 1 .. Len(requests) = {}
    BY <2>1, EmptySeq
  <2> QED BY <1>1, <2>1, <2>2 DEF WaitsAt
<1> QED BY <1>2, <1>3, <1>4, RanEffect
        DEF Effect, Ignored, ComputeBegin, ComputeEnd, vars

(* A set or get of an array that is not there waits until shreds have run  *)
(* once since it was sent, so that one sent before add finds the array of  *)
(* the program added.                                                      *)
THEOREM SecondChanceGiven == Spec => SecondChance
<1>1. Init => FreshHasRetry
  BY DEF Init, FreshHasRetry
<1>2. Base /\ OrderInv /\ [Next]_vars => OrderInv'
  BY Effects, OrderStep DEF Base
<1>3. Base /\ OrderInv /\ FreshHasRetry /\ [Next]_vars => FreshHasRetry'
  BY Effects, FreshStep DEF Base
<1>4. Base /\ FreshHasRetry /\ Base' /\ [Next]_vars
        => [\A w \in Waiting :
              w.target.array /\ w.no \in fresh /\ array[w.target.name] = Nowhere
                => w \in Waiting']_vars
  <2> SUFFICES ASSUME Base, FreshHasRetry, Base', [Next]_vars, NEW w \in Waiting,
                      w.target.array, w.no \in fresh, array[w.target.name] = Nowhere
               PROVE  w \in Waiting'
    OBVIOUS
  <2>1. Effect
    BY Effects DEF Base
  <2>2. \/ \E i \in 1 .. Len(requests') :
             w.target = requests'[i].target /\ w.no = requests'[i].no
        \/ \E i \in 1 .. Len(retry') : w.target = retry'[i].target /\ w.no = retry'[i].no
    BY <2>1, KeptByHandled, KeptByOthers
  <2>3. requests' \in Seq(Requests) /\ retry' \in Seq(Requests)
    BY DEF Base, TypeOK
  <2>4. w = [target |-> w.target, no |-> w.no]
    BY WaitingIs DEF Base, TypeOK
  <2> QED BY <2>2, <2>3, <2>4, StillWaiting
<1> QED BY <1>1, <1>2, <1>3, <1>4, OrderInit, BaseInvariant, PTL DEF Spec, SecondChance

-----------------------------------------------------------------------------
(* What the patch says comes about.                                        *)

\* What untyped messages can say: no variable is of ints, and no list of two begins with
\* the index of an element that it would change to something else.
Suited ==
  /\ \A n \in Names : Declared[n].type # "int"
  /\ \A v \in Lists : Len(v) = 2 => ToInt(v[1]) # 0 \/ v[1] = v[2]

IsOf(r, n) ==
  /\ r.target.name = n
  /\ r.target.array = Declared[n].array
  /\ r.target.type = Declared[n].type

\* Carrying out r makes the variable v, or leaves it so.
Makes(r, n, v) == r.op = "set" /\ IsOf(r, n) /\ r.target.part = "all" /\ r.value = v

Spares(r, n, v) ==
  /\ r.op \in {"set", "get"}
  /\ r.op = "set" /\ IsOf(r, n) =>
       /\ r.target.array /\ r.target.part # "all"
       /\ r.target.part = "element" =>
            \A j \in 1 .. Len(v) : j = r.target.index + 1 => r.value[1] = v[j]

\* Once all of q has been carried out the variable is v: request k makes it so (or it is
\* so now), and none after that undoes it.
Comes(q, n, v, now) ==
  \E k \in 0 .. Len(q) :
    /\ \A i \in 1 .. Len(q) : i > k => Spares(q[i], n, v)
    /\ IF k = 0 THEN now ELSE Makes(q[k], n, v)

SaidComes ==
  \A n \in Names :
    said[n] # <<>> /\ (Declared[n].array => array[n].built)
      => Comes(requests, n, said[n], Value(n) = said[n])

BuiltAsDeclared ==
  \A n \in Names :
    array[n].built => Declared[n].array /\ array[n].type = Declared[n].type

\* While shreds run, only what is to be tried again waits.
OnlyRetries == pc = "shreds" => \A i \in 1 .. Len(requests) : requests[i].target.array

SaidInv == SaidComes /\ BuiltAsDeclared /\ OnlyRetries

LEMMA ScalarCarried ==
  ASSUME Base, NEW r \in Requests, Proper(r), HandleScalar(r),
         NEW n \in Names, NEW v, v # <<>>,
         Makes(r, n, v) \/ (Spares(r, n, v) /\ Value(n) = v)
  PROVE  Value(n)' = v
<1> DEFINE t == r.target.type
           m == r.target.name
           e == CASE r.op = "set" -> r.value [] r.op = "get" /\ scalar[t][m] = <<>> -> <<0>> [] OTHER -> scalar[t][m]
<1>1. r.target \in Targets /\ t \in Scalars /\ m \in Names /\ r.op \in {"set", "get"}
      /\ r.target.array = FALSE
  BY DEF HandleScalar, Proper, Targets
<1>2. scalar \in [Scalars -> [Names -> Seq(Nat)]]
  BY DEF Base, TypeOK
<1>3. scalar' = [scalar EXCEPT ![t][m] = e] /\ array' = array
  BY <1>1, <1>2 DEF HandleScalar
<1>4. Declared[n].type \in Scalars /\ Declared[n].array \in BOOLEAN
  BY Constants
<1>5. CASE Declared[n].array
  BY <1>1, <1>3, <1>5 DEF Value, Makes, IsOf
<1>6. CASE ~Declared[n].array /\ IsOf(r, n)
  <2>1. t = Declared[n].type /\ m = n /\ scalar'[t][m] = e
    <3>1. t = Declared[n].type /\ m = n
      BY <1>6 DEF IsOf
    <3> HIDE DEF t, m, e
    <3> QED BY <1>1, <1>2, <1>3, <3>1
  <2>2. e = v
    <3>1. CASE r.op = "set"
      <4>1. r.value = v
        BY <1>1, <1>6, <3>1 DEF Makes, Spares
      <4> QED BY <3>1, <4>1
    <3>2. CASE r.op = "get"
      <4>1. scalar[t][m] = v
        BY <1>6, <2>1, <3>2 DEF Makes, Value
      <4> QED BY <3>2, <4>1
    <3> QED BY <1>1, <3>1, <3>2
  <2> QED BY <1>6, <2>1, <2>2 DEF Value
<1>7. CASE ~Declared[n].array /\ ~IsOf(r, n)
  <2>1. ~(t = Declared[n].type /\ m = n)
    BY <1>1, <1>4, <1>7 DEF IsOf
  <2>2. scalar'[Declared[n].type][n] = scalar[Declared[n].type][n]
    <3> HIDE DEF t, m, e
    <3> QED BY <1>1, <1>2, <1>3, <1>4, <2>1
  <2> QED BY <1>7, <2>2 DEF Value, Makes
<1> QED BY <1>4, <1>5, <1>6, <1>7

LEMMA Elementwise ==
  ASSUME NEW c \in Containers, NEW r, NEW v \in Seq(Nat), c.elements = v,
         r.target.part = "element",
         \A j \in 1 .. Len(v) : j = r.target.index + 1 => r.value[1] = v[j]
  PROVE  With(c, r).elements = v
<1> DEFINE e == [j \in 1 .. Len(v) |-> IF j = r.target.index + 1 THEN r.value[1] ELSE v[j]]
<1>1. DOMAIN v = 1 .. Len(v) /\ v = [j \in 1 .. Len(v) |-> v[j]]
  BY LenProperties
<1>2. With(c, r) = [c EXCEPT !.elements = e]
  BY <1>1 DEF With
<1>3. e = v
  BY <1>1
<1> HIDE DEF e
<1> QED BY <1>2, <1>3 DEF Containers

LEMMA ArrayCarried ==
  ASSUME Base, BuiltAsDeclared, NEW r \in Requests, Proper(r), HandleArray(r),
         NEW n \in Names, NEW v \in Seq(Nat),
         Declared[n].array => array[n].built,
         Makes(r, n, v) \/ (Spares(r, n, v) /\ Value(n) = v)
  PROVE  Value(n)' = v
<1> DEFINE m == r.target.name
<1>1. /\ r.target \in Targets /\ m \in Names /\ r.op \in {"set", "get"} /\ r.target.array = TRUE
      /\ r.target.part \in {"all", "element", "key"}
  BY DEF HandleArray, Proper, Targets
<1>2. array \in [Names -> Containers]
  BY DEF Base, TypeOK, Containers
<1>3. scalar' = scalar /\ Declared[n].array \in BOOLEAN
  BY Constants DEF HandleArray
<1>4. CASE ~Declared[n].array
  BY <1>1, <1>3, <1>4 DEF Value, Makes, IsOf
<1>5. CASE Declared[n].array
  <2>1. array[n].built /\ array[n].type = Declared[n].type /\ array[n] \in Containers
    BY <1>2, <1>5 DEF BuiltAsDeclared
  <2>2. CASE IsOf(r, n)
    <3>1. Accepts(array[n], r) /\ m = n
      BY <2>1, <2>2 DEF Accepts, IsOf
    <3>2. array'[n] = IF r.op = "set" THEN With(array[n], r) ELSE array[n]
      BY <1>1, <1>2, <3>1 DEF HandleArray
    <3>3. CASE r.op = "get"
      BY <1>5, <3>2, <3>3 DEF Value, Makes
    <3>4. CASE r.op = "set" /\ r.target.part = "all"
      <4>1. r.value = v
        BY <2>2, <3>4 DEF Makes, Spares
      <4>2. With(array[n], r).elements = v
        BY <2>1, <3>4, <4>1 DEF With, Containers
      <4> QED BY <1>5, <3>2, <3>4, <4>2 DEF Value
    <3>5. CASE r.op = "set" /\ r.target.part = "key"
      <4>1. array[n].elements = v
        BY <1>5, <3>5 DEF Makes, Value
      <4>2. With(array[n], r).elements = array[n].elements
        BY <2>1, <3>5 DEF With, Containers
      <4> QED BY <1>5, <3>2, <3>5, <4>1, <4>2 DEF Value
    <3>6. CASE r.op = "set" /\ r.target.part = "element"
      <4>1. array[n].elements = v /\ Spares(r, n, v)
        BY <1>5, <3>6 DEF Makes, Value
      <4>2. \A j \in 1 .. Len(v) : j = r.target.index + 1 => r.value[1] = v[j]
        BY <2>2, <3>6, <4>1 DEF Spares
      <4>3. With(array[n], r).elements = v
        BY <2>1, <3>6, <4>1, <4>2, Elementwise
      <4> QED BY <1>5, <3>2, <3>6, <4>3 DEF Value
    <3> QED BY <1>1, <3>3, <3>4, <3>5, <3>6
  <2>3. CASE ~IsOf(r, n)
    <3>1. array'[n] = array[n]
      <4>1. CASE m = n
        <5>1. ~Accepts(array[m], r)
          BY <1>1, <1>5, <2>1, <2>3, <4>1 DEF Accepts, IsOf
        <5> QED BY <5>1 DEF HandleArray
      <4>2. CASE m # n
        BY <1>1, <1>2, <4>2 DEF HandleArray
      <4> QED BY <4>1, <4>2
    <3> QED BY <1>5, <2>3, <3>1 DEF Value, Makes
  <2> QED BY <2>2, <2>3
<1> QED BY <1>3, <1>4, <1>5

LEMMA Carried ==
  ASSUME Base, BuiltAsDeclared, NEW r \in Requests, Proper(r),
         HandleScalar(r) \/ HandleArray(r) \/ HandleUnknown(r) \/ HandleClear(r),
         NEW n \in Names, NEW v \in Seq(Nat), v # <<>>,
         Declared[n].array => array[n].built,
         Makes(r, n, v) \/ (Spares(r, n, v) /\ Value(n) = v)
  PROVE  Value(n)' = v
<1>1. CASE HandleUnknown(r)
  <2>1. tables' = tables /\ r.target.array /\ array[r.target.name] = Nowhere
    BY <1>1 DEF HandleUnknown
  <2>2. ~Makes(r, n, v)
    <3> SUFFICES ASSUME Makes(r, n, v) PROVE FALSE
      OBVIOUS
    <3>1. r.target.name = n /\ Declared[n].array
      BY <2>1 DEF Makes, IsOf
    <3> QED BY <2>1, <3>1 DEF Nowhere
  <2> QED BY <2>1, <2>2 DEF Value, tables
<1>2. CASE HandleClear(r)
  BY <1>2 DEF HandleClear, Makes, Spares
<1> QED BY <1>1, <1>2, ScalarCarried, ArrayCarried

\* A container keeps its type, and none is built while requests are handled.
LEMMA BuiltAfterHandled ==
  ASSUME Base, BuiltAsDeclared, Handled
  PROVE  \A n \in Names :
           array'[n].built => array[n].built /\ array'[n].type = array[n].type
<1> DEFINE r == Head(requests)
<1>1. HandleScalar(r) \/ HandleArray(r) \/ HandleUnknown(r) \/ HandleClear(r)
  BY DEF Handled
<1>2. array \in [Names -> Containers]
  BY DEF Base, TypeOK, Containers
<1> HIDE DEF r
<1>3. CASE HandleScalar(r) \/ HandleUnknown(r)
  BY <1>3 DEF HandleScalar, HandleUnknown, tables
<1>4. CASE HandleClear(r)
  BY <1>4 DEF HandleClear, Nowhere
<1>5. CASE HandleArray(r)
  <2> SUFFICES ASSUME NEW n \in Names
               PROVE  array'[n].built = array[n].built /\ array'[n].type = array[n].type
    OBVIOUS
  <2>1. array'[n] \in {array[n], With(array[n], r)}
    BY <1>2, <1>5 DEF HandleArray
  <2>2. array[n] \in Containers
    BY <1>2
  <2>3. With(array[n], r).built = array[n].built /\ With(array[n], r).type = array[n].type
    BY <2>2 DEF With, Containers
  <2> QED BY <2>1, <2>3
<1> QED BY <1>1, <1>3, <1>4, <1>5

LEMMA SaidAfterHandled ==
  ASSUME Base, SaidInv, Handled
  PROVE  SaidInv'
<1> DEFINE r == Head(requests)
<1>1. /\ requests # <<>> /\ requests' = Tail(requests) /\ pc = "requests"
      /\ pc' = pc /\ said' = said
  BY HandledEffect
<1>2. /\ r \in Requests /\ Proper(r) /\ r = requests[1] /\ 1 \in 1 .. Len(requests)
      /\ Len(requests) \in Nat /\ Len(requests') = Len(requests) - 1 /\ Len(requests') \in Nat
      /\ \A i \in 1 .. Len(requests') :
           requests'[i] = requests[i + 1] /\ i + 1 \in 1 .. Len(requests)
  BY <1>1, HeadRequest
<1>3. HandleScalar(r) \/ HandleArray(r) \/ HandleUnknown(r) \/ HandleClear(r)
  BY DEF Handled
<1> HIDE DEF r
<1>4. BuiltAsDeclared' /\ \A n \in Names : array'[n].built => array[n].built
  BY BuiltAfterHandled DEF SaidInv, BuiltAsDeclared
<1>5. ASSUME NEW n \in Names, said[n] # <<>>, Declared[n].array => array'[n].built
      PROVE  Comes(requests', n, said[n], Value(n)' = said[n])
  <2> DEFINE v == said[n]
  <2>1. v \in Seq(Nat) /\ v # <<>> /\ (Declared[n].array => array[n].built)
    BY <1>4, <1>5 DEF Base, TypeOK
  <2>2. PICK k \in 0 .. Len(requests) :
          /\ \A i \in 1 .. Len(requests) : i > k => Spares(requests[i], n, v)
          /\ IF k = 0 THEN Value(n) = v ELSE Makes(requests[k], n, v)
    BY <1>5, <2>1 DEF SaidInv, SaidComes, Comes
  <2> HIDE DEF v
  <2>3. CASE k <= 1
    <3>1. Makes(r, n, v) \/ (Spares(r, n, v) /\ Value(n) = v)
      BY <1>2, <2>2, <2>3
    <3>2. Value(n)' = v
      BY <1>2, <1>3, <2>1, <3>1, Carried DEF SaidInv
    <3>3. \A i \in 1 .. Len(requests') : Spares(requests'[i], n, v)
      BY <1>2, <2>2, <2>3
    <3>4. 0 \in 0 .. Len(requests')
      BY <1>2
    <3> QED BY <3>2, <3>3, <3>4 DEF Comes, v
  <2>4. CASE k > 1
    <3>1. k - 1 \in 1 .. Len(requests') /\ k - 1 \in 0 .. Len(requests') /\ k - 1 # 0
          /\ requests'[k - 1] = requests[k]
      BY <1>2, <2>4
    <3>2. \A i \in 1 .. Len(requests') : i > k - 1 => Spares(requests'[i], n, v)
      BY <1>2, <2>2, <2>4
    <3>3. Makes(requests'[k - 1], n, v)
      BY <2>2, <2>4, <3>1
    <3> QED BY <3>1, <3>2, <3>3 DEF Comes, v
  <2> QED BY <2>2, <2>3, <2>4
<1>6. SaidComes'
  BY <1>1, <1>5 DEF SaidComes
<1>7. OnlyRetries'
  BY <1>1 DEF OnlyRetries
<1> QED BY <1>4, <1>6, <1>7 DEF SaidInv

LEMMA SaidAfterPutBack ==
  ASSUME Base, OrderInv, SaidInv, HandleRetries
  PROVE  SaidInv'
<1>1. /\ requests = <<>> /\ Len(requests') = Len(retry)
      /\ \A i \in 1 .. Len(requests') :
           requests'[i].op = retry[i].op /\ requests'[i].target = retry[i].target
      /\ UNCHANGED <<tables, said>>
  BY PutBackEffect
<1>2. /\ Len(retry) \in Nat /\ Len(requests) = 0
      /\ \A i \in 1 .. Len(retry) :
           /\ retry[i].target.array = TRUE /\ retry[i].op \in {"set", "get"}
           /\ array[retry[i].target.name] = Nowhere
  BY <1>1, EmptySeq, Numbered DEF OrderInv, RetryUnknown, Base, RequestsProper, Proper, Targets
<1>3. ASSUME NEW n \in Names, said[n] # <<>>, Declared[n].array => array[n].built
      PROVE  Comes(requests', n, said[n], Value(n)' = said[n])
  <2>1. Value(n) = said[n]
    BY <1>2, <1>3 DEF SaidInv, SaidComes, Comes
  <2>2. Value(n)' = said[n]
    BY <1>1, <2>1 DEF Value, tables
  <2>3. ASSUME NEW i \in 1 .. Len(requests')
        PROVE  Spares(requests'[i], n, said[n])
    <3>1. ~IsOf(requests'[i], n)
      BY <1>1, <1>2, <1>3 DEF IsOf, Nowhere
    <3> QED BY <1>1, <1>2, <3>1 DEF Spares
  <2>4. 0 \in 0 .. Len(requests')
    BY <1>1, <1>2
  <2> QED BY <2>2, <2>3, <2>4 DEF Comes
<1>4. SaidComes'
  BY <1>1, <1>3 DEF SaidComes, tables
<1>5. OnlyRetries'
  BY <1>1, <1>2 DEF OnlyRetries
<1>6. BuiltAsDeclared'
  BY <1>1 DEF SaidInv, BuiltAsDeclared, tables
<1> QED BY <1>4, <1>5, <1>6 DEF SaidInv

LEMMA SaidAfterRan ==
  ASSUME Base, SaidInv, Ran
  PROVE  SaidInv'
<1>1. UNCHANGED <<requests, pc>>
  BY RanEffect
<1>2. OnlyRetries'
  BY <1>1 DEF SaidInv, OnlyRetries
<1>3. array \in [Names -> Containers] /\ scalar \in [Scalars -> [Names -> Seq(Nat)]]
      /\ said \in [Names -> Seq(Nat)]
  BY DEF Base, TypeOK, Containers
<1>4. CASE ShredDeclares
  <2>1. said' = [n \in Names |-> <<>>]
    BY <1>4 DEF ShredDeclares
  <2>2. SaidComes'
    BY <2>1 DEF SaidComes
  <2>3. ASSUME NEW n \in Names, array'[n].built
        PROVE  Declared[n].array /\ array'[n].type = Declared[n].type
    <3>1. \/ Declared[n].array /\ array'[n] = Container(Declared[n].type, <<0, 0>>)
          \/ array'[n] = [Nowhere EXCEPT !.type = Declared[n].type]
          \/ array'[n] = array[n]
      BY <1>4 DEF ShredDeclares
    <3> QED BY <2>3, <3>1 DEF Container, Nowhere, SaidInv, BuiltAsDeclared
  <2> QED BY <1>2, <2>2, <2>3 DEF SaidInv, BuiltAsDeclared
<1>5. CASE ShredEnds
  BY <1>1, <1>2, <1>5 DEF ShredEnds, SaidInv, SaidComes, BuiltAsDeclared, Value, tables
<1>6. ASSUME NEW m \in Names, ShredWrites(m) \/ ShredReads(m) \/ ShredWritesArray(m)
      PROVE  SaidInv'
  <2>1. said' = [said EXCEPT ![m] = <<>>]
    BY <1>6 DEF ShredWrites, ShredReads, ShredWritesArray, Uses
  <2>2. ASSUME NEW n \in Names
        PROVE  /\ array'[n].built = array[n].built /\ array'[n].type = array[n].type
               /\ n # m => Value(n)' = Value(n)
    <3>1. Declared[m].type \in Scalars
      BY Constants
    <3>2. CASE ShredWrites(m)
      <4>1. array' = array
        BY <3>2 DEF ShredWrites
      <4>2. \A t \in Scalars : n # m => scalar'[t][n] = scalar[t][n]
        BY <1>3, <3>1, <3>2 DEF ShredWrites
      <4> QED BY <4>1, <4>2, Constants DEF Value
    <3>3. CASE ShredReads(m)
      <4> DEFINE e == IF scalar[Declared[m].type][m] = <<>> THEN <<0>>
                      ELSE scalar[Declared[m].type][m]
      <4>1. array' = array /\ scalar' = [scalar EXCEPT ![Declared[m].type][m] = e]
        BY <1>3, <3>1, <3>3 DEF ShredReads
      <4> HIDE DEF e
      <4>2. \A t \in Scalars : n # m => scalar'[t][n] = scalar[t][n]
        BY <1>3, <3>1, <4>1
      <4> QED BY <4>1, <4>2, Constants DEF Value
    <3>4. CASE ShredWritesArray(m)
      <4> DEFINE e == [i \in DOMAIN array[m].elements |-> 0]
      <4>1. scalar' = scalar
            /\ (array' = array \/ array' = [array EXCEPT ![m] = [array[m] EXCEPT !.elements = e]])
        BY <1>3, <3>4 DEF ShredWritesArray
      <4> HIDE DEF e
      <4>2. array[n] \in Containers
        BY <1>3
      <4>3. /\ array'[n].built = array[n].built /\ array'[n].type = array[n].type
            /\ n # m => array'[n] = array[n]
        BY <1>3, <4>1, <4>2 DEF Containers
      <4> QED BY <4>1, <4>3 DEF Value
    <3> QED BY <1>6, <3>2, <3>3, <3>4
  <2>3. BuiltAsDeclared'
    BY <2>2 DEF SaidInv, BuiltAsDeclared
  <2>4. ASSUME NEW n \in Names, said'[n] # <<>>, Declared[n].array => array'[n].built
        PROVE  Comes(requests', n, said'[n], Value(n)' = said'[n])
    <3>1. n # m /\ said'[n] = said[n]
      BY <1>3, <2>1, <2>4
    <3>2. Value(n)' = Value(n) /\ (Declared[n].array => array[n].built)
      BY <2>2, <2>4, <3>1
    <3> QED BY <1>1, <2>4, <3>1, <3>2 DEF SaidInv, SaidComes
  <2>5. SaidComes'
    BY <2>4 DEF SaidComes
  <2> QED BY <1>2, <2>3, <2>5 DEF SaidInv
<1> QED BY <1>4, <1>5, <1>6 DEF Ran

-----------------------------------------------------------------------------
(* What a message says, and the requests it makes for it.                  *)

\* Whatever is said of n after the message, its requests rs make it so or leave it so.
Backs(rs, n) ==
  \/ said'[n] = <<>>
  \/ said'[n] = said[n] /\ \A i \in 1 .. Len(rs) : Spares(rs[i], n, said'[n])
  \/ /\ HasRoom(rs) /\ 1 \in 1 .. Len(rs)
     /\ Makes(rs[1], n, said'[n])
     /\ \A i \in 1 .. Len(rs) : i > 1 => Spares(rs[i], n, said'[n])

Heard(rs) ==
  /\ Put(rs)
  /\ UNCHANGED <<tables, pc>> /\ pc = "idle"
  /\ \A n \in Names : Backs(rs, n)

LEMMA PutIs ==
  ASSUME Base, NEW S, NEW rs \in Seq(S), Put(rs), pc = "idle"
  PROVE  /\ Len(requests) \in Nat /\ Len(requests') \in Nat /\ Len(rs) \in Nat
         /\ Len(requests) <= Len(requests')
         /\ \A i \in 1 .. Len(requests) : requests'[i] = requests[i]
         /\ \A i \in 1 .. Len(requests') : i > Len(requests) =>
              i - Len(requests) \in 1 .. Len(rs) /\ requests'[i] = rs[i - Len(requests)]
         /\ HasRoom(rs) => Len(requests') = Len(requests) + Len(rs)
<1> DEFINE T == Requests \cup S
           all == requests \o rs
<1>1. requests \in Seq(T) /\ rs \in Seq(T)
  <2>1. requests \in Seq(Requests) /\ Requests \subseteq T /\ S \subseteq T
    BY DEF Base, TypeOK
  <2> QED BY <2>1, SeqMonotonic
<1>2. Len(requests) \in Nat /\ Len(rs) \in Nat /\ RequestCap \in Nat /\ RequestCap >= 1
  BY <1>1, LenProperties, Constants
<1>3. Len(requests) <= RequestCap
  <2>1. retry = <<>>
    BY DEF Base, RetriesInCompute
  <2> QED BY <1>2, <2>1, EmptySeq DEF Base, TypeOK
<1> HIDE DEF T
<1>4. /\ all \in Seq(T) /\ Len(all) = Len(requests) + Len(rs)
      /\ \A i \in 1 .. Len(requests) + Len(rs) :
           all[i] = IF i <= Len(requests) THEN requests[i] ELSE rs[i - Len(requests)]
  BY <1>1, ConcatProperties
<1>5. requests' = IF Len(all) <= RequestCap THEN all ELSE SubSeq(all, 1, RequestCap)
  BY DEF Put
<1>6. HasRoom(rs) <=> Len(all) <= RequestCap
  BY <1>4 DEF HasRoom
<1> HIDE DEF all
<1>7. CASE Len(all) <= RequestCap
  BY <1>2, <1>4, <1>5, <1>7
<1>8. CASE ~(Len(all) <= RequestCap)
  <2>1. requests' = SubSeq(all, 1, RequestCap) /\ RequestCap < Len(all)
    BY <1>2, <1>4, <1>5, <1>8
  <2>2. \A i \in 1 .. RequestCap : i \in 1 .. Len(all) /\ all[i] \in T
    BY <1>2, <1>4, <2>1, ElementOfSeq
  <2>3. /\ Len(requests') = IF 1 <= RequestCap THEN RequestCap - 1 + 1 ELSE 0
        /\ \A i \in 1 .. RequestCap - 1 + 1 : requests'[i] = all[1 + i - 1]
    BY <1>2, <2>1, <2>2, SubSeqProperties
  <2>4. Len(requests') = RequestCap /\ \A i \in 1 .. RequestCap : requests'[i] = all[i]
    BY <1>2, <2>3
  <2> QED BY <1>2, <1>3, <1>4, <1>6, <1>8, <2>1, <2>2, <2>4
<1> QED BY <1>7, <1>8

LEMMA SaidAfterMessage ==
  ASSUME Base, SaidInv, NEW S, NEW rs \in Seq(S), Heard(rs)
  PROVE  SaidInv'
<1>1. /\ Len(requests) \in Nat /\ Len(requests') \in Nat /\ Len(rs) \in Nat
      /\ Len(requests) <= Len(requests')
      /\ \A i \in 1 .. Len(requests) : requests'[i] = requests[i]
      /\ \A i \in 1 .. Len(requests') : i > Len(requests) =>
           i - Len(requests) \in 1 .. Len(rs) /\ requests'[i] = rs[i - Len(requests)]
      /\ HasRoom(rs) => Len(requests') = Len(requests) + Len(rs)
  BY PutIs DEF Heard
<1>2. UNCHANGED <<tables, pc>> /\ pc = "idle" /\ \A n \in Names : Backs(rs, n)
  BY DEF Heard
<1>3. OnlyRetries' /\ BuiltAsDeclared'
  BY <1>2 DEF OnlyRetries, BuiltAsDeclared, SaidInv, tables
<1>4. ASSUME NEW n \in Names, said'[n] # <<>>, Declared[n].array => array[n].built
      PROVE  Comes(requests', n, said'[n], Value(n) = said'[n])
  <2> DEFINE v == said'[n]
             now == Value(n) = v
  <2>1. CASE said'[n] = said[n] /\ \A i \in 1 .. Len(rs) : Spares(rs[i], n, v)
    <3>1. Comes(requests, n, v, now)
      BY <1>4, <2>1 DEF SaidInv, SaidComes
    <3> HIDE DEF v, now
    <3>2. PICK k \in 0 .. Len(requests) :
            /\ \A i \in 1 .. Len(requests) : i > k => Spares(requests[i], n, v)
            /\ IF k = 0 THEN now ELSE Makes(requests[k], n, v)
      BY <3>1 DEF Comes
    <3>3. \A i \in 1 .. Len(requests') : i > k => Spares(requests'[i], n, v)
      BY <1>1, <2>1, <3>2
    <3>4. IF k = 0 THEN now ELSE Makes(requests'[k], n, v)
      BY <1>1, <3>2
    <3>5. k \in 0 .. Len(requests')
      BY <1>1
    <3>6. Comes(requests', n, v, now)
      BY <3>3, <3>4, <3>5 DEF Comes
    <3> QED BY <3>6 DEF v, now
  <2>2. CASE /\ HasRoom(rs) /\ 1 \in 1 .. Len(rs)
             /\ Makes(rs[1], n, v)
             /\ \A i \in 1 .. Len(rs) : i > 1 => Spares(rs[i], n, v)
    <3> HIDE DEF v, now
    <3>1. PICK k \in 1 .. Len(requests') : k = Len(requests) + 1
      BY <1>1, <2>2
    <3>2. k > Len(requests) /\ k - Len(requests) = 1 /\ k # 0 /\ k \in 0 .. Len(requests')
      BY <1>1, <3>1
    <3>3. requests'[k] = rs[1]
      BY <1>1, <3>2
    <3>4. \A i \in 1 .. Len(requests') : i > k => Spares(requests'[i], n, v)
      <4> SUFFICES ASSUME NEW i \in 1 .. Len(requests'), i > k
                   PROVE  Spares(requests'[i], n, v)
        OBVIOUS
      <4>1. i > Len(requests) /\ i - Len(requests) > 1
        BY <1>1, <3>1
      <4> QED BY <1>1, <2>2, <4>1
    <3>5. Comes(requests', n, v, now)
      BY <2>2, <3>2, <3>3, <3>4 DEF Comes
    <3> QED BY <3>5 DEF v, now
  <2> QED BY <1>2, <1>4, <2>1, <2>2 DEF Backs
<1>5. SaidComes'
  BY <1>2, <1>4 DEF SaidComes, Value, tables
<1> QED BY <1>3, <1>5 DEF SaidInv

LEMMA OneHeard ==
  ASSUME Base, SaidInv, NEW cmd, Message(cmd), NEW r, Sends(<<r>>),
         \A n \in Names :
           \/ said'[n] = <<>>
           \/ said'[n] = said[n] /\ Spares(r, n, said'[n])
           \/ HasRoom(<<r>>) /\ Makes(r, n, said'[n])
  PROVE  SaidInv'
<1>1. <<r>> \in Seq({r}) /\ Len(<<r>>) = 1 /\ <<r>>[1] = r
  BY OneRequest
<1>2. ASSUME NEW n \in Names
      PROVE  Backs(<<r>>, n)
  BY <1>1 DEF Backs
<1>3. Put(<<r>>) /\ UNCHANGED <<tables, pc>> /\ pc = "idle"
  BY DEF Sends, Message
<1>4. Heard(<<r>>)
  BY <1>2, <1>3 DEF Heard
<1> QED BY <1>1, <1>4, SaidAfterMessage

\* What a message has said of its own variable, and of the others.
LEMMA SaysOf ==
  ASSUME TypeOK, NEW m \in Names, NEW fits, NEW v, NEW rs, Says(m, fits, v, rs)
  PROVE  /\ said'[m] = <<>> \/ (fits /\ HasRoom(rs) /\ said'[m] = v)
         /\ \A n \in Names : n # m => said'[n] = said[n]
<1>1. said \in [Names -> Seq(Nat)]
  BY DEF TypeOK
<1> QED BY <1>1 DEF Says

LEMMA OthersSpared ==
  ASSUME NEW op \in {"set", "get"}, NEW m, NEW a, NEW t, NEW p, NEW i, NEW w,
         NEW n, NEW v, op = "set" => n # m
  PROVE  Spares(Request(op, Target(m, a, t, p, i), w), n, v)
BY DEF Spares, Request, Target, IsOf

LEMMA SaidAfterScalar ==
  ASSUME Base, Suited, SaidInv, NEW m \in Names, NEW x \in Numbers,
         NEW t \in {"float", "string"}, SetScalarUntyped(m, x, t)
  PROVE  SaidInv'
<1> DEFINE r == Request("set", Target(m, FALSE, t, "all", 0), <<x>>)
           fits == /\ ~Declared[m].array
                   /\ (t = "string") <=> (Declared[m].type = "string")
<1>1. Message("untyped") /\ Sends(<<r>>) /\ Says(m, fits, <<x>>, <<r>>)
  BY DEF SetScalarUntyped
<1>2. \A n \in Names : n # m => Spares(r, n, said'[n])
  BY OthersSpared
<1>3. fits => Makes(r, m, <<x>>)
  <2>1. Declared[m].type \in {"float", "string"} /\ Declared[m].array \in BOOLEAN
    BY Constants DEF Suited, Scalars
  <2>2. r.op = "set" /\ r.target.name = m /\ r.target.array = FALSE /\ r.target.type = t
        /\ r.target.part = "all" /\ r.value = <<x>>
    BY DEF Request, Target
  <2> QED BY <2>1, <2>2 DEF Makes, IsOf
<1> HIDE DEF r, fits
<1>4. /\ said'[m] = <<>> \/ (fits /\ HasRoom(<<r>>) /\ said'[m] = <<x>>)
      /\ \A n \in Names : n # m => said'[n] = said[n]
  BY <1>1, SaysOf DEF Base
<1> QED BY <1>1, <1>2, <1>3, <1>4, OneHeard

LEMMA SaidAfterKey ==
  ASSUME Base, SaidInv, NEW m \in Names, NEW x \in Numbers, SetKeyUntyped(m, x)
  PROVE  SaidInv'
<1> DEFINE r == Request("set", Target(m, TRUE, "float", "key", 0), <<x>>)
<1>1. Message("untyped") /\ Sends(<<r>>) /\ said' = said
  BY DEF SetKeyUntyped
<1>2. r.op = "set" /\ r.target.array = TRUE /\ r.target.part = "key"
  BY DEF Request, Target
<1> HIDE DEF r
<1>3. \A n \in Names : Spares(r, n, said'[n])
  BY <1>2 DEF Spares
<1> QED BY <1>1, <1>3, OneHeard

LEMMA TwoRequests ==
  ASSUME NEW r, NEW o
  PROVE  LET q == <<r>> \o <<o>> IN
         q \in Seq({r, o}) /\ Len(q) = 2 /\ q[1] = r /\ q[2] = o
<1>1. /\ <<r>> \in Seq({r, o}) /\ <<o>> \in Seq({r, o})
      /\ Len(<<r>>) = 1 /\ Len(<<o>>) = 1 /\ <<r>>[1] = r /\ <<o>>[1] = o
  OBVIOUS
<1> QED BY <1>1, ConcatProperties

\* A list makes the array, and the element that a list of two sets as well is so already.
LEMMA SaidAfterList ==
  ASSUME Base, Suited, SaidInv, NEW m \in Names, NEW v \in Lists, SetListUntyped(m, v)
  PROVE  SaidInv'
<1> DEFINE r == Request("set", Target(m, TRUE, "float", "all", 0), v)
           o == Request("set", Target(m, TRUE, "float", "element", ToInt(v[1])), <<v[2]>>)
           rs == <<r>> \o Element(m, v)
<1>1. Message("untyped") /\ Sends(rs) /\ Says(m, Declared[m].array, v, rs)
  BY DEF SetListUntyped
<1>2. /\ r.op = "set" /\ r.target.name = m /\ r.target.array = TRUE
      /\ r.target.type = "float" /\ r.target.part = "all" /\ r.value = v
      /\ o.op = "set" /\ o.target.array = TRUE /\ o.target.part = "element"
      /\ o.target.index = ToInt(v[1]) /\ o.value = <<v[2]>>
  BY DEF Request, Target
<1>3. \A n \in Names : n # m => Spares(r, n, said'[n]) /\ Spares(o, n, said'[n])
  BY OthersSpared
<1>4. Declared[m].array => Makes(r, m, v)
  <2>1. Declared[m].array => Declared[m].array = TRUE /\ Declared[m].type = "float"
    BY Constants DEF Suited, Elements
  <2> QED BY <1>2, <2>1 DEF Makes, IsOf
<1>5. Len(v) = 2 => Spares(o, m, v)
  <2> HIDE DEF o, r
  <2> SUFFICES ASSUME Len(v) = 2, NEW j \in 1 .. 2, j = ToInt(v[1]) + 1
               PROVE  v[2] = v[j]
    BY <1>2 DEF Spares
  <2>1. ToInt(v[1]) # 0 \/ v[1] = v[2]
    BY DEF Suited
  <2>2. ToInt(v[1]) \in Nat
    BY IndexOf
  <2>3. j = 2 \/ (j = 1 /\ v[1] = v[2])
    BY <2>1, <2>2
  <2> QED BY <2>3
<1>6. /\ rs \in Seq({r, o}) /\ 1 \in 1 .. Len(rs) /\ rs[1] = r
      /\ \A i \in 1 .. Len(rs) : i > 1 => rs[i] = o /\ Len(v) = 2
  <2> HIDE DEF r, o
  <2>1. CASE Len(v) = 2
    <3>1. rs = <<r>> \o <<o>>
      BY <2>1 DEF Element, o
    <3> HIDE DEF rs
    <3>2. rs \in Seq({r, o}) /\ Len(rs) = 2 /\ rs[1] = r /\ rs[2] = o
      BY <3>1, TwoRequests
    <3> QED BY <2>1, <3>2
  <2>2. CASE Len(v) # 2
    <3>1. rs = <<r>> \o <<>>
      BY <2>2 DEF Element
    <3>2. rs = <<r>>
      BY <3>1
    <3> HIDE DEF rs
    <3>3. <<r>> \in Seq({r, o}) /\ Len(<<r>>) = 1 /\ <<r>>[1] = r
      OBVIOUS
    <3> QED BY <3>2, <3>3
  <2> QED BY <2>1, <2>2
<1> HIDE DEF rs, r, o
<1>7. /\ said'[m] = <<>> \/ (Declared[m].array /\ HasRoom(rs) /\ said'[m] = v)
      /\ \A n \in Names : n # m => said'[n] = said[n]
  BY <1>1, SaysOf DEF Base
<1>8. ASSUME NEW n \in Names
      PROVE  Backs(rs, n)
  <2>1. CASE n # m
    <3>1. \A i \in 1 .. Len(rs) : rs[i] \in {r, o}
      BY <1>6, ElementOfSeq
    <3> QED BY <1>3, <1>7, <2>1, <3>1 DEF Backs
  <2>2. CASE n = m
    BY <1>4, <1>5, <1>6, <1>7, <2>2 DEF Backs
  <2> QED BY <2>1, <2>2
<1>9. Heard(rs)
  BY <1>1, <1>8 DEF Heard, Sends, Message
<1> QED BY <1>6, <1>9, SaidAfterMessage

LEMMA SaidAfterSet ==
  ASSUME Base, SaidInv, NEW m \in Names, NEW a, NEW t, NEW p, NEW i, NEW v,
         Set(Target(m, a, t, p, i), v)
  PROVE  SaidInv'
<1> DEFINE g == Target(m, a, t, p, i)
           r == Request("set", g, As(g.type, v))
<1>1. /\ Message("set") /\ Sends(<<r>>) /\ Says(m, FALSE, v, <<r>>)
  BY DEF Set, Target
<1>2. \A n \in Names : n # m => Spares(r, n, said'[n])
  BY OthersSpared
<1> HIDE DEF r
<1>3. said'[m] = <<>> /\ \A n \in Names : n # m => said'[n] = said[n]
  BY <1>1, SaysOf DEF Base
<1> QED BY <1>1, <1>2, <1>3, OneHeard

LEMMA SaidAfterTyped ==
  ASSUME Base, SaidInv, SetTyped
  PROVE  SaidInv'
<1>1. \E m \in Names : \E a, t, p, i, v : Set(Target(m, a, t, p, i), v)
  BY Zenon DEF SetTyped
<1> QED BY <1>1, SaidAfterSet

LEMMA SaidAfterGet ==
  ASSUME Base, SaidInv, NEW m \in Names, NEW a, NEW t, Get(m, a, t)
  PROVE  SaidInv'
<1> DEFINE r == Request("get", Target(m, a, t, "all", 0), <<>>)
<1>1. Message("get") /\ Sends(<<r>>) /\ said' = said
  BY DEF Get
<1>2. \A n \in Names : Spares(r, n, said'[n])
  BY OthersSpared
<1> QED BY <1>1, <1>2, OneHeard

LEMMA SaidAfterClear ==
  ASSUME Base, SaidInv, NEW op, Clear(op)
  PROVE  SaidInv'
<1> DEFINE r == Request(op, NoTarget, <<>>)
<1>1. Message(op) /\ Sends(<<r>>) /\ said' = [n \in Names |-> <<>>]
  BY DEF Clear
<1> HIDE DEF r
<1> QED BY <1>1, OneHeard

LEMMA SaidStep ==
  ASSUME Base, OrderInv, Suited, SaidInv, [Next]_vars
  PROVE  SaidInv'
<1>1. CASE Handle
  <2>1. Handled
    BY <1>1 DEF Handle, Handled
  <2> QED BY <2>1, SaidAfterHandled
<1>2. CASE HandleRetries
  BY <1>2, SaidAfterPutBack
<1>3. CASE ShredDeclares \/ ShredEnds
  BY <1>3, SaidAfterRan DEF Ran
<1>4. ASSUME NEW n \in Names, ShredWrites(n) \/ ShredReads(n) \/ ShredWritesArray(n)
      PROVE  SaidInv'
  BY <1>4, SaidAfterRan DEF Ran
<1>5. CASE SetMalformed \/ SetIgnored \/ Add \/ ComputeBegin \/ ComputeEnd \/ Halted \/ UNCHANGED vars
  <2>1. UNCHANGED <<tables, requests, said>> /\ (pc' = pc \/ pc' # "shreds")
    BY <1>5 DEF SetMalformed, SetIgnored, Add, ComputeBegin, ComputeEnd, Halted, vars
  <2> QED BY <2>1 DEF SaidInv, SaidComes, BuiltAsDeclared, OnlyRetries, Value, tables
<1>6. ASSUME NEW n \in Names, NEW x \in Numbers, NEW t \in {"float", "string"},
             SetScalarUntyped(n, x, t)
      PROVE  SaidInv'
  BY <1>6, SaidAfterScalar
<1>7. ASSUME NEW n \in Names, NEW x \in Numbers, SetKeyUntyped(n, x)
      PROVE  SaidInv'
  BY <1>7, SaidAfterKey
<1>8. ASSUME NEW n \in Names, NEW v \in Lists, SetListUntyped(n, v)
      PROVE  SaidInv'
  BY <1>8, SaidAfterList
<1>9. ASSUME NEW n \in Names, NEW a, NEW t, Get(n, a, t)
      PROVE  SaidInv'
  BY <1>9, SaidAfterGet
<1>10. ASSUME NEW op, Clear(op)
       PROVE  SaidInv'
  BY <1>10, SaidAfterClear
<1> QED BY <1>1, <1>2, <1>3, <1>4, <1>5, <1>6, <1>7, <1>8, <1>9, <1>10, SaidAfterTyped DEF Next

LEMMA SaidInit == Init => SaidInv
BY DEF Init, SaidInv, SaidComes, BuiltAsDeclared, OnlyRetries, Nowhere

LEMMA SaidIsRead ==
  ASSUME Base, SaidInv
  PROVE  UntypedTakesEffect
<1> SUFFICES ASSUME NEW n \in Names, pc = "shreds", said[n] # <<>>, Settled(n)
             PROVE  Value(n) = said[n]
  BY DEF UntypedTakesEffect
<1>1. PICK k \in 0 .. Len(requests) :
        IF k = 0 THEN Value(n) = said[n] ELSE Makes(requests[k], n, said[n])
  BY DEF SaidInv, SaidComes, Comes, Settled
<1>2. ASSUME NEW i \in 1 .. Len(requests), Makes(requests[i], n, said[n])
      PROVE  FALSE
  <2>1. i \in DOMAIN requests
    BY LenProperties DEF Base, TypeOK
  <2> DEFINE w == [target |-> requests[i].target, no |-> requests[i].no]
  <2>2. w \in Waiting /\ w.target = requests[i].target
    BY <2>1 DEF Waiting
  <2>3. w.target.array /\ w.target.name = n
    BY <1>2, <2>2 DEF SaidInv, OnlyRetries, Makes, IsOf
  <2> QED BY <2>2, <2>3 DEF Settled
<1> QED BY <1>1, <1>2, Numbered

(* What an untyped message last made a variable is what the program reads, *)
(* once nothing more is asked of that variable, through retries, second    *)
(* sets of an element, gets and clear vm: for programs and lists that are  *)
(* Suited, which MCValuesInt and MCValuesList show to be needed.           *)
THEOREM SaidTakesEffect == Suited => (Spec => []UntypedTakesEffect)
<1> SUFFICES ASSUME Suited
             PROVE  Spec => []UntypedTakesEffect
  OBVIOUS
<1>1. Base /\ OrderInv /\ [Next]_vars => OrderInv'
  BY Effects, OrderStep DEF Base
<1>2. Base /\ OrderInv /\ SaidInv /\ [Next]_vars => SaidInv'
  BY SaidStep
<1>3. Base /\ SaidInv => UntypedTakesEffect
  BY SaidIsRead
<1> QED BY <1>1, <1>2, <1>3, OrderInit, SaidInit, BaseInvariant, PTL DEF Spec
=============================================================================
