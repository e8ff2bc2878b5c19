------------------------------- MODULE Values -------------------------------
(***************************************************************************)
(* Setting the global variables of a ChucK program from the patch: the set *)
(* message, and a message whose selector is a variable's name              *)
(* (ck_anything), with get, clear globals and clear vm, which go through   *)
(* the same queue.                                                         *)
(*                                                                         *)
(* There is a table of variables for each type of scalar, and one for      *)
(* arrays.  A scalar is made by whoever names it first, an array by the    *)
(* shred that declares it; a request for an array nobody has declared is   *)
(* tried once more by the next compute.                                    *)
(*                                                                         *)
(* A number is its count of halves, so that 1 is 0.5 and its integer 0.    *)
(***************************************************************************)
EXTENDS Integers, Sequences

CONSTANTS Names,        (* of variables                                          *)
          Declared,     (* name -> what the program declares, see Types          *)
          Numbers,      (* what the patch sends                                  *)
          Lists,        (* the lists it sends, of two numbers or more            *)
          Commands,     (* what the patch does                                   *)
          RequestCap,   (* requests the queue holds: 16383                       *)
          MaxSent       (* bound: messages sent                                  *)

Scalars == {"int", "float", "string"}

Elements == {"int", "float"}

Types == [array : {FALSE}, type : Scalars] \cup [array : {TRUE}, type : Elements]

ASSUME ConstantsAssumption ==
  /\ Declared \in [Names -> Types]
  /\ Numbers \subseteq Nat
  /\ Lists \subseteq Seq(Nat)
  /\ \A v \in Lists : Len(v) >= 2
  /\ RequestCap \in Nat \ {0}
  /\ MaxSent \in Nat

VARIABLES scalar,       (* m_global_ints, _floats, _strings: name -> <<value>>   *)
          array,        (* m_global_arrays: name -> container                    *)
          requests,     (* m_global_request_queue                                *)
          retry,        (* m_global_request_retry_queue                          *)
          shred,        (* the program: "none", "due", "runs"                    *)
          pc,           (* "idle", "requests", "shreds": compute; "halted" by an *)
                        (* error that was reported: see module Reporting         *)
          sent,         (* messages sent                                         *)
          crashed,      (* memory at address 0 was written                       *)
          done,         (* history: table, name -> last message carried out      *)
          fresh,        (* history: messages no shred has run since              *)
          said          (* history: name -> what the patch last made it, or <<>> *)

tables == <<scalar, array>>
vars == <<tables, requests, retry, shred, pc, sent, crashed, done, fresh, said>>

\* No container in the table.
Nowhere == [type |-> "none", built |-> FALSE, elements |-> <<>>, key |-> 0]

Container(type, v) == [type |-> type, built |-> TRUE, elements |-> v, key |-> 0]

\* What a request is for: part "all" is the variable, or all of the array.
Target(n, a, t, p, i) == [name |-> n, array |-> a, type |-> t, part |-> p, index |-> i]

NoTarget == [array |-> FALSE]

Tables == Scalars \cup {"array"}

Table(r) == IF r.target.array THEN "array" ELSE r.target.type

Init ==
  /\ scalar = [t \in Scalars |-> [n \in Names |-> <<>>]]
  /\ array = [n \in Names |-> Nowhere]
  /\ requests = <<>>
  /\ retry = <<>>
  /\ shred = "none"
  /\ pc = "idle"
  /\ sent = 0
  /\ crashed = FALSE
  /\ done = [t \in Tables |-> [n \in Names |-> 0]]
  /\ fresh = {}
  /\ said = [n \in Names |-> <<>>]

-----------------------------------------------------------------------------
(* Messages *)

\* FinalRingBuffer::put: what finds the queue full is lost.
Put(rs) ==
  LET all == requests \o rs IN
  requests' = IF Len(all) <= RequestCap THEN all ELSE SubSeq(all, 1, RequestCap)

HasRoom(rs) == Len(requests) + Len(rs) <= RequestCap

Message(cmd) ==
  /\ cmd \in Commands
  /\ pc = "idle"
  /\ ~crashed
  /\ sent < MaxSent
  /\ sent' = sent + 1

\* Arrays are tried once more.
Request(op, target, v) ==
  [op |-> op, target |-> target, value |-> v, no |-> sent + 1,
   retries |-> IF target.array THEN 1 ELSE 0]

Sends(rs) ==
  /\ Put(rs)
  /\ fresh' = fresh \cup {sent'}
  /\ UNCHANGED <<tables, retry, shred, pc, crashed, done>>

Truncated(x) == 2 * (x \div 2)

ToInt(x) == x \div 2

\* What the program is to read afterwards, if the message fits its variable.
Says(n, fits, v, rs) ==
  said' = [said EXCEPT ![n] = IF fits /\ HasRoom(rs) THEN v ELSE <<>>]

\* ck_anything with one number or symbol: it sets a float or a string.
SetScalarUntyped(n, v, t) ==
  LET rs == <<Request("set", Target(n, FALSE, t, "all", 0), <<v>>)>>
      fits == /\ ~Declared[n].array
              /\ (t = "string") <=> (Declared[n].type = "string") IN
  /\ Message("untyped")
  /\ Sends(rs)
  /\ Says(n, fits, <<v>>, rs)

\* A list sets an array of floats; a list of two also one of its elements.
Element(n, v) ==
  IF Len(v) = 2
  THEN <<Request("set", Target(n, TRUE, "float", "element", ToInt(v[1])), <<v[2]>>)>>
  ELSE <<>>

SetListUntyped(n, v) ==
  LET rs == <<Request("set", Target(n, TRUE, "float", "all", 0), v)>> \o Element(n, v) IN
  /\ Message("untyped")
  /\ Sends(rs)
  /\ Says(n, Declared[n].array, v, rs)

\* A symbol and a number: the element with that key, of an array of floats.
SetKeyUntyped(n, v) ==
  LET rs == <<Request("set", Target(n, TRUE, "float", "key", 0), <<v>>)>> IN
  /\ Message("untyped")
  /\ Sends(rs)
  /\ UNCHANGED said

\* set <type> <name> ...: numbers become those of the type.
As(t, v) == [i \in DOMAIN v |-> IF t = "int" THEN Truncated(v[i]) ELSE v[i]]

Set(target, v) ==
  LET rs == <<Request("set", target, As(target.type, v))>> IN
  /\ Message("set")
  /\ Sends(rs)
  /\ Says(target.name, FALSE, v, rs)

SetTyped ==
  \E n \in Names :
    \/ \E t \in Scalars, x \in Numbers : Set(Target(n, FALSE, t, "all", 0), <<x>>)
    \/ \E t \in Elements, v \in Lists : Set(Target(n, TRUE, t, "all", 0), v)
    \/ \E t \in Elements, v \in Lists :
         Set(Target(n, TRUE, t, "element", ToInt(v[1])), <<v[2]>>)
    \/ \E t \in Elements, x \in Numbers : Set(Target(n, TRUE, t, "key", 0), <<x>>)

\* Too few arguments, or no type and name: ck_error, which does not return.
SetMalformed ==
  /\ Message("set")
  /\ pc' = "halted"
  /\ UNCHANGED <<tables, requests, retry, shred, crashed, done, fresh, said>>

\* A type there is not, or a value that is not of the type: nothing is queued.
SetIgnored ==
  /\ Message("set")
  /\ UNCHANGED <<tables, requests, retry, shred, pc, crashed, done, fresh, said>>

Get(n, a, t) ==
  /\ Message("get")
  /\ Sends(<<Request("get", Target(n, a, t, "all", 0), <<>>)>>)
  /\ UNCHANGED said

\* clear globals, or clear vm and reset.
Clear(op) ==
  /\ Message(op)
  /\ Sends(<<Request(op, NoTarget, <<>>)>>)
  /\ said' = [n \in Names |-> <<>>]

\* add, run or eval of the program; it runs in the next compute.
Add ==
  /\ Message("add")
  /\ shred = "none"
  /\ shred' = "due"
  /\ UNCHANGED <<tables, requests, retry, pc, crashed, done, fresh, said>>

-----------------------------------------------------------------------------
(* Chuck_Globals_Manager::handle_global_queue_messages *)

ComputeBegin ==
  /\ pc = "idle" /\ ~crashed
  /\ pc' = "requests"
  /\ UNCHANGED <<tables, requests, retry, shred, sent, crashed, done, fresh, said>>

Takes ==
  /\ requests' = Tail(requests)
  /\ UNCHANGED <<pc, sent, crashed, fresh, said>>

Done(r) == done' = [done EXCEPT ![Table(r)][r.target.name] = r.no]

\* init_global_int and its siblings make what is not there.
HandleScalar(r) ==
  LET t == r.target.type  n == r.target.name IN
  /\ Takes
  /\ r.op \in {"set", "get"} /\ ~r.target.array
  /\ scalar' = [scalar EXCEPT ![t][n] =
       CASE r.op = "set" -> r.value [] r.op = "get" /\ @ = <<>> -> <<0>> [] OTHER -> @]
  /\ Done(r)
  /\ UNCHANGED <<array, retry, shred>>

\* The container with a set carried out; an index past the end is ignored.
\* Mutant: the array is not resized.
With_SameSize(c, r) ==
  [c EXCEPT !.elements = [j \in DOMAIN @ |-> IF j <= Len(r.value) THEN r.value[j] ELSE @[j]]]

With(c, r) ==
  LET i == r.target.index + 1 IN
  CASE r.target.part = "all" -> [c EXCEPT !.elements = r.value]
    [] r.target.part = "key" -> [c EXCEPT !.key = r.value[1]]
    [] OTHER -> [c EXCEPT !.elements =
                   [j \in DOMAIN @ |-> IF j = i THEN r.value[1] ELSE @[j]]]

Accepts(c, r) == c.built /\ c.type = r.target.type

HandleArray(r) ==
  LET n == r.target.name IN
  /\ Takes
  /\ r.target.array
  /\ array[n] # Nowhere
  /\ IF Accepts(array[n], r)
     THEN /\ array' = [array EXCEPT ![n] = IF r.op = "set" THEN With(@, r) ELSE @]
          /\ Done(r)
     ELSE UNCHANGED <<array, done>>
  /\ UNCHANGED <<scalar, retry, shred>>

\* Mutant: what is to be tried again is not.
Again_Never(r) == FALSE

Again(r) == r.retries > 0

HandleUnknown(r) ==
  /\ Takes
  /\ r.target.array
  /\ array[r.target.name] = Nowhere
  /\ retry' = IF Again(r) THEN Append(retry, r) ELSE retry
  /\ UNCHANGED <<tables, shred, done>>

\* Mutant: clear vm leaves the shred.
Stopped_Not == shred

Stopped == "none"

HandleClear(r) ==
  /\ Takes
  /\ r.op \in {"clear globals", "clear vm"}
  /\ shred' = IF r.op = "clear vm" THEN Stopped ELSE shred
  /\ scalar' = [t \in Scalars |-> [n \in Names |-> <<>>]]
  /\ array' = [n \in Names |-> Nowhere]
  /\ UNCHANGED <<retry, done>>

Handle ==
  /\ pc = "requests" /\ requests # <<>>
  /\ LET r == Head(requests) IN
     \/ HandleScalar(r)
     \/ HandleArray(r)
     \/ HandleUnknown(r)
     \/ HandleClear(r)

\* Mutant: the latest comes first.
PutBack_Reversed == [i \in DOMAIN retry |-> [retry[Len(retry) + 1 - i] EXCEPT !.retries = 0]]

PutBack == [i \in DOMAIN retry |-> [retry[i] EXCEPT !.retries = @ - 1]]

HandleRetries ==
  /\ pc = "requests" /\ requests = <<>>
  /\ requests' = PutBack
  /\ retry' = <<>>
  /\ pc' = "shreds"
  /\ UNCHANGED <<tables, shred, sent, crashed, done, fresh, said>>

-----------------------------------------------------------------------------
(* The program *)

Inside == UNCHANGED <<requests, retry, pc, sent, done, fresh>>

\* Its declarations make what is not there; an array of a given size is new.
ShredDeclares ==
  /\ pc = "shreds" /\ shred = "due"
  /\ shred' = "runs"
  /\ scalar' = [t \in Scalars |-> [n \in Names |->
       IF Declared[n] = [array |-> FALSE, type |-> t] /\ scalar[t][n] = <<>>
       THEN <<0>> ELSE scalar[t][n]]]
  /\ \E sized \in SUBSET {n \in Names : Declared[n].array} :
       array' = [n \in Names |->
         CASE n \in sized -> Container(Declared[n].type, <<0, 0>>)
           [] n \notin sized /\ Declared[n].array /\ array[n] = Nowhere ->
                [Nowhere EXCEPT !.type = Declared[n].type]
           [] OTHER -> array[n]]
  /\ said' = [n \in Names |-> <<>>]
  /\ UNCHANGED crashed
  /\ Inside

Uses(n) ==
  /\ pc = "shreds" /\ shred = "runs" /\ ~crashed
  /\ said' = [said EXCEPT ![n] = <<>>]
  /\ Inside

\* A scalar is written through its container, wherever that is.
ShredWrites(n) ==
  LET t == Declared[n].type IN
  /\ Uses(n) /\ ~Declared[n].array
  /\ crashed' = (scalar[t][n] = <<>>)
  /\ scalar' = IF crashed' THEN scalar ELSE [scalar EXCEPT ![t][n] = <<0>>]
  /\ UNCHANGED <<array, shred>>

\* Reading makes a scalar that is not there.
ShredReads(n) ==
  LET t == Declared[n].type IN
  /\ Uses(n) /\ ~Declared[n].array
  /\ scalar' = [scalar EXCEPT ![t][n] = IF @ = <<>> THEN <<0>> ELSE @]
  /\ UNCHANGED <<array, shred, crashed>>

\* An array that is not there ends the shred.
ShredWritesArray(n) ==
  /\ Uses(n) /\ Declared[n].array
  /\ IF array[n].built
     THEN /\ array' = [array EXCEPT ![n].elements = [i \in DOMAIN @ |-> 0]]
          /\ UNCHANGED shred
     ELSE shred' = "none" /\ UNCHANGED array
  /\ UNCHANGED <<scalar, crashed>>

\* It is through, or is removed.
ShredEnds ==
  /\ pc = "shreds" /\ shred = "runs" /\ ~crashed
  /\ shred' = "none"
  /\ UNCHANGED <<tables, crashed, said>>
  /\ Inside

ComputeEnd ==
  /\ pc = "shreds" /\ ~crashed
  /\ shred # "due"   \* a new shred is due at once
  /\ pc' = "idle"
  /\ fresh' = {}
  /\ UNCHANGED <<tables, requests, retry, shred, sent, crashed, done, said>>

-----------------------------------------------------------------------------
\* Nothing goes on after an error.
Halted == pc = "halted" /\ UNCHANGED vars

Next ==
  \/ \E n \in Names, x \in Numbers :
       \/ \E t \in {"float", "string"} : SetScalarUntyped(n, x, t)
       \/ SetKeyUntyped(n, x)
  \/ \E n \in Names, v \in Lists : SetListUntyped(n, v)
  \/ SetTyped
  \/ SetMalformed
  \/ SetIgnored
  \/ \E n \in Names, t \in Scalars : Get(n, FALSE, t)
  \/ \E n \in Names, t \in Elements : Get(n, TRUE, t)
  \/ \E op \in {"clear globals", "clear vm"} : Clear(op)
  \/ Add
  \/ ComputeBegin
  \/ Handle
  \/ HandleRetries
  \/ ShredDeclares
  \/ \E n \in Names : ShredWrites(n) \/ ShredReads(n) \/ ShredWritesArray(n)
  \/ ShredEnds
  \/ ComputeEnd
  \/ Halted

Spec == Init /\ [][Next]_vars

-----------------------------------------------------------------------------
Targets == [name : Names, array : BOOLEAN, type : Scalars,
            part : {"all", "element", "key"}, index : Nat]

Requests == [op : {"set", "get", "clear globals", "clear vm"}, target : Targets \cup {NoTarget},
             value : Seq(Nat), no : 0 .. MaxSent, retries : {0, 1}]

TypeOK ==
  /\ scalar \in [Scalars -> [Names -> Seq(Nat)]]
  /\ array \in [Names -> [type : Elements \cup {"none"}, built : BOOLEAN,
                          elements : Seq(Nat), key : Nat]]
  /\ {requests, retry} \subseteq Seq(Requests)
  /\ Len(requests) + Len(retry) <= RequestCap
  /\ shred \in {"none", "due", "runs"}
  /\ pc \in {"idle", "requests", "shreds", "halted"}
  /\ sent \in 0 .. MaxSent
  /\ crashed \in BOOLEAN
  /\ done \in [Tables -> [Names -> 0 .. MaxSent]]
  /\ fresh \subseteq 1 .. MaxSent
  /\ said \in [Names -> Seq(Nat)]

(* What is asked of one variable is carried out in the order it was sent,  *)
(* tries and second tries: the last set wins, and a get sees the sets sent *)
(* before it and none sent later.                                          *)
InOrder == [][\A t \in Tables, n \in Names : done'[t][n] >= done[t][n]]_done

Waiting == {[target |-> requests[i].target, no |-> requests[i].no] : i \in DOMAIN requests}
           \cup {[target |-> retry[i].target, no |-> retry[i].no] : i \in DOMAIN retry}

(* "Possible that object just doesn't exist yet": a set or get of an array *)
(* nobody has declared is not given up before the shreds have run once.    *)
SecondChance ==
  [][\A w \in Waiting :
       w.target.array /\ w.no \in fresh /\ array[w.target.name] = Nowhere => w \in Waiting']_vars

\* The program's variable is there, and nothing more is to be done to it.
Settled(n) ==
  /\ IF Declared[n].array THEN array[n].built ELSE scalar[Declared[n].type][n] # <<>>
  /\ \A w \in Waiting : w.target.array => w.target.name # n

Value(n) == IF Declared[n].array THEN array[n].elements ELSE scalar[Declared[n].type][n]

(* "You change a global variable by sending a <variable-name> <value>      *)
(* message ... where the value can be an int, float, string, array of ints *)
(* or floats": once handled, it is what the program reads.                 *)
UntypedTakesEffect ==
  \A n \in Names : pc = "shreds" /\ said[n] # <<>> /\ Settled(n) => Value(n) = said[n]

(* A running shred's variables are there: none writes to a container that  *)
(* clear vm or clear globals has taken away.                               *)
WritesLand == ~crashed
=============================================================================
