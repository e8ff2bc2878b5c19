----------------------------- MODULE HostBuffer -----------------------------
(***************************************************************************)
(* HostBuffer and HostBufPlay: ChucK code that reads, writes and plays Pd  *)
(* arrays (pdarray.cpp), and its place in the perform routine.             *)
(*                                                                         *)
(* Pd makes, resizes and frees arrays between perform calls (pc = "idle"); *)
(* the perform routine looks every named array up again, runs ChucK (pc =  *)
(* "run") and redraws what ChucK wrote.  An array is the identity of its   *)
(* points' memory and their number; their values are left out.             *)
(*                                                                         *)
(* A play position counts sub-frames, Unit to a frame.  It is a double:    *)
(* near 0 it tells sub-frames apart, further away only every Coarse-th.    *)
(***************************************************************************)
EXTENDS Integers, FiniteSets, Sequences

CONSTANTS Names,      (* names of Pd arrays                                 *)
          Memory,     (* identities of arrays, used again once freed        *)
          MaxLen,     (* bound: points of an array                          *)
          NULL,       (* no array                                           *)
          MaxSlots,   (* PDARRAY_MAX_SLOTS                                  *)
          Buffers,    (* HostBuffer objects                                 *)
          Players,    (* HostBufPlay objects                                *)
          Unit,       (* sub-frames of a frame                              *)
          Coarse,     (* what a double tells apart away from 0; 1 is exact  *)
          Rates       (* play rates, in sub-frames per sample               *)

ASSUME ConstantsAssumption ==
  /\ NULL \notin Memory
  /\ {MaxSlots, Unit, Coarse} \subseteq Nat \ {0}
  /\ MaxLen \in Nat
  /\ Rates \subseteq Int

VARIABLES arrays,    (* Pd: name -> its array: identity and number of points *)
          slots,     (* PdArrayState: name, array, n and dirty of each slot  *)
          buffer,    (* HostBuffer -> its slot; 0 is none (the code's -1)    *)
          player,    (* HostBufPlay -> its ArrayPlay                         *)
          touched,   (* history: the points read or written last              *)
          written,   (* history: arrays written in this block, not redrawn   *)
          pc         (* "idle" or "run"                                      *)

vars == <<arrays, slots, buffer, player, touched, written, pc>>

Absent == [id |-> NULL, n |-> 0]

Slots == [name : Names, id : Memory \cup {NULL}, n : 0 .. MaxLen, dirty : BOOLEAN]

Init ==
  /\ arrays = [nm \in Names |-> Absent]
  /\ slots = <<>>
  /\ buffer = [b \in Buffers |-> 0]
  /\ player = [p \in Players |->
                 [slot |-> 0, pos |-> 0, rate |-> Unit, loop |-> FALSE,
                  interp |-> TRUE, chan |-> 0]]
  /\ touched = {}
  /\ written = {}
  /\ pc = "idle"

-----------------------------------------------------------------------------
(* Pd between blocks *)

Free == Memory \ {arrays[nm].id : nm \in Names}

\* A new array, or one resized into new memory.
PdAllocate(nm, id, n) ==
  /\ pc = "idle"
  /\ id \in Free
  /\ arrays' = [arrays EXCEPT ![nm] = [id |-> id, n |-> n]]
  /\ UNCHANGED <<slots, buffer, player, touched, written, pc>>

PdDelete(nm) ==
  /\ pc = "idle"
  /\ arrays[nm] # Absent
  /\ arrays' = [arrays EXCEPT ![nm] = Absent]
  /\ UNCHANGED <<slots, buffer, player, touched, written, pc>>

-----------------------------------------------------------------------------
(* The perform routine around ChucK *)

\* resolve: an array whose memory there is none of counts as absent.
Resolved(s) == [s EXCEPT !.id = arrays[s.name].id, !.n = arrays[s.name].n]

Refresh == [i \in DOMAIN slots |-> Resolved(slots[i])]

PerformBegin ==
  /\ pc = "idle"
  /\ slots' = Refresh
  /\ pc' = "run"
  /\ UNCHANGED <<arrays, buffer, player, touched, written>>

\* What pdarray_flush redraws.
\* Mutant: the flush skips a slot nobody refers to any more.
Redrawn_InUse == {slots[i].id : i \in {k \in DOMAIN slots :
                    slots[k].dirty /\ \E b \in Buffers : buffer[b] = k}}

Redrawn == {slots[i].id : i \in {k \in DOMAIN slots : slots[k].dirty}}

PerformEnd ==
  /\ pc = "run"
  /\ written' = written \ Redrawn
  /\ slots' = [i \in DOMAIN slots |-> [slots[i] EXCEPT !.dirty = FALSE]]
  /\ touched' = {}
  /\ pc' = "idle"
  /\ UNCHANGED <<arrays, buffer, player>>

-----------------------------------------------------------------------------
(* Slots *)

Named(nm) == {i \in DOMAIN slots : slots[i].name = nm}

\* slot_for: the slots it leaves, and the slot it returns.
\* Mutant: a name that is new always takes a new slot.
SlotsWith_NoLimit(nm) ==
  IF Named(nm) # {} THEN slots
  ELSE Append(slots, Resolved([name |-> nm, id |-> NULL, n |-> 0, dirty |-> FALSE]))

SlotsWith(nm) ==
  IF Named(nm) # {} \/ Len(slots) = MaxSlots THEN slots
  ELSE Append(slots, Resolved([name |-> nm, id |-> NULL, n |-> 0, dirty |-> FALSE]))

SlotFor(nm) ==
  IF Named(nm) # {} THEN CHOOSE i \in Named(nm) : TRUE
  ELSE IF Len(slots) = MaxSlots THEN 0
  ELSE Len(slots) + 1

Live(i) == i # 0 /\ slots[i].id # NULL

-----------------------------------------------------------------------------
(* HostBuffer *)

BufferName(b, nm) ==
  /\ pc = "run"
  /\ slots' = SlotsWith(nm)
  /\ buffer' = [buffer EXCEPT ![b] = SlotFor(nm)]
  /\ UNCHANGED <<arrays, player, touched, written, pc>>

\* peek and poke, for any frame and channel: outside the array they are
\* ignored.
Reaches(b, i, chan) == Live(buffer[b]) /\ chan = 0 /\ i \in 0 .. slots[buffer[b]].n - 1

Peek(b, i, chan) ==
  /\ pc = "run"
  /\ Reaches(b, i, chan)
  /\ touched' = {<<slots[buffer[b]].id, i>>}
  /\ UNCHANGED <<arrays, slots, buffer, player, written, pc>>

Poke(b, i, chan) ==
  /\ pc = "run"
  /\ Reaches(b, i, chan)
  /\ touched' = {<<slots[buffer[b]].id, i>>}
  /\ written' = written \cup {slots[buffer[b]].id}
  /\ slots' = [slots EXCEPT ![buffer[b]].dirty = TRUE]
  /\ UNCHANGED <<arrays, buffer, player, pc>>

-----------------------------------------------------------------------------
(* HostBufPlay *)

PlayerName(p, nm) ==
  /\ pc = "run"
  /\ slots' = SlotsWith(nm)
  /\ player' = [player EXCEPT ![p].slot = SlotFor(nm), ![p].pos = 0]
  /\ UNCHANGED <<arrays, buffer, touched, written, pc>>

\* pos, rate, loop, interp and channel
PlayerSet(p, frame, rate, loop, interp, chan) ==
  /\ pc = "run"
  /\ player' = [player EXCEPT ![p] = [@ EXCEPT !.pos = frame * Unit, !.rate = rate,
                                               !.loop = loop, !.interp = interp, !.chan = chan]]
  /\ UNCHANGED <<arrays, slots, buffer, touched, written, pc>>

\* The double nearest to x.
Double(x) ==
  IF x \in -Unit + 1 .. Unit - 1 THEN x ELSE ((x + Coarse \div 2) \div Coarse) * Coarse

\* fmod takes the sign of x.
Fmod(x, n) == IF x >= 0 THEN x % n ELSE -((-x) % n)

\* Mutant: a position before the array is not brought back into it.
Wrapped_ForwardOnly(x, n) == Fmod(x, n)

Wrapped(x, n) == LET m == Fmod(x, n) IN IF m < 0 THEN Double(m + n) ELSE m

\* Mutant: the neighbour of the last point is the point after it.
Points_NoEnd(i, n, loop, interp) == {i} \cup IF interp THEN {i + 1} ELSE {}

\* The points a tick reads at point i of n.
Points(i, n, loop, interp) ==
  {i} \cup IF ~interp THEN {}
           ELSE IF i + 1 < n THEN {i + 1}
           ELSE IF loop THEN {0} ELSE {i}

Plays(p) ==
  /\ Live(player[p].slot)
  /\ slots[player[p].slot].n > 0
  /\ player[p].chan = 0

Tick(p) ==
  LET a == player[p]
      s == slots[a.slot]
      pos == IF a.loop THEN Wrapped(a.pos, s.n * Unit) ELSE a.pos
      inside == pos >= 0 /\ pos < s.n * Unit
  IN
  /\ pc = "run"
  /\ Plays(p)
  /\ player' = [player EXCEPT ![p].pos = IF inside THEN Double(pos + a.rate) ELSE pos]
  /\ touched' = IF inside
                THEN {<<s.id, j>> : j \in Points(pos \div Unit, s.n, a.loop, a.interp)}
                ELSE {}
  /\ UNCHANGED <<arrays, slots, buffer, written, pc>>

TickSilent(p) ==
  /\ pc = "run"
  /\ ~Plays(p)
  /\ touched' = {}
  /\ UNCHANGED <<arrays, slots, buffer, player, written, pc>>

Frames == -1 .. MaxLen

Next ==
  \/ \E nm \in Names, id \in Memory, n \in 0 .. MaxLen : PdAllocate(nm, id, n)
  \/ \E nm \in Names : PdDelete(nm)
  \/ PerformBegin
  \/ PerformEnd
  \/ \E b \in Buffers, nm \in Names : BufferName(b, nm)
  \/ \E b \in Buffers, i \in Frames, chan \in {0, 1} : Peek(b, i, chan) \/ Poke(b, i, chan)
  \/ \E p \in Players, nm \in Names : PlayerName(p, nm)
  \/ \E p \in Players, frame \in Frames, rate \in Rates, loop, interp \in BOOLEAN,
        chan \in {0, 1} : PlayerSet(p, frame, rate, loop, interp, chan)
  \/ \E p \in Players : Tick(p) \/ TickSilent(p)

Spec == Init /\ [][Next]_vars

-----------------------------------------------------------------------------
TypeOK ==
  /\ arrays \in [Names -> [id : Memory \cup {NULL}, n : 0 .. MaxLen]]
  /\ slots \in Seq(Slots) /\ Len(slots) <= MaxSlots
  /\ buffer \in [Buffers -> 0 .. MaxSlots]
  /\ player \in [Players -> [slot : 0 .. MaxSlots, pos : Int, rate : Rates \cup {Unit},
                             loop : BOOLEAN, interp : BOOLEAN, chan : {0, 1}]]
  /\ written \subseteq Memory
  /\ pc \in {"idle", "run"}

(* ChucK reads and writes only memory that is a Pd array at that time, and *)
(* only its points, however arrays come, go and change size between        *)
(* blocks and whatever the positions and rates of the players.             *)
TouchesLivePoints ==
  \A t \in touched : \E nm \in Names : arrays[nm].id = t[1] /\ t[2] \in 0 .. arrays[nm].n - 1

(* During a block each slot is what a lookup of its name would give, from  *)
(* the moment the name is first used: "ready() is 1 at once if the array   *)
(* exists".                                                                *)
SlotsMirrorPd == pc = "run" => \A i \in DOMAIN slots : Resolved(slots[i]) = slots[i]

(* An array written in a block is redrawn when the block ends, even if its *)
(* writer has gone on to another name.                                     *)
WrittenIsRedrawn == pc = "idle" => written = {}

(* HostBufPlay "plays a named Pd array; silent while no array has the      *)
(* name": a looping player of an array that has points is never silent.    *)
LoopNeverSilent ==
  [][\A p \in Players : Tick(p) /\ player[p].loop => touched' # {}]_vars
=============================================================================
