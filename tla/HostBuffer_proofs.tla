------------------------- MODULE HostBuffer_proofs -------------------------
(***************************************************************************)
(* Theorems about HostBuffer and HostBufPlay, for any arrays and names,    *)
(* any number of slots, HostBuffers and players, any rates and positions,  *)
(* and any rounding of positions to multiples of Coarse.                   *)
(***************************************************************************)
EXTENDS HostBuffer, SequenceTheorems, TLAPS

-----------------------------------------------------------------------------
(* Arithmetic of positions.                                                *)

LEMMA Constants ==
  /\ Unit \in Nat \ {0} /\ Coarse \in Nat \ {0} /\ MaxSlots \in Nat \ {0}
  /\ MaxLen \in Nat /\ Rates \subseteq Int /\ NULL \notin Memory
BY ConstantsAssumption DEF ConstantsAssumption

LEMMA DoubleIsInt ==
  ASSUME NEW x \in Int
  PROVE  Double(x) \in Int
<1>1. Coarse \in Nat \ {0} /\ Unit \in Nat \ {0}
  BY Constants
<1>2. Coarse \div 2 \in Int
  BY <1>1
<1>3. (x + Coarse \div 2) \div Coarse \in Int
  BY <1>1, <1>2
<1> QED BY <1>1, <1>3 DEF Double

LEMMA WrappedIsInt ==
  ASSUME NEW x \in Int, NEW n \in Nat \ {0}
  PROVE  Wrapped(x, n) \in Int
<1>1. Fmod(x, n) \in Int
  BY DEF Fmod
<1> QED BY <1>1, DoubleIsInt DEF Wrapped

\* The frame of a position inside an array is one of its frames.
LEMMA FrameInside ==
  ASSUME NEW pos \in Int, NEW n \in Nat, 0 <= pos, pos < n * Unit
  PROVE  pos \div Unit \in 0 .. n - 1
<1>1. Unit \in Nat \ {0}
  BY Constants
<1> DEFINE q == pos \div Unit
           r == pos % Unit
<1>2. q \in Int
  BY <1>1
<1>3. r \in 0 .. Unit - 1
  BY <1>1
<1>4. pos = Unit * q + r
  BY <1>1
<1>5. q >= 0
  BY <1>1
<1> HIDE DEF q, r
<1>6. Unit * q < Unit * n
  <2>1. Unit * q \in Int /\ Unit * n \in Int /\ n * Unit = Unit * n
    BY <1>1, <1>2
  <2> QED BY <1>1, <1>3, <1>4, <2>1
<1>7. q < n
  <2> SUFFICES ASSUME q >= n PROVE FALSE
    BY <1>2
  <2>1. PICK d \in Nat : q = n + d
    <3>1. q - n \in Nat /\ q = n + (q - n)
      BY <1>2
    <3> QED BY <3>1
  <2>2. Unit * q = Unit * n + Unit * d
    BY <1>1, <2>1
  <2>3. Unit * d >= 0 /\ Unit * d \in Int /\ Unit * n \in Int
    BY <1>1, <2>1
  <2> QED BY <1>6, <2>2, <2>3
<1>8. q \in 0 .. n - 1
  BY <1>2, <1>5, <1>7
<1> QED BY <1>8 DEF q

LEMMA PointsInside ==
  ASSUME NEW i \in Int, NEW n \in Nat, i \in 0 .. n - 1,
         NEW loop \in BOOLEAN, NEW interp \in BOOLEAN
  PROVE  Points(i, n, loop, interp) \subseteq 0 .. n - 1
BY DEF Points

-----------------------------------------------------------------------------
(* The slots.                                                              *)

SlotsOK == slots \in Seq(Slots) /\ Len(slots) <= MaxSlots

ArraysOK == arrays \in [Names -> [id : Memory \cup {NULL}, n : 0 .. MaxLen]]

\* What refers to a slot refers to one there is.
RefersToSlots ==
  /\ buffer \in [Buffers -> 0 .. Len(slots)]
  /\ player \in [Players -> [slot : 0 .. Len(slots), pos : Int, rate : Rates \cup {Unit},
                             loop : BOOLEAN, interp : BOOLEAN, chan : {0, 1}]]

\* What was written in the block and is still to be redrawn.
WrittenIsDirty ==
  /\ written \subseteq Memory
  /\ \A m \in written : \E i \in 1 .. Len(slots) : slots[i].dirty /\ slots[i].id = m
  /\ pc = "idle" => written = {}

TouchedInBlock == TouchesLivePoints /\ (pc = "idle" => touched = {})

Inv ==
  /\ SlotsOK /\ ArraysOK /\ RefersToSlots
  /\ SlotsMirrorPd /\ WrittenIsDirty /\ TouchedInBlock
  /\ pc \in {"idle", "run"}

LEMMA SlotsThere ==
  ASSUME SlotsOK
  PROVE  /\ Len(slots) \in Nat /\ DOMAIN slots = 1 .. Len(slots)
         /\ slots \in [1 .. Len(slots) -> Slots]
         /\ \A i \in 1 .. Len(slots) : slots[i] \in Slots
BY LenProperties, ElementOfSeq DEF SlotsOK

LEMMA TwoFields ==
  ASSUME NEW A, NEW B, NEW C, NEW D, NEW s \in [name : A, id : B, n : C, dirty : D],
         NEW x \in B, NEW y \in C
  PROVE  LET r == [s EXCEPT !.id = x, !.n = y] IN
         /\ r \in [name : A, id : B, n : C, dirty : D]
         /\ r.name = s.name /\ r.dirty = s.dirty /\ r.id = x /\ r.n = y
<1> DEFINE r == [s EXCEPT !.id = x, !.n = y]
<1>1. r \in [name : A, id : B, n : C, dirty : D]
  OBVIOUS
<1>2. r.name = s.name /\ r.dirty = s.dirty /\ r.id = x /\ r.n = y
  OBVIOUS
<1> QED BY <1>1, <1>2

LEMMA SameFields ==
  ASSUME NEW A, NEW B, NEW C, NEW D, NEW s \in [name : A, id : B, n : C, dirty : D]
  PROVE  [s EXCEPT !.id = s.id, !.n = s.n] = s
OBVIOUS

LEMMA ResolvedIsSlot ==
  ASSUME ArraysOK, NEW s \in Slots
  PROVE  /\ Resolved(s) \in Slots /\ Resolved(s).name = s.name
         /\ Resolved(s).dirty = s.dirty
         /\ Resolved(s).id = arrays[s.name].id /\ Resolved(s).n = arrays[s.name].n
         /\ Resolved(Resolved(s)) = Resolved(s)
<1> DEFINE B == Memory \cup {NULL}
           C == 0 .. MaxLen
           D == BOOLEAN
<1>1. s.name \in Names /\ arrays[s.name].id \in B /\ arrays[s.name].n \in C
  BY DEF ArraysOK, Slots
<1>2. Slots = [name : Names, id : B, n : C, dirty : D]
  BY DEF Slots
<1> HIDE DEF B, C, D
<1>3. /\ Resolved(s) \in Slots /\ Resolved(s).name = s.name /\ Resolved(s).dirty = s.dirty
      /\ Resolved(s).id = arrays[s.name].id /\ Resolved(s).n = arrays[s.name].n
  BY <1>1, <1>2, TwoFields DEF Resolved
<1>4. Resolved(Resolved(s))
        = [Resolved(s) EXCEPT !.id = arrays[s.name].id, !.n = arrays[s.name].n]
  <2>1. \A r : r.name = s.name
               => Resolved(r) = [r EXCEPT !.id = arrays[s.name].id, !.n = arrays[s.name].n]
    BY DEF Resolved
  <2> QED BY <1>3, <2>1
<1>5. [Resolved(s) EXCEPT !.id = arrays[s.name].id, !.n = arrays[s.name].n] = Resolved(s)
  <2>1. [Resolved(s) EXCEPT !.id = Resolved(s).id, !.n = Resolved(s).n] = Resolved(s)
    BY <1>2, <1>3, SameFields
  <2> QED BY <1>3, <2>1
<1> QED BY <1>3, <1>4, <1>5

\* A slot of a running block is an array's: its memory, and its number of points.
LEMMA Mirrored ==
  ASSUME ArraysOK, SlotsOK, SlotsMirrorPd, pc = "run", NEW i \in 1 .. Len(slots)
  PROVE  /\ slots[i].name \in Names
         /\ slots[i].id = arrays[slots[i].name].id /\ slots[i].n = arrays[slots[i].name].n
         /\ slots[i].n \in Nat /\ slots[i].id \in Memory \cup {NULL}
<1>1. slots[i] \in Slots /\ Resolved(slots[i]) = slots[i]
  BY SlotsThere DEF SlotsMirrorPd
<1>2. slots[i].name \in Names /\ slots[i].n \in Nat /\ slots[i].id \in Memory \cup {NULL}
  BY <1>1, Constants DEF Slots
<1> QED BY <1>1, <1>2, ResolvedIsSlot

\* slot_for keeps the slots there are; what it adds is looked up at once.
LEMMA NewSlots ==
  ASSUME ArraysOK, SlotsOK, NEW nm \in Names
  PROVE  /\ SlotsWith(nm) \in Seq(Slots) /\ Len(SlotsWith(nm)) <= MaxSlots
         /\ Len(slots) \in Nat /\ Len(SlotsWith(nm)) \in Nat
         /\ Len(slots) <= Len(SlotsWith(nm))
         /\ SlotFor(nm) \in 0 .. Len(SlotsWith(nm))
         /\ \A i \in 1 .. Len(slots) : SlotsWith(nm)[i] = slots[i]
         /\ \A i \in 1 .. Len(SlotsWith(nm)) :
              \/ i \in 1 .. Len(slots)
              \/ Resolved(SlotsWith(nm)[i]) = SlotsWith(nm)[i]
<1>1. /\ Len(slots) \in Nat /\ DOMAIN slots = 1 .. Len(slots) /\ slots \in Seq(Slots)
      /\ Len(slots) <= MaxSlots /\ MaxSlots \in Nat
  BY SlotsThere, Constants DEF SlotsOK
<1>2. CASE Named(nm) # {}
  <2>1. SlotsWith(nm) = slots /\ SlotFor(nm) = CHOOSE i \in Named(nm) : TRUE
    BY <1>2 DEF SlotsWith, SlotFor
  <2>2. SlotFor(nm) \in Named(nm)
    BY <1>2, <2>1
  <2>3. SlotFor(nm) \in 1 .. Len(slots)
    BY <1>1, <2>2 DEF Named
  <2>4. SlotFor(nm) \in 0 .. Len(slots)
    BY <1>1, <2>3
  <2> QED BY <1>1, <2>1, <2>4
<1>3. CASE Named(nm) = {} /\ Len(slots) = MaxSlots
  BY <1>1, <1>3 DEF SlotsWith, SlotFor
<1>4. CASE Named(nm) = {} /\ Len(slots) # MaxSlots
  <2> DEFINE raw == [name |-> nm, id |-> NULL, n |-> 0, dirty |-> FALSE]
             new == Resolved(raw)
  <2>1. SlotsWith(nm) = Append(slots, new) /\ SlotFor(nm) = Len(slots) + 1
    BY <1>4 DEF SlotsWith, SlotFor
  <2>2. raw \in Slots
    BY Constants DEF Slots
  <2> HIDE DEF raw
  <2>3. new \in Slots /\ Resolved(new) = new
    BY <2>2, ResolvedIsSlot
  <2> HIDE DEF new
  <2>4. /\ SlotsWith(nm) \in Seq(Slots) /\ Len(SlotsWith(nm)) = Len(slots) + 1
        /\ \A i \in 1 .. Len(slots) : SlotsWith(nm)[i] = slots[i]
        /\ SlotsWith(nm)[Len(slots) + 1] = new
    BY <1>1, <2>1, <2>3, AppendProperties
  <2> QED BY <1>1, <1>4, <2>1, <2>3, <2>4
<1> QED BY <1>2, <1>3, <1>4

LEMMA AfterSlotFor ==
  ASSUME Inv, pc = "run", NEW nm \in Names, slots' = SlotsWith(nm),
         UNCHANGED <<arrays, touched, written, pc>>
  PROVE  /\ SlotsOK' /\ ArraysOK' /\ SlotsMirrorPd' /\ WrittenIsDirty' /\ TouchedInBlock'
         /\ Len(slots) \in Nat /\ Len(slots') \in Nat /\ Len(slots) <= Len(slots')
         /\ SlotFor(nm) \in 0 .. Len(slots')
<1>1. /\ slots' \in Seq(Slots) /\ Len(slots') <= MaxSlots
      /\ Len(slots) \in Nat /\ Len(slots') \in Nat /\ Len(slots) <= Len(slots')
      /\ SlotFor(nm) \in 0 .. Len(slots')
      /\ \A i \in 1 .. Len(slots) : slots'[i] = slots[i]
      /\ \A i \in 1 .. Len(slots') : i \in 1 .. Len(slots) \/ Resolved(slots'[i]) = slots'[i]
  BY NewSlots DEF Inv
<1>2. DOMAIN slots = 1 .. Len(slots) /\ DOMAIN slots' = 1 .. Len(slots')
  BY <1>1, SlotsThere, LenProperties DEF Inv
<1>3. SlotsMirrorPd'
  BY <1>1, <1>2 DEF Inv, SlotsMirrorPd, Resolved
<1>4. WrittenIsDirty'
  <2>1. ASSUME NEW m \in written
        PROVE  \E i \in 1 .. Len(slots') : slots'[i].dirty /\ slots'[i].id = m
    <3>1. PICK i \in 1 .. Len(slots) : slots[i].dirty /\ slots[i].id = m
      BY DEF Inv, WrittenIsDirty
    <3>2. i \in 1 .. Len(slots')
      BY <1>1
    <3> QED BY <1>1, <3>1, <3>2
  <2> QED BY <2>1 DEF Inv, WrittenIsDirty
<1>5. SlotsOK' /\ ArraysOK' /\ TouchedInBlock'
  BY <1>1 DEF Inv, SlotsOK, ArraysOK, TouchedInBlock, TouchesLivePoints
<1> QED BY <1>1, <1>3, <1>4, <1>5

-----------------------------------------------------------------------------
(* Each operation keeps the invariant.                                     *)

LEMMA PdStep ==
  ASSUME Inv, \/ \E nm \in Names, id \in Memory, n \in 0 .. MaxLen : PdAllocate(nm, id, n)
              \/ \E nm \in Names : PdDelete(nm)
  PROVE  Inv'
<1>1. /\ pc = "idle" /\ UNCHANGED <<slots, buffer, player, touched, written, pc>>
      /\ \E nm \in Names, a \in [id : Memory \cup {NULL}, n : 0 .. MaxLen] :
           arrays' = [arrays EXCEPT ![nm] = a]
  BY Constants DEF PdAllocate, PdDelete, Absent
<1>2. ArraysOK'
  BY <1>1 DEF Inv, ArraysOK
<1>3. TouchedInBlock' /\ SlotsMirrorPd'
  BY <1>1 DEF Inv, TouchedInBlock, TouchesLivePoints, SlotsMirrorPd
<1> QED BY <1>1, <1>2, <1>3 DEF Inv, SlotsOK, RefersToSlots, WrittenIsDirty

LEMMA PerformBeginStep ==
  ASSUME Inv, PerformBegin
  PROVE  Inv'
<1>1. /\ pc = "idle" /\ pc' = "run" /\ slots' = Refresh
      /\ UNCHANGED <<arrays, buffer, player, touched, written>>
  BY DEF PerformBegin
<1>2. /\ Len(slots) \in Nat /\ DOMAIN slots = 1 .. Len(slots) /\ Len(slots) <= MaxSlots
      /\ \A i \in 1 .. Len(slots) : slots[i] \in Slots
  BY SlotsThere DEF Inv, SlotsOK
<1>3. slots' = [i \in 1 .. Len(slots) |-> Resolved(slots[i])]
  BY <1>1, <1>2 DEF Refresh
<1>4. \A i \in 1 .. Len(slots) : Resolved(slots[i]) \in Slots
                               /\ Resolved(Resolved(slots[i])) = Resolved(slots[i])
  BY <1>2, ResolvedIsSlot DEF Inv
<1>5. slots' \in Seq(Slots) /\ Len(slots') = Len(slots) /\ DOMAIN slots' = 1 .. Len(slots)
  BY <1>2, <1>3, <1>4
<1>6. SlotsMirrorPd'
  <2>1. \A i \in 1 .. Len(slots) : Resolved(slots'[i]) = slots'[i]
    BY <1>3, <1>4
  <2> QED BY <1>1, <1>5, <2>1 DEF SlotsMirrorPd, Resolved
<1>7. WrittenIsDirty'
  BY <1>1 DEF Inv, WrittenIsDirty
<1>8. TouchedInBlock'
  BY <1>1 DEF Inv, TouchedInBlock, TouchesLivePoints
<1> QED BY <1>1, <1>2, <1>5, <1>6, <1>7, <1>8 DEF Inv, SlotsOK, ArraysOK, RefersToSlots

LEMMA PerformEndStep ==
  ASSUME Inv, PerformEnd
  PROVE  Inv'
<1>1. /\ pc' = "idle" /\ written' = written \ Redrawn /\ touched' = {}
      /\ slots' = [i \in DOMAIN slots |-> [slots[i] EXCEPT !.dirty = FALSE]]
      /\ UNCHANGED <<arrays, buffer, player>>
  BY DEF PerformEnd
<1>2. /\ Len(slots) \in Nat /\ DOMAIN slots = 1 .. Len(slots) /\ Len(slots) <= MaxSlots
      /\ \A i \in 1 .. Len(slots) : slots[i] \in Slots
  BY SlotsThere DEF Inv, SlotsOK
<1>3. \A i \in 1 .. Len(slots) : [slots[i] EXCEPT !.dirty = FALSE] \in Slots
  BY <1>2 DEF Slots
<1>4. slots' \in Seq(Slots) /\ Len(slots') = Len(slots)
  BY <1>1, <1>2, <1>3
<1>5. written' = {}
  <2>1. \A m \in written : m \in Redrawn
    BY <1>2 DEF Inv, WrittenIsDirty, Redrawn
  <2> QED BY <1>1, <2>1
<1>6. SlotsMirrorPd' /\ TouchedInBlock' /\ WrittenIsDirty'
  BY <1>1, <1>5 DEF SlotsMirrorPd, TouchedInBlock, TouchesLivePoints, WrittenIsDirty
<1> QED BY <1>1, <1>2, <1>4, <1>6 DEF Inv, SlotsOK, ArraysOK, RefersToSlots

LEMMA BufferNameStep ==
  ASSUME Inv, NEW b \in Buffers, NEW nm \in Names, BufferName(b, nm)
  PROVE  Inv'
<1>1. /\ pc = "run" /\ slots' = SlotsWith(nm)
      /\ buffer' = [buffer EXCEPT ![b] = SlotFor(nm)]
      /\ UNCHANGED <<arrays, player, touched, written, pc>>
  BY DEF BufferName
<1>2. /\ SlotsOK' /\ ArraysOK' /\ SlotsMirrorPd' /\ WrittenIsDirty' /\ TouchedInBlock'
      /\ Len(slots) \in Nat /\ Len(slots') \in Nat /\ Len(slots) <= Len(slots')
      /\ SlotFor(nm) \in 0 .. Len(slots')
  BY <1>1, AfterSlotFor
<1>3. 0 .. Len(slots) \subseteq 0 .. Len(slots')
  BY <1>2
<1>4. buffer' \in [Buffers -> 0 .. Len(slots')]
  BY <1>1, <1>2, <1>3 DEF Inv, RefersToSlots
<1>5. player' \in [Players -> [slot : 0 .. Len(slots'), pos : Int, rate : Rates \cup {Unit},
                               loop : BOOLEAN, interp : BOOLEAN, chan : {0, 1}]]
  BY <1>1, <1>3 DEF Inv, RefersToSlots
<1> QED BY <1>1, <1>2, <1>4, <1>5 DEF Inv, RefersToSlots

\* A player's fields are set one by one; what is left out stays.
LEMMA RecordUpdates ==
  ASSUME NEW S, NEW P, NEW R, NEW L, NEW C,
         NEW a \in [slot : S, pos : P, rate : R, loop : L, interp : L, chan : C],
         NEW x \in S, NEW y \in P
  PROVE  [a EXCEPT !.slot = x, !.pos = y]
           \in [slot : S, pos : P, rate : R, loop : L, interp : L, chan : C]
OBVIOUS

LEMMA PositionUpdate ==
  ASSUME NEW S, NEW P, NEW R, NEW L, NEW C,
         NEW a \in [slot : S, pos : P, rate : R, loop : L, interp : L, chan : C],
         NEW y \in P
  PROVE  [a EXCEPT !.pos = y]
           \in [slot : S, pos : P, rate : R, loop : L, interp : L, chan : C]
OBVIOUS

LEMMA ParameterUpdates ==
  ASSUME NEW S, NEW P, NEW R, NEW L, NEW C,
         NEW a \in [slot : S, pos : P, rate : R, loop : L, interp : L, chan : C],
         NEW y \in P, NEW r \in R, NEW l \in L, NEW m \in L, NEW c \in C
  PROVE  [a EXCEPT !.pos = y, !.rate = r, !.loop = l, !.interp = m, !.chan = c]
           \in [slot : S, pos : P, rate : R, loop : L, interp : L, chan : C]
OBVIOUS

PlayStates(n) == [slot : 0 .. n, pos : Int, rate : Rates \cup {Unit},
                  loop : BOOLEAN, interp : BOOLEAN, chan : {0, 1}]

LEMMA PlayerNameStep ==
  ASSUME Inv, NEW p \in Players, NEW nm \in Names, PlayerName(p, nm)
  PROVE  Inv'
<1>1. /\ pc = "run" /\ slots' = SlotsWith(nm)
      /\ player' = [player EXCEPT ![p].slot = SlotFor(nm), ![p].pos = 0]
      /\ UNCHANGED <<arrays, buffer, touched, written, pc>>
  BY DEF PlayerName
<1>2. /\ SlotsOK' /\ ArraysOK' /\ SlotsMirrorPd' /\ WrittenIsDirty' /\ TouchedInBlock'
      /\ Len(slots) \in Nat /\ Len(slots') \in Nat /\ Len(slots) <= Len(slots')
      /\ SlotFor(nm) \in 0 .. Len(slots')
  BY <1>1, AfterSlotFor
<1>3. 0 .. Len(slots) \subseteq 0 .. Len(slots')
  BY <1>2
<1>4. buffer' \in [Buffers -> 0 .. Len(slots')]
  BY <1>1, <1>3 DEF Inv, RefersToSlots
<1> DEFINE n == Len(slots')
           a == [player[p] EXCEPT !.slot = SlotFor(nm), !.pos = 0]
<1>5. player \in [Players -> PlayStates(n)]
  BY <1>3 DEF Inv, RefersToSlots, PlayStates
<1>6. a \in PlayStates(n)
  <2>1. player[p] \in PlayStates(n) /\ SlotFor(nm) \in 0 .. n /\ 0 \in Int
    BY <1>2, <1>5
  <2> QED BY <2>1, RecordUpdates DEF PlayStates
<1>7. player' = [player EXCEPT ![p] = a]
  BY <1>1, <1>5
<1> HIDE DEF a
<1>8. player' \in [Players -> PlayStates(n)]
  BY <1>5, <1>6, <1>7
<1> QED BY <1>1, <1>2, <1>4, <1>8 DEF Inv, RefersToSlots, PlayStates

LEMMA ReachedPoint ==
  ASSUME Inv, pc = "run", NEW b \in Buffers, NEW i, NEW chan, Reaches(b, i, chan)
  PROVE  LET s == slots[buffer[b]] IN
         /\ buffer[b] \in 1 .. Len(slots) /\ s.id \in Memory
         /\ s.name \in Names /\ arrays[s.name].id = s.id /\ i \in 0 .. arrays[s.name].n - 1
<1>1. buffer[b] \in 0 .. Len(slots) /\ buffer[b] # 0 /\ slots[buffer[b]].id # NULL
      /\ i \in 0 .. slots[buffer[b]].n - 1
  BY DEF Inv, RefersToSlots, Reaches, Live
<1>2. buffer[b] \in 1 .. Len(slots)
  BY <1>1, SlotsThere DEF Inv
<1> QED BY <1>1, <1>2, Mirrored DEF Inv

LEMMA PeekStep ==
  ASSUME Inv, NEW b \in Buffers, NEW i, NEW chan, Peek(b, i, chan)
  PROVE  Inv'
<1>1. /\ pc = "run" /\ Reaches(b, i, chan) /\ touched' = {<<slots[buffer[b]].id, i>>}
      /\ UNCHANGED <<arrays, slots, buffer, player, written, pc>>
  BY DEF Peek
<1>2. TouchedInBlock'
  BY <1>1, ReachedPoint DEF TouchedInBlock, TouchesLivePoints
<1> QED BY <1>1, <1>2
        DEF Inv, SlotsOK, ArraysOK, RefersToSlots, SlotsMirrorPd, WrittenIsDirty, Resolved

LEMMA PokeStep ==
  ASSUME Inv, NEW b \in Buffers, NEW i, NEW chan, Poke(b, i, chan)
  PROVE  Inv'
<1> DEFINE k == buffer[b]
<1>1. /\ pc = "run" /\ Reaches(b, i, chan) /\ touched' = {<<slots[k].id, i>>}
      /\ written' = written \cup {slots[k].id}
      /\ slots' = [slots EXCEPT ![k].dirty = TRUE]
      /\ UNCHANGED <<arrays, buffer, player, pc>>
  BY DEF Poke
<1>2. TouchedInBlock'
  BY <1>1, ReachedPoint DEF TouchedInBlock, TouchesLivePoints
<1>3. k \in 1 .. Len(slots) /\ slots[k].id \in Memory
  BY <1>1, ReachedPoint
<1>4. /\ Len(slots) \in Nat /\ DOMAIN slots = 1 .. Len(slots) /\ Len(slots) <= MaxSlots
      /\ slots \in Seq(Slots) /\ slots \in [1 .. Len(slots) -> Slots]
  BY SlotsThere DEF Inv, SlotsOK
<1> DEFINE s == [slots[k] EXCEPT !.dirty = TRUE]
<1>5. s \in Slots /\ s.dirty /\ s.id = slots[k].id /\ s.name = slots[k].name /\ s.n = slots[k].n
  BY <1>3, <1>4 DEF Slots
<1>6. slots' = [slots EXCEPT ![k] = s]
  BY <1>1, <1>3, <1>4
<1>7. Resolved(s) = s
  <2>1. slots[k].id = arrays[slots[k].name].id /\ slots[k].n = arrays[slots[k].name].n
    BY <1>1, <1>3, Mirrored DEF Inv
  <2>2. Resolved(s) = [s EXCEPT !.id = s.id, !.n = s.n]
    BY <1>5, <2>1 DEF Resolved
  <2>3. [s EXCEPT !.id = s.id, !.n = s.n] = s
    BY <1>5 DEF Slots
  <2> QED BY <2>2, <2>3
<1> HIDE DEF s, k
<1>8. /\ slots' \in Seq(Slots) /\ Len(slots') = Len(slots)
      /\ \A j \in 1 .. Len(slots) : slots'[j] = IF j = k THEN s ELSE slots[j]
  BY <1>3, <1>4, <1>5, <1>6, ExceptSeq
<1>9. DOMAIN slots' = 1 .. Len(slots)
  BY <1>8, LenProperties
<1>10. SlotsMirrorPd'
  BY <1>1, <1>4, <1>7, <1>8, <1>9 DEF Inv, SlotsMirrorPd, Resolved
<1>11. WrittenIsDirty'
  <2>1. \A m \in written : \E j \in 1 .. Len(slots) : slots'[j].dirty /\ slots'[j].id = m
    BY <1>5, <1>8 DEF Inv, WrittenIsDirty
  <2>2. slots'[k].dirty /\ slots'[k].id = slots[k].id
    BY <1>3, <1>5, <1>8
  <2> QED BY <1>1, <1>3, <1>8, <2>1, <2>2 DEF Inv, WrittenIsDirty
<1> QED BY <1>1, <1>2, <1>4, <1>8, <1>10, <1>11 DEF Inv, SlotsOK, ArraysOK, RefersToSlots

\* An operation that leaves all but the players and the points touched alone.
LEMMA OnlyPlayers ==
  ASSUME Inv, UNCHANGED <<arrays, slots, buffer, written, pc>>, TouchedInBlock',
         player' \in [Players -> PlayStates(Len(slots))]
  PROVE  Inv'
BY DEF Inv, SlotsOK, ArraysOK, RefersToSlots, PlayStates, SlotsMirrorPd, WrittenIsDirty, Resolved

LEMMA PlayerSetStep ==
  ASSUME Inv, NEW p \in Players, NEW frame \in Frames, NEW rate \in Rates,
         NEW loop \in BOOLEAN, NEW interp \in BOOLEAN, NEW chan \in {0, 1},
         PlayerSet(p, frame, rate, loop, interp, chan)
  PROVE  Inv'
<1> DEFINE a == [player[p] EXCEPT !.pos = frame * Unit, !.rate = rate,
                                  !.loop = loop, !.interp = interp, !.chan = chan]
<1>1. /\ player' = [player EXCEPT ![p] = a]
      /\ UNCHANGED <<arrays, slots, buffer, touched, written, pc>>
  BY DEF PlayerSet
<1>2. player \in [Players -> PlayStates(Len(slots))]
  BY DEF Inv, RefersToSlots, PlayStates
<1>3. frame * Unit \in Int /\ rate \in Rates \cup {Unit}
  BY Constants DEF Frames
<1>4. a \in PlayStates(Len(slots))
  <2>1. player[p] \in PlayStates(Len(slots))
    BY <1>2
  <2> QED BY <1>3, <2>1, ParameterUpdates DEF PlayStates
<1> HIDE DEF a
<1>5. player' \in [Players -> PlayStates(Len(slots))]
  BY <1>1, <1>2, <1>4
<1>6. TouchedInBlock'
  BY <1>1 DEF Inv, TouchedInBlock, TouchesLivePoints
<1> QED BY <1>1, <1>5, <1>6, OnlyPlayers

\* A tick reads points of the array its slot stands for, wherever its
\* position is and however it is rounded.
LEMMA TickStep ==
  ASSUME Inv, NEW p \in Players, Tick(p)
  PROVE  Inv'
<1> DEFINE a == player[p]
           s == slots[a.slot]
           pos == IF a.loop THEN Wrapped(a.pos, s.n * Unit) ELSE a.pos
           inside == pos >= 0 /\ pos < s.n * Unit
           next == IF inside THEN Double(pos + a.rate) ELSE pos
           b == [a EXCEPT !.pos = next]
<1>1. /\ pc = "run" /\ Plays(p)
      /\ player' = [player EXCEPT ![p].pos = next]
      /\ touched' = IF inside
                    THEN {<<s.id, j>> : j \in Points(pos \div Unit, s.n, a.loop, a.interp)}
                    ELSE {}
      /\ UNCHANGED <<arrays, slots, buffer, written, pc>>
  BY DEF Tick
<1>2. player \in [Players -> PlayStates(Len(slots))] /\ Len(slots) \in Nat
  BY SlotsThere DEF Inv, RefersToSlots, PlayStates
<1>3. /\ a \in PlayStates(Len(slots))
      /\ a.slot \in 0 .. Len(slots) /\ a.pos \in Int /\ a.rate \in Int
      /\ a.loop \in BOOLEAN /\ a.interp \in BOOLEAN
  <2>1. a \in PlayStates(Len(slots))
    BY <1>2
  <2>2. Rates \cup {Unit} \subseteq Int
    BY Constants
  <2> QED BY <2>1, <2>2 DEF PlayStates
<1>4. a.slot \in 1 .. Len(slots) /\ s.id # NULL /\ s.n > 0
  BY <1>1, <1>2, <1>3 DEF Plays, Live
<1>5. /\ s.name \in Names /\ s.id = arrays[s.name].id /\ s.n = arrays[s.name].n
      /\ s.n \in Nat \ {0}
  BY <1>1, <1>4, Mirrored DEF Inv
<1>6. s.n * Unit \in Nat \ {0}
  BY <1>5, Constants
<1>7. pos \in Int
  BY <1>3, <1>6, WrappedIsInt
<1>8. next \in Int
  <2> HIDE DEF pos, inside
  <2>1. pos + a.rate \in Int
    BY <1>3, <1>7
  <2>2. Double(pos + a.rate) \in Int
    BY <2>1, DoubleIsInt
  <2> QED BY <1>7, <2>2
<1> HIDE DEF next
<1>9. b \in PlayStates(Len(slots))
  BY <1>3, <1>8, PositionUpdate DEF PlayStates
<1>10. player' = [player EXCEPT ![p] = b]
  BY <1>1, <1>2
<1> HIDE DEF b
<1>11. player' \in [Players -> PlayStates(Len(slots))]
  BY <1>2, <1>9, <1>10
<1> HIDE DEF pos
<1>12. inside => Points(pos \div Unit, s.n, a.loop, a.interp) \subseteq 0 .. s.n - 1
  <2> SUFFICES ASSUME inside PROVE Points(pos \div Unit, s.n, a.loop, a.interp) \subseteq 0 .. s.n - 1
    OBVIOUS
  <2>1. pos \div Unit \in 0 .. s.n - 1
    BY <1>5, <1>7, FrameInside
  <2>2. pos \div Unit \in Int
    BY <2>1
  <2> QED BY <1>3, <1>5, <2>1, <2>2, PointsInside
<1> HIDE DEF inside, a
<1>13. TouchesLivePoints'
  <2> SUFFICES ASSUME NEW t \in touched'
               PROVE  \E nm \in Names : arrays[nm].id = t[1] /\ t[2] \in 0 .. arrays[nm].n - 1
    BY <1>1 DEF TouchesLivePoints
  <2>1. inside /\ \E j \in Points(pos \div Unit, s.n, a.loop, a.interp) : t = <<s.id, j>>
    BY <1>1
  <2>2. PICK j \in Points(pos \div Unit, s.n, a.loop, a.interp) : t = <<s.id, j>>
    BY <2>1
  <2>3. t[1] = s.id /\ t[2] = j /\ j \in 0 .. s.n - 1
    BY <1>12, <2>1, <2>2
  <2> QED BY <1>5, <2>3
<1>14. TouchedInBlock'
  BY <1>1, <1>13 DEF TouchedInBlock
<1> QED BY <1>1, <1>11, <1>14, OnlyPlayers

LEMMA TickSilentStep ==
  ASSUME Inv, NEW p \in Players, TickSilent(p)
  PROVE  Inv'
<1>1. touched' = {} /\ UNCHANGED <<arrays, slots, buffer, player, written, pc>>
  BY DEF TickSilent
<1>2. TouchedInBlock'
  BY <1>1 DEF TouchedInBlock, TouchesLivePoints
<1>3. player' \in [Players -> PlayStates(Len(slots))]
  BY <1>1 DEF Inv, RefersToSlots, PlayStates
<1> QED BY <1>1, <1>2, <1>3, OnlyPlayers

LEMMA UnchangedStep ==
  ASSUME Inv, UNCHANGED vars
  PROVE  Inv'
BY DEF Inv, vars, SlotsOK, ArraysOK, RefersToSlots, SlotsMirrorPd, WrittenIsDirty,
       TouchedInBlock, TouchesLivePoints, Resolved

LEMMA InvInit ==
  ASSUME Init
  PROVE  Inv
<1>1. slots = <<>> /\ Len(slots) = 0 /\ SlotsOK
  BY Constants DEF Init, SlotsOK
<1>2. ArraysOK
  BY Constants DEF Init, ArraysOK, Absent
<1>3. RefersToSlots
  <2>1. [slot |-> 0, pos |-> 0, rate |-> Unit, loop |-> FALSE, interp |-> TRUE, chan |-> 0]
          \in PlayStates(0)
    BY DEF PlayStates
  <2> QED BY <1>1, <2>1 DEF Init, RefersToSlots, PlayStates
<1>4. SlotsMirrorPd /\ WrittenIsDirty /\ TouchedInBlock
  BY DEF Init, SlotsMirrorPd, WrittenIsDirty, TouchedInBlock, TouchesLivePoints
<1> QED BY <1>1, <1>2, <1>3, <1>4 DEF Inv, Init

LEMMA InvNext ==
  ASSUME Inv, [Next]_vars
  PROVE  Inv'
<1>1. CASE \/ \E nm \in Names, id \in Memory, n \in 0 .. MaxLen : PdAllocate(nm, id, n)
           \/ \E nm \in Names : PdDelete(nm)
  BY <1>1, PdStep
<1>2. CASE PerformBegin
  BY <1>2, PerformBeginStep
<1>3. CASE PerformEnd
  BY <1>3, PerformEndStep
<1>4. CASE \E b \in Buffers, nm \in Names : BufferName(b, nm)
  BY <1>4, BufferNameStep
<1>5. CASE \E b \in Buffers, i \in Frames, chan \in {0, 1} : Peek(b, i, chan) \/ Poke(b, i, chan)
  BY <1>5, PeekStep, PokeStep
<1>6. CASE \E p \in Players, nm \in Names : PlayerName(p, nm)
  BY <1>6, PlayerNameStep
<1>7. CASE \E p \in Players, frame \in Frames, rate \in Rates, loop, interp \in BOOLEAN,
              chan \in {0, 1} : PlayerSet(p, frame, rate, loop, interp, chan)
  BY <1>7, PlayerSetStep
<1>8. CASE \E p \in Players : Tick(p) \/ TickSilent(p)
  BY <1>8, TickStep, TickSilentStep
<1>9. CASE UNCHANGED vars
  BY <1>9, UnchangedStep
<1> QED BY <1>1, <1>2, <1>3, <1>4, <1>5, <1>6, <1>7, <1>8, <1>9 DEF Next

\* What was written and is still to be redrawn is in a slot marked dirty, and
\* a slot of a running block is what a lookup in Pd would give.
THEOREM Invariant == Spec => []Inv
<1>1. Init => Inv
  BY InvInit
<1>2. Inv /\ [Next]_vars => Inv'
  BY InvNext
<1> QED BY <1>1, <1>2, PTL DEF Spec

-----------------------------------------------------------------------------
\* Every variable stays in its type: no index of a HostBuffer or a player
\* passes PDARRAY_MAX_SLOTS.
THEOREM TypeCorrect == Spec => []TypeOK
<1>1. Inv => TypeOK
  <2> SUFFICES ASSUME Inv PROVE TypeOK
    OBVIOUS
  <2>1. 0 .. Len(slots) \subseteq 0 .. MaxSlots
    BY SlotsThere, Constants DEF Inv, SlotsOK
  <2> QED BY <2>1 DEF Inv, TypeOK, SlotsOK, ArraysOK, RefersToSlots, WrittenIsDirty
<1> QED BY <1>1, Invariant, PTL

\* During a block every slot, one made in that block included, is what a
\* lookup of its name in Pd would give.
THEOREM MirrorsPd == Spec => []SlotsMirrorPd
<1>1. Inv => SlotsMirrorPd
  BY DEF Inv
<1> QED BY <1>1, Invariant, PTL

\* ChucK touches only points of arrays that are Pd's at that time, for all
\* positions, rates and lengths and however positions are rounded.
THEOREM LivePointsOnly == Spec => []TouchesLivePoints
<1>1. Inv => TouchesLivePoints
  BY DEF Inv, TouchedInBlock
<1> QED BY <1>1, Invariant, PTL

\* When no block runs, every array ChucK wrote has been redrawn.
THEOREM AllRedrawn == Spec => []WrittenIsRedrawn
<1>1. Inv => WrittenIsRedrawn
  BY DEF Inv, WrittenIsDirty, WrittenIsRedrawn
<1> QED BY <1>1, Invariant, PTL

-----------------------------------------------------------------------------
(* A looping player is not silent: positions that doubles tell apart.      *)

Multiple(x) == \E k \in Int : x = Coarse * k

\* A frame, and the step of every rate, is a multiple of what a double tells apart; with
\* Coarse = 1 all are.
Exact == Multiple(Unit) /\ \A rate \in Rates : Multiple(rate)

OnGrid == \A p \in Players : Multiple(player[p].pos) /\ Multiple(player[p].rate)

LEMMA Multiples ==
  ASSUME NEW x \in Int, NEW y \in Int, Multiple(x), Multiple(y), NEW i \in Int
  PROVE  Multiple(x + y) /\ Multiple(x - y) /\ Multiple(-x) /\ Multiple(i * x) /\ Multiple(0)
<1>1. Coarse \in Int
  BY Constants
<1>2. PICK k \in Int : x = Coarse * k
  BY DEF Multiple
<1>3. PICK l \in Int : y = Coarse * l
  BY DEF Multiple
<1>4. x + y = Coarse * (k + l) /\ x - y = Coarse * (k - l) /\ -x = Coarse * (-k)
  BY <1>1, <1>2, <1>3
<1>5. i * x = Coarse * (i * k) /\ i * k \in Int
  BY <1>1, <1>2
<1>6. 0 = Coarse * 0
  BY <1>1
<1>7. k + l \in Int /\ k - l \in Int /\ -k \in Int /\ 0 \in Int
  OBVIOUS
<1> QED BY <1>4, <1>5, <1>6, <1>7 DEF Multiple

\* Dividing a multiple of c, and what is less than c, by c.
LEMMA QuotientOf ==
  ASSUME NEW c \in Nat \ {0}, NEW k \in Int, NEW r \in 0 .. c - 1
  PROVE  (c * k + r) \div c = k
<1> DEFINE x == c * k + r
           q == x \div c
           s == x % c
<1>1. x \in Int
  OBVIOUS
<1>2. q \in Int /\ s \in 0 .. c - 1 /\ x = c * q + s
  BY <1>1
<1>3. x = c * k + r /\ c * k \in Int /\ c * q \in Int
  BY <1>2
<1> HIDE DEF x, q, s
<1>4. c * k < c * q + c /\ c * q < c * k + c
  BY <1>2, <1>3
<1>5. ~(q >= k + 1)
  <2> SUFFICES ASSUME q >= k + 1 PROVE FALSE
    OBVIOUS
  <2>1. PICK d \in Nat : q = k + 1 + d
    <3>1. q - k - 1 \in Nat /\ q = k + 1 + (q - k - 1)
      BY <1>2
    <3> QED BY <3>1
  <2>2. c * q = c * k + c + c * d /\ c * d \in Nat
    BY <2>1
  <2> QED BY <1>3, <1>4, <2>2
<1>6. ~(k >= q + 1)
  <2> SUFFICES ASSUME k >= q + 1 PROVE FALSE
    OBVIOUS
  <2>1. PICK d \in Nat : k = q + 1 + d
    <3>1. k - q - 1 \in Nat /\ k = q + 1 + (k - q - 1)
      BY <1>2
    <3> QED BY <3>1
  <2>2. c * k = c * q + c + c * d /\ c * d \in Nat
    BY <1>2, <2>1
  <2> QED BY <1>3, <1>4, <2>2
<1>7. q = k
  BY <1>2, <1>5, <1>6
<1> QED BY <1>7 DEF q, x

LEMMA DoubleIsExact ==
  ASSUME NEW x \in Int, Multiple(x)
  PROVE  Double(x) = x
<1>1. Coarse \in Nat \ {0} /\ Unit \in Nat \ {0}
  BY Constants
<1>2. PICK k \in Int : x = Coarse * k
  BY DEF Multiple
<1>3. PICK h \in 0 .. Coarse - 1 : h = Coarse \div 2
  <2>1. Coarse \div 2 \in 0 .. Coarse - 1
    BY <1>1
  <2> QED BY <2>1
<1>4. (x + Coarse \div 2) \div Coarse = k
  BY <1>1, <1>2, <1>3, QuotientOf
<1>5. k * Coarse = Coarse * k
  BY <1>1
<1> QED BY <1>2, <1>4, <1>5 DEF Double

\* What is left of a position is one in the array.
LEMMA Remainder ==
  ASSUME NEW x \in Nat, NEW n \in Nat \ {0}, Multiple(x), Multiple(n)
  PROVE  x % n \in 0 .. n - 1 /\ Multiple(x % n)
<1>1. PICK q \in Int : q = x \div n
  OBVIOUS
<1>2. PICK r \in 0 .. n - 1 : r = x % n
  OBVIOUS
<1>3. x = n * q + r
  BY <1>1, <1>2
<1>4. q * n \in Int /\ r = x - q * n
  BY <1>3
<1>5. Multiple(q * n)
  BY Multiples
<1>6. Multiple(r)
  BY <1>4, <1>5, Multiples
<1> QED BY <1>2, <1>6

LEMMA WrappedInside ==
  ASSUME NEW x \in Int, NEW n \in Nat \ {0}, Multiple(x), Multiple(n)
  PROVE  Wrapped(x, n) \in 0 .. n - 1 /\ Multiple(Wrapped(x, n))
<1>1. CASE x >= 0
  <2>1. Fmod(x, n) \in 0 .. n - 1 /\ Multiple(Fmod(x, n))
    BY <1>1, Remainder DEF Fmod
  <2> QED BY <2>1 DEF Wrapped
<1>2. CASE x < 0
  <2>1. -x \in Nat /\ Multiple(-x)
    BY <1>2, Multiples
  <2>2. PICK r \in 0 .. n - 1 : r = (-x) % n /\ Multiple(r)
    BY <2>1, Remainder
  <2>3. Fmod(x, n) = -r
    BY <1>2, <2>2 DEF Fmod
  <2>4. CASE r = 0
    <3>1. Fmod(x, n) = 0
      <4>1. -r = 0
        BY <2>2, <2>4
      <4> QED BY <2>3, <4>1, Zenon
    <3> QED BY <2>2, <2>4, <3>1 DEF Wrapped
  <2>5. CASE r # 0
    <3>1. Wrapped(x, n) = Double(n - r)
      <4>1. -r < 0 /\ -r + n = n - r
        BY <2>5
      <4> QED BY <2>3, <4>1 DEF Wrapped
    <3>2. Multiple(n - r) /\ n - r \in 0 .. n - 1
      BY <2>2, <2>5, Multiples
    <3>3. Double(n - r) = n - r
      BY <3>2, DoubleIsExact
    <3> QED BY <3>1, <3>2, <3>3
  <2> QED BY <2>4, <2>5
<1> QED BY <1>1, <1>2

\* A tick of a looping player finds its position inside the array; any tick leaves the
\* position on the grid.
LEMMA TickOnGrid ==
  ASSUME Inv, Exact, OnGrid, NEW p \in Players, Tick(p)
  PROVE  OnGrid' /\ (player[p].loop => touched' # {})
<1> DEFINE a == player[p]
           s == slots[a.slot]
           pos == IF a.loop THEN Wrapped(a.pos, s.n * Unit) ELSE a.pos
           inside == pos >= 0 /\ pos < s.n * Unit
           next == IF inside THEN Double(pos + a.rate) ELSE pos
<1>1. /\ pc = "run" /\ Plays(p)
      /\ player' = [player EXCEPT ![p].pos = next]
      /\ touched' = IF inside
                    THEN {<<s.id, j>> : j \in Points(pos \div Unit, s.n, a.loop, a.interp)}
                    ELSE {}
  BY DEF Tick
<1>2. player \in [Players -> PlayStates(Len(slots))] /\ Len(slots) \in Nat
  BY SlotsThere DEF Inv, RefersToSlots, PlayStates
<1>3. a \in PlayStates(Len(slots)) /\ a.slot \in 0 .. Len(slots) /\ a.pos \in Int /\ a.rate \in Int
  <2>1. a \in PlayStates(Len(slots))
    BY <1>2
  <2>2. Rates \cup {Unit} \subseteq Int
    BY Constants
  <2> QED BY <2>1, <2>2 DEF PlayStates
<1>4. a.slot \in 1 .. Len(slots) /\ s.id # NULL /\ s.n > 0
  BY <1>1, <1>2, <1>3 DEF Plays, Live
<1>5. s.n \in Nat \ {0}
  BY <1>1, <1>4, Mirrored DEF Inv
<1>6. s.n * Unit \in Nat \ {0} /\ Multiple(s.n * Unit) /\ Multiple(a.pos) /\ Multiple(a.rate)
  <2>1. Unit \in Int /\ s.n \in Int /\ Multiple(Unit) /\ s.n * Unit \in Nat \ {0}
    BY <1>5, Constants DEF Exact
  <2>2. Multiple(s.n * Unit)
    BY <2>1, Multiples
  <2> QED BY <2>1, <2>2 DEF OnGrid
<1>7. a.loop => Wrapped(a.pos, s.n * Unit) \in 0 .. s.n * Unit - 1
                /\ Multiple(Wrapped(a.pos, s.n * Unit))
  BY <1>3, <1>6, WrappedInside
<1>8. /\ pos \in Int /\ Multiple(pos)
      /\ a.loop => inside
  BY <1>3, <1>6, <1>7
<1>9. Multiple(next)
  <2> HIDE DEF pos, inside
  <2>1. pos + a.rate \in Int /\ Multiple(pos + a.rate)
    <3>1. PICK y \in Int : y = pos /\ Multiple(y)
      BY <1>8
    <3>2. PICK z \in Int : z = a.rate /\ Multiple(z)
      BY <1>3, <1>6
    <3>3. y + z \in Int /\ Multiple(y + z)
      BY <3>1, <3>2, Multiples
    <3> QED BY <3>1, <3>2, <3>3
  <2>2. Double(pos + a.rate) = pos + a.rate
    BY <2>1, DoubleIsExact
  <2> QED BY <1>8, <2>1, <2>2
<1> HIDE DEF pos, next, inside
<1>10. a.loop => touched' # {}
  <2> SUFFICES ASSUME a.loop PROVE touched' # {}
    OBVIOUS
  <2>1. pos \div Unit \in Points(pos \div Unit, s.n, a.loop, a.interp)
    BY DEF Points
  <2>2. <<s.id, pos \div Unit>> \in touched'
    BY <1>1, <1>8, <2>1
  <2> QED BY <2>2
<1>11. \A q \in Players : player'[q].pos = (IF q = p THEN next ELSE player[q].pos)
                          /\ player'[q].rate = player[q].rate
  BY <1>1, <1>2 DEF PlayStates
<1>12. OnGrid'
  BY <1>9, <1>11 DEF OnGrid, Multiple
<1> QED BY <1>10, <1>12

LEMMA GridStep ==
  ASSUME Inv, Exact, OnGrid, [Next]_vars
  PROVE  OnGrid'
<1>1. player \in [Players -> PlayStates(Len(slots))]
  BY DEF Inv, RefersToSlots, PlayStates
<1>2. CASE player' = player
  BY <1>2 DEF OnGrid, Multiple
<1>3. ASSUME NEW p \in Players, NEW nm \in Names, PlayerName(p, nm)
      PROVE  OnGrid'
  <2>1. player' = [player EXCEPT ![p] = [player[p] EXCEPT !.slot = SlotFor(nm), !.pos = 0]]
    BY <1>3 DEF PlayerName
  <2>2. \A q \in Players : player'[q].pos \in {0, player[q].pos} /\ player'[q].rate = player[q].rate
    BY <1>1, <2>1 DEF PlayStates
  <2>3. Coarse * 0 = 0
    BY Constants
  <2> QED BY <2>2, <2>3 DEF OnGrid, Multiple
<1>4. ASSUME NEW p \in Players, NEW frame \in Frames, NEW rate \in Rates,
             NEW loop \in BOOLEAN, NEW interp \in BOOLEAN, NEW chan \in {0, 1},
             PlayerSet(p, frame, rate, loop, interp, chan)
      PROVE  OnGrid'
  <2>1. player' = [player EXCEPT ![p] = [player[p] EXCEPT !.pos = frame * Unit, !.rate = rate,
                                            !.loop = loop, !.interp = interp, !.chan = chan]]
    BY <1>4 DEF PlayerSet
  <2>2. \A q \in Players : /\ player'[q].pos \in {frame * Unit, player[q].pos}
                           /\ player'[q].rate \in {rate, player[q].rate}
    BY <1>1, <2>1 DEF PlayStates
  <2>3. Multiple(frame * Unit) /\ Multiple(rate)
    <3>1. frame \in Int /\ Unit \in Int
      BY Constants DEF Frames
    <3> QED BY <3>1, Multiples DEF Exact
  <2> QED BY <2>2, <2>3 DEF OnGrid, Multiple
<1>5. ASSUME NEW p \in Players, Tick(p)
      PROVE  OnGrid'
  BY <1>5, TickOnGrid
<1>6. \/ player' = player
      \/ \E p \in Players, nm \in Names : PlayerName(p, nm)
      \/ \E p \in Players, frame \in Frames, rate \in Rates, loop, interp \in BOOLEAN,
            chan \in {0, 1} : PlayerSet(p, frame, rate, loop, interp, chan)
      \/ \E p \in Players : Tick(p)
  BY DEF Next, vars, PdAllocate, PdDelete, PerformBegin, PerformEnd, BufferName, Peek, Poke,
         TickSilent
<1> QED BY <1>2, <1>3, <1>4, <1>5, <1>6

\* A looping player of an array that has points sounds at every tick, whatever its
\* direction, its position and the array's changes of size, as long as its rate is one
\* whose steps a double can tell apart; MCHostBufferDouble has one that is not.
THEOREM LoopsSound == Exact => (Spec => LoopNeverSilent)
<1> SUFFICES ASSUME Exact
             PROVE  Spec => LoopNeverSilent
  OBVIOUS
<1>1. Init => OnGrid
  <2>1. Multiple(0) /\ Multiple(Unit)
    BY Constants, Multiples DEF Exact
  <2> QED BY <2>1 DEF Init, OnGrid
<1>2. Inv /\ OnGrid /\ [Next]_vars => OnGrid'
  BY GridStep
<1>3. Inv /\ OnGrid /\ [Next]_vars
        => [\A p \in Players : Tick(p) /\ player[p].loop => touched' # {}]_vars
  BY TickOnGrid
<1> QED BY <1>1, <1>2, <1>3, Invariant, PTL DEF Spec, LoopNeverSilent
=============================================================================
