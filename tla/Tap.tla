-------------------------------- MODULE Tap ---------------------------------
(***************************************************************************)
(* The tap outlets of [chuck~]: the tap message (ck_tap), which assigns    *)
(* global UGens to outlets one by one or as multichannel groups, and the   *)
(* part of the perform routine that fills the outlets' blocks.             *)
(*                                                                         *)
(* Outlets count from 0 here; the message counts from 1.  A block of       *)
(* samples is its origin: a UGen's name and channel, or silence.           *)
(***************************************************************************)
EXTENDS Naturals, FiniteSets

CONSTANTS TapChannels,   (* tap_channels *)
          UGens,         (* names of UGens *)
          NoUGen         (* gensym("")   *)

ASSUME TapAssumption ==
  /\ TapChannels \in Nat
  /\ NoUGen \notin UGens

VARIABLES tap_ugens,         (* outlet -> the UGen it taps          *)
          tap_ugen_nchans,   (* outlet -> width of its group, or 0  *)
          tap_ugen_chan,     (* outlet -> its channel in the group  *)
          out_vectors,       (* outlet -> the block it plays        *)
          halted             (* an error was reported               *)

taps == <<tap_ugens, tap_ugen_nchans, tap_ugen_chan>>
tapVars == <<taps, out_vectors, halted>>

Outlets == 0 .. TapChannels - 1

Silence == <<>>

Slots == [Outlets -> [ugen : UGens \cup {NoUGen}, nchans : {0} \cup 2 .. TapChannels, chan : Outlets]]

\* The three arrays side by side: what a handler works on.
Slot(i) == [ugen |-> tap_ugens[i], nchans |-> tap_ugen_nchans[i], chan |-> tap_ugen_chan[i]]

Table == [i \in Outlets |-> Slot(i)]

Cleared == [ugen |-> NoUGen, nchans |-> 0, chan |-> 0]

Mono(u) == [Cleared EXCEPT !.ugen = u]

TapInit ==
  /\ tap_ugens = [i \in Outlets |-> NoUGen]
  /\ tap_ugen_nchans = [i \in Outlets |-> 0]
  /\ tap_ugen_chan = [i \in Outlets |-> 0]
  /\ out_vectors = [i \in Outlets |-> Silence]
  /\ halted = FALSE

-----------------------------------------------------------------------------
\* Slot i says it is in a group all of whose members say the same.
Consistent(t, i) ==
  /\ t[i].chan <= i
  /\ i - t[i].chan + t[i].nchans <= TapChannels
  /\ \A c \in 0 .. t[i].nchans - 1 :
       t[i - t[i].chan + c] = [ugen |-> t[i].ugen, nchans |-> t[i].nchans, chan |-> c]

\* One pass, in place: a slot is judged by what the pass left before it.
\* Mutant: ck_tap ends without normalising.
Normalize_Skipped(t) == t

Normalize(t) ==
  LET Stays(acc, i) == acc[i].nchans <= 1 \/ Consistent(acc, i)
      pass[n \in 0 .. TapChannels] ==
        IF n = 0 THEN t
        ELSE IF Stays(pass[n - 1], n - 1) THEN pass[n - 1]
        ELSE [pass[n - 1] EXCEPT ![n - 1] = Cleared]
  IN pass[TapChannels]

\* The end of every message that gets through ck_tap's checks.
Message(t) ==
  LET done == Normalize(t) IN
  /\ ~halted
  /\ TapChannels > 0
  /\ tap_ugens' = [i \in Outlets |-> done[i].ugen]
  /\ tap_ugen_nchans' = [i \in Outlets |-> done[i].nchans]
  /\ tap_ugen_chan' = [i \in Outlets |-> done[i].chan]
  /\ UNCHANGED <<out_vectors, halted>>

TapClearAll == Message([i \in Outlets |-> Cleared])

TapAll(u) == Message([i \in Outlets |-> Mono(u)])

TapClear(i) == Message([Table EXCEPT ![i] = Cleared])

\* tap outlet ugen [nchans], where nchans fits the outlets that are left
TapSet(i, u, nchans) ==
  /\ nchans >= 1
  /\ i + nchans <= TapChannels
  /\ Message([j \in Outlets |->
                IF j \notin i .. i + nchans - 1 THEN Table[j]
                ELSE IF nchans = 1 THEN Mono(u)
                ELSE [ugen |-> u, nchans |-> nchans, chan |-> j - i]])

\* An outlet out of range, a group too wide, arguments of the wrong type or
\* number, or no tap outlets at all.
TapMalformed ==
  /\ ~halted
  /\ halted' = TRUE
  /\ UNCHANGED <<taps, out_vectors>>

-----------------------------------------------------------------------------
\* The outlets the perform loop writes when it comes to outlet i.
\* Mutant: every member of a group fetches it.
Writes_EveryMember(i) ==
  IF tap_ugen_nchans[i] <= 1 THEN {i} ELSE i .. i + tap_ugen_nchans[i] - 1

Writes(i) ==
  IF tap_ugens[i] = NoUGen \/ tap_ugen_nchans[i] <= 1 THEN {i}
  ELSE IF tap_ugen_chan[i] # 0 THEN {}
  ELSE i .. i + tap_ugen_nchans[i] - 1

Writers(o) == {i \in Outlets : o \in Writes(i)}

\* An outlet keeps its last writer's block; one nobody writes keeps the old.
Perform(ready) ==
  /\ ~halted
  /\ out_vectors' = [o \in Outlets |->
       IF Writers(o) = {} THEN out_vectors[o]
       ELSE LET i == CHOOSE i \in Writers(o) : \A k \in Writers(o) : k <= i
            IN IF tap_ugens[i] \in ready THEN <<tap_ugens[i], o - i>> ELSE Silence]
  /\ UNCHANGED <<taps, halted>>

TapNext ==
  \/ TapClearAll
  \/ \E u \in UGens : TapAll(u)
  \/ \E i \in Outlets : TapClear(i)
  \/ \E i \in Outlets, u \in UGens, nchans \in 1 .. TapChannels : TapSet(i, u, nchans)
  \/ TapMalformed
  \/ \E ready \in SUBSET UGens : Perform(ready)

TapSpec == TapInit /\ [][TapNext]_tapVars

-----------------------------------------------------------------------------
TapTypeOK ==
  /\ Table \in Slots
  /\ out_vectors \in [Outlets -> {Silence} \cup UGens \X Outlets]
  /\ halted \in BOOLEAN

(* Whatever groups were laid over each other, the perform loop writes      *)
(* every tap outlet exactly once, so that none plays a stale block, and    *)
(* writes no vector beyond the last.                                       *)
EachOutletWrittenOnce ==
  /\ \A o \in Outlets : Cardinality(Writers(o)) = 1
  /\ \A i \in Outlets : Writes(i) \subseteq Outlets

-----------------------------------------------------------------------------
Width(i) == IF tap_ugen_nchans[i] = 0 THEN 1 ELSE tap_ugen_nchans[i]

Promise == INSTANCE TapGroups
             WITH out <- out_vectors,
                  groups <- {[base |-> i, width |-> Width(i), ugen |-> tap_ugens[i]] :
                               i \in {k \in Outlets : /\ tap_ugens[k] # NoUGen
                                                      /\ tap_ugen_chan[k] = 0}}

(* The three arrays implement a set of disjoint groups: assigning outlets  *)
(* dissolves exactly the groups it touches, leaves the others alone, and   *)
(* every outlet plays its own channel of its group or silence.             *)
ImplementsGroups == Promise!Spec
=============================================================================
