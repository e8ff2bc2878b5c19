--------------------------- MODULE Perform_proofs ---------------------------
(***************************************************************************)
(* Theorems about what the perform routine has done in a block: the VM's   *)
(* shreds are run in order (Shreduler), for any number of shreds, waits    *)
(* and frames, and the tap outlets are filled (Tap), for any number of     *)
(* outlets and UGens.                                                      *)
(***************************************************************************)
EXTENDS Tap, Shreduler, SequenceTheorems, FiniteSetTheorems, WellFoundedInduction, TLAPS

-----------------------------------------------------------------------------
(* Induction over the naturals, in the form of a set that holds them all.  *)

LEMMA Least ==
  ASSUME NEW S \in SUBSET Nat, S # {}
  PROVE  \E m \in S : \A n \in S : m <= n
<1>1. \E m \in S : \A n \in S : ~(<<n, m>> \in OpToRel(<, Nat))
  BY WFMin, NatLessThanWellFounded, Zenon
<1>2. \E m \in S : \A n \in S : ~(n < m)
  BY <1>1, Zenon DEF OpToRel
<1> QED BY <1>2

LEMMA Induction ==
  ASSUME NEW S, 0 \in S, \A n \in Nat : n \in S => n + 1 \in S
  PROVE  \A n \in Nat : n \in S
<1> SUFFICES ASSUME NEW n \in Nat, n \notin S PROVE FALSE
  OBVIOUS
<1> DEFINE T == {k \in Nat : k \notin S}
<1>1. PICK m \in T : \A k \in T : m <= k
  <2>1. T \in SUBSET Nat /\ T # {}
    OBVIOUS
  <2> HIDE DEF T
  <2> QED BY <2>1, Least, Zenon
<1>2. m \in Nat /\ m \notin S /\ m # 0
  OBVIOUS
<1>3. m - 1 \in Nat /\ (m - 1) + 1 = m /\ ~(m <= m - 1)
  BY <1>2
<1>4. m - 1 \in S
  BY <1>1, <1>3
<1> QED BY <1>2, <1>3, <1>4

-----------------------------------------------------------------------------
(* Tables.                                                                 *)

LEMMA Constants ==
  TapChannels \in Nat /\ NoUGen \notin UGens /\ Outlets = 0 .. TapChannels - 1
BY TapAssumption DEF TapAssumption, Outlets

\* A table as a message leaves it to Normalize: a slot is alone, or claims to
\* be one of the members of a group.
Alone(t, i) == t[i].nchans = 0 /\ t[i].chan = 0

Claims(t, i) == t[i].nchans >= 2 /\ t[i].chan < t[i].nchans /\ t[i].ugen # NoUGen

Rough(t) == t \in Slots /\ \A i \in Outlets : Alone(t, i) \/ Claims(t, i)

\* A table as Normalize leaves it: every claim is true.
Neat(t) == Rough(t) /\ \A i \in Outlets : Alone(t, i) \/ Consistent(t, i)

Keeps(t, i) == t[i].nchans <= 1 \/ Consistent(t, i)

LEMMA SlotFacts ==
  ASSUME NEW t \in Slots, NEW i \in Outlets
  PROVE  /\ t[i].ugen \in UGens \cup {NoUGen}
         /\ t[i].nchans \in Nat /\ (t[i].nchans = 0 \/ t[i].nchans >= 2)
         /\ t[i].chan \in Outlets /\ t[i].chan \in Nat
         /\ i \in Nat /\ i < TapChannels
<1>1. t[i] \in [ugen : UGens \cup {NoUGen}, nchans : {0} \cup 2 .. TapChannels, chan : Outlets]
  BY DEF Slots
<1>2. t[i].ugen \in UGens \cup {NoUGen} /\ t[i].nchans \in {0} \cup 2 .. TapChannels /\ t[i].chan \in Outlets
  BY <1>1
<1> QED BY <1>2, Constants

\* The outlets of the group slot i claims to be in.
Group(t, i) == {j \in Outlets : \E c \in 0 .. t[i].nchans - 1 : j = i - t[i].chan + c}

\* If the claim of one member is true, so is that of every other.
LEMMA TogetherTrue ==
  ASSUME NEW t, Rough(t), NEW i \in Outlets, Claims(t, i), Consistent(t, i),
         NEW c \in 0 .. t[i].nchans - 1
  PROVE  /\ i - t[i].chan + c \in Outlets
         /\ t[i - t[i].chan + c] = [ugen |-> t[i].ugen, nchans |-> t[i].nchans, chan |-> c]
         /\ Consistent(t, i - t[i].chan + c)
<1> DEFINE b == i - t[i].chan
           j == b + c
<1>1. t[i].nchans \in Nat /\ t[i].chan \in Nat /\ i \in Nat /\ i < TapChannels
  BY SlotFacts DEF Rough
<1>2. t[i].chan <= i /\ b + t[i].nchans <= TapChannels
  BY DEF Consistent
<1>3. \A d \in 0 .. t[i].nchans - 1 : t[b + d] = [ugen |-> t[i].ugen, nchans |-> t[i].nchans, chan |-> d]
  BY DEF Consistent
<1>4. b \in Nat
  BY <1>1, <1>2
<1> HIDE DEF b
<1>5. t[j].ugen = t[i].ugen /\ t[j].nchans = t[i].nchans /\ t[j].chan = c
  <2>1. t[j] = [ugen |-> t[i].ugen, nchans |-> t[i].nchans, chan |-> c]
    BY <1>3
  <2> HIDE DEF j
  <2> QED BY <2>1
<1>6. j \in Outlets /\ j - c = b /\ c <= j /\ c \in Nat
  <2>1. c \in Nat /\ c < t[i].nchans
    BY <1>1
  <2>2. PICK m : m = t[i].nchans
    OBVIOUS
  <2>3. m \in Nat /\ c < m /\ b + m <= TapChannels /\ TapChannels \in Nat
    BY <1>1, <1>2, <2>1, <2>2, Constants
  <2>4. j \in Nat /\ j < TapChannels /\ j - c = b /\ c <= j
    BY <1>4, <2>1, <2>3
  <2> QED BY <2>1, <2>3, <2>4, Constants
<1> HIDE DEF j
<1>7. Consistent(t, j)
  BY <1>2, <1>3, <1>5, <1>6 DEF Consistent
<1> QED BY <1>3, <1>6, <1>7 DEF b, j

\* What the pass has done once it has been through the first n slots.
After(t, n) == [i \in Outlets |-> IF i < n /\ ~Keeps(t, i) THEN Cleared ELSE t[i]]

LEMMA AfterStep ==
  ASSUME NEW t, Rough(t), NEW n \in Outlets
  PROVE  /\ Keeps(After(t, n), n) <=> Keeps(t, n)
         /\ After(t, n + 1) = IF Keeps(After(t, n), n) THEN After(t, n)
                              ELSE [After(t, n) EXCEPT ![n] = Cleared]
<1> DEFINE a == After(t, n)
<1>1. \A i \in Outlets : i \in Nat /\ i < TapChannels
  BY Constants
<1>2. a[n] = t[n] /\ \A i \in Outlets : a[i] = t[i] \/ (a[i] = Cleared /\ ~Keeps(t, i))
  <2>1. ~(n < n)
    BY <1>1
  <2>2. \A i \in Outlets : a[i] = IF i < n /\ ~Keeps(t, i) THEN Cleared ELSE t[i]
    BY DEF After
  <2> HIDE DEF a
  <2>3. a[n] = IF n < n /\ ~Keeps(t, n) THEN Cleared ELSE t[n]
    BY <2>2, Zenon
  <2>4. a[n] = t[n]
    BY <2>1, <2>3, Zenon
  <2>5. \A i \in Outlets : a[i] = t[i] \/ (a[i] = Cleared /\ ~Keeps(t, i))
    BY <2>2, Zenon
  <2> QED BY <2>4, <2>5
<1>3. t[n].nchans \in Nat /\ t[n].chan \in Nat /\ n \in Nat /\ n < TapChannels
  BY SlotFacts DEF Rough
<1> HIDE DEF a
<1>4. Keeps(a, n) <=> Keeps(t, n)
  <2>1. CASE t[n].nchans <= 1
    BY <1>2, <2>1 DEF Keeps
  <2>2. CASE ~(t[n].nchans <= 1)
    <3>1. Claims(t, n)
      BY <2>2 DEF Rough, Alone
    <3>2. ASSUME Consistent(t, n) PROVE Consistent(a, n)
      <4>1. ASSUME NEW c \in 0 .. t[n].nchans - 1
            PROVE  a[n - t[n].chan + c] = t[n - t[n].chan + c]
        <5>1. n - t[n].chan + c \in Outlets /\ Consistent(t, n - t[n].chan + c)
          BY <3>1, <3>2, TogetherTrue
        <5> QED BY <1>2, <5>1 DEF Keeps
      <4> QED BY <1>2, <3>2, <4>1 DEF Consistent
    <3>3. ASSUME Consistent(a, n) PROVE Consistent(t, n)
      <4>1. t[n].chan <= n /\ n - t[n].chan + t[n].nchans <= TapChannels
        BY <1>2, <3>3 DEF Consistent
      <4>2. ASSUME NEW c \in 0 .. t[n].nchans - 1
            PROVE  t[n - t[n].chan + c] = [ugen |-> t[n].ugen, nchans |-> t[n].nchans, chan |-> c]
        <5> DEFINE j == n - t[n].chan + c
        <5>1. j \in Outlets
          BY <1>3, <4>1, Constants
        <5>2. a[j] = [ugen |-> t[n].ugen, nchans |-> t[n].nchans, chan |-> c]
          BY <1>2, <3>3 DEF Consistent
        <5> HIDE DEF j
        <5>3. a[j] # Cleared
          <6>1. a[j].nchans # 0
            BY <2>2, <5>2
          <6>2. Cleared.nchans = 0
            BY DEF Cleared
          <6> QED BY <6>1, <6>2
        <5> QED BY <1>2, <5>1, <5>2, <5>3 DEF j
      <4> QED BY <4>1, <4>2 DEF Consistent
    <3> QED BY <1>2, <2>2, <3>2, <3>3 DEF Keeps
  <2> QED BY <2>1, <2>2
<1>5. After(t, n + 1) = IF Keeps(t, n) THEN a ELSE [a EXCEPT ![n] = Cleared]
  <2>1. \A i \in Outlets : i < n + 1 <=> i < n \/ i = n
    BY <1>1
  <2>2. CASE Keeps(t, n)
    <3>1. \A i \in Outlets : (IF i < n + 1 /\ ~Keeps(t, i) THEN Cleared ELSE t[i])
                              = (IF i < n /\ ~Keeps(t, i) THEN Cleared ELSE t[i])
      BY <2>1, <2>2
    <3> QED BY <2>2, <3>1 DEF After, a
  <2>3. CASE ~Keeps(t, n)
    <3>1. \A i \in Outlets : (IF i < n + 1 /\ ~Keeps(t, i) THEN Cleared ELSE t[i])
                              = IF i = n THEN Cleared
                                ELSE (IF i < n /\ ~Keeps(t, i) THEN Cleared ELSE t[i])
      BY <2>1, <2>3
    <3>2. [a EXCEPT ![n] = Cleared] = [i \in Outlets |-> IF i = n THEN Cleared ELSE a[i]]
      BY DEF After, a
    <3> QED BY <2>3, <3>1, <3>2 DEF After, a
  <2> QED BY <2>2, <2>3
<1> QED BY <1>4, <1>5 DEF a

\* The pass in place comes to this: the slots whose claims were true stay.
LEMMA NormalizeKeeps ==
  ASSUME NEW t, Rough(t)
  PROVE  Normalize(t) = [i \in Outlets |-> IF Keeps(t, i) THEN t[i] ELSE Cleared]
<1> DEFINE N == TapChannels
           Rests(acc, i) == acc[i].nchans <= 1 \/ Consistent(acc, i)
           Up(f, m) == [n \in 0 .. m |->
                          IF n = 0 THEN t
                          ELSE IF Rests(f[n - 1], n - 1) THEN f[n - 1]
                          ELSE [f[n - 1] EXCEPT ![n - 1] = Cleared]]
           Scan == CHOOSE f : f = Up(f, N)
           whole == [n \in 0 .. N |-> After(t, n)]
<1>0. N \in Nat /\ \A n \in Outlets : n \in Nat /\ n < N
  BY Constants
<1>1. t = [i \in Outlets |-> t[i]]
  BY DEF Rough, Slots
<1>2. whole[0] = t
  <2>1. \A i \in Outlets : ~(i < 0)
    BY <1>0
  <2>2. After(t, 0) = [i \in Outlets |-> t[i]]
    BY <2>1 DEF After
  <2> QED BY <1>0, <1>1, <2>2
<1>3. ASSUME NEW n \in 0 .. N, n # 0
      PROVE  whole[n] = IF Rests(whole[n - 1], n - 1) THEN whole[n - 1]
                        ELSE [whole[n - 1] EXCEPT ![n - 1] = Cleared]
  <2>1. n - 1 \in Outlets /\ n - 1 \in 0 .. N /\ (n - 1) + 1 = n
    BY <1>0, <1>3, Constants
  <2>2. whole[n] = After(t, n) /\ whole[n - 1] = After(t, n - 1)
    BY <2>1
  <2>3. After(t, (n - 1) + 1) = IF Keeps(After(t, n - 1), n - 1) THEN After(t, n - 1)
                                ELSE [After(t, n - 1) EXCEPT ![n - 1] = Cleared]
    BY <2>1, AfterStep
  <2> HIDE DEF whole
  <2> QED BY <2>1, <2>2, <2>3 DEF Keeps
<1>4. whole = Up(whole, N)
  <2>1. whole = [n \in 0 .. N |-> whole[n]]
    OBVIOUS
  <2> HIDE DEF whole, Rests
  <2> QED BY <1>2, <1>3, <2>1
<1>5. Scan = Up(Scan, N)
  <2> HIDE DEF Up, whole
  <2> QED BY <1>4
<1>6. Normalize(t) = Scan[N]
  BY DEF Normalize
<1> HIDE DEF Scan
<1>7. \A n \in Nat : n <= N => Scan[n] = whole[n]
  <2> DEFINE S == {n \in Nat : n <= N => Scan[n] = whole[n]}
  <2>1. 0 \in S
    <3>1. Scan[0] = t
      <4> HIDE DEF Rests
      <4> QED BY <1>0, <1>5
    <3> HIDE DEF whole, Up
    <3> QED BY <1>2, <3>1
  <2>2. ASSUME NEW n \in Nat, n \in S PROVE n + 1 \in S
    <3> HIDE DEF whole
    <3> SUFFICES ASSUME n + 1 <= N PROVE Scan[n + 1] = whole[n + 1]
      <4> HIDE DEF Up
      <4> QED OBVIOUS
    <3> USE DEF whole
    <3>1. Scan[n] = whole[n] /\ n + 1 \in 0 .. N /\ n + 1 # 0 /\ (n + 1) - 1 = n
      <4> HIDE DEF whole, Up
      <4> QED BY <2>2, <1>0
    <3>2. Scan[n + 1] = IF Rests(Scan[n], n) THEN Scan[n] ELSE [Scan[n] EXCEPT ![n] = Cleared]
      <4> HIDE DEF Rests
      <4> QED BY <1>5, <3>1
    <3>3. whole[n + 1] = IF Rests(whole[n], n) THEN whole[n] ELSE [whole[n] EXCEPT ![n] = Cleared]
      <4> HIDE DEF whole, Rests, Up
      <4> QED BY <1>3, <3>1
    <3> HIDE DEF whole, Rests, Up
    <3> QED BY <3>1, <3>2, <3>3
  <2>3. \A n \in Nat : n \in S
    <3> HIDE DEF S
    <3> QED BY <2>1, <2>2, Induction
  <2> HIDE DEF whole, Up
  <2> QED BY <2>3
<1>8. Scan[N] = After(t, N)
  <2>1. Scan[N] = whole[N]
    <3> HIDE DEF whole, Up
    <3> QED BY <1>0, <1>7
  <2> QED BY <1>0, <2>1
<1>9. After(t, N) = [i \in Outlets |-> IF Keeps(t, i) THEN t[i] ELSE Cleared]
  BY <1>0 DEF After
<1> QED BY <1>6, <1>8, <1>9

LEMMA NormalizeNeat ==
  ASSUME NEW t, Rough(t)
  PROVE  Neat(Normalize(t))
<1> DEFINE done == [i \in Outlets |-> IF Keeps(t, i) THEN t[i] ELSE Cleared]
<1>1. Normalize(t) = done
  BY NormalizeKeeps
<1>2. done \in Slots
  <2>1. \A i \in Outlets : 0 \in Outlets
    BY Constants
  <2>2. \A i \in Outlets : Cleared \in [ugen : UGens \cup {NoUGen}, nchans : {0} \cup 2 .. TapChannels, chan : Outlets]
    BY <2>1 DEF Cleared
  <2>3. \A i \in Outlets : t[i] \in [ugen : UGens \cup {NoUGen}, nchans : {0} \cup 2 .. TapChannels, chan : Outlets]
    BY DEF Rough, Slots
  <2> QED BY <2>2, <2>3 DEF Slots
<1>3. ASSUME NEW i \in Outlets
      PROVE  /\ Alone(done, i) \/ Claims(done, i)
             /\ Alone(done, i) \/ Consistent(done, i)
  <2>0. done[i] = IF Keeps(t, i) THEN t[i] ELSE Cleared
    OBVIOUS
  <2> HIDE DEF done
  <2>1. CASE Alone(t, i)
    <3>1. Keeps(t, i)
      BY <2>1 DEF Keeps, Alone
    <3> QED BY <2>0, <2>1, <3>1 DEF Alone
  <2>2. CASE Claims(t, i) /\ Consistent(t, i)
    <3>1. done[i] = t[i]
      BY <2>0, <2>2 DEF Keeps
    <3>2. ASSUME NEW c \in 0 .. t[i].nchans - 1
          PROVE  done[i - t[i].chan + c] = t[i - t[i].chan + c]
      <4> DEFINE j == i - t[i].chan + c
      <4>1. j \in Outlets /\ Consistent(t, j)
        BY <2>2, TogetherTrue
      <4> HIDE DEF j
      <4>2. done[j] = t[j]
        BY <4>1 DEF Keeps, done
      <4> QED BY <4>2 DEF j
    <3>3. Consistent(done, i)
      BY <2>2, <3>1, <3>2 DEF Consistent
    <3> QED BY <2>2, <3>1, <3>3 DEF Claims
  <2>3. CASE Claims(t, i) /\ ~Consistent(t, i)
    <3>1. ~Keeps(t, i)
      <4>1. t[i].nchans \in Nat
        BY SlotFacts DEF Rough
      <4> QED BY <2>3, <4>1 DEF Keeps, Claims
    <3> QED BY <2>0, <3>1 DEF Alone, Cleared
  <2> QED BY <2>1, <2>2, <2>3 DEF Rough
<1> HIDE DEF done
<1> QED BY <1>1, <1>2, <1>3 DEF Neat, Rough

-----------------------------------------------------------------------------
(* The table a message makes.                                              *)

LEMMA MessageTable ==
  ASSUME NEW t, Rough(t), Message(t)
  PROVE  Table' = Normalize(t) /\ UNCHANGED <<out_vectors, halted>>
<1> DEFINE done == Normalize(t)
<1>1. /\ tap_ugens' = [i \in Outlets |-> done[i].ugen]
      /\ tap_ugen_nchans' = [i \in Outlets |-> done[i].nchans]
      /\ tap_ugen_chan' = [i \in Outlets |-> done[i].chan]
      /\ UNCHANGED <<out_vectors, halted>>
  BY DEF Message
<1>2. done \in Slots
  BY NormalizeNeat DEF Neat, Rough
<1> HIDE DEF done
<1>3. \A i \in Outlets : done[i] = [ugen |-> done[i].ugen, nchans |-> done[i].nchans, chan |-> done[i].chan]
  <2>1. \A i \in Outlets : done[i] \in [ugen : UGens \cup {NoUGen}, nchans : {0} \cup 2 .. TapChannels, chan : Outlets]
    BY <1>2 DEF Slots
  <2> QED BY <2>1
<1>4. done = [i \in Outlets |-> done[i]]
  BY <1>2 DEF Slots
<1>5. Table' = [i \in Outlets |-> [ugen |-> done[i].ugen, nchans |-> done[i].nchans, chan |-> done[i].chan]]
  BY <1>1 DEF Table, Slot
<1> QED BY <1>1, <1>3, <1>4, <1>5 DEF done

\* What a message writes before it normalises: into the outlets touched, slots
\* that are alone or in a group among them; the other slots stay as they were.
Overlay(old, t, touched) ==
  /\ Rough(t)
  /\ touched \subseteq Outlets
  /\ \A i \in Outlets \ touched : t[i] = old[i]
  /\ \A i \in touched : Alone(t, i) \/ (Consistent(t, i) /\ Group(t, i) \subseteq touched)

LEMMA TableFacts ==
  ASSUME NEW i \in Outlets
  PROVE  Table[i].ugen = tap_ugens[i] /\ Table[i].nchans = tap_ugen_nchans[i] /\ Table[i].chan = tap_ugen_chan[i]
BY DEF Table, Slot

ClearedAll == [i \in Outlets |-> Cleared]

LEMMA ClearAllOverlays ==
  ASSUME Neat(Table)
  PROVE  Overlay(Table, ClearedAll, Outlets)
<1>1. \A i \in Outlets : 0 \in Outlets
  BY Constants
<1>2. ClearedAll \in Slots
  BY <1>1 DEF ClearedAll, Cleared, Slots
<1>3. \A i \in Outlets : Alone(ClearedAll, i)
  BY DEF ClearedAll, Cleared, Alone
<1> QED BY <1>2, <1>3 DEF Overlay, Rough

LEMMA AllOverlays ==
  ASSUME Neat(Table), NEW u \in UGens
  PROVE  Overlay(Table, [i \in Outlets |-> Mono(u)], Outlets)
<1> DEFINE t == [i \in Outlets |-> Mono(u)]
<1>0. Mono(u) = [ugen |-> u, nchans |-> 0, chan |-> 0]
  BY DEF Mono, Cleared
<1>1. \A i \in Outlets : 0 \in Outlets
  BY Constants
<1>2. t \in Slots
  BY <1>0, <1>1 DEF Slots
<1>3. \A i \in Outlets : Alone(t, i)
  BY <1>0 DEF Alone
<1> HIDE DEF t
<1> QED BY <1>2, <1>3 DEF Overlay, Rough, t

LEMMA ClearOverlays ==
  ASSUME Neat(Table), NEW i \in Outlets
  PROVE  Overlay(Table, [Table EXCEPT ![i] = Cleared], {i})
<1> DEFINE t == [Table EXCEPT ![i] = Cleared]
<1>1. Table \in Slots /\ \A j \in Outlets : Alone(Table, j) \/ Claims(Table, j)
  BY DEF Neat, Rough
<1>2. 0 \in Outlets
  BY Constants
<1>3. t \in Slots
  <2>1. Cleared \in [ugen : UGens \cup {NoUGen}, nchans : {0} \cup 2 .. TapChannels, chan : Outlets]
    BY <1>2 DEF Cleared
  <2> QED BY <1>1, <2>1 DEF Slots
<1>4. t[i] = Cleared /\ \A j \in Outlets \ {i} : t[j] = Table[j]
  BY <1>1 DEF Slots
<1> HIDE DEF t
<1>5. Alone(t, i)
  BY <1>4 DEF Alone, Cleared
<1>6. \A j \in Outlets : Alone(t, j) \/ Claims(t, j)
  BY <1>1, <1>4, <1>5 DEF Alone, Claims
<1> QED BY <1>3, <1>4, <1>5, <1>6 DEF Overlay, Rough, t

SetTable(i, u, nchans) ==
  [j \in Outlets |->
     IF j \notin i .. i + nchans - 1 THEN Table[j]
     ELSE IF nchans = 1 THEN Mono(u)
     ELSE [ugen |-> u, nchans |-> nchans, chan |-> j - i]]

LEMMA SetOverlays ==
  ASSUME Neat(Table), NEW i \in Outlets, NEW u \in UGens, NEW nchans \in 1 .. TapChannels,
         i + nchans <= TapChannels
  PROVE  Overlay(Table, SetTable(i, u, nchans), i .. i + nchans - 1)
<1> DEFINE t == SetTable(i, u, nchans)
           X == i .. i + nchans - 1
           R == [ugen : UGens \cup {NoUGen}, nchans : {0} \cup 2 .. TapChannels, chan : Outlets]
<1>0. Table \in Slots /\ \A j \in Outlets : Alone(Table, j) \/ Claims(Table, j)
  BY DEF Neat, Rough
<1>1. /\ i \in Nat /\ nchans \in Nat /\ nchans >= 1 /\ u # NoUGen /\ TapChannels \in Nat
      /\ X \subseteq Outlets /\ 0 \in Outlets
      /\ nchans # 1 => nchans \in 2 .. TapChannels
      /\ \A j \in X : j - i \in Outlets /\ j - i \in 0 .. nchans - 1 /\ j \in Nat
  BY Constants
<1>2. \A j \in Outlets : t[j] = IF j \notin X THEN Table[j]
                                ELSE IF nchans = 1 THEN [ugen |-> u, nchans |-> 0, chan |-> 0]
                                ELSE [ugen |-> u, nchans |-> nchans, chan |-> j - i]
  BY DEF SetTable, Mono, Cleared
<1>3. t = [j \in Outlets |-> t[j]]
  BY DEF SetTable
<1> HIDE DEF t, X
<1>4. \A j \in Outlets : t[j] \in R
  <2> SUFFICES ASSUME NEW j \in Outlets PROVE t[j] \in R
    OBVIOUS
  <2>1. CASE j \notin X
    <3>1. Table[j] \in R
      BY <1>0 DEF Slots
    <3> QED BY <1>2, <2>1, <3>1
  <2>2. CASE j \in X /\ nchans = 1
    <3>1. t[j] = [ugen |-> u, nchans |-> 0, chan |-> 0]
      BY <1>2, <2>2
    <3>2. 0 \in {0} \cup 2 .. TapChannels /\ u \in UGens \cup {NoUGen} /\ 0 \in Outlets
      BY <1>1
    <3> QED BY <3>1, <3>2
  <2>3. CASE j \in X /\ nchans # 1
    <3>1. t[j] = [ugen |-> u, nchans |-> nchans, chan |-> j - i]
      BY <1>2, <2>3
    <3>2. PICK d \in Outlets : d = j - i
      BY <1>1, <2>3
    <3>3. nchans \in {0} \cup 2 .. TapChannels
      BY <1>1, <2>3
    <3> QED BY <3>1, <3>2, <3>3
  <2> QED BY <2>1, <2>2, <2>3
<1>5. t \in Slots
  <2> HIDE DEF R
  <2>1. t \in [Outlets -> R]
    BY <1>3, <1>4
  <2> QED BY <2>1 DEF Slots, R
<1>6. ASSUME NEW j \in X, nchans = 1
      PROVE  Alone(t, j)
  BY <1>1, <1>2, <1>6 DEF Alone
<1>7. ASSUME NEW j \in X, nchans # 1
      PROVE  Claims(t, j) /\ Consistent(t, j) /\ Group(t, j) \subseteq X
  <2>1. j \in Outlets /\ t[j] = [ugen |-> u, nchans |-> nchans, chan |-> j - i]
    BY <1>1, <1>2, <1>7
  <2>2. t[j].ugen = u /\ t[j].nchans = nchans /\ t[j].chan = j - i
    BY <2>1
  <2>3. Claims(t, j)
    BY <1>1, <1>7, <2>2 DEF Claims
  <2>4. j - (j - i) = i /\ j - i <= j
    BY <1>1
  <2>5. \A c \in 0 .. nchans - 1 : i + c \in X /\ i + c \in Outlets /\ (i + c) - i = c
    BY <1>1 DEF X
  <2>6. \A c \in 0 .. nchans - 1 : t[i + c] = [ugen |-> u, nchans |-> nchans, chan |-> c]
    BY <1>2, <1>7, <2>5
  <2>7. Consistent(t, j)
    BY <2>2, <2>4, <2>6 DEF Consistent
  <2>8. Group(t, j) \subseteq X
    BY <2>2, <2>4, <2>5 DEF Group
  <2> QED BY <2>3, <2>7, <2>8
<1>8. \A j \in Outlets \ X : t[j] = Table[j]
  BY <1>2
<1>9. \A j \in Outlets : Alone(t, j) \/ Claims(t, j)
  <2> SUFFICES ASSUME NEW j \in Outlets PROVE Alone(t, j) \/ Claims(t, j)
    OBVIOUS
  <2>1. CASE j \in X
    BY <2>1, <1>6, <1>7
  <2>2. CASE j \notin X
    BY <1>0, <1>8, <2>2 DEF Alone, Claims
  <2> QED BY <2>1, <2>2
<1>10. \A j \in X : Alone(t, j) \/ (Consistent(t, j) /\ Group(t, j) \subseteq X)
  BY <1>6, <1>7
<1> QED BY <1>1, <1>5, <1>8, <1>9, <1>10 DEF Overlay, Rough, t, X

-----------------------------------------------------------------------------
(* The invariant.                                                          *)

Inv ==
  /\ Neat(Table)
  /\ out_vectors \in [Outlets -> {Silence} \cup UGens \X Outlets]
  /\ halted \in BOOLEAN

\* Slot i is written at the start of its group, together with the others.
LEMMA WritersAre ==
  ASSUME Neat(Table), NEW o \in Outlets
  PROVE  /\ o - tap_ugen_chan[o] \in Outlets
         /\ Writers(o) = {o - tap_ugen_chan[o]}
         /\ tap_ugen_chan[o - tap_ugen_chan[o]] = 0
         /\ tap_ugens[o - tap_ugen_chan[o]] = tap_ugens[o]
<1> DEFINE b == o - tap_ugen_chan[o]
<1>1. \A i \in Outlets : /\ Table[i].ugen = tap_ugens[i] /\ Table[i].nchans = tap_ugen_nchans[i]
                         /\ Table[i].chan = tap_ugen_chan[i]
  BY TableFacts
<1>2. \A i \in Outlets : /\ i \in Nat /\ tap_ugen_nchans[i] \in Nat /\ tap_ugen_chan[i] \in Nat
                         /\ (tap_ugen_nchans[i] = 0 \/ tap_ugen_nchans[i] >= 2)
  BY <1>1, SlotFacts DEF Neat, Rough
\* A slot that writes others too starts a group they are all in.
<1>3. ASSUME NEW i \in Outlets, tap_ugen_nchans[i] # 0
      PROVE  Claims(Table, i) /\ Consistent(Table, i)
  BY <1>1, <1>3 DEF Neat, Rough, Alone
<1>4. ASSUME NEW i \in Outlets, tap_ugen_nchans[i] # 0, NEW c \in 0 .. tap_ugen_nchans[i] - 1
      PROVE  /\ i - tap_ugen_chan[i] + c \in Outlets
             /\ tap_ugen_nchans[i - tap_ugen_chan[i] + c] = tap_ugen_nchans[i]
             /\ tap_ugen_chan[i - tap_ugen_chan[i] + c] = c
             /\ tap_ugens[i - tap_ugen_chan[i] + c] = tap_ugens[i]
  <2> DEFINE j == i - tap_ugen_chan[i] + c
  <2>1. j \in Outlets /\ Table[j] = [ugen |-> tap_ugens[i], nchans |-> tap_ugen_nchans[i], chan |-> c]
    BY <1>1, <1>3, <1>4, TogetherTrue DEF Neat
  <2> HIDE DEF j
  <2>2. Table[j].ugen = tap_ugens[i] /\ Table[j].nchans = tap_ugen_nchans[i] /\ Table[j].chan = c
    BY <2>1
  <2> QED BY <1>1, <2>1, <2>2 DEF j
<1>5. CASE tap_ugen_nchans[o] = 0
  <2>1. tap_ugen_chan[o] = 0 /\ b = o
    BY <1>1, <1>2, <1>5 DEF Neat, Rough, Alone, Claims
  <2>2. o \in Writes(o)
    BY <1>5 DEF Writes
  <2>3. ASSUME NEW i \in Outlets, o \in Writes(i) PROVE i = o
    <3> SUFFICES ASSUME i # o PROVE FALSE
      OBVIOUS
    <3>1. tap_ugen_nchans[i] # 0 /\ tap_ugen_chan[i] = 0 /\ o \in i .. i + tap_ugen_nchans[i] - 1
      BY <1>2, <2>3 DEF Writes
    <3>2. o - i \in 0 .. tap_ugen_nchans[i] - 1 /\ i - tap_ugen_chan[i] + (o - i) = o
      BY <1>2, <3>1
    <3>3. tap_ugen_nchans[i - tap_ugen_chan[i] + (o - i)] = tap_ugen_nchans[i]
      BY <1>4, <3>1, <3>2
    <3> QED BY <1>5, <3>1, <3>2, <3>3
  <2> QED BY <2>1, <2>2, <2>3 DEF Writers
<1>6. CASE tap_ugen_nchans[o] # 0
  <2>1. Claims(Table, o) /\ tap_ugens[o] # NoUGen /\ tap_ugen_chan[o] < tap_ugen_nchans[o] /\ tap_ugen_nchans[o] >= 2
    BY <1>1, <1>3, <1>6 DEF Claims
  <2>2. /\ b \in Outlets /\ tap_ugen_nchans[b] = tap_ugen_nchans[o] /\ tap_ugen_chan[b] = 0
        /\ tap_ugens[b] = tap_ugens[o]
    <3>1. 0 \in 0 .. tap_ugen_nchans[o] - 1 /\ o - tap_ugen_chan[o] + 0 = b
      BY <1>2, <2>1
    <3> HIDE DEF b
    <3> QED BY <1>4, <1>6, <3>1
  <2>3. o \in Writes(b)
    <3>1. o \in b .. b + tap_ugen_nchans[b] - 1
      BY <1>2, <2>1, <2>2
    <3>2. ~(tap_ugen_nchans[b] <= 1)
      BY <1>2, <2>1, <2>2
    <3> HIDE DEF b
    <3> QED BY <2>1, <2>2, <3>1, <3>2 DEF Writes
  <2>4. ASSUME NEW i \in Outlets, o \in Writes(i) PROVE i = b
    <3>1. CASE tap_ugen_nchans[i] # 0
      <4>1. tap_ugen_chan[i] = 0 /\ o \in i .. i + tap_ugen_nchans[i] - 1
        <5>1. Claims(Table, i)
          BY <1>3, <3>1
        <5> QED BY <1>1, <1>2, <2>4, <3>1, <5>1 DEF Writes, Claims
      <4>2. o - i \in 0 .. tap_ugen_nchans[i] - 1 /\ i - tap_ugen_chan[i] + (o - i) = o
        BY <1>2, <4>1
      <4>3. tap_ugen_chan[i - tap_ugen_chan[i] + (o - i)] = o - i
        BY <1>4, <3>1, <4>2
      <4>4. tap_ugen_chan[o] = o - i
        BY <4>2, <4>3
      <4> QED BY <1>2, <4>4
    <3>2. CASE tap_ugen_nchans[i] = 0
      <4>1. o = i
        BY <2>4, <3>2 DEF Writes
      <4> QED BY <1>6, <3>2, <4>1
    <3> QED BY <3>1, <3>2
  <2> HIDE DEF b
  <2> QED BY <2>2, <2>3, <2>4 DEF Writers, b
<1> QED BY <1>5, <1>6

LEMMA InvImplies ==
  ASSUME Inv
  PROVE  TapTypeOK /\ EachOutletWrittenOnce
<1>1. TapTypeOK
  BY DEF Inv, Neat, Rough, TapTypeOK
<1>2. ASSUME NEW o \in Outlets PROVE Cardinality(Writers(o)) = 1
  <2>1. \E x : Writers(o) = {x}
    BY WritersAre DEF Inv
  <2> QED BY <2>1, FS_Singleton
<1>3. ASSUME NEW i \in Outlets PROVE Writes(i) \subseteq Outlets
  <2>1. Table[i].ugen = tap_ugens[i] /\ Table[i].nchans = tap_ugen_nchans[i] /\ Table[i].chan = tap_ugen_chan[i]
    BY TableFacts
  <2>2. i \in Nat /\ tap_ugen_nchans[i] \in Nat /\ (tap_ugen_nchans[i] = 0 \/ tap_ugen_nchans[i] >= 2)
    BY <2>1, SlotFacts DEF Inv, Neat, Rough
  <2>3. CASE tap_ugen_nchans[i] = 0 \/ tap_ugen_chan[i] # 0 \/ tap_ugens[i] = NoUGen
    BY <2>2, <2>3 DEF Writes
  <2>4. CASE tap_ugen_nchans[i] # 0 /\ tap_ugen_chan[i] = 0
    <3>1. Consistent(Table, i)
      BY <2>1, <2>4 DEF Inv, Neat, Alone
    <3>2. i + tap_ugen_nchans[i] <= TapChannels
      BY <2>1, <2>2, <2>4, <3>1 DEF Consistent
    <3>3. Writes(i) \subseteq i .. i + tap_ugen_nchans[i] - 1
      BY <2>2, <2>4 DEF Writes
    <3> QED BY <2>2, <3>2, <3>3, Constants
  <2> QED BY <2>3, <2>4
<1> QED BY <1>1, <1>2, <1>3 DEF EachOutletWrittenOnce

LEMMA MessageInv ==
  ASSUME Inv, NEW t, Rough(t), Message(t)
  PROVE  Inv'
<1>1. PICK n : n = Normalize(t) /\ Neat(n)
  BY NormalizeNeat
<1>2. Table' = n /\ UNCHANGED <<out_vectors, halted>>
  BY <1>1, MessageTable
<1>3. Neat(Table)'
  BY <1>1, <1>2 DEF Neat, Rough, Alone, Claims, Consistent
<1> QED BY <1>2, <1>3 DEF Inv

LEMMA PerformInv ==
  ASSUME Inv, NEW ready \in SUBSET UGens, Perform(ready)
  PROVE  Inv'
<1>1. UNCHANGED <<tap_ugens, tap_ugen_nchans, tap_ugen_chan, halted>>
  BY DEF Perform, taps
<1>2. ASSUME NEW o \in Outlets
      PROVE  out_vectors'[o] \in {Silence} \cup UGens \X Outlets
  <2> DEFINE b == o - tap_ugen_chan[o]
  <2>1. Writers(o) = {b} /\ b \in Outlets
    BY WritersAre DEF Inv
  <2>2. out_vectors'[o] =
          LET i == CHOOSE i \in Writers(o) : \A k \in Writers(o) : k <= i
          IN IF tap_ugens[i] \in ready THEN <<tap_ugens[i], o - i>> ELSE Silence
    BY <2>1 DEF Perform
  <2>3. (CHOOSE i \in Writers(o) : \A k \in Writers(o) : k <= i) = b
    <3>1. b \in Nat
      BY <2>1, Constants
    <3> HIDE DEF b
    <3> QED BY <2>1, <3>1
  <2>4. o - b \in Outlets
    <3>1. tap_ugen_chan[o] \in Outlets /\ tap_ugen_chan[o] \in Nat /\ o \in Nat
      BY TableFacts, SlotFacts DEF Inv, Neat, Rough
    <3> QED BY <3>1
  <2>5. PICK d \in Outlets : d = o - b
    BY <2>4
  <2> HIDE DEF b
  <2>6. out_vectors'[o] = IF tap_ugens[b] \in ready THEN <<tap_ugens[b], d>> ELSE Silence
    BY <2>2, <2>3, <2>5, Zenon
  <2> QED BY <2>6
<1>3. out_vectors' = [o \in Outlets |-> out_vectors'[o]]
  BY DEF Perform
<1>4. out_vectors' \in [Outlets -> {Silence} \cup UGens \X Outlets]
  BY <1>2, <1>3
<1>5. Table' = Table
  BY <1>1 DEF Table, Slot
<1>6. Neat(Table)'
  <2>1. PICK n : n = Table /\ Neat(n)
    BY DEF Inv
  <2> QED BY <1>5, <2>1 DEF Neat, Rough, Alone, Claims, Consistent
<1> QED BY <1>1, <1>4, <1>6 DEF Inv

\* The messages that get through, each with the outlets it touches.
Asked(t, touched) ==
  \/ t = ClearedAll /\ touched = Outlets
  \/ \E u \in UGens : t = [i \in Outlets |-> Mono(u)] /\ touched = Outlets
  \/ \E i \in Outlets : t = [Table EXCEPT ![i] = Cleared] /\ touched = {i}
  \/ \E i \in Outlets, u \in UGens, nchans \in 1 .. TapChannels :
       /\ i + nchans <= TapChannels
       /\ t = SetTable(i, u, nchans) /\ touched = i .. i + nchans - 1

LEMMA AskedOverlays ==
  ASSUME Neat(Table), NEW t, NEW touched, Asked(t, touched)
  PROVE  Overlay(Table, t, touched)
BY ClearAllOverlays, AllOverlays, ClearOverlays, SetOverlays DEF Asked

LEMMA Cases ==
  ASSUME [TapNext]_tapVars
  PROVE  \/ \E t, touched : Asked(t, touched) /\ Message(t)
         \/ \E ready \in SUBSET UGens : Perform(ready)
         \/ UNCHANGED <<taps, out_vectors>> /\ halted' \in {TRUE, halted}
<1>1. CASE TapClearAll
  BY <1>1 DEF TapClearAll, Asked, ClearedAll
<1>2. ASSUME NEW u \in UGens, TapAll(u)
      PROVE  \E t, touched : Asked(t, touched) /\ Message(t)
  BY <1>2 DEF TapAll, Asked
<1>3. ASSUME NEW i \in Outlets, TapClear(i)
      PROVE  \E t, touched : Asked(t, touched) /\ Message(t)
  BY <1>3 DEF TapClear, Asked
<1>4. ASSUME NEW i \in Outlets, NEW u \in UGens, NEW nchans \in 1 .. TapChannels, TapSet(i, u, nchans)
      PROVE  \E t, touched : Asked(t, touched) /\ Message(t)
  <2>1. i + nchans <= TapChannels /\ Message(SetTable(i, u, nchans))
    BY <1>4 DEF TapSet, SetTable
  <2>2. Asked(SetTable(i, u, nchans), i .. i + nchans - 1)
    BY <2>1 DEF Asked
  <2> QED BY <2>1, <2>2
<1>5. CASE TapMalformed \/ UNCHANGED tapVars
  BY <1>5 DEF TapMalformed, tapVars
<1> QED BY <1>1, <1>2, <1>3, <1>4, <1>5 DEF TapNext

LEMMA InvAlways == TapSpec => []Inv
<1>1. TapInit => Inv
  <2> SUFFICES ASSUME TapInit PROVE Inv
    OBVIOUS
  <2>1. Table = ClearedAll
    BY DEF TapInit, Table, Slot, ClearedAll, Cleared
  <2>2. \A i \in Outlets : 0 \in Outlets
    BY Constants
  <2>3. ClearedAll \in Slots
    BY <2>2 DEF ClearedAll, Cleared, Slots
  <2>4. \A i \in Outlets : Alone(ClearedAll, i)
    BY DEF ClearedAll, Cleared, Alone
  <2>5. Neat(Table)
    BY <2>1, <2>3, <2>4 DEF Neat, Rough
  <2> QED BY <2>5 DEF TapInit, Inv
<1>2. Inv /\ [TapNext]_tapVars => Inv'
  <2> SUFFICES ASSUME Inv, [TapNext]_tapVars PROVE Inv'
    OBVIOUS
  <2>1. ASSUME NEW t, NEW touched, Asked(t, touched), Message(t) PROVE Inv'
    <3>1. Rough(t)
      BY <2>1, AskedOverlays DEF Overlay, Inv
    <3> QED BY <2>1, <3>1, MessageInv
  <2>2. ASSUME NEW ready \in SUBSET UGens, Perform(ready) PROVE Inv'
    BY <2>2, PerformInv
  <2>3. CASE UNCHANGED <<taps, out_vectors>> /\ halted' \in {TRUE, halted}
    <3>1. Table' = Table
      BY <2>3 DEF taps, Table, Slot
    <3>2. Neat(Table)'
      <4>1. PICK n : n = Table /\ Neat(n)
        BY DEF Inv
      <4> QED BY <3>1, <4>1 DEF Neat, Rough, Alone, Claims, Consistent
    <3> QED BY <2>3, <3>2 DEF Inv
  <2> QED BY <2>1, <2>2, <2>3, Cases
<1> QED BY <1>1, <1>2, PTL DEF TapSpec

(* The type invariant of module Tap: widths and channels of groups stay    *)
(* within the outlets.                                                     *)
THEOREM TapTypeCorrect == TapSpec => []TapTypeOK
<1>1. Inv => TapTypeOK
  BY InvImplies
<1> QED BY <1>1, InvAlways, PTL

(* The perform loop writes each tap outlet once and none beyond the last,  *)
(* whatever groups were laid over each other, for any number of outlets:   *)
(* ck_tap's one pass in place finds all that is left of broken groups.     *)
THEOREM TapsWrittenOnce == TapSpec => []EachOutletWrittenOnce
<1>1. Inv => EachOutletWrittenOnce
  BY InvImplies
<1> QED BY <1>1, InvAlways, PTL

-----------------------------------------------------------------------------
(* The three arrays are a set of disjoint groups.                          *)

GroupOf(t, i) ==
  [base |-> i, width |-> IF t[i].nchans = 0 THEN 1 ELSE t[i].nchans, ugen |-> t[i].ugen]

Starts(t, i) == t[i].ugen # NoUGen /\ t[i].chan = 0

GroupsIn(t) == {GroupOf(t, i) : i \in {k \in Outlets : Starts(t, k)}}

\* Normalising an overlay dissolves the groups that were touched, and no other.
LEMMA OverlayKeeps ==
  ASSUME NEW old, Neat(old), NEW t, NEW touched, Overlay(old, t, touched), NEW i \in Outlets
  PROVE  Keeps(t, i) <=> i \in touched \/ Alone(old, i) \/ Group(old, i) \cap touched = {}
<1>1. Rough(t) /\ Rough(old)
  BY DEF Overlay, Neat
<1>2. CASE i \in touched
  BY <1>2 DEF Overlay, Keeps, Alone
<1>3. CASE i \notin touched /\ Alone(old, i)
  <2>1. t[i] = old[i]
    BY <1>3 DEF Overlay
  <2> QED BY <1>3, <2>1 DEF Keeps, Alone
<1>4. CASE i \notin touched /\ ~Alone(old, i)
  <2>1. t[i] = old[i] /\ Claims(old, i) /\ Consistent(old, i)
    BY <1>4 DEF Overlay, Neat, Rough
  <2>2. Claims(t, i)
    BY <2>1 DEF Claims
  <2>3. ~(t[i].nchans <= 1) /\ t[i].nchans \in Nat /\ t[i].chan \in Nat /\ i \in Nat
    BY <1>1, <2>2, SlotFacts DEF Claims, Rough
  <2>4. ASSUME Group(old, i) \cap touched = {} PROVE Consistent(t, i)
    <3>1. ASSUME NEW c \in 0 .. old[i].nchans - 1
          PROVE  t[i - old[i].chan + c] = old[i - old[i].chan + c]
      <4> DEFINE j == i - old[i].chan + c
      <4>1. j \in Outlets
        BY <1>1, <2>1, TogetherTrue
      <4>2. j \in Group(old, i)
        BY <4>1 DEF Group
      <4> HIDE DEF j
      <4>3. t[j] = old[j]
        BY <2>4, <4>1, <4>2 DEF Overlay
      <4> QED BY <4>3 DEF j
    <3> QED BY <2>1, <3>1 DEF Consistent
  <2>5. ASSUME Consistent(t, i) PROVE Group(old, i) \cap touched = {}
    <3> SUFFICES ASSUME NEW x \in touched, x \in Group(old, i) PROVE FALSE
      OBVIOUS
    <3>1. PICK c \in 0 .. t[i].nchans - 1 : x = i - t[i].chan + c
      BY <2>1 DEF Group
    <3>2. t[x] = [ugen |-> t[i].ugen, nchans |-> t[i].nchans, chan |-> c] /\ x \in Outlets
      BY <1>1, <2>2, <2>5, <3>1, TogetherTrue
    <3>3. t[x].nchans = t[i].nchans /\ t[x].chan = c
      BY <3>2
    <3>4. Group(t, x) \subseteq touched
      BY <2>3, <3>3 DEF Overlay, Alone
    <3>5. i \in Group(t, x)
      <4>1. t[i].chan \in 0 .. t[x].nchans - 1
        BY <2>2, <2>3, <3>3 DEF Claims
      <4>2. i = x - t[x].chan + t[i].chan
        <5>1. c \in Int /\ x = i - t[i].chan + c
          BY <3>1
        <5> QED BY <2>3, <3>3, <5>1
      <4> QED BY <4>1, <4>2 DEF Group
    <3> QED BY <1>4, <3>4, <3>5
  <2> QED BY <1>4, <2>3, <2>4, <2>5 DEF Keeps
<1> QED BY <1>2, <1>3, <1>4

Outlying(g) == g.base .. g.base + g.width - 1

LEMMA OutlyingIs ==
  ASSUME NEW t, Neat(t), NEW i \in Outlets, t[i].chan = 0
  PROVE  /\ i \in Outlying(GroupOf(t, i))
         /\ Alone(t, i) => Outlying(GroupOf(t, i)) = {i}
         /\ ~Alone(t, i) => Outlying(GroupOf(t, i)) = Group(t, i)
<1> DEFINE g == GroupOf(t, i)
<1>1. g.base = i /\ g.width = IF t[i].nchans = 0 THEN 1 ELSE t[i].nchans
  BY DEF GroupOf
<1>2. i \in Nat /\ t[i].nchans \in Nat
  BY SlotFacts DEF Neat, Rough
<1> HIDE DEF g
<1>3. i \in Outlying(g)
  BY <1>1, <1>2 DEF Outlying
<1>4. CASE Alone(t, i)
  BY <1>1, <1>2, <1>3, <1>4 DEF Outlying, Alone, g
<1>5. CASE ~Alone(t, i)
  <2>1. Claims(t, i) /\ Consistent(t, i)
    BY <1>5 DEF Neat, Rough
  <2>2. g.width = t[i].nchans /\ i + t[i].nchans <= TapChannels
    BY <1>1, <1>2, <2>1 DEF Claims, Consistent
  <2>3. ASSUME NEW j \in Outlying(g) PROVE j \in Group(t, i)
    <3>1. PICK w \in Nat : w = t[i].nchans
      BY <1>2
    <3>2. g.base = i /\ g.width = w /\ i + w <= TapChannels
      BY <2>2, <1>1, <3>1
    <3>3. j \in i .. i + w - 1
      BY <2>3, <3>2 DEF Outlying
    <3>4. j \in Outlets
      BY <1>2, <3>2, <3>3, Constants
    <3>5. PICK c \in 0 .. w - 1 : c = j - i
      BY <1>2, <3>3
    <3>6. j = i - t[i].chan + c
      BY <1>2, <3>3, <3>5
    <3> QED BY <3>1, <3>4, <3>6 DEF Group
  <2>4. ASSUME NEW j \in Group(t, i) PROVE j \in Outlying(g)
    <3>1. PICK c \in 0 .. t[i].nchans - 1 : j = i - t[i].chan + c
      BY DEF Group
    <3> QED BY <1>1, <1>2, <2>2, <3>1 DEF Outlying
  <2> QED BY <1>3, <1>5, <2>3, <2>4 DEF g
<1> QED BY <1>4, <1>5

LEMMA Regrouped ==
  ASSUME NEW old, Neat(old), NEW t, NEW touched, Overlay(old, t, touched)
  PROVE  GroupsIn(Normalize(t)) =
           {g \in GroupsIn(old) : Outlying(g) \cap touched = {}}
           \cup {GroupOf(t, i) : i \in {k \in touched : Starts(t, k)}}
<1> DEFINE done == Normalize(t)
           L == GroupsIn(done)
           kept == {g \in GroupsIn(old) : Outlying(g) \cap touched = {}}
           new == {GroupOf(t, i) : i \in {k \in touched : Starts(t, k)}}
<1>1. \A i \in Outlets : done[i] = IF Keeps(t, i) THEN t[i] ELSE Cleared
  BY NormalizeKeeps DEF Overlay
<1> HIDE DEF done
<1>2. \A i \in Outlets : Starts(done, i) <=> Keeps(t, i) /\ Starts(t, i)
  BY <1>1 DEF Starts, Cleared
<1>3. \A i \in Outlets : Keeps(t, i) => GroupOf(done, i) = GroupOf(t, i)
  BY <1>1 DEF GroupOf
<1>4. \A i \in Outlets : Keeps(t, i) <=> i \in touched \/ Alone(old, i) \/ Group(old, i) \cap touched = {}
  BY OverlayKeeps
<1>5. \A i \in Outlets \ touched : /\ GroupOf(t, i) = GroupOf(old, i)
                                   /\ Starts(t, i) <=> Starts(old, i)
  BY DEF Overlay, GroupOf, Starts
<1>6. ASSUME NEW g \in L PROVE g \in kept \cup new
  <2>1. PICK i \in Outlets : g = GroupOf(done, i) /\ Starts(done, i)
    BY DEF GroupsIn
  <2>2. Keeps(t, i) /\ Starts(t, i) /\ g = GroupOf(t, i)
    BY <1>2, <1>3, <2>1
  <2>3. CASE i \in touched
    BY <2>2, <2>3
  <2>4. CASE i \notin touched
    <3>1. g = GroupOf(old, i) /\ Starts(old, i) /\ (Alone(old, i) \/ Group(old, i) \cap touched = {})
      BY <1>4, <1>5, <2>2, <2>4
    <3>2. Outlying(g) \cap touched = {}
      BY <2>4, <3>1, OutlyingIs DEF Starts
    <3> QED BY <3>1, <3>2 DEF GroupsIn
  <2> QED BY <2>3, <2>4
<1>7. ASSUME NEW g \in kept PROVE g \in L
  <2>1. PICK i \in Outlets : g = GroupOf(old, i) /\ Starts(old, i)
    BY DEF GroupsIn
  <2>2. i \notin touched /\ (Alone(old, i) \/ Group(old, i) \cap touched = {})
    BY <2>1, OutlyingIs DEF Starts
  <2>3. Keeps(t, i) /\ Starts(done, i) /\ g = GroupOf(done, i)
    BY <1>2, <1>3, <1>4, <1>5, <2>1, <2>2
  <2> QED BY <2>3 DEF GroupsIn
<1>8. ASSUME NEW g \in new PROVE g \in L
  <2>1. PICK i \in touched : g = GroupOf(t, i) /\ Starts(t, i)
    OBVIOUS
  <2>2. i \in Outlets
    BY DEF Overlay
  <2>3. Starts(done, i) /\ g = GroupOf(done, i)
    BY <1>2, <1>3, <1>4, <2>1, <2>2
  <2> QED BY <2>2, <2>3 DEF GroupsIn
<1> HIDE DEF L, kept, new
<1>9. L = kept \cup new
  BY <1>6, <1>7, <1>8
<1> QED BY <1>9 DEF L, kept, new, done

\* The refinement mapping, in terms of the table.
Mapped == {[base |-> i, width |-> Width(i), ugen |-> tap_ugens[i]] :
             i \in {k \in Outlets : /\ tap_ugens[k] # NoUGen
                                    /\ tap_ugen_chan[k] = 0}}

LEMMA MappedIs == Mapped = GroupsIn(Table)
<1>1. \A i \in Outlets : /\ Starts(Table, i) <=> tap_ugens[i] # NoUGen /\ tap_ugen_chan[i] = 0
                         /\ GroupOf(Table, i) = [base |-> i, width |-> Width(i), ugen |-> tap_ugens[i]]
  BY TableFacts DEF Starts, GroupOf, Width
<1> QED BY <1>1 DEF Mapped, GroupsIn

LEMMA MappedNext ==
  ASSUME NEW t, Table' = t
  PROVE  Mapped' = GroupsIn(t)
<1>1. \A i \in Outlets : /\ t[i].ugen = tap_ugens'[i] /\ t[i].nchans = tap_ugen_nchans'[i]
                         /\ t[i].chan = tap_ugen_chan'[i]
  BY DEF Table, Slot
<1>2. \A i \in Outlets : /\ Starts(t, i) <=> tap_ugens'[i] # NoUGen /\ tap_ugen_chan'[i] = 0
                         /\ GroupOf(t, i) = [base |-> i, width |-> Width(i)', ugen |-> tap_ugens'[i]]
  BY <1>1 DEF Starts, GroupOf, Width
<1> QED BY <1>2 DEF Mapped, GroupsIn

LEMMA AssignStep ==
  ASSUME Inv, NEW t, NEW touched, Overlay(Table, t, touched), Message(t)
  PROVE  /\ Mapped' = {g \in Mapped : Outlying(g) \cap touched = {}}
                      \cup {GroupOf(t, i) : i \in {k \in touched : Starts(t, k)}}
         /\ out_vectors' = out_vectors
<1>1. PICK n : n = Normalize(t)
  OBVIOUS
<1>2. Table' = n /\ out_vectors' = out_vectors
  BY <1>1, MessageTable DEF Overlay
<1>3. Mapped' = GroupsIn(n)
  BY <1>2, MappedNext
<1>4. GroupsIn(n) = {g \in GroupsIn(Table) : Outlying(g) \cap touched = {}}
                    \cup {GroupOf(t, i) : i \in {k \in touched : Starts(t, k)}}
  BY <1>1, Regrouped DEF Inv
<1> QED BY <1>2, <1>3, <1>4, MappedIs

\* The steps of the abstract specification, under the mapping.
LEMMA AssignIs ==
  ASSUME NEW new, NEW touched
  PROVE  Promise!Assign(new, touched)
           <=> /\ Mapped' = {g \in Mapped : Outlying(g) \cap touched = {}} \cup new
               /\ out_vectors' = out_vectors
BY DEF Promise!Assign, Promise!Span, Outlying, Mapped

LEMMA PlayIs ==
  ASSUME NEW ready
  PROVE  Promise!Play(ready)
           <=> /\ out_vectors' =
                    [o \in Outlets |->
                       IF \E g \in Mapped : o \in Outlying(g) /\ g.ugen \in ready
                       THEN LET g == CHOOSE g \in Mapped : o \in Outlying(g)
                            IN <<g.ugen, o - g.base>>
                       ELSE Silence]
               /\ Mapped' = Mapped
BY DEF Promise!Play, Promise!Span, Promise!Silence, Silence, Outlying, Mapped

LEMMA AssignRefines ==
  ASSUME Inv, NEW t, NEW touched, Asked(t, touched), Message(t)
  PROVE  Promise!Next
<1> DEFINE new == {GroupOf(t, i) : i \in {k \in touched : Starts(t, k)}}
<1>1. Promise!Assign(new, touched)
  <2>1. Overlay(Table, t, touched)
    BY AskedOverlays DEF Inv
  <2> QED BY <2>1, AssignStep, AssignIs
<1>2. CASE t = ClearedAll /\ touched = Outlets
  <2>1. new = {}
    BY <1>2 DEF Starts, ClearedAll, Cleared
  <2> HIDE DEF new
  <2>2. Promise!Assign({}, Outlets)
    BY <1>1, <1>2, <2>1
  <2> QED BY <2>2 DEF Promise!Next
<1>3. ASSUME NEW u \in UGens, t = [i \in Outlets |-> Mono(u)], touched = Outlets
      PROVE  Promise!Next
  <2>1. \A i \in Outlets : /\ t[i].ugen = u /\ t[i].chan = 0
                           /\ GroupOf(t, i) = [base |-> i, width |-> 1, ugen |-> u]
    BY <1>3 DEF GroupOf, Mono, Cleared
  <2>2. new = Promise!Monos(u)
    <3>1. \A i \in Outlets : Starts(t, i)
      BY <2>1, Constants DEF Starts
    <3> QED BY <1>3, <2>1, <3>1 DEF Promise!Monos
  <2> HIDE DEF new
  <2>3. Promise!Assign(Promise!Monos(u), Outlets)
    BY <1>1, <1>3, <2>2
  <2> QED BY <2>3 DEF Promise!Next
<1>4. ASSUME NEW i \in Outlets, t = [Table EXCEPT ![i] = Cleared], touched = {i}
      PROVE  Promise!Next
  <2>1. t[i] = Cleared
    BY <1>4 DEF Table
  <2>2. new = {}
    BY <1>4, <2>1 DEF Starts, Cleared
  <2> HIDE DEF new
  <2>3. Promise!Assign({}, {i})
    BY <1>1, <1>4, <2>2
  <2> QED BY <2>3 DEF Promise!Next
<1>5. ASSUME NEW i \in Outlets, NEW u \in UGens, NEW nchans \in 1 .. TapChannels,
             i + nchans <= TapChannels, t = SetTable(i, u, nchans),
             touched = i .. i + nchans - 1
      PROVE  Promise!Next
  <2>1. PICK last \in {l \in Outlets : l >= i} : last = i + nchans - 1
    <3>1. i + nchans - 1 \in Outlets /\ i + nchans - 1 >= i
      BY <1>5, Constants
    <3> QED BY <3>1
  <2>2. i \in Nat /\ nchans = last - i + 1 /\ touched = i .. last /\ touched \subseteq Outlets
    BY <1>5, <2>1, Constants
  <2>3. \A j \in touched : t[j] = IF nchans = 1 THEN Mono(u)
                                  ELSE [ugen |-> u, nchans |-> nchans, chan |-> j - i]
    BY <1>5, <2>2 DEF SetTable
  <2>4. i \in touched /\ Starts(t, i) /\ GroupOf(t, i) = [base |-> i, width |-> nchans, ugen |-> u]
    <3>1. i \in touched
      BY <2>1, <2>2
    <3>2. /\ t[i].ugen = u /\ t[i].chan = 0
          /\ t[i].nchans = IF nchans = 1 THEN 0 ELSE nchans
      <4>1. CASE nchans = 1
        BY <2>3, <3>1, <4>1 DEF Mono, Cleared
      <4>2. CASE nchans # 1
        <5>1. i - i = 0 /\ nchans \in Nat
          BY <2>2
        <5>2. t[i] = [ugen |-> u, nchans |-> nchans, chan |-> i - i]
          BY <2>3, <3>1, <4>2, Zenon
        <5>3. t[i] = [ugen |-> u, nchans |-> nchans, chan |-> 0]
          BY <5>1, <5>2, Zenon
        <5> QED BY <4>2, <5>3
      <4> QED BY <4>1, <4>2
    <3> QED BY <3>1, <3>2, Constants DEF Starts, GroupOf
  <2>5. \A j \in touched : j # i => ~Starts(t, j)
    <3> SUFFICES ASSUME NEW j \in touched, j # i PROVE t[j].chan # 0
      BY DEF Starts
    <3>1. j \in Nat /\ j - i # 0 /\ nchans # 1
      BY <2>2
    <3>2. t[j] = [ugen |-> u, nchans |-> nchans, chan |-> j - i]
      BY <2>3, <3>1
    <3> QED BY <3>1, <3>2
  <2>6. new = {[base |-> i, width |-> last - i + 1, ugen |-> u]}
    <3>1. {k \in touched : Starts(t, k)} = {i}
      BY <2>4, <2>5
    <3>2. new = {GroupOf(t, i)}
      BY <3>1
    <3> QED BY <2>2, <2>4, <3>2
  <2> HIDE DEF new
  <2>7. Promise!Assign({[base |-> i, width |-> last - i + 1, ugen |-> u]}, i .. last)
    BY <1>1, <2>2, <2>6
  <2> QED BY <2>1, <2>7 DEF Promise!Next
<1> HIDE DEF new
<1> QED BY <1>2, <1>3, <1>4, <1>5, Zenon DEF Asked

\* The group an outlet is in, seen from the perform loop.
LEMMA GroupsAt ==
  ASSUME Inv, NEW o \in Outlets
  PROVE  \A g \in Mapped : o \in Outlying(g) <=>
           /\ tap_ugens[o] # NoUGen
           /\ g = GroupOf(Table, o - tap_ugen_chan[o])
<1>1. Neat(Table) /\ Rough(Table) /\ Table \in Slots
  BY DEF Inv, Neat, Rough
<1>2. ASSUME NEW i \in Outlets, Starts(Table, i), o \in Outlying(GroupOf(Table, i))
      PROVE  tap_ugens[o] # NoUGen /\ i = o - tap_ugen_chan[o]
  <2>1. Table[i].chan = 0 /\ Table[i].ugen # NoUGen /\ i \in Nat
    BY <1>2, Constants DEF Starts
  <2>2. CASE Alone(Table, i)
    <3>1. o = i
      BY <1>1, <1>2, <2>1, <2>2, OutlyingIs
    <3>2. tap_ugens[o] = Table[i].ugen /\ tap_ugen_chan[o] = 0
      BY <2>1, <3>1, TableFacts
    <3> QED BY <2>1, <3>1, <3>2
  <2>3. CASE ~Alone(Table, i)
    <3>1. Claims(Table, i) /\ Consistent(Table, i)
      BY <1>1, <2>3 DEF Neat, Rough
    <3>2. PICK c \in 0 .. Table[i].nchans - 1 : o = i - Table[i].chan + c
      <4>1. o \in Group(Table, i)
        BY <1>1, <1>2, <2>1, <2>3, OutlyingIs
      <4> QED BY <4>1 DEF Group
    <3>3. Table[o] = [ugen |-> Table[i].ugen, nchans |-> Table[i].nchans, chan |-> c]
      BY <1>1, <3>1, <3>2, TogetherTrue
    <3>4. tap_ugens[o] = Table[i].ugen /\ tap_ugen_chan[o] = c
      <4>1. Table[o].ugen = Table[i].ugen /\ Table[o].chan = c
        BY <3>3
      <4> QED BY <4>1, TableFacts
    <3> QED BY <2>1, <3>2, <3>4
  <2> QED BY <2>2, <2>3
<1>3. ASSUME tap_ugens[o] # NoUGen
      PROVE  o \in Outlying(GroupOf(Table, o - tap_ugen_chan[o]))
  <2>1. PICK b \in Outlets : b = o - tap_ugen_chan[o] /\ tap_ugen_chan[b] = 0
    BY <1>1, WritersAre
  <2>2. tap_ugen_chan[o] = Table[o].chan /\ Table[o].chan \in Nat /\ o \in Nat /\ Table[b].chan = 0
    BY <1>1, <2>1, SlotFacts, TableFacts
  <2>3. CASE Alone(Table, o)
    <3>1. b = o
      BY <2>1, <2>2, <2>3 DEF Alone
    <3> QED BY <1>1, <2>1, <2>2, <3>1, OutlyingIs
  <2>4. CASE ~Alone(Table, o)
    <3>1. Claims(Table, o) /\ Consistent(Table, o) /\ Table[o].nchans \in Nat
      BY <1>1, <2>4, SlotFacts DEF Neat, Rough
    <3>2. 0 \in 0 .. Table[o].nchans - 1 /\ o - Table[o].chan + 0 = b
      BY <2>1, <2>2, <3>1 DEF Claims
    <3>3. Table[b] = [ugen |-> Table[o].ugen, nchans |-> Table[o].nchans, chan |-> 0]
      BY <1>1, <3>1, <3>2, TogetherTrue
    <3>4. Table[b].nchans = Table[o].nchans
      BY <3>3
    <3>5. o \in Group(Table, b) /\ ~Alone(Table, b)
      <4>1. Table[o].chan \in 0 .. Table[b].nchans - 1 /\ o = b - Table[b].chan + Table[o].chan
        BY <2>1, <2>2, <3>1, <3>4 DEF Claims
      <4> QED BY <3>1, <3>4, <4>1 DEF Group, Alone, Claims
    <3> QED BY <1>1, <2>1, <2>2, <3>5, OutlyingIs
  <2> QED BY <2>3, <2>4
<1>4. ASSUME NEW g \in Mapped, o \in Outlying(g)
      PROVE  tap_ugens[o] # NoUGen /\ g = GroupOf(Table, o - tap_ugen_chan[o])
  <2>1. PICK i \in Outlets : g = GroupOf(Table, i) /\ Starts(Table, i)
    BY MappedIs DEF GroupsIn
  <2> QED BY <1>2, <1>4, <2>1
<1> QED BY <1>3, <1>4

LEMMA PerformRefines ==
  ASSUME Inv, NEW ready \in SUBSET UGens, Perform(ready)
  PROVE  Promise!Play(ready)
<1> DEFINE B(o) == o - tap_ugen_chan[o]
<1>1. Mapped' = Mapped
  BY DEF Perform, taps, Mapped, Width
<1>2. ASSUME NEW o \in Outlets
      PROVE  (IF Writers(o) = {} THEN out_vectors[o]
              ELSE LET i == CHOOSE i \in Writers(o) : \A k \in Writers(o) : k <= i
                   IN IF tap_ugens[i] \in ready THEN <<tap_ugens[i], o - i>> ELSE Silence)
             = IF \E g \in Mapped : o \in Outlying(g) /\ g.ugen \in ready
               THEN LET g == CHOOSE g \in Mapped : o \in Outlying(g)
                    IN <<g.ugen, o - g.base>>
               ELSE Silence
  <2>1. PICK b \in Outlets : /\ b = B(o) /\ Writers(o) = {b}
                             /\ tap_ugen_chan[b] = 0 /\ tap_ugens[b] = tap_ugens[o]
    BY WritersAre DEF Inv
  <2>2. (CHOOSE i \in Writers(o) : \A k \in Writers(o) : k <= i) = b
    BY <2>1, Constants
  <2>3. PICK d : d = GroupOf(Table, b)
    OBVIOUS
  <2>4. d.base = b /\ d.ugen = tap_ugens[b]
    BY <2>3, TableFacts DEF GroupOf
  <2>5. \A g \in Mapped : o \in Outlying(g) <=> tap_ugens[b] # NoUGen /\ g = d
    BY <2>1, <2>3, GroupsAt
  <2>6. tap_ugens[b] # NoUGen => d \in Mapped
    <3>1. Table[b].ugen = tap_ugens[b] /\ Table[b].chan = 0
      BY <2>1, TableFacts
    <3> QED BY <2>1, <2>3, <3>1, MappedIs DEF GroupsIn, Starts
  <2>7. CASE tap_ugens[b] \in ready
    <3>1. tap_ugens[b] # NoUGen /\ d \in Mapped /\ o \in Outlying(d) /\ d.ugen \in ready
      BY <2>4, <2>5, <2>6, <2>7, Constants
    <3>2. (CHOOSE g \in Mapped : o \in Outlying(g)) = d
      BY <2>5, <3>1
    <3>3. \E g \in Mapped : o \in Outlying(g) /\ g.ugen \in ready
      BY <3>1
    <3>4. <<d.ugen, o - d.base>> = <<tap_ugens[b], o - b>>
      BY <2>4, Zenon
    <3>5. Writers(o) # {}
      BY <2>1
    <3> QED BY <2>2, <2>7, <3>2, <3>3, <3>4, <3>5, Zenon
  <2>8. CASE tap_ugens[b] \notin ready
    <3>1. ~\E g \in Mapped : o \in Outlying(g) /\ g.ugen \in ready
      BY <2>4, <2>5, <2>8
    <3> QED BY <2>1, <2>2, <2>8, <3>1
  <2> QED BY <2>7, <2>8
<1>3. out_vectors' =
        [o \in Outlets |->
           IF \E g \in Mapped : o \in Outlying(g) /\ g.ugen \in ready
           THEN LET g == CHOOSE g \in Mapped : o \in Outlying(g)
                IN <<g.ugen, o - g.base>>
           ELSE Silence]
  BY <1>2, Zenon DEF Perform
<1> QED BY <1>1, <1>3, PlayIs

(* The three arrays implement the disjoint groups of module TapGroups, for *)
(* any number of outlets: each message dissolves the groups it touches and *)
(* no other, and every block plays each group on its own outlets.          *)
THEOREM TapGroupsImplemented == TapSpec => ImplementsGroups
<1>1. TapInit => Promise!Init
  <2> SUFFICES ASSUME TapInit PROVE Promise!Init
    OBVIOUS
  <2>1. Mapped = {}
    BY DEF TapInit, Mapped
  <2> QED BY <2>1 DEF TapInit, Promise!Init, Promise!Silence, Silence, Mapped
<1>2. Inv /\ [TapNext]_tapVars => [Promise!Next]_<<Mapped, out_vectors>>
  <2> SUFFICES ASSUME Inv, [TapNext]_tapVars
               PROVE  Promise!Next \/ (Mapped' = Mapped /\ out_vectors' = out_vectors)
    OBVIOUS
  <2>1. CASE UNCHANGED <<taps, out_vectors>>
    BY <2>1 DEF taps, Mapped, Width
  <2>2. ASSUME NEW ready \in SUBSET UGens, Perform(ready) PROVE Promise!Next
    BY <2>2, PerformRefines DEF Promise!Next
  <2> QED BY <2>1, <2>2, AssignRefines, Cases
<1> QED BY <1>1, <1>2, InvAlways, PTL DEF TapSpec, ImplementsGroups, Promise!Spec, Mapped

-----------------------------------------------------------------------------
(* The list: links, the queue they make, and what splicing does to it.     *)

LEMMA Sizes0 ==
  /\ Shreds \in Nat \ {0} /\ BufferFrames \in Nat \ {0}
  /\ Waits \subseteq Nat /\ Sizes \subseteq Nat
  /\ Shred = 1 .. Shreds /\ Link = Shred \cup {0} /\ 0 \notin Shred
BY ConstantsAssumption DEF ConstantsAssumption, Shred, Link

Member(q, s) == \E i \in 1 .. Len(q) : q[i] = s

\* The links (head h, followers nx, predecessors pv) are those of the queue q.
Chain(h, nx, pv, q) ==
  /\ q \in Seq(Shred)
  /\ \A i, j \in 1 .. Len(q) : q[i] = q[j] => i = j
  /\ h = IF Len(q) = 0 THEN 0 ELSE q[1]
  /\ \A i \in 1 .. Len(q) : nx[q[i]] = IF i = Len(q) THEN 0 ELSE q[i + 1]
  /\ \A i \in 1 .. Len(q) : pv[q[i]] = IF i = 1 THEN 0 ELSE q[i - 1]
  /\ \A s \in Shred : ~Member(q, s) => nx[s] = 0 /\ pv[s] = 0

LEMMA Slice ==
  ASSUME NEW S, NEW q \in Seq(S), NEW m \in Nat \ {0}, NEW n \in Nat, m <= n + 1, n <= Len(q)
  PROVE  /\ SubSeq(q, m, n) \in Seq(S)
         /\ Len(SubSeq(q, m, n)) = (n + 1) - m
         /\ \A i \in 1 .. (n + 1) - m : SubSeq(q, m, n)[i] = q[(m + i) - 1]
<1>1. \A i \in m .. n : q[i] \in S
  BY ElementOfSeq
<1>2. /\ SubSeq(q, m, n) \in Seq(S)
      /\ Len(SubSeq(q, m, n)) = IF m <= n THEN n - m + 1 ELSE 0
      /\ \A i \in 1 .. n - m + 1 : SubSeq(q, m, n)[i] = q[m + i - 1]
  BY <1>1, SubSeqProperties
<1> QED BY <1>2

LEMMA InsertIs ==
  ASSUME NEW S, NEW q \in Seq(S), NEW k \in 0 .. Len(q), NEW s \in S
  PROVE  /\ InsertAt(q, k + 1, s) \in Seq(S)
         /\ Len(InsertAt(q, k + 1, s)) = Len(q) + 1
         /\ \A i \in 1 .. Len(q) + 1 :
              InsertAt(q, k + 1, s)[i] = IF i <= k THEN q[i] ELSE IF i = k + 1 THEN s ELSE q[i - 1]
<1> DEFINE a == SubSeq(q, 1, k)
           b == <<s>>
           c == SubSeq(q, k + 1, Len(q))
<1>0. Len(q) \in Nat /\ k \in Nat /\ k <= Len(q) /\ (k + 1) - 1 = k
  OBVIOUS
<1>1. a \in Seq(S) /\ Len(a) = k /\ \A i \in 1 .. k : a[i] = q[i]
  <2>1. PICK n \in Nat : n = k
    BY <1>0
  <2>2. /\ SubSeq(q, 1, n) \in Seq(S) /\ Len(SubSeq(q, 1, n)) = (n + 1) - 1
        /\ \A i \in 1 .. (n + 1) - 1 : SubSeq(q, 1, n)[i] = q[(1 + i) - 1]
    BY <1>0, <2>1, Slice
  <2>3. a = SubSeq(q, 1, n)
    BY <2>1
  <2> HIDE DEF a
  <2> QED BY <1>0, <2>1, <2>2, <2>3
<1>2. c \in Seq(S) /\ Len(c) = Len(q) - k /\ \A i \in 1 .. Len(q) - k : c[i] = q[k + i]
  <2>1. PICK m \in Nat \ {0} : m = k + 1
    BY <1>0
  <2>2. /\ SubSeq(q, m, Len(q)) \in Seq(S) /\ Len(SubSeq(q, m, Len(q))) = (Len(q) + 1) - m
        /\ \A i \in 1 .. (Len(q) + 1) - m : SubSeq(q, m, Len(q))[i] = q[(m + i) - 1]
    BY <1>0, <2>1, Slice
  <2>3. c = SubSeq(q, m, Len(q))
    BY <2>1
  <2> HIDE DEF c
  <2> QED BY <1>0, <2>1, <2>2, <2>3
<1>3. b \in Seq(S) /\ Len(b) = 1 /\ b[1] = s
  OBVIOUS
<1>4. InsertAt(q, k + 1, s) = (a \o b) \o c
  BY <1>0 DEF InsertAt
<1> HIDE DEF a, b, c
<1>5. /\ a \o b \in Seq(S) /\ Len(a \o b) = k + 1
      /\ \A i \in 1 .. k + 1 : (a \o b)[i] = IF i <= k THEN q[i] ELSE s
  <2>1. /\ a \o b \in Seq(S) /\ Len(a \o b) = Len(a) + Len(b)
        /\ \A i \in 1 .. Len(a) + Len(b) : (a \o b)[i] = IF i <= Len(a) THEN a[i] ELSE b[i - Len(a)]
    BY <1>1, <1>3, ConcatProperties
  <2> QED BY <1>0, <1>1, <1>3, <2>1
<1>6. /\ (a \o b) \o c \in Seq(S) /\ Len((a \o b) \o c) = Len(a \o b) + Len(c)
      /\ \A i \in 1 .. Len(a \o b) + Len(c) :
           ((a \o b) \o c)[i] = IF i <= Len(a \o b) THEN (a \o b)[i] ELSE c[i - Len(a \o b)]
  BY <1>2, <1>5, ConcatProperties
<1>7. ASSUME NEW i \in 1 .. Len(q) + 1
      PROVE  ((a \o b) \o c)[i] = IF i <= k THEN q[i] ELSE IF i = k + 1 THEN s ELSE q[i - 1]
  <2>1. CASE i <= k + 1
    <3>1. i \in 1 .. k + 1 /\ i \in 1 .. Len(a \o b) + Len(c) /\ i <= Len(a \o b)
      BY <1>0, <1>2, <1>5, <2>1
    <3> QED BY <1>0, <1>5, <1>6, <3>1
  <2>2. CASE ~(i <= k + 1)
    <3>1. /\ i \in 1 .. Len(a \o b) + Len(c) /\ ~(i <= Len(a \o b))
          /\ i - Len(a \o b) \in 1 .. Len(q) - k /\ k + (i - Len(a \o b)) = i - 1
          /\ ~(i <= k) /\ i # k + 1
      BY <1>0, <1>2, <1>5, <2>2
    <3>2. ((a \o b) \o c)[i] = c[i - Len(a \o b)]
      BY <1>6, <3>1
    <3> QED BY <1>2, <3>1, <3>2
  <2> QED BY <2>1, <2>2
<1>8. Len(a \o b) + Len(c) = Len(q) + 1
  BY <1>0, <1>2, <1>5
<1> QED BY <1>4, <1>6, <1>7, <1>8, Zenon

LEMMA RemoveIs ==
  ASSUME NEW S, NEW q \in Seq(S), NEW k \in 1 .. Len(q)
  PROVE  /\ RemoveAt(q, k) \in Seq(S)
         /\ Len(RemoveAt(q, k)) = Len(q) - 1
         /\ \A i \in 1 .. Len(q) - 1 : RemoveAt(q, k)[i] = IF i < k THEN q[i] ELSE q[i + 1]
<1> DEFINE a == SubSeq(q, 1, k - 1)
           c == SubSeq(q, k + 1, Len(q))
<1>0. Len(q) \in Nat /\ k \in Nat /\ 1 <= k /\ k <= Len(q)
  OBVIOUS
<1>1. a \in Seq(S) /\ Len(a) = k - 1 /\ \A i \in 1 .. k - 1 : a[i] = q[i]
  <2>1. PICK n \in Nat : n = k - 1
    BY <1>0
  <2>2. /\ SubSeq(q, 1, n) \in Seq(S) /\ Len(SubSeq(q, 1, n)) = (n + 1) - 1
        /\ \A i \in 1 .. (n + 1) - 1 : SubSeq(q, 1, n)[i] = q[(1 + i) - 1]
    BY <1>0, <2>1, Slice
  <2>3. a = SubSeq(q, 1, n)
    BY <2>1
  <2> HIDE DEF a
  <2> QED BY <1>0, <2>1, <2>2, <2>3
<1>2. c \in Seq(S) /\ Len(c) = Len(q) - k /\ \A i \in 1 .. Len(q) - k : c[i] = q[k + i]
  <2>1. PICK m \in Nat \ {0} : m = k + 1
    BY <1>0
  <2>2. /\ SubSeq(q, m, Len(q)) \in Seq(S) /\ Len(SubSeq(q, m, Len(q))) = (Len(q) + 1) - m
        /\ \A i \in 1 .. (Len(q) + 1) - m : SubSeq(q, m, Len(q))[i] = q[(m + i) - 1]
    BY <1>0, <2>1, Slice
  <2>3. c = SubSeq(q, m, Len(q))
    BY <2>1
  <2> HIDE DEF c
  <2> QED BY <1>0, <2>1, <2>2, <2>3
<1>4. RemoveAt(q, k) = a \o c
  BY DEF RemoveAt
<1> HIDE DEF a, c
<1>5. /\ a \o c \in Seq(S) /\ Len(a \o c) = Len(a) + Len(c)
      /\ \A i \in 1 .. Len(a) + Len(c) : (a \o c)[i] = IF i <= Len(a) THEN a[i] ELSE c[i - Len(a)]
  BY <1>1, <1>2, ConcatProperties
<1>6. ASSUME NEW i \in 1 .. Len(q) - 1
      PROVE  (a \o c)[i] = IF i < k THEN q[i] ELSE q[i + 1]
  <2>1. CASE i < k
    BY <1>0, <1>1, <1>2, <1>5, <2>1
  <2>2. CASE ~(i < k)
    <3>1. /\ i \in 1 .. Len(a) + Len(c) /\ ~(i <= Len(a))
          /\ i - Len(a) \in 1 .. Len(q) - k /\ k + (i - Len(a)) = i + 1
      BY <1>0, <1>1, <1>2, <2>2
    <3> QED BY <1>2, <1>5, <2>2, <3>1
  <2> QED BY <2>1, <2>2
<1> QED BY <1>0, <1>1, <1>2, <1>4, <1>5, <1>6

LEMMA ChainFacts ==
  ASSUME NEW h, NEW nx, NEW pv, NEW q, Chain(h, nx, pv, q)
  PROVE  /\ q \in Seq(Shred) /\ Len(q) \in Nat /\ Len(q) <= Shreds
         /\ \A i \in 1 .. Len(q) : q[i] \in Shred /\ q[i] # 0
         /\ h = 0 <=> q = <<>>
         /\ q = <<>> <=> Len(q) = 0
<1>1. q \in Seq(Shred) /\ Len(q) \in Nat
  BY DEF Chain
<1>2. \A i \in 1 .. Len(q) : q[i] \in Shred /\ q[i] # 0
  BY <1>1, ElementOfSeq, Sizes0
<1>3. Len(q) <= Shreds
  <2>1. q \in Injection(1 .. Len(q), Shred)
    <3>1. q \in [1 .. Len(q) -> Shred]
      BY <1>1, LenProperties
    <3>2. IsInjective(q)
      BY <3>1 DEF Chain, IsInjective
    <3> QED BY <3>1, <3>2 DEF Injection
  <2>2. /\ IsFiniteSet(1 .. Len(q)) /\ Cardinality(1 .. Len(q)) = Len(q)
        /\ IsFiniteSet(Shred) /\ Cardinality(Shred) = Shreds
    <3>1. \A n \in Nat : IsFiniteSet(1 .. n) /\ Cardinality(1 .. n) = n
      <4>1. ASSUME NEW n \in Nat PROVE IsFiniteSet(1 .. n) /\ Cardinality(1 .. n) = n
        BY FS_Interval
      <4> QED BY <4>1
    <3> QED BY <1>1, <3>1, Sizes0
  <2>3. Cardinality(1 .. Len(q)) <= Cardinality(Shred)
    BY <2>1, <2>2, FS_Injection
  <2> QED BY <2>2, <2>3
<1>4. q = <<>> <=> Len(q) = 0
  BY <1>1, EmptySeq
<1>5. h = 0 <=> Len(q) = 0
  BY <1>1, <1>2 DEF Chain
<1> QED BY <1>1, <1>2, <1>3, <1>4, <1>5

\* Queue, of any links.
Follow(h, nx) ==
  LET from[n \in 0 .. Shreds] ==
        IF n = 0 THEN IF h = 0 THEN <<>> ELSE <<h>>
        ELSE LET q == from[n - 1] IN
             IF q = <<>> \/ nx[Last(q)] = 0 THEN q ELSE Append(q, nx[Last(q)])
  IN from[Shreds]

\* The first n + 1 of the queue, or all.
Part(q, n) == SubSeq(q, 1, IF n + 1 <= Len(q) THEN n + 1 ELSE Len(q))

LEMMA PartIs ==
  ASSUME NEW S, NEW q \in Seq(S), NEW n \in Nat
  PROVE  LET m == IF n + 1 <= Len(q) THEN n + 1 ELSE Len(q) IN
         /\ Part(q, n) \in Seq(S) /\ Len(Part(q, n)) = m /\ m \in Nat /\ m <= Len(q)
         /\ \A i \in 1 .. m : Part(q, n)[i] = q[i]
<1> DEFINE m == IF n + 1 <= Len(q) THEN n + 1 ELSE Len(q)
<1>1. PICK k \in Nat : k = m
  OBVIOUS
<1>2. k <= Len(q) /\ 1 <= k + 1
  BY <1>1
<1>3. /\ SubSeq(q, 1, k) \in Seq(S) /\ Len(SubSeq(q, 1, k)) = (k + 1) - 1
      /\ \A i \in 1 .. (k + 1) - 1 : SubSeq(q, 1, k)[i] = q[(1 + i) - 1]
  BY <1>2, Slice
<1>4. Part(q, n) = SubSeq(q, 1, k)
  BY <1>1 DEF Part
<1> HIDE DEF m
<1>5. Part(q, n) \in Seq(S) /\ Len(Part(q, n)) = k /\ \A i \in 1 .. k : Part(q, n)[i] = q[i]
  BY <1>3, <1>4
<1> QED BY <1>1, <1>2, <1>5 DEF m

LEMMA PartStep ==
  ASSUME NEW h, NEW nx, NEW pv, NEW q, Chain(h, nx, pv, q), NEW n \in Nat
  PROVE  Part(q, n + 1) = IF Part(q, n) = <<>> \/ nx[Last(Part(q, n))] = 0 THEN Part(q, n)
                          ELSE Append(Part(q, n), nx[Last(Part(q, n))])
<1>0. /\ q \in Seq(Shred) /\ Len(q) \in Nat /\ \A i \in 1 .. Len(q) : q[i] \in Shred /\ q[i] # 0
      /\ \A i \in 1 .. Len(q) : nx[q[i]] = IF i = Len(q) THEN 0 ELSE q[i + 1]
  BY ChainFacts DEF Chain
<1> DEFINE w == Part(q, n)
           v == Part(q, n + 1)
<1>1. CASE n + 1 <= Len(q)
  <2>1. w \in Seq(Shred) /\ Len(w) = n + 1 /\ \A i \in 1 .. n + 1 : w[i] = q[i]
    BY <1>0, <1>1, PartIs
  <2>2. w # <<>> /\ Last(w) = q[n + 1]
    <3>1. n + 1 \in 1 .. n + 1 /\ Len(w) # 0
      BY <2>1
    <3> QED BY <2>1, <3>1, EmptySeq DEF Last
  <2>3. CASE n + 1 = Len(q)
    <3>1. nx[q[n + 1]] = 0
      BY <1>0, <2>3
    <3>2. v \in Seq(Shred) /\ Len(v) = n + 1 /\ \A i \in 1 .. n + 1 : v[i] = q[i]
      <4>1. ~((n + 1) + 1 <= Len(q)) /\ n + 1 \in Nat
        BY <2>3
      <4> QED BY <1>0, <2>3, <4>1, PartIs
    <3>3. v = w
      <4> HIDE DEF v, w
      <4> QED BY <2>1, <3>2, SeqEqual
    <3> QED BY <2>2, <3>1, <3>3
  <2>4. CASE n + 1 # Len(q)
    <3>1. n + 1 \in 1 .. Len(q) /\ (n + 1) + 1 \in 1 .. Len(q) /\ (n + 1) + 1 <= Len(q) /\ n + 1 \in Nat
      BY <1>0, <1>1, <2>4
    <3>2. nx[q[n + 1]] = q[(n + 1) + 1] /\ q[(n + 1) + 1] # 0 /\ q[(n + 1) + 1] \in Shred
      BY <1>0, <2>4, <3>1
    <3>3. v \in Seq(Shred) /\ Len(v) = (n + 1) + 1 /\ \A i \in 1 .. (n + 1) + 1 : v[i] = q[i]
      BY <1>0, <3>1, PartIs
    <3>4. v = Append(w, q[(n + 1) + 1])
      <4> HIDE DEF v, w
      <4>1. PICK e \in Shred : e = q[(n + 1) + 1]
        BY <3>2
      <4>2. /\ Append(w, e) \in Seq(Shred) /\ Len(Append(w, e)) = (n + 1) + 1
            /\ \A i \in 1 .. n + 1 : Append(w, e)[i] = q[i]
            /\ Append(w, e)[(n + 1) + 1] = e
        BY <2>1, AppendProperties
      <4>3. \A i \in 1 .. (n + 1) + 1 : v[i] = Append(w, e)[i]
        <5> SUFFICES ASSUME NEW i \in 1 .. (n + 1) + 1 PROVE v[i] = Append(w, e)[i]
          OBVIOUS
        <5>1. CASE i \in 1 .. n + 1
          BY <3>3, <4>2, <5>1
        <5>2. CASE i = (n + 1) + 1
          BY <3>3, <4>1, <4>2, <5>2
        <5>3. i \in 1 .. n + 1 \/ i = (n + 1) + 1
          OBVIOUS
        <5> QED BY <5>1, <5>2, <5>3, Zenon
      <4> QED BY <3>3, <4>1, <4>2, <4>3, SeqEqual
    <3> QED BY <2>2, <3>2, <3>4
  <2> QED BY <2>3, <2>4
<1>2. CASE ~(n + 1 <= Len(q))
  <2>1. w \in Seq(Shred) /\ Len(w) = Len(q) /\ \A i \in 1 .. Len(q) : w[i] = q[i]
    BY <1>0, <1>2, PartIs
  <2>2. v \in Seq(Shred) /\ Len(v) = Len(q) /\ \A i \in 1 .. Len(q) : v[i] = q[i]
    <3>1. ~((n + 1) + 1 <= Len(q)) /\ n + 1 \in Nat
      BY <1>0, <1>2
    <3> QED BY <1>0, <3>1, PartIs
  <2> HIDE DEF v, w
  <2>3. v = w
    BY <2>1, <2>2, SeqEqual
  <2>4. w = <<>> \/ nx[Last(w)] = 0
    <3>1. CASE Len(q) = 0
      BY <2>1, <3>1, EmptySeq
    <3>2. CASE Len(q) # 0
      <4>1. Len(q) \in 1 .. Len(q)
        BY <1>0, <3>2
      <4>2. Last(w) = q[Len(q)]
        BY <2>1, <4>1 DEF Last
      <4> QED BY <1>0, <4>1, <4>2
    <3> QED BY <3>1, <3>2
  <2> QED BY <2>3, <2>4 DEF v, w
<1> QED BY <1>0, <1>1, <1>2

LEMMA Followed ==
  ASSUME NEW h, NEW nx, NEW pv, NEW q, Chain(h, nx, pv, q)
  PROVE  Follow(h, nx) = q
<1> DEFINE First == IF h = 0 THEN <<>> ELSE <<h>>
           More(w) == IF w = <<>> \/ nx[Last(w)] = 0 THEN w ELSE Append(w, nx[Last(w)])
           Up(f, m) == [n \in 0 .. m |-> IF n = 0 THEN First ELSE More(f[n - 1])]
           From == CHOOSE f : f = Up(f, Shreds)
           whole == [n \in 0 .. Shreds |-> Part(q, n)]
<1>0. Shreds \in Nat /\ q \in Seq(Shred) /\ Len(q) \in Nat /\ Len(q) <= Shreds
  BY ChainFacts, Sizes0
<1>1. whole[0] = First
  <2>1. whole[0] = Part(q, 0)
    BY <1>0
  <2>2. /\ Part(q, 0) \in Seq(Shred)
        /\ Len(Part(q, 0)) = IF 1 <= Len(q) THEN 1 ELSE 0
        /\ \A i \in 1 .. Len(Part(q, 0)) : Part(q, 0)[i] = q[i]
    <3>1. PICK z \in Nat : z = 0
      OBVIOUS
    <3>2. PICK m : m = IF z + 1 <= Len(q) THEN z + 1 ELSE Len(q)
      OBVIOUS
    <3>3. /\ Part(q, z) \in Seq(Shred) /\ Len(Part(q, z)) = m
          /\ \A i \in 1 .. m : Part(q, z)[i] = q[i]
      BY <1>0, <3>2, PartIs
    <3>4. m = IF 1 <= Len(q) THEN 1 ELSE 0
      BY <1>0, <3>1, <3>2
    <3> QED BY <3>1, <3>3, <3>4
  <2>3. CASE Len(q) = 0
    BY <2>1, <2>2, <2>3, ChainFacts, EmptySeq
  <2>4. CASE Len(q) # 0
    <3>1. 1 \in 1 .. Len(q) /\ h = q[1] /\ h \in Shred /\ h # 0
      BY <1>0, <2>4, ChainFacts DEF Chain
    <3>2. Len(Part(q, 0)) = 1 /\ Part(q, 0)[1] = h
      BY <1>0, <2>2, <2>4, <3>1
    <3>3. Part(q, 0) = <<h>>
      <4>1. <<h>> \in Seq(Shred) /\ Len(<<h>>) = 1 /\ <<h>>[1] = h
        BY <3>1
      <4>2. \A i \in 1 .. 1 : Part(q, 0)[i] = <<h>>[i]
        BY <3>2, <4>1
      <4> QED BY <2>2, <3>2, <4>1, <4>2, SeqEqual
    <3> QED BY <2>1, <3>1, <3>3
  <2> QED BY <2>3, <2>4
<1>2. ASSUME NEW n \in 0 .. Shreds, n # 0
      PROVE  whole[n] = More(whole[n - 1])
  <2>1. n - 1 \in Nat /\ n - 1 \in 0 .. Shreds /\ (n - 1) + 1 = n
    BY <1>0, <1>2
  <2>2. whole[n] = Part(q, n) /\ whole[n - 1] = Part(q, n - 1)
    BY <2>1
  <2>3. Part(q, (n - 1) + 1) = More(Part(q, n - 1))
    <3>1. PICK k \in Nat : k = n - 1
      BY <2>1
    <3>2. Part(q, k + 1) = More(Part(q, k))
      BY PartStep
    <3> HIDE DEF More
    <3> QED BY <3>1, <3>2
  <2> HIDE DEF whole, More
  <2> QED BY <2>1, <2>2, <2>3
<1>3. From = Up(From, Shreds)
  <2>1. whole = [n \in 0 .. Shreds |-> whole[n]]
    OBVIOUS
  <2>2. whole = Up(whole, Shreds)
    <3> HIDE DEF whole, More, First
    <3> QED BY <1>1, <1>2, <2>1
  <2> HIDE DEF Up, whole
  <2> QED BY <2>2
<1>4. Follow(h, nx) = From[Shreds]
  BY DEF Follow
<1> HIDE DEF From, whole, More, First
<1>5. \A n \in Nat : n <= Shreds => From[n] = whole[n]
  <2> DEFINE S == {n \in Nat : n <= Shreds => From[n] = whole[n]}
  <2>1. 0 \in S
    <3>1. From[0] = First
      BY <1>0, <1>3
    <3> HIDE DEF Up
    <3> QED BY <1>1, <3>1
  <2>2. ASSUME NEW n \in Nat, n \in S PROVE n + 1 \in S
    <3> SUFFICES ASSUME n + 1 <= Shreds PROVE From[n + 1] = whole[n + 1]
      <4> HIDE DEF Up
      <4> QED OBVIOUS
    <3>1. From[n] = whole[n] /\ n + 1 \in 0 .. Shreds /\ n + 1 # 0 /\ (n + 1) - 1 = n
      <4> HIDE DEF Up
      <4> QED BY <2>2, <1>0
    <3>2. From[n + 1] = More(From[n])
      BY <1>3, <3>1
    <3>3. whole[n + 1] = More(whole[n])
      <4> HIDE DEF Up
      <4> QED BY <1>2, <3>1
    <3> QED BY <3>1, <3>2, <3>3
  <2> HIDE DEF S
  <2>3. \A n \in Nat : n \in S
    BY <2>1, <2>2, Induction
  <2> QED BY <2>3 DEF S
<1>6. From[Shreds] = Part(q, Shreds)
  <2>1. whole[Shreds] = Part(q, Shreds)
    BY <1>0 DEF whole
  <2> HIDE DEF Up
  <2> QED BY <1>0, <1>5, <2>1
<1>7. Part(q, Shreds) = q
  <2>1. ~(Shreds + 1 <= Len(q))
    BY <1>0
  <2>2. Part(q, Shreds) \in Seq(Shred) /\ Len(Part(q, Shreds)) = Len(q)
        /\ \A i \in 1 .. Len(q) : Part(q, Shreds)[i] = q[i]
    BY <1>0, <2>1, PartIs
  <2> QED BY <1>0, <2>2, SeqEqual
<1> QED BY <1>4, <1>6, <1>7

LEMMA InsertMembers ==
  ASSUME NEW S, NEW q \in Seq(S), NEW k \in 0 .. Len(q), NEW s \in S
  PROVE  \A x : Member(InsertAt(q, k + 1, s), x) <=> x = s \/ Member(q, x)
<1> DEFINE r == InsertAt(q, k + 1, s)
<1>1. /\ Len(q) \in Nat /\ k \in Nat /\ k <= Len(q) /\ Len(r) = Len(q) + 1
      /\ \A i \in 1 .. Len(q) + 1 : r[i] = IF i <= k THEN q[i] ELSE IF i = k + 1 THEN s ELSE q[i - 1]
  BY InsertIs
<1> HIDE DEF r
<1> SUFFICES ASSUME NEW x PROVE Member(r, x) <=> x = s \/ Member(q, x)
  BY DEF r
<1>2. ASSUME Member(r, x) PROVE x = s \/ Member(q, x)
  <2>1. PICK i \in 1 .. Len(r) : r[i] = x
    BY <1>2 DEF Member
  <2>2. CASE i <= k
    <3>1. i \in 1 .. Len(q) /\ q[i] = x
      BY <1>1, <2>1, <2>2
    <3> QED BY <3>1 DEF Member
  <2>3. CASE i = k + 1
    BY <1>1, <2>1, <2>3
  <2>4. CASE i > k + 1
    <3>1. i - 1 \in 1 .. Len(q) /\ q[i - 1] = x
      BY <1>1, <2>1, <2>4
    <3> QED BY <3>1 DEF Member
  <2> QED BY <1>1, <2>2, <2>3, <2>4
<1>3. Member(r, s)
  <2>1. k + 1 \in 1 .. Len(r) /\ r[k + 1] = s
    BY <1>1
  <2> QED BY <2>1 DEF Member
<1>4. ASSUME Member(q, x) PROVE Member(r, x)
  <2>1. PICK i \in 1 .. Len(q) : q[i] = x
    BY <1>4 DEF Member
  <2>2. CASE i <= k
    <3>1. i \in 1 .. Len(r) /\ r[i] = x
      BY <1>1, <2>1, <2>2
    <3> QED BY <3>1 DEF Member
  <2>3. CASE i > k
    <3>1. PICK m \in 1 .. Len(q) + 1 : m = i + 1
      BY <1>1
    <3>2. ~(m <= k) /\ m # k + 1 /\ m - 1 = i
      BY <1>1, <2>3, <3>1
    <3>3. r[m] = x /\ m \in 1 .. Len(r)
      BY <1>1, <2>1, <3>1, <3>2
    <3> QED BY <3>3 DEF Member
  <2> QED BY <1>1, <2>2, <2>3
<1> QED BY <1>2, <1>3, <1>4

LEMMA Inserted ==
  ASSUME NEW h, NEW nx, NEW pv, NEW q, Chain(h, nx, pv, q),
         NEW k \in 0 .. Len(q), NEW s \in Shred, ~Member(q, s),
         NEW p, p = (IF k = 0 THEN 0 ELSE q[k]),
         NEW n, n = (IF p = 0 THEN h ELSE nx[p]),
         NEW h2, h2 = (IF p = 0 THEN s ELSE h),
         NEW nx2, \A x \in Shred : nx2[x] = IF x = s THEN n ELSE IF x = p THEN s ELSE nx[x],
         NEW pv2, \A x \in Shred : pv2[x] = IF x = s THEN p ELSE IF x = n THEN s ELSE pv[x]
  PROVE  Chain(h2, nx2, pv2, InsertAt(q, k + 1, s))
<1> DEFINE r == InsertAt(q, k + 1, s)
<1>1. /\ q \in Seq(Shred) /\ Len(q) \in Nat
      /\ \A i \in 1 .. Len(q) : q[i] \in Shred /\ q[i] # 0 /\ q[i] # s
      /\ \A i, j \in 1 .. Len(q) : q[i] = q[j] => i = j
      /\ h = IF Len(q) = 0 THEN 0 ELSE q[1]
      /\ \A i \in 1 .. Len(q) : nx[q[i]] = IF i = Len(q) THEN 0 ELSE q[i + 1]
      /\ \A i \in 1 .. Len(q) : pv[q[i]] = IF i = 1 THEN 0 ELSE q[i - 1]
      /\ \A x \in Shred : ~Member(q, x) => nx[x] = 0 /\ pv[x] = 0
  <2>1. /\ q \in Seq(Shred) /\ Len(q) \in Nat
        /\ \A i \in 1 .. Len(q) : q[i] \in Shred /\ q[i] # 0
    BY ChainFacts
  <2>2. \A i \in 1 .. Len(q) : q[i] # s
    BY DEF Member
  <2>3. /\ \A i, j \in 1 .. Len(q) : q[i] = q[j] => i = j
        /\ h = IF Len(q) = 0 THEN 0 ELSE q[1]
        /\ \A i \in 1 .. Len(q) : nx[q[i]] = IF i = Len(q) THEN 0 ELSE q[i + 1]
        /\ \A i \in 1 .. Len(q) : pv[q[i]] = IF i = 1 THEN 0 ELSE q[i - 1]
        /\ \A x \in Shred : ~Member(q, x) => nx[x] = 0 /\ pv[x] = 0
    BY Zenon DEF Chain
  <2> QED BY <2>1, <2>2, <2>3, Zenon
<1>2. /\ r \in Seq(Shred) /\ Len(r) = Len(q) + 1
      /\ \A i \in 1 .. Len(q) + 1 : r[i] = IF i <= k THEN q[i] ELSE IF i = k + 1 THEN s ELSE q[i - 1]
  BY <1>1, InsertIs
<1> HIDE DEF r
<1>3. k \in Nat /\ k <= Len(q) /\ s # 0
  BY <1>1, Sizes0
<1>4. /\ n = IF k = Len(q) THEN 0 ELSE q[k + 1]
      /\ p = 0 <=> k = 0
      /\ n = 0 <=> k = Len(q)
  <2>1. CASE k = 0
    BY <1>1, <1>3, <2>1
  <2>2. CASE k # 0
    <3>1. k \in 1 .. Len(q) /\ p = q[k] /\ p # 0
      BY <1>1, <1>3, <2>2
    <3>2. n = IF k = Len(q) THEN 0 ELSE q[k + 1]
      BY <1>1, <3>1
    <3>3. k # Len(q) => k + 1 \in 1 .. Len(q)
      BY <1>1, <1>3
    <3> QED BY <1>1, <2>2, <3>1, <3>2, <3>3
  <2> QED BY <2>1, <2>2
<1>5. ASSUME NEW i \in 1 .. Len(r), NEW j \in 1 .. Len(r), r[i] = r[j] PROVE i = j
  <2>1. \A x \in 1 .. Len(r) : /\ x <= k => r[x] = q[x] /\ x \in 1 .. Len(q)
                               /\ x = k + 1 => r[x] = s
                               /\ x > k + 1 => r[x] = q[x - 1] /\ x - 1 \in 1 .. Len(q)
    BY <1>1, <1>2, <1>3
  <2>2. i <= k \/ i = k + 1 \/ i > k + 1
    BY <1>2, <1>3
  <2>3. j <= k \/ j = k + 1 \/ j > k + 1
    BY <1>2, <1>3
  <2>4. CASE i = k + 1
    <3>1. r[i] = s
      BY <2>1, <2>4
    <3> QED BY <1>1, <1>5, <2>1, <2>3, <2>4, <3>1
  <2>5. CASE j = k + 1
    <3>1. r[j] = s
      BY <2>1, <2>5
    <3>2. r[i] = s
      BY <1>5, <3>1, Zenon
    <3>3. ~(i <= k)
      BY <1>1, <2>1, <3>2
    <3>4. ~(i > k + 1)
      BY <1>1, <2>1, <3>2
    <3> QED BY <2>2, <2>5, <3>3, <3>4
  <2>6. CASE i # k + 1 /\ j # k + 1
    <3> DEFINE back(x) == IF x <= k THEN x ELSE x - 1
    <3>1. back(i) \in 1 .. Len(q) /\ r[i] = q[back(i)]
      BY <2>1, <2>2, <2>6
    <3>2. back(j) \in 1 .. Len(q) /\ r[j] = q[back(j)]
      BY <2>1, <2>3, <2>6
    <3>3. back(i) = back(j)
      <4> HIDE DEF back
      <4>1. q[back(i)] = q[back(j)]
        BY <1>5, <3>1, <3>2, Zenon
      <4>2. \A a, b \in 1 .. Len(q) : q[a] = q[b] => a = b
        BY <1>1, Zenon
      <4> QED BY <3>1, <3>2, <4>1, <4>2, Zenon
    <3> QED BY <1>3, <2>2, <2>3, <2>6, <3>3
  <2> QED BY <2>4, <2>5, <2>6
<1>6. h2 = IF Len(r) = 0 THEN 0 ELSE r[1]
  <2>1. Len(r) # 0 /\ 1 \in 1 .. Len(q) + 1
    BY <1>1, <1>2
  <2>2. r[1] = IF k = 0 THEN s ELSE q[1]
    BY <1>2, <1>3, <2>1
  <2> QED BY <1>1, <1>3, <1>4, <2>1, <2>2
<1>7. ASSUME NEW i \in 1 .. Len(r)
      PROVE  nx2[r[i]] = IF i = Len(r) THEN 0 ELSE r[i + 1]
  <2>1. CASE i < k
    <3>1. i \in 1 .. Len(q) /\ k \in 1 .. Len(q) /\ i # k /\ i # Len(q) /\ i # Len(r) /\ k # 0
      BY <1>1, <1>2, <1>3, <2>1
    <3>2. r[i] = q[i] /\ r[i + 1] = q[i + 1]
      BY <1>1, <1>2, <1>3, <2>1
    <3>3. q[i] # p /\ q[i] # s /\ q[i] \in Shred
      BY <1>1, <3>1
    <3>4. nx2[q[i]] = nx[q[i]]
      BY <3>3
    <3> QED BY <1>1, <3>1, <3>2, <3>4
  <2>2. CASE i = k
    <3>1. k \in 1 .. Len(q) /\ k # Len(r) /\ r[i] = p /\ r[i + 1] = s /\ p \in Shred /\ p # s
      BY <1>1, <1>2, <1>3, <2>2
    <3> QED BY <2>2, <3>1
  <2>3. CASE i = k + 1
    <3>1. r[i] = s /\ (i = Len(r) <=> k = Len(q))
      BY <1>1, <1>2, <1>3, <2>3
    <3>2. i # Len(r) => r[i + 1] = q[k + 1]
      BY <1>1, <1>2, <1>3, <2>3
    <3> QED BY <1>4, <3>1, <3>2
  <2>4. CASE i > k + 1
    <3>1. PICK j \in 1 .. Len(q) : j = i - 1
      BY <1>1, <1>2, <1>3, <2>4
    <3>2. r[i] = q[j] /\ (i = Len(r) <=> j = Len(q)) /\ j > k
      BY <1>1, <1>2, <1>3, <2>4, <3>1
    <3>3. i # Len(r) => r[i + 1] = q[j + 1]
      <4> SUFFICES ASSUME i # Len(r) PROVE r[i + 1] = q[j + 1]
        OBVIOUS
      <4>0. i + 1 \in 1 .. Len(q) + 1
        <5>1. Len(r) = Len(q) + 1 /\ Len(q) \in Nat /\ i \in 1 .. Len(r)
          BY <1>1, <1>2, Zenon
        <5> QED BY <5>1
      <4>1. PICK m \in 1 .. Len(q) + 1 : m = i + 1
        BY <4>0
      <4>2. ~(m <= k) /\ m # k + 1 /\ m - 1 = j + 1
        BY <1>3, <2>4, <3>1, <4>1
      <4>3. r[m] = q[m - 1]
        BY <1>2, <4>1, <4>2
      <4> QED BY <4>1, <4>2, <4>3
    <3>4. q[j] # s /\ q[j] # p /\ q[j] \in Shred
      <4>1. k # 0 => k \in 1 .. Len(q) /\ p = q[k] /\ k # j
        BY <1>1, <1>3, <3>2
      <4> QED BY <1>1, <4>1
    <3> QED BY <1>1, <3>2, <3>3, <3>4
  <2> QED BY <1>2, <1>3, <2>1, <2>2, <2>3, <2>4
<1>8. ASSUME NEW i \in 1 .. Len(r)
      PROVE  pv2[r[i]] = IF i = 1 THEN 0 ELSE r[i - 1]
  <2>1. CASE i <= k
    <3>1. i \in 1 .. Len(q) /\ r[i] = q[i] /\ (i # 1 => r[i - 1] = q[i - 1])
      BY <1>1, <1>2, <1>3, <2>1
    <3>2. q[i] # s /\ q[i] # n /\ q[i] \in Shred
      <4>1. k # Len(q) => k + 1 \in 1 .. Len(q) /\ i # k + 1
        BY <1>1, <1>3, <2>1
      <4> QED BY <1>1, <1>4, <3>1, <4>1
    <3> QED BY <1>1, <3>1, <3>2
  <2>2. CASE i = k + 1
    <3>1. r[i] = s /\ (i = 1 <=> k = 0) /\ (k # 0 => r[i - 1] = q[k])
      BY <1>1, <1>2, <1>3, <2>2
    <3> QED BY <3>1
  <2>3. CASE i = k + 2
    <3>1. k # Len(q) /\ r[i] = q[k + 1] /\ r[i - 1] = s /\ i # 1 /\ k + 1 \in 1 .. Len(q)
      BY <1>1, <1>2, <1>3, <2>3
    <3>2. q[k + 1] = n /\ n # s /\ n \in Shred
      BY <1>1, <1>4, <3>1
    <3> QED BY <3>1, <3>2
  <2>4. CASE i > k + 2
    <3>1. PICK j \in 1 .. Len(q) : j = i - 1
      BY <1>1, <1>2, <1>3, <2>4
    <3>2. r[i] = q[j] /\ r[i - 1] = q[j - 1] /\ i # 1 /\ j # 1 /\ j > k + 1
      BY <1>1, <1>2, <1>3, <2>4, <3>1
    <3>3. q[j] # s /\ q[j] # n /\ q[j] \in Shred
      <4>1. k # Len(q) => k + 1 \in 1 .. Len(q) /\ j # k + 1
        BY <1>1, <1>3, <3>2
      <4> QED BY <1>1, <1>4, <4>1
    <3> QED BY <1>1, <3>2, <3>3
  <2> QED BY <1>2, <1>3, <2>1, <2>2, <2>3, <2>4
<1>9. \A x : Member(r, x) <=> x = s \/ Member(q, x)
  BY <1>1, InsertMembers DEF r
<1>10. ASSUME NEW x \in Shred, ~Member(r, x) PROVE nx2[x] = 0 /\ pv2[x] = 0
  <2>1. x # s /\ ~Member(q, x)
    BY <1>9, <1>10
  <2>2. x # p /\ x # n
    <3>1. k # 0 => k \in 1 .. Len(q) /\ p = q[k]
      BY <1>1, <1>3
    <3>2. k # Len(q) => k + 1 \in 1 .. Len(q) /\ n = q[k + 1]
      BY <1>1, <1>3, <1>4
    <3> QED BY <1>3, <1>4, <2>1, <3>1, <3>2, Sizes0 DEF Member
  <2> QED BY <1>1, <2>1, <2>2
<1> QED BY <1>2, <1>5, <1>6, <1>7, <1>8, <1>10 DEF Chain, r

LEMMA Removed ==
  ASSUME NEW h, NEW nx, NEW pv, NEW q, Chain(h, nx, pv, q),
         NEW k \in 1 .. Len(q), NEW s, s = q[k],
         NEW h2, h2 = (IF pv[s] = 0 THEN nx[s] ELSE h),
         NEW nx2, \A x \in Shred : nx2[x] = IF x = s THEN 0 ELSE IF x = pv[s] THEN nx[s] ELSE nx[x],
         NEW pv2, \A x \in Shred : pv2[x] = IF x = s THEN 0 ELSE IF x = nx[s] THEN pv[s] ELSE pv[x]
  PROVE  Chain(h2, nx2, pv2, RemoveAt(q, k))
<1> DEFINE r == RemoveAt(q, k)
<1>1. /\ q \in Seq(Shred) /\ Len(q) \in Nat
      /\ \A i \in 1 .. Len(q) : q[i] \in Shred /\ q[i] # 0
  BY ChainFacts
<1>2. /\ \A i, j \in 1 .. Len(q) : q[i] = q[j] => i = j
      /\ h = IF Len(q) = 0 THEN 0 ELSE q[1]
      /\ \A i \in 1 .. Len(q) : nx[q[i]] = IF i = Len(q) THEN 0 ELSE q[i + 1]
      /\ \A i \in 1 .. Len(q) : pv[q[i]] = IF i = 1 THEN 0 ELSE q[i - 1]
      /\ \A x \in Shred : ~Member(q, x) => nx[x] = 0 /\ pv[x] = 0
  BY Zenon DEF Chain
<1>3. /\ r \in Seq(Shred) /\ Len(r) = Len(q) - 1
      /\ \A i \in 1 .. Len(q) - 1 : r[i] = IF i < k THEN q[i] ELSE q[i + 1]
  BY <1>1, RemoveIs
<1> HIDE DEF r
<1>4. k \in Nat /\ 1 <= k /\ k <= Len(q) /\ s \in Shred /\ s # 0
  BY <1>1
<1>5. /\ nx[s] = IF k = Len(q) THEN 0 ELSE q[k + 1]
      /\ pv[s] = IF k = 1 THEN 0 ELSE q[k - 1]
      /\ k # Len(q) => k + 1 \in 1 .. Len(q)
      /\ k # 1 => k - 1 \in 1 .. Len(q)
  BY <1>1, <1>2, <1>4
<1>6. \A j \in 1 .. Len(q) : /\ q[j] = s <=> j = k
                             /\ q[j] = nx[s] <=> k # Len(q) /\ j = k + 1
                             /\ q[j] = pv[s] <=> k # 1 /\ j = k - 1
  <2> SUFFICES ASSUME NEW j \in 1 .. Len(q)
               PROVE /\ q[j] = s <=> j = k
                     /\ q[j] = nx[s] <=> k # Len(q) /\ j = k + 1
                     /\ q[j] = pv[s] <=> k # 1 /\ j = k - 1
    OBVIOUS
  <2>1. q[j] = s <=> j = k
    BY <1>2
  <2>2. q[j] = nx[s] <=> k # Len(q) /\ j = k + 1
    <3>1. CASE k = Len(q)
      BY <1>1, <1>5, <3>1
    <3>2. CASE k # Len(q)
      <4>1. PICK m \in 1 .. Len(q) : m = k + 1
        BY <1>5, <3>2
      <4> QED BY <1>2, <1>5, <3>2, <4>1
    <3> QED BY <3>1, <3>2
  <2>3. q[j] = pv[s] <=> k # 1 /\ j = k - 1
    <3>1. CASE k = 1
      BY <1>1, <1>5, <3>1
    <3>2. CASE k # 1
      <4>1. PICK m \in 1 .. Len(q) : m = k - 1
        BY <1>5, <3>2
      <4> QED BY <1>2, <1>5, <3>2, <4>1
    <3> QED BY <3>1, <3>2
  <2> QED BY <2>1, <2>2, <2>3
\* Where the i-th of what is left was.
<1> DEFINE was(i) == IF i < k THEN i ELSE i + 1
<1>7. \A i \in 1 .. Len(r) : was(i) \in 1 .. Len(q) /\ was(i) # k /\ r[i] = q[was(i)]
  BY <1>1, <1>3, <1>4
<1>8. ASSUME NEW i \in 1 .. Len(r), NEW j \in 1 .. Len(r), r[i] = r[j] PROVE i = j
  <2>1. was(i) = was(j)
    <3> HIDE DEF was
    <3>1. q[was(i)] = q[was(j)] /\ was(i) \in 1 .. Len(q) /\ was(j) \in 1 .. Len(q)
      BY <1>7, <1>8
    <3> QED BY <1>2, <3>1
  <2> QED BY <1>3, <1>4, <2>1
<1>9. h2 = IF Len(r) = 0 THEN 0 ELSE r[1]
  <2>1. CASE k = 1
    <3>1. h2 = nx[s]
      BY <1>5, <2>1
    <3>2. CASE Len(q) = 1
      BY <1>3, <1>5, <2>1, <3>1, <3>2
    <3>3. CASE Len(q) # 1
      <4>1. 1 \in 1 .. Len(q) - 1 /\ ~(1 < k) /\ Len(r) # 0 /\ k + 1 = 1 + 1
        BY <1>1, <1>3, <1>4, <2>1, <3>3
      <4>2. r[1] = q[1 + 1]
        BY <1>3, <4>1
      <4> QED BY <1>5, <2>1, <3>1, <3>3, <4>1, <4>2
    <3> QED BY <3>2, <3>3
  <2>2. CASE k # 1
    <3>1. 1 \in 1 .. Len(q) - 1 /\ 1 < k /\ Len(r) # 0 /\ Len(q) # 0
      BY <1>1, <1>3, <1>4, <2>2
    <3>2. r[1] = q[1]
      BY <1>3, <3>1
    <3>3. pv[s] # 0
      BY <1>1, <1>5, <2>2
    <3> QED BY <1>2, <3>1, <3>2, <3>3
  <2> QED BY <2>1, <2>2
<1>10. ASSUME NEW i \in 1 .. Len(r)
       PROVE  nx2[r[i]] = IF i = Len(r) THEN 0 ELSE r[i + 1]
  <2>0. PICK j \in 1 .. Len(q) : j = was(i)
    BY <1>7
  <2>1. r[i] = q[j] /\ j # k /\ q[j] \in Shred /\ q[j] # s
    <3> HIDE DEF was
    <3> QED BY <1>1, <1>6, <1>7, <2>0
  <2>2. nx2[r[i]] = IF q[j] = pv[s] THEN nx[s] ELSE nx[q[j]]
    BY <2>1
  <2>3. i # Len(r) => i + 1 \in 1 .. Len(r)
    BY <1>1, <1>3
  <2>4. CASE k # 1 /\ j = k - 1
    <3>1. nx2[r[i]] = nx[s]
      BY <1>6, <2>2, <2>4
    <3>2. (i = Len(r) <=> k = Len(q)) /\ (i # Len(r) => was(i + 1) = k + 1)
      BY <1>1, <1>3, <1>4, <2>0, <2>4
    <3>3. i # Len(r) => r[i + 1] = q[k + 1]
      <4> HIDE DEF was
      <4> QED BY <1>7, <2>3, <3>2
    <3> QED BY <1>5, <3>1, <3>2, <3>3
  <2>5. CASE ~(k # 1 /\ j = k - 1)
    <3>1. nx2[r[i]] = IF j = Len(q) THEN 0 ELSE q[j + 1]
      BY <1>2, <1>6, <2>2, <2>5
    <3>2. (i = Len(r) <=> j = Len(q)) /\ (i # Len(r) => was(i + 1) = j + 1)
      BY <1>1, <1>3, <1>4, <2>0, <2>1, <2>5
    <3>3. i # Len(r) => r[i + 1] = q[j + 1]
      <4> HIDE DEF was
      <4> QED BY <1>7, <2>3, <3>2
    <3> QED BY <3>1, <3>2, <3>3
  <2> QED BY <2>4, <2>5
<1>11. ASSUME NEW i \in 1 .. Len(r)
       PROVE  pv2[r[i]] = IF i = 1 THEN 0 ELSE r[i - 1]
  <2>0. PICK j \in 1 .. Len(q) : j = was(i)
    BY <1>7
  <2>1. r[i] = q[j] /\ j # k /\ q[j] \in Shred /\ q[j] # s
    <3> HIDE DEF was
    <3> QED BY <1>1, <1>6, <1>7, <2>0
  <2>2. pv2[r[i]] = IF q[j] = nx[s] THEN pv[s] ELSE pv[q[j]]
    BY <2>1
  <2>3. i # 1 => i - 1 \in 1 .. Len(r)
    BY <1>1, <1>3
  <2>4. CASE k # Len(q) /\ j = k + 1
    <3>1. pv2[r[i]] = pv[s]
      BY <1>6, <2>2, <2>4
    <3>2. (i = 1 <=> k = 1) /\ (i # 1 => was(i - 1) = k - 1)
      BY <1>1, <1>3, <1>4, <2>0, <2>4
    <3>3. i # 1 => r[i - 1] = q[k - 1]
      <4> HIDE DEF was
      <4> QED BY <1>7, <2>3, <3>2
    <3> QED BY <1>5, <3>1, <3>2, <3>3
  <2>5. CASE ~(k # Len(q) /\ j = k + 1)
    <3>1. pv2[r[i]] = IF j = 1 THEN 0 ELSE q[j - 1]
      BY <1>2, <1>6, <2>2, <2>5
    <3>2. (i = 1 <=> j = 1) /\ (i # 1 => was(i - 1) = j - 1)
      BY <1>1, <1>3, <1>4, <2>0, <2>1, <2>5
    <3>3. i # 1 => r[i - 1] = q[j - 1]
      <4> HIDE DEF was
      <4> QED BY <1>7, <2>3, <3>2
    <3> QED BY <3>1, <3>2, <3>3
  <2> QED BY <2>4, <2>5
<1>12. ASSUME NEW x \in Shred, ~Member(r, x) PROVE nx2[x] = 0 /\ pv2[x] = 0
  <2>1. CASE x = s
    BY <1>4, <2>1
  <2>2. CASE x # s
    <3>1. ~Member(q, x)
      <4> SUFFICES ASSUME NEW j \in 1 .. Len(q), q[j] = x PROVE FALSE
        BY DEF Member
      <4>1. j # k
        BY <2>2
      <4>2. PICK i \in 1 .. Len(r) : was(i) = j
        <5>1. CASE j < k
          <6>1. j \in 1 .. Len(r) /\ was(j) = j
            BY <1>3, <1>4, <5>1
          <6> QED BY <6>1
        <5>2. CASE ~(j < k)
          <6>1. j - 1 \in 1 .. Len(r) /\ was(j - 1) = j
            BY <1>3, <1>4, <4>1, <5>2
          <6> QED BY <6>1
        <5> QED BY <5>1, <5>2
      <4>3. r[i] = x
        <5> HIDE DEF was
        <5> QED BY <1>7, <4>2
      <4> QED BY <1>12, <4>3 DEF Member
    <3>2. x # pv[s] /\ x # nx[s]
      <4>1. x # 0
        BY Sizes0
      <4> QED BY <1>5, <3>1, <4>1 DEF Member
    <3> QED BY <1>2, <2>2, <3>1, <3>2
  <2> QED BY <2>1, <2>2
<1> QED BY <1>3, <1>8, <1>9, <1>10, <1>11, <1>12 DEF Chain, r

LEMMA Taken ==
  ASSUME NEW h, NEW nx, NEW pv, NEW q, Chain(h, nx, pv, q), h # 0,
         NEW nx2, \A x \in Shred : nx2[x] = IF x = h THEN 0 ELSE nx[x],
         NEW pv2, \A x \in Shred : pv2[x] = IF x \in {h, nx[h]} THEN 0 ELSE pv[x]
  PROVE  /\ Chain(nx[h], nx2, pv2, Tail(q))
         /\ q # <<>> /\ h = q[1] /\ 1 \in 1 .. Len(q) /\ RemoveAt(q, 1) = Tail(q)
<1>1. /\ q \in Seq(Shred) /\ Len(q) \in Nat /\ Len(q) # 0 /\ q # <<>>
      /\ 1 \in 1 .. Len(q)
  BY ChainFacts
<1>2. h = q[1] /\ pv[h] = 0 /\ h \in Shred
  BY <1>1, ChainFacts DEF Chain
<1>3. RemoveAt(q, 1) = Tail(q)
  <2>1. /\ RemoveAt(q, 1) \in Seq(Shred) /\ Len(RemoveAt(q, 1)) = Len(q) - 1
        /\ \A i \in 1 .. Len(q) - 1 : RemoveAt(q, 1)[i] = IF i < 1 THEN q[i] ELSE q[i + 1]
    BY <1>1, RemoveIs
  <2>2. /\ Tail(q) \in Seq(Shred) /\ Len(Tail(q)) = Len(q) - 1
        /\ \A i \in 1 .. Len(q) - 1 : Tail(q)[i] = q[i + 1]
    BY <1>1, HeadTailProperties, Zenon
  <2>3. \A i \in 1 .. Len(q) - 1 : RemoveAt(q, 1)[i] = Tail(q)[i]
    BY <2>1, <2>2
  <2> QED BY <2>1, <2>2, <2>3, SeqEqual
<1>4. \A x \in Shred : nx2[x] = IF x = h THEN 0 ELSE IF x = pv[h] THEN nx[h] ELSE nx[x]
  BY <1>2, Sizes0
<1>5. \A x \in Shred : pv2[x] = IF x = h THEN 0 ELSE IF x = nx[h] THEN pv[h] ELSE pv[x]
  BY <1>2
<1>6. nx[h] = IF pv[h] = 0 THEN nx[h] ELSE h
  BY <1>2
<1>7. Chain(nx[h], nx2, pv2, RemoveAt(q, 1))
  BY <1>1, <1>2, <1>4, <1>5, <1>6, Removed
<1> QED BY <1>1, <1>2, <1>3, <1>7

LEMMA Members ==
  ASSUME NEW S, NEW q \in Seq(S)
  PROVE  \A s : s \in ToSet(q) <=> Member(q, s)
<1>1. DOMAIN q = 1 .. Len(q)
  BY LenProperties
<1> QED BY <1>1 DEF ToSet, Member

LEMMA RemoveMembers ==
  ASSUME NEW S, NEW q \in Seq(S), NEW k \in 1 .. Len(q),
         \A i, j \in 1 .. Len(q) : q[i] = q[j] => i = j
  PROVE  \A x : Member(RemoveAt(q, k), x) <=> x # q[k] /\ Member(q, x)
<1> DEFINE r == RemoveAt(q, k)
           was(i) == IF i < k THEN i ELSE i + 1
<1> HIDE DEF r, was
<1>1. /\ Len(q) \in Nat /\ k \in Nat /\ 1 <= k /\ k <= Len(q) /\ Len(r) = Len(q) - 1
      /\ \A i \in 1 .. Len(q) - 1 : r[i] = IF i < k THEN q[i] ELSE q[i + 1]
  <2>1. Len(q) \in Nat /\ k \in Nat /\ 1 <= k /\ k <= Len(q)
    OBVIOUS
  <2>2. /\ Len(RemoveAt(q, k)) = Len(q) - 1
        /\ \A i \in 1 .. Len(q) - 1 : RemoveAt(q, k)[i] = IF i < k THEN q[i] ELSE q[i + 1]
    BY RemoveIs
  <2> QED BY <2>1, <2>2, Zenon DEF r
<1> USE DEF was
<1> SUFFICES ASSUME NEW x PROVE Member(r, x) <=> x # q[k] /\ Member(q, x)
  BY DEF r
<1>2. \A i \in 1 .. Len(r) : was(i) \in 1 .. Len(q) /\ was(i) # k /\ r[i] = q[was(i)]
  BY <1>1
<1>3. \A j \in 1 .. Len(q) : j # k => \E i \in 1 .. Len(r) : was(i) = j
  <2> SUFFICES ASSUME NEW j \in 1 .. Len(q), j # k PROVE \E i \in 1 .. Len(r) : was(i) = j
    OBVIOUS
  <2>1. CASE j < k
    <3>1. j \in 1 .. Len(r) /\ was(j) = j
      BY <1>1, <2>1
    <3> QED BY <3>1
  <2>2. CASE ~(j < k)
    <3>1. j - 1 \in 1 .. Len(r) /\ was(j - 1) = j
      BY <1>1, <2>2
    <3> QED BY <3>1
  <2> QED BY <2>1, <2>2
<1> HIDE DEF was
<1>4. ASSUME Member(r, x) PROVE x # q[k] /\ Member(q, x)
  <2>1. PICK i \in 1 .. Len(r) : r[i] = x
    BY <1>4 DEF Member
  <2>2. was(i) \in 1 .. Len(q) /\ was(i) # k /\ q[was(i)] = x
    BY <1>2, <2>1
  <2> QED BY <2>2 DEF Member
<1>5. ASSUME x # q[k], Member(q, x) PROVE Member(r, x)
  <2>1. PICK j \in 1 .. Len(q) : q[j] = x
    BY <1>5 DEF Member
  <2>2. PICK i \in 1 .. Len(r) : was(i) = j
    BY <1>3, <1>5, <2>1
  <2>3. r[i] = x
    BY <1>2, <2>1, <2>2
  <2> QED BY <2>3 DEF Member
<1> QED BY <1>4, <1>5

-----------------------------------------------------------------------------
(* Whom the list holds, and when they wake.                                *)

\* Sorted by wake time.
Ranked(q, w) == \A i, j \in 1 .. Len(q) : i <= j => w[q[i]] <= w[q[j]]

Resting(q, w) == \A s \in Shred : ~Member(q, s) => w[s] = 0

\* k of the queue wake at t or before, and they are the first.
Ahead(q, w, t, k) ==
  /\ k \in 0 .. Len(q)
  /\ \A j \in 1 .. Len(q) : j <= k <=> w[q[j]] <= t

LEMMA RankedInsert ==
  ASSUME NEW q \in Seq(Shred), NEW w \in [Shred -> Int], NEW t \in Int, NEW k, NEW s \in Shred,
         Ranked(q, w), Resting(q, w), Ahead(q, w, t, k), ~Member(q, s)
  PROVE  LET r == InsertAt(q, k + 1, s)
             v == [w EXCEPT ![s] = t] IN Ranked(r, v) /\ Resting(r, v)
<1> DEFINE r == InsertAt(q, k + 1, s)
           v == [w EXCEPT ![s] = t]
<1>1. /\ Len(q) \in Nat /\ k \in 0 .. Len(q) /\ k \in Nat
      /\ \A i \in 1 .. Len(q) : q[i] \in Shred
      /\ \A j \in 1 .. Len(q) : j <= k <=> w[q[j]] <= t
  BY ElementOfSeq DEF Ahead
<1>2. /\ r \in Seq(Shred) /\ Len(r) = Len(q) + 1
      /\ \A i \in 1 .. Len(q) + 1 : r[i] = IF i <= k THEN q[i] ELSE IF i = k + 1 THEN s ELSE q[i - 1]
  <2>1. k \in 0 .. Len(q)
    BY <1>1, Zenon
  <2> HIDE DEF r, v
  <2>2. r = InsertAt(q, k + 1, s)
    BY DEF r
  <2>3. /\ InsertAt(q, k + 1, s) \in Seq(Shred) /\ Len(InsertAt(q, k + 1, s)) = Len(q) + 1
        /\ \A i \in 1 .. Len(q) + 1 :
             InsertAt(q, k + 1, s)[i] = IF i <= k THEN q[i] ELSE IF i = k + 1 THEN s ELSE q[i - 1]
    BY <2>1, InsertIs
  <2> QED BY <2>2, <2>3, Zenon
<1>3. \A x : Member(r, x) <=> x = s \/ Member(q, x)
  <2>1. k \in 0 .. Len(q)
    BY <1>1, Zenon
  <2> QED BY <2>1, InsertMembers
<1> HIDE DEF r
<1>4. /\ v \in [Shred -> Int] /\ v[s] = t
      /\ \A x \in Shred : x # s => v[x] = w[x]
      /\ \A i \in 1 .. Len(q) : v[q[i]] = w[q[i]]
  <2>1. \A i \in 1 .. Len(q) : q[i] # s
    BY DEF Member
  <2> QED BY <1>1, <2>1
<1> HIDE DEF v
<1>5. Resting(r, v)
  BY <1>3, <1>4 DEF Resting
<1>6. ASSUME NEW i \in 1 .. Len(r), NEW j \in 1 .. Len(r), i <= j
      PROVE  v[r[i]] <= v[r[j]]
  <2>1. \A x \in 1 .. Len(r) :
          /\ x <= k => r[x] = q[x] /\ x \in 1 .. Len(q) /\ v[r[x]] <= t /\ v[r[x]] = w[q[x]]
          /\ x = k + 1 => v[r[x]] = t
          /\ x > k + 1 => r[x] = q[x - 1] /\ x - 1 \in 1 .. Len(q) /\ t <= v[r[x]] /\ v[r[x]] = w[q[x - 1]]
    <3> SUFFICES ASSUME NEW x \in 1 .. Len(r)
                 PROVE /\ x <= k => r[x] = q[x] /\ x \in 1 .. Len(q) /\ v[r[x]] <= t /\ v[r[x]] = w[q[x]]
                       /\ x = k + 1 => v[r[x]] = t
                       /\ x > k + 1 => r[x] = q[x - 1] /\ x - 1 \in 1 .. Len(q) /\ t <= v[r[x]] /\ v[r[x]] = w[q[x - 1]]
      OBVIOUS
    <3>1. CASE x <= k
      <4>1. x \in 1 .. Len(q) /\ r[x] = q[x] /\ x # k + 1 /\ ~(x > k + 1)
        BY <1>1, <1>2, <3>1
      <4>2. v[q[x]] = w[q[x]] /\ w[q[x]] <= t
        BY <1>1, <1>4, <3>1, <4>1
      <4> QED BY <3>1, <4>1, <4>2, Zenon
    <3>2. CASE x = k + 1
      <4>1. ~(x <= k) /\ ~(x > k + 1) /\ r[x] = s
        BY <1>1, <1>2, <3>2
      <4> QED BY <1>4, <4>1
    <3>3. CASE x > k + 1
      <4>1. PICK y \in 1 .. Len(q) : y = x - 1
        BY <1>1, <1>2, <3>3
      <4>2. r[x] = q[y] /\ ~(y <= k)
        BY <1>1, <1>2, <3>3, <4>1
      <4>3. w[q[y]] \in Int /\ ~(w[q[y]] <= t) /\ v[q[y]] = w[q[y]]
        BY <1>1, <1>4, <4>2
      <4> QED BY <1>1, <3>3, <4>1, <4>2, <4>3
    <3> QED BY <1>1, <1>2, <3>1, <3>2, <3>3
  <2>2. v[r[i]] \in Int /\ v[r[j]] \in Int
    BY <1>2, <1>4, ElementOfSeq
  <2>3. CASE i <= k /\ j <= k
    <3>1. w[q[i]] <= w[q[j]]
      BY <1>6, <2>1, <2>3 DEF Ranked
    <3> QED BY <2>1, <2>3, <3>1
  <2>4. CASE i > k + 1
    <3>1. PICK x \in 1 .. Len(q) : x = i - 1
      BY <2>1, <2>4
    <3>2. PICK y \in 1 .. Len(q) : y = j - 1
      BY <1>1, <1>6, <2>1, <2>4
    <3>3. x <= y /\ v[r[i]] = w[q[x]] /\ v[r[j]] = w[q[y]]
      BY <1>1, <1>6, <2>1, <2>4, <3>1, <3>2
    <3> QED BY <3>3 DEF Ranked
  <2>5. CASE i <= k + 1 /\ ~(j <= k)
    <3>1. v[r[i]] <= t
      BY <1>1, <2>1, <2>5
    <3>2. t <= v[r[j]]
      <4>1. CASE j = k + 1
        <5>1. v[r[j]] = t
          BY <2>1, <4>1
        <5> QED BY <5>1
      <4>2. CASE j # k + 1
        <5>1. j > k + 1
          <6>1. j \in Nat /\ k \in Nat
            BY <1>1, <1>2
          <6> QED BY <2>5, <4>2, <6>1
        <5> QED BY <2>1, <5>1
      <4> QED BY <4>1, <4>2
    <3> QED BY <2>2, <3>1, <3>2
  <2> QED BY <1>1, <1>2, <1>6, <2>3, <2>4, <2>5
<1>7. Ranked(r, v)
  BY <1>6 DEF Ranked
<1> QED BY <1>5, <1>7 DEF r, v

LEMMA RankedRemove ==
  ASSUME NEW q \in Seq(Shred), NEW w \in [Shred -> Int], NEW k \in 1 .. Len(q),
         \A i, j \in 1 .. Len(q) : q[i] = q[j] => i = j,
         Ranked(q, w), Resting(q, w)
  PROVE  LET r == RemoveAt(q, k)
             v == [w EXCEPT ![q[k]] = 0] IN Ranked(r, v) /\ Resting(r, v)
<1> DEFINE r == RemoveAt(q, k)
           v == [w EXCEPT ![q[k]] = 0]
           was(i) == IF i < k THEN i ELSE i + 1
<1>1. /\ Len(q) \in Nat /\ k \in Nat /\ 1 <= k /\ k <= Len(q) /\ Len(r) = Len(q) - 1
      /\ \A i \in 1 .. Len(q) - 1 : r[i] = IF i < k THEN q[i] ELSE q[i + 1]
      /\ \A i \in 1 .. Len(q) : q[i] \in Shred
  BY RemoveIs, ElementOfSeq
<1>2. \A x : Member(r, x) <=> x # q[k] /\ Member(q, x)
  BY RemoveMembers
<1> HIDE DEF r
<1>3. /\ v[q[k]] = 0 /\ \A x \in Shred : x # q[k] => v[x] = w[x]
      /\ \A i \in 1 .. Len(q) : i # k => v[q[i]] = w[q[i]]
  <2>1. \A i \in 1 .. Len(q) : i # k => q[i] # q[k]
    OBVIOUS
  <2> QED BY <1>1, <2>1
<1> HIDE DEF v
<1>4. Resting(r, v)
  BY <1>2, <1>3 DEF Resting
<1>5. \A i \in 1 .. Len(r) : was(i) \in 1 .. Len(q) /\ was(i) # k /\ r[i] = q[was(i)]
  BY <1>1
<1>6. ASSUME NEW i \in 1 .. Len(r), NEW j \in 1 .. Len(r), i <= j
      PROVE  v[r[i]] <= v[r[j]]
  <2>1. was(i) <= was(j)
    BY <1>1, <1>6
  <2> HIDE DEF was
  <2>2. /\ was(i) \in 1 .. Len(q) /\ v[r[i]] = w[q[was(i)]]
        /\ was(j) \in 1 .. Len(q) /\ v[r[j]] = w[q[was(j)]]
    BY <1>3, <1>5
  <2> QED BY <2>1, <2>2 DEF Ranked
<1>7. Ranked(r, v)
  BY <1>6 DEF Ranked
<1> QED BY <1>4, <1>7 DEF r, v

-----------------------------------------------------------------------------
(* What the operations of the shreduler do to the list.                    *)

LEMMA MaxOfFirst ==
  ASSUME NEW k \in Nat, k # 0
  PROVE  Max(1 .. k) = k
<1>1. k \in 1 .. k /\ \A y \in 1 .. k : k >= y
  OBVIOUS
<1>2. \A x \in 1 .. k : (\A y \in 1 .. k : x >= y) => x = k
  OBVIOUS
<1> QED BY <1>1, <1>2 DEF Max

LEMMA QueueIs == Queue = Follow(shred_list, next) /\ Queue' = Follow(shred_list', next')
BY DEF Queue, Follow

\* The place of who wakes at t.
LEMMA Place ==
  ASSUME Queue \in Seq(Shred), wake_time \in [Shred -> Int], Ranked(Queue, wake_time), NEW t \in Int
  PROVE  \E k : /\ Ahead(Queue, wake_time, t, k)
                /\ Before(t) = IF k = 0 THEN 0 ELSE Queue[k]
<1> DEFINE q == Queue
           passed == {i \in DOMAIN q : \A j \in 1 .. i : wake_time[q[j]] <= t}
<1>1. Before(t) = IF passed = {} THEN 0 ELSE q[Max(passed)]
  BY DEF Before
<1>2. /\ q \in Seq(Shred) /\ DOMAIN q = 1 .. Len(q) /\ Len(q) \in Nat
      /\ \A i \in 1 .. Len(q) : q[i] \in Shred /\ wake_time[q[i]] \in Int
      /\ \A i, j \in 1 .. Len(q) : i <= j => wake_time[q[i]] <= wake_time[q[j]]
  BY ElementOfSeq, LenProperties DEF Ranked
<1> DEFINE S == {i \in 1 .. Len(q) + 1 : i = Len(q) + 1 \/ ~(wake_time[q[i]] <= t)}
<1> HIDE DEF q
<1>3. PICK m \in S : \A i \in S : m <= i
  <2>1. S \in SUBSET Nat
    BY <1>2
  <2>2. Len(q) + 1 \in S
    BY <1>2
  <2> HIDE DEF S
  <2> QED BY <2>1, <2>2, Least
<1>4. PICK k \in 0 .. Len(q) : k = m - 1
  BY <1>2, <1>3
<1>5. \A j \in 1 .. Len(q) : j <= k <=> wake_time[q[j]] <= t
  <2> SUFFICES ASSUME NEW j \in 1 .. Len(q) PROVE j <= k <=> wake_time[q[j]] <= t
    OBVIOUS
  <2>1. CASE j <= k
    <3>1. ~(m <= j) /\ j \in 1 .. Len(q) + 1
      BY <1>2, <1>3, <1>4, <2>1
    <3>2. j \notin S
      BY <1>3, <3>1
    <3> QED BY <2>1, <3>1, <3>2
  <2>2. CASE ~(j <= k)
    <3>1. m \in 1 .. Len(q) /\ m <= j /\ m # Len(q) + 1
      BY <1>2, <1>3, <1>4, <2>2
    <3>2. ~(wake_time[q[m]] <= t)
      BY <1>3, <3>1
    <3>3. wake_time[q[m]] <= wake_time[q[j]] /\ wake_time[q[m]] \in Int /\ wake_time[q[j]] \in Int
      BY <1>2, <3>1
    <3> QED BY <2>2, <3>2, <3>3
  <2> QED BY <2>1, <2>2
<1>6. passed = 1 .. k
  <2> SUFFICES ASSUME NEW i PROVE i \in passed <=> i \in 1 .. k
    OBVIOUS
  <2>1. ASSUME i \in passed PROVE i \in 1 .. k
    <3>1. i \in 1 .. Len(q) /\ i \in 1 .. i /\ \A j \in 1 .. i : wake_time[q[j]] <= t
      BY <1>2, <2>1
    <3> QED BY <1>5, <3>1
  <2>2. ASSUME i \in 1 .. k PROVE i \in passed
    <3>1. i \in 1 .. Len(q) /\ \A j \in 1 .. i : j \in 1 .. Len(q) /\ j <= k
      BY <1>2, <1>4, <2>2
    <3> QED BY <1>2, <1>5, <3>1
  <2> QED BY <2>1, <2>2
<1> HIDE DEF passed
<1>7. Before(t) = IF k = 0 THEN 0 ELSE q[k]
  <2>1. CASE k = 0
    BY <1>1, <1>6, <2>1
  <2>2. CASE k # 0
    <3>1. k \in Nat /\ 1 .. k # {}
      <4>1. k \in Nat /\ 1 \in 1 .. k
        BY <1>2, <1>4, <2>2
      <4> QED BY <4>1
    <3>2. Max(passed) = k
      BY <1>6, <2>2, <3>1, MaxOfFirst
    <3> QED BY <1>1, <1>6, <2>2, <3>1, <3>2
  <2> QED BY <2>1, <2>2
<1>8. Ahead(q, wake_time, t, k)
  BY <1>5 DEF Ahead
<1> QED BY <1>7, <1>8 DEF q

Listing ==
  /\ shred_list \in Link
  /\ next \in [Shred -> Link]
  /\ prev \in [Shred -> Link]
  /\ wake_time \in [Shred -> Int]
  /\ Chain(shred_list, next, prev, Queue)
  /\ Ranked(Queue, wake_time)
  /\ Resting(Queue, wake_time)

LEMMA ListingFacts ==
  ASSUME Listing
  PROVE  /\ Queue \in Seq(Shred) /\ Len(Queue) \in Nat
         /\ \A i \in 1 .. Len(Queue) : Queue[i] \in Shred /\ wake_time[Queue[i]] \in Int
         /\ \A i, j \in 1 .. Len(Queue) : Queue[i] = Queue[j] => i = j
         /\ \A s : s \in Listed <=> Member(Queue, s)
         /\ Listed \subseteq Shred
         /\ shred_list = 0 <=> Queue = <<>>
         /\ Queue = <<>> <=> Len(Queue) = 0
         /\ shred_list # 0 => 1 \in 1 .. Len(Queue) /\ shred_list = Queue[1] /\ shred_list \in Listed
<1>1. Chain(shred_list, next, prev, Queue) /\ wake_time \in [Shred -> Int]
  BY DEF Listing
<1>2. /\ Queue \in Seq(Shred) /\ Len(Queue) \in Nat
      /\ \A i \in 1 .. Len(Queue) : Queue[i] \in Shred
      /\ shred_list = 0 <=> Queue = <<>>
      /\ Queue = <<>> <=> Len(Queue) = 0
  BY <1>1, ChainFacts
<1>3. \A i, j \in 1 .. Len(Queue) : Queue[i] = Queue[j] => i = j
  BY <1>1, Zenon DEF Chain
<1>4. \A s : s \in Listed <=> Member(Queue, s)
  BY <1>2, Members DEF Listed
<1>5. Listed \subseteq Shred
  BY <1>2, <1>4 DEF Member
<1>6. ASSUME shred_list # 0
      PROVE  1 \in 1 .. Len(Queue) /\ shred_list = Queue[1] /\ shred_list \in Listed
  <2>1. 1 \in 1 .. Len(Queue) /\ Len(Queue) # 0
    BY <1>2, <1>6
  <2>2. shred_list = Queue[1]
    BY <1>1, <2>1, Zenon DEF Chain
  <2> QED BY <1>4, <2>1, <2>2 DEF Member
<1> QED BY <1>1, <1>2, <1>3, <1>4, <1>5, <1>6

LEMMA Untouched ==
  ASSUME Listing, UNCHANGED list
  PROVE  Listing' /\ Queue' = Queue /\ Listed' = Listed
<1>1. Queue' = Queue
  BY QueueIs DEF list
<1> QED BY <1>1 DEF Listing, Listed, list, Link

LEMMA ShreduleStep ==
  ASSUME Listing, NEW s \in Shred, s \notin Listed, NEW t \in Int, Shredule(s, t)
  PROVE  /\ Listing'
         /\ t < -1 => /\ refused' = refused \cup {s}
                      /\ UNCHANGED list
                      /\ Queue' = Queue /\ Listed' = Listed
         /\ ~(t < -1) =>
              /\ refused' = refused
              /\ wake_time' = [wake_time EXCEPT ![s] = t]
              /\ Listed' = Listed \cup {s}
              /\ \E k : Ahead(Queue, wake_time, t, k) /\ Queue' = InsertAt(Queue, k + 1, s)
<1>1. /\ Queue \in Seq(Shred)
      /\ ~Member(Queue, s)
      /\ \A x : x \in Listed <=> Member(Queue, x)
  BY ListingFacts
<1>2. next[s] = 0 /\ prev[s] = 0
  BY <1>1 DEF Listing, Chain
<1>3. CASE t < -1
  <2>1. refused' = refused \cup {s} /\ UNCHANGED list
    BY <1>3 DEF Shredule
  <2> QED BY <1>3, <2>1, Untouched
<1>4. CASE ~(t < -1)
  <2> DEFINE p == Before(t)
             n == IF p = 0 THEN shred_list ELSE next[p]
  <2>1. /\ shred_list' = IF p = 0 THEN s ELSE shred_list
        /\ next' = [i \in Shred |-> CASE i = s -> n [] i = p -> s [] OTHER -> next[i]]
        /\ prev' = [i \in Shred |-> CASE i = s -> p [] i = n -> s [] OTHER -> prev[i]]
        /\ wake_time' = [wake_time EXCEPT ![s] = t]
        /\ refused' = refused
    BY <1>2, <1>4 DEF Shredule
  <2>2. PICK k : /\ Ahead(Queue, wake_time, t, k)
                 /\ p = IF k = 0 THEN 0 ELSE Queue[k]
    BY <1>1, Place DEF Listing
  <2> HIDE DEF p
  <2>3. k \in 0 .. Len(Queue)
    BY <2>2 DEF Ahead
  <2>4. p \in Link /\ n \in Link /\ p # s /\ n # s /\ s # 0
    <3>1. /\ shred_list \in Link /\ next \in [Shred -> Link]
          /\ \A i \in 1 .. Len(Queue) : Queue[i] \in Shred /\ Queue[i] # 0 /\ Queue[i] # s
          /\ Len(Queue) \in Nat /\ s # 0
      <4>1. shred_list \in Link /\ next \in [Shred -> Link] /\ Chain(shred_list, next, prev, Queue)
        BY DEF Listing
      <4>2. Len(Queue) \in Nat /\ \A i \in 1 .. Len(Queue) : Queue[i] \in Shred /\ Queue[i] # 0
        BY <4>1, ChainFacts
      <4>3. \A i \in 1 .. Len(Queue) : Queue[i] # s
        BY <1>1 DEF Member
      <4> QED BY <4>1, <4>2, <4>3, Sizes0
    <3>2. p \in Link /\ p # s
      BY <2>2, <2>3, <3>1, Sizes0
    <3>3. n \in Link
      BY <3>1, <3>2, Sizes0
    <3>4. n # s
      <4>1. CASE p = 0
        <5>1. shred_list = 0 \/ (1 \in 1 .. Len(Queue) /\ shred_list = Queue[1])
          BY ListingFacts
        <5> QED BY <3>1, <4>1, <5>1
      <4>2. CASE p # 0
        <5>1. k \in 1 .. Len(Queue) /\ p = Queue[k]
          BY <2>2, <2>3, <3>1, <4>2
        <5>2. next[p] = IF k = Len(Queue) THEN 0 ELSE Queue[k + 1]
          BY <5>1, Zenon DEF Listing, Chain
        <5>3. k # Len(Queue) => k + 1 \in 1 .. Len(Queue)
          BY <3>1, <5>1
        <5> QED BY <3>1, <4>2, <5>2, <5>3
      <4> QED BY <4>1, <4>2
    <3> QED BY <3>1, <3>2, <3>3, <3>4
  <2>5. PICK m : m = n
    OBVIOUS
  <2>6. /\ m = IF p = 0 THEN shred_list ELSE next[p]
        /\ next' = [i \in Shred |-> CASE i = s -> m [] i = p -> s [] OTHER -> next[i]]
        /\ prev' = [i \in Shred |-> CASE i = s -> p [] i = m -> s [] OTHER -> prev[i]]
        /\ m \in Link /\ m # s
    BY <2>1, <2>4, <2>5
  <2> HIDE DEF n
  <2>7. /\ \A x \in Shred : next'[x] = IF x = s THEN m ELSE IF x = p THEN s ELSE next[x]
        /\ \A x \in Shred : prev'[x] = IF x = s THEN p ELSE IF x = m THEN s ELSE prev[x]
    BY <2>4, <2>6
  <2>8. /\ shred_list' \in Link /\ next' \in [Shred -> Link] /\ prev' \in [Shred -> Link]
        /\ wake_time' \in [Shred -> Int]
        /\ shred_list' # 0
    <3>1. s \in Link /\ Shred \subseteq Link
      BY DEF Link
    <3>2. shred_list' \in Link /\ shred_list' # 0
      <4>1. p # 0 => shred_list # 0
        <5>1. Len(Queue) = 0 => k = 0
          BY <2>3
        <5> QED BY <2>2, <5>1, ListingFacts
      <4> QED BY <2>1, <2>4, <3>1, <4>1 DEF Listing
    <3>3. \A x \in Shred : next'[x] \in Link /\ prev'[x] \in Link
      BY <2>4, <2>6, <2>7, <3>1 DEF Listing
    <3>4. /\ next' = [x \in Shred |-> next'[x]]
          /\ prev' = [x \in Shred |-> prev'[x]]
      BY <2>6
    <3>5. wake_time' \in [Shred -> Int]
      BY <2>1 DEF Listing
    <3> QED BY <3>2, <3>3, <3>4, <3>5
  <2> DEFINE r == InsertAt(Queue, k + 1, s)
  <2>9. Chain(shred_list', next', prev', r)
    <3>1. Chain(shred_list, next, prev, Queue)
      BY DEF Listing
    <3>2. ~Member(Queue, s) /\ k \in 0 .. Len(Queue)
      BY <1>1, <2>3
    <3>3. p = (IF k = 0 THEN 0 ELSE Queue[k])
      BY <2>2
    <3>4. m = (IF p = 0 THEN shred_list ELSE next[p])
      BY <2>6
    <3>5. shred_list' = (IF p = 0 THEN s ELSE shred_list)
      BY <2>1
    <3> HIDE DEF r
    <3>6. Chain(shred_list', next', prev', InsertAt(Queue, k + 1, s))
      BY <2>7, <3>1, <3>2, <3>3, <3>4, <3>5, Inserted
    <3> QED BY <3>6 DEF r
  <2>10. Queue' = r
    <3> HIDE DEF r
    <3> QED BY <2>9, Followed, QueueIs
  <2>11. Ranked(r, wake_time') /\ Resting(r, wake_time')
    BY <1>1, <2>1, <2>2, RankedInsert DEF Listing
  <2>12. Listing'
    <3> HIDE DEF r
    <3>1. Link' = Link
      BY DEF Link
    <3>2. Ranked(Queue, wake_time)' /\ Resting(Queue, wake_time)'
      BY <2>10, <2>11 DEF Ranked, Resting, Member, Shred
    <3> QED BY <2>8, <2>9, <2>10, <3>1, <3>2 DEF Listing
  <2>13. Listed' = Listed \cup {s}
    <3>1. \A x : Member(r, x) <=> x = s \/ Member(Queue, x)
      BY <1>1, <2>3, InsertMembers
    <3>2. r \in Seq(Shred)
      <4> HIDE DEF r
      <4> QED BY <2>9 DEF Chain
    <3>3. \A x : x \in ToSet(r) <=> Member(r, x)
      <4> HIDE DEF r
      <4> QED BY <3>2, Members
    <3>4. Listed' = ToSet(r)
      BY <2>10 DEF Listed
    <3> HIDE DEF r
    <3> QED BY <1>1, <3>1, <3>3, <3>4
  <2> QED BY <1>4, <2>1, <2>2, <2>8, <2>10, <2>12, <2>13
<1> QED BY <1>3, <1>4

LEMMA UnlinkStep ==
  ASSUME Listing, NEW s, s \in Listed, Unlink(s), wake_time' = [wake_time EXCEPT ![s] = 0]
  PROVE  /\ Listing'
         /\ Listed' = Listed \ {s}
         /\ \E k \in 1 .. Len(Queue) : Queue[k] = s /\ Queue' = RemoveAt(Queue, k)
<1>1. PICK k \in 1 .. Len(Queue) : Queue[k] = s
  BY ListingFacts DEF Member
<1>2. /\ Queue \in Seq(Shred) /\ Len(Queue) \in Nat
      /\ \A i \in 1 .. Len(Queue) : Queue[i] \in Shred
      /\ \A i, j \in 1 .. Len(Queue) : Queue[i] = Queue[j] => i = j
      /\ \A x : x \in Listed <=> Member(Queue, x)
  BY ListingFacts
<1>3. s \in Shred /\ s # 0
  BY <1>1, <1>2, Sizes0
<1>4. /\ shred_list' = (IF prev[s] = 0 THEN next[s] ELSE shred_list)
      /\ next' = [i \in Shred |-> CASE i = s -> 0 [] i = prev[s] -> next[s] [] OTHER -> next[i]]
      /\ prev' = [i \in Shred |-> CASE i = s -> 0 [] i = next[s] -> prev[s] [] OTHER -> prev[i]]
  BY DEF Unlink, PrevWithout
<1>5. /\ next[s] = (IF k = Len(Queue) THEN 0 ELSE Queue[k + 1])
      /\ prev[s] = (IF k = 1 THEN 0 ELSE Queue[k - 1])
  BY <1>1, Zenon DEF Listing, Chain
<1>6. next[s] # s /\ prev[s] # s
  <2>1. k # Len(Queue) => k + 1 \in 1 .. Len(Queue) /\ k + 1 # k
    BY <1>2
  <2>2. k # 1 => k - 1 \in 1 .. Len(Queue) /\ k - 1 # k
    BY <1>2
  <2> QED BY <1>1, <1>2, <1>3, <1>5, <2>1, <2>2
<1>7. /\ \A x \in Shred : next'[x] = IF x = s THEN 0 ELSE IF x = prev[s] THEN next[s] ELSE next[x]
      /\ \A x \in Shred : prev'[x] = IF x = s THEN 0 ELSE IF x = next[s] THEN prev[s] ELSE prev[x]
  BY <1>4, <1>6
<1> DEFINE r == RemoveAt(Queue, k)
<1>8. Chain(shred_list', next', prev', r)
  <2>1. Chain(shred_list, next, prev, Queue)
    BY DEF Listing
  <2>2. s = Queue[k]
    BY <1>1
  <2> HIDE DEF r
  <2>3. Chain(shred_list', next', prev', RemoveAt(Queue, k))
    BY <1>4, <1>7, <2>1, <2>2, Removed
  <2> QED BY <2>3 DEF r
<1>9. Queue' = r
  <2> HIDE DEF r
  <2> QED BY <1>8, Followed, QueueIs
<1>10. Ranked(r, wake_time') /\ Resting(r, wake_time')
  <2>1. wake_time \in [Shred -> Int] /\ Ranked(Queue, wake_time) /\ Resting(Queue, wake_time)
    BY DEF Listing
  <2>2. wake_time' = [wake_time EXCEPT ![Queue[k]] = 0]
    BY <1>1
  <2>3. Ranked(r, [wake_time EXCEPT ![Queue[k]] = 0]) /\ Resting(r, [wake_time EXCEPT ![Queue[k]] = 0])
    BY <1>2, <2>1, RankedRemove
  <2> QED BY <2>2, <2>3, Zenon
<1>11. /\ shred_list' \in Link /\ next' \in [Shred -> Link] /\ prev' \in [Shred -> Link]
       /\ wake_time' \in [Shred -> Int]
  <2>1. 0 \in Link
    BY DEF Link
  <2>2. shred_list \in Link /\ next[s] \in Link /\ prev[s] \in Link
    BY <1>3 DEF Listing
  <2>3. \A x \in Shred : next'[x] \in Link /\ prev'[x] \in Link
    BY <1>7, <2>1, <2>2 DEF Listing
  <2>4. /\ next' = [x \in Shred |-> next'[x]]
        /\ prev' = [x \in Shred |-> prev'[x]]
    BY <1>4
  <2>5. wake_time' \in [Shred -> Int]
    <3> HIDE DEF r
    <3> QED BY <1>3 DEF Listing
  <2> QED BY <1>4, <2>2, <2>3, <2>4, <2>5
<1>12. Listing'
  <2> HIDE DEF r
  <2>1. Link' = Link
    BY DEF Link
  <2>2. Ranked(Queue, wake_time)' /\ Resting(Queue, wake_time)'
    BY <1>9, <1>10 DEF Ranked, Resting, Member, Shred
  <2> QED BY <1>8, <1>9, <1>11, <2>1, <2>2 DEF Listing
<1>13. Listed' = Listed \ {s}
  <2>1. \A x : Member(r, x) <=> x # Queue[k] /\ Member(Queue, x)
    BY <1>2, RemoveMembers
  <2>2. r \in Seq(Shred)
    <3> HIDE DEF r
    <3> QED BY <1>8 DEF Chain
  <2>3. \A x : x \in ToSet(r) <=> Member(r, x)
    <3> HIDE DEF r
    <3> QED BY <2>2, Members
  <2>4. Listed' = ToSet(r)
    BY <1>9 DEF Listed
  <2> HIDE DEF r
  <2> QED BY <1>1, <1>2, <2>1, <2>3, <2>4
<1> QED BY <1>1, <1>9, <1>12, <1>13

LEMMA GetStep ==
  ASSUME Listing, Get
  PROVE  /\ Listing'
         /\ shred_list \in Listed /\ shred_list \in Shred /\ wake_time[shred_list] <= 1
         /\ Listed' = Listed \ {shred_list}
         /\ Queue # <<>> /\ Head(Queue) = shred_list /\ Queue' = Tail(Queue)
<1>1. /\ shred_list # 0 /\ wake_time[shred_list] <= 1
      /\ shred_list' = next[shred_list]
      /\ next' = [next EXCEPT ![shred_list] = 0]
      /\ prev' = [i \in Shred |-> IF i \in {shred_list, shred_list'} THEN 0 ELSE prev[i]]
      /\ wake_time' = [wake_time EXCEPT ![shred_list] = 0]
  BY DEF Get, IsDue
<1>2. /\ 1 \in 1 .. Len(Queue) /\ shred_list = Queue[1] /\ shred_list \in Listed /\ shred_list \in Shred
      /\ Queue # <<>> /\ Queue \in Seq(Shred)
      /\ \A i, j \in 1 .. Len(Queue) : Queue[i] = Queue[j] => i = j
      /\ \A x : x \in Listed <=> Member(Queue, x)
  BY <1>1, ListingFacts
<1>3. Head(Queue) = shred_list
  <2>1. Head(Queue) = Queue[1]
    BY <1>2
  <2> QED BY <1>2, <2>1
<1>4. next \in [Shred -> Link] /\ wake_time \in [Shred -> Int] /\ prev \in [Shred -> Link]
  BY DEF Listing
<1>5. /\ \A x \in Shred : next'[x] = IF x = shred_list THEN 0 ELSE next[x]
      /\ \A x \in Shred : prev'[x] = IF x \in {shred_list, next[shred_list]} THEN 0 ELSE prev[x]
  BY <1>1, <1>4
<1>6. /\ Chain(shred_list', next', prev', Tail(Queue))
      /\ RemoveAt(Queue, 1) = Tail(Queue)
  <2>1. Chain(shred_list, next, prev, Queue)
    BY DEF Listing
  <2>2. /\ Chain(next[shred_list], next', prev', Tail(Queue))
        /\ RemoveAt(Queue, 1) = Tail(Queue)
    <3>1. \A x \in Shred : next'[x] = IF x = shred_list THEN 0 ELSE next[x]
      BY <1>5
    <3>2. \A x \in Shred : prev'[x] = IF x \in {shred_list, next[shred_list]} THEN 0 ELSE prev[x]
      BY <1>5
    <3>3. shred_list # 0
      BY <1>1
    <3> QED BY <2>1, <3>1, <3>2, <3>3, Taken
  <2> QED BY <1>1, <2>2
<1>7. Queue' = Tail(Queue)
  BY <1>6, Followed, QueueIs
<1>8. Ranked(Tail(Queue), wake_time') /\ Resting(Tail(Queue), wake_time')
  <2>1. Ranked(Queue, wake_time) /\ Resting(Queue, wake_time)
    BY DEF Listing
  <2>2. wake_time' = [wake_time EXCEPT ![Queue[1]] = 0]
    BY <1>1, <1>2
  <2>3. PICK k \in 1 .. Len(Queue) : k = 1
    BY <1>2
  <2>4. /\ Ranked(RemoveAt(Queue, k), [wake_time EXCEPT ![Queue[k]] = 0])
        /\ Resting(RemoveAt(Queue, k), [wake_time EXCEPT ![Queue[k]] = 0])
    BY <1>2, <1>4, <2>1, RankedRemove
  <2> QED BY <1>6, <2>2, <2>3, <2>4, Zenon
<1>9. /\ shred_list' \in Link /\ next' \in [Shred -> Link] /\ prev' \in [Shred -> Link]
      /\ wake_time' \in [Shred -> Int]
  <2>1. 0 \in Link
    BY DEF Link
  <2> QED BY <1>1, <1>2, <1>4, <2>1
<1>10. Listing'
  <2>1. Link' = Link
    BY DEF Link
  <2>2. Ranked(Queue, wake_time)' /\ Resting(Queue, wake_time)'
    BY <1>7, <1>8 DEF Ranked, Resting, Member, Shred
  <2> QED BY <1>6, <1>7, <1>9, <2>1, <2>2 DEF Listing
<1>11. Listed' = Listed \ {shred_list}
  <2>1. \A x : Member(RemoveAt(Queue, 1), x) <=> x # Queue[1] /\ Member(Queue, x)
    <3>1. PICK k \in 1 .. Len(Queue) : k = 1
      BY <1>2
    <3>2. \A x : Member(RemoveAt(Queue, k), x) <=> x # Queue[k] /\ Member(Queue, x)
      BY <1>2, RemoveMembers
    <3> QED BY <3>1, <3>2
  <2>2. Tail(Queue) \in Seq(Shred)
    BY <1>6 DEF Chain
  <2>3. \A x : x \in ToSet(Tail(Queue)) <=> Member(Tail(Queue), x)
    BY <2>2, Members
  <2>4. Listed' = ToSet(Tail(Queue))
    BY <1>7 DEF Listed
  <2>5. \A x : x \in Listed' <=> x # shred_list /\ x \in Listed
    BY <1>2, <1>6, <2>1, <2>3, <2>4, Zenon
  <2> QED BY <2>5
<1> QED BY <1>1, <1>2, <1>3, <1>7, <1>10, <1>11

LEMMA PassStep ==
  ASSUME Listing, Advance
  PROVE  /\ Listing' /\ Queue' = Queue /\ Listed' = Listed
         /\ \A s \in Shred : wake_time'[s] = IF s \in Listed THEN wake_time[s] - 2 ELSE 0
<1>1. /\ wake_time' = [s \in Shred |-> IF s \in Listed THEN wake_time[s] - 2 ELSE 0]
      /\ shred_list' = shred_list /\ next' = next /\ prev' = prev
  BY DEF Advance
<1>2. Queue' = Queue
  BY <1>1, QueueIs
<1>3. wake_time \in [Shred -> Int] /\ wake_time' \in [Shred -> Int]
  <2>1. \A s \in Shred : wake_time[s] - 2 \in Int
    BY DEF Listing
  <2> QED BY <1>1, <2>1 DEF Listing
<1>4. /\ \A i \in 1 .. Len(Queue) : Queue[i] \in Shred /\ Queue[i] \in Listed /\ wake_time[Queue[i]] \in Int
      /\ \A s : s \in Listed <=> Member(Queue, s)
  BY ListingFacts DEF Member
<1>5. Ranked(Queue, wake_time')
  <2> SUFFICES ASSUME NEW i \in 1 .. Len(Queue), NEW j \in 1 .. Len(Queue), i <= j
               PROVE  wake_time'[Queue[i]] <= wake_time'[Queue[j]]
    BY DEF Ranked
  <2>1. wake_time[Queue[i]] <= wake_time[Queue[j]]
    BY DEF Listing, Ranked
  <2>2. /\ wake_time'[Queue[i]] = wake_time[Queue[i]] - 2
        /\ wake_time'[Queue[j]] = wake_time[Queue[j]] - 2
    BY <1>1, <1>4
  <2>3. wake_time[Queue[i]] \in Int /\ wake_time[Queue[j]] \in Int
    BY <1>4
  <2> QED BY <2>1, <2>2, <2>3
<1>6. Resting(Queue, wake_time')
  BY <1>1, <1>4 DEF Resting
<1>7. Listing'
  <2>1. Link' = Link
    BY DEF Link
  <2>2. Ranked(Queue, wake_time)' /\ Resting(Queue, wake_time)'
    BY <1>2, <1>5, <1>6 DEF Ranked, Resting, Member, Shred
  <2> QED BY <1>1, <1>2, <1>3, <2>1, <2>2 DEF Listing
<1> QED BY <1>1, <1>2, <1>7 DEF Listed

-----------------------------------------------------------------------------
(* Every shred is in one place, and every variable of its type.            *)

ListInv ==
  /\ Listing
  /\ blocked \cap Listed = {}
  /\ current \notin blocked \cup Listed

Counted ==
  /\ left \in 0 .. BufferFrames
  /\ pc # "idle" => left >= 1

LEMMA ListInit ==
  ASSUME Init
  PROVE  TypeOK /\ ListInv /\ Counted
<1>1. Shreds \in Nat /\ Shreds # 0 /\ BufferFrames \in Nat /\ 0 \notin Shred
  BY Sizes0
<1>2. Chain(0, next, prev, <<>>)
  <2>1. <<>> \in Seq(Shred) /\ Len(<<>>) = 0
    OBVIOUS
  <2>2. 1 .. 0 = {}
    OBVIOUS
  <2> HIDE DEF Shred
  <2> QED BY <2>1, <2>2 DEF Chain, Init
<1>3. Queue = <<>>
  BY <1>2, Followed, QueueIs DEF Init
<1>4. Listed = {}
  <2>1. \A s : s \in ToSet(<<>>) <=> Member(<<>>, s)
    <3>1. <<>> \in Seq(Shred)
      OBVIOUS
    <3> QED BY <3>1, Members
  <2>2. \A s : ~Member(<<>>, s)
    BY DEF Member
  <2> QED BY <1>3, <2>1, <2>2 DEF Listed
<1>5. Ranked(Queue, wake_time) /\ Resting(Queue, wake_time)
  BY <1>3 DEF Ranked, Resting, Init
<1>6. Listing
  BY <1>2, <1>3, <1>5 DEF Listing, Init, Link
<1>7. TypeOK
  <2>1. /\ shred_list \in Link /\ current \in Link /\ left \in 0 .. BufferFrames
        /\ next \in [Shred -> Link] /\ prev \in [Shred -> Link] /\ wake_time \in [Shred -> Int]
        /\ now \in Int
    BY <1>1 DEF Init, Link
  <2> QED BY <2>1 DEF TypeOK, Init
<1> QED BY <1>1, <1>4, <1>6, <1>7 DEF ListInv, Counted, Init

\* Each step leaves the list a list.
LEMMA ListStep ==
  ASSUME TypeOK, ListInv, Counted, [Next]_vars
  PROVE  ListInv'
<1>0. /\ Listing /\ blocked \subseteq Shred /\ current \in Shred \cup {0} /\ now \in Int
      /\ refused \subseteq Shred /\ 0 \notin Shred /\ Listed \subseteq Shred
  BY ListingFacts, Sizes0 DEF ListInv, TypeOK, Link
<1>1. ASSUME NEW s \in Shred, Spork(s) PROVE ListInv'
  <2>1. /\ s \notin Listed /\ s \notin blocked /\ s # current /\ Shredule(s, 0)
        /\ UNCHANGED <<blocked, current>>
    BY <1>0, <1>1 DEF Spork, Exist
  <2>2. Listing' /\ Listed' = Listed \cup {s}
    BY <1>0, <2>1, ShreduleStep
  <2> QED BY <2>1, <2>2 DEF ListInv
<1>2. ASSUME NEW s \in Shred, FreeShred(s) PROVE ListInv'
  <2>1. CASE s = current
    <3>1. UNCHANGED <<list, blocked, current>>
      BY <1>2, <2>1 DEF FreeShred
    <3>2. Listing' /\ Listed' = Listed
      BY <1>0, <3>1, Untouched
    <3> QED BY <3>1, <3>2 DEF ListInv
  <2>2. CASE s # current /\ s \in Listed
    <3>1. /\ Unlink(s) /\ wake_time' = [wake_time EXCEPT ![s] = 0]
          /\ blocked' = blocked \ {s} /\ current' = current
      BY <1>2, <2>2 DEF FreeShred
    <3>2. Listing' /\ Listed' = Listed \ {s}
      BY <1>0, <2>2, <3>1, UnlinkStep
    <3> QED BY <3>1, <3>2 DEF ListInv
  <2>3. CASE s # current /\ s \notin Listed
    <3>1. /\ UNCHANGED <<shred_list, next, prev, current>> /\ wake_time' = [wake_time EXCEPT ![s] = 0]
          /\ blocked' = blocked \ {s}
      BY <1>2, <2>3 DEF FreeShred
    <3>2. wake_time' = wake_time
      <4>1. wake_time \in [Shred -> Int] /\ wake_time[s] = 0
        BY <1>0, <2>3, ListingFacts DEF Listing, Resting
      <4> QED BY <3>1, <4>1
    <3>3. Listing' /\ Listed' = Listed
      BY <1>0, <3>1, <3>2, Untouched DEF list
    <3> QED BY <3>1, <3>3 DEF ListInv
  <2> QED BY <2>1, <2>2, <2>3
<1>3. ASSUME NEW s \in Shred, Signal(s) PROVE ListInv'
  <2>1. s \in blocked /\ blocked' = blocked \ {s} /\ Shredule(s, 0) /\ current' = current
    BY <1>3 DEF Signal
  <2>2. s \notin Listed /\ s # current
    BY <2>1 DEF ListInv
  <2>3. Listing' /\ Listed' = Listed \cup {s}
    BY <1>0, <2>1, <2>2, ShreduleStep
  <2> QED BY <2>1, <2>2, <2>3 DEF ListInv
<1>4. CASE Get
  <2>1. current = 0 /\ current' = shred_list /\ blocked' = blocked
    BY <1>4 DEF Get
  <2>2. Listing' /\ Listed' = Listed \ {shred_list} /\ shred_list \in Listed
    BY <1>0, <1>4, GetStep
  <2> QED BY <2>1, <2>2 DEF ListInv
<1>5. ASSUME NEW d \in Waits, TimeAdvance(d) PROVE ListInv'
  <2>1. current # 0 /\ current' = 0 /\ blocked' = blocked /\ Shredule(current, now + d)
    BY <1>5 DEF TimeAdvance, Runs
  <2>2. current \in Shred /\ now + d \in Int /\ current \notin Listed
    BY <1>0, <2>1, Sizes0 DEF ListInv
  <2>3. Listing' /\ (Listed' = Listed \/ Listed' = Listed \cup {current})
    BY <1>0, <2>1, <2>2, ShreduleStep
  <2> QED BY <1>0, <2>1, <2>2, <2>3 DEF ListInv
<1>6. CASE Advance
  <2>1. UNCHANGED <<blocked, current>>
    BY <1>6 DEF Advance
  <2>2. Listing' /\ Listed' = Listed
    BY <1>0, <1>6, PassStep
  <2> QED BY <2>1, <2>2 DEF ListInv
<1>7. CASE Wait
  <2>1. UNCHANGED list /\ blocked' = blocked \cup {current} /\ current' = 0 /\ current # 0
    BY <1>7 DEF Wait, Runs
  <2>2. Listing' /\ Listed' = Listed
    BY <1>0, <2>1, Untouched
  <2> QED BY <1>0, <2>1, <2>2 DEF ListInv
<1>8. ASSUME UNCHANGED <<list, blocked>>, current' \in {current, 0} PROVE ListInv'
  <2>1. Listing' /\ Listed' = Listed
    BY <1>0, <1>8, Untouched
  <2> QED BY <1>0, <1>8, <2>1 DEF ListInv
<1>9. CASE Finish
  BY <1>8, <1>9 DEF Finish, shredVars
<1>10. CASE (\E n \in Sizes : SetAdaptive(n)) \/ Run \/ RequestsDone \/ GetNone \/ MessagesDone \/ AdvanceV
  BY <1>8, <1>10 DEF SetAdaptive, Run, RequestsDone, GetNone, MessagesDone, AdvanceV, shredVars
<1>11. CASE Gone \/ UNCHANGED vars
  BY <1>8, <1>11 DEF Gone, vars, shredVars
<1> QED BY <1>1, <1>2, <1>3, <1>4, <1>5, <1>6, <1>7, <1>9, <1>10, <1>11 DEF Next, Step

\* And what it counts within its bounds.
LEMMA CountStep ==
  ASSUME TypeOK, ListInv, Counted, ListInv', [Next]_vars
  PROVE  TypeOK' /\ Counted'
<1>0. /\ Listing /\ blocked \subseteq Shred /\ current \in Shred \cup {0} /\ now \in Int
      /\ refused \subseteq Shred /\ 0 \notin Shred /\ Listed \subseteq Shred
      /\ wake_time \in [Shred -> Int]
      /\ shred_list # 0 => shred_list \in Listed
  BY ListingFacts, Sizes0 DEF ListInv, TypeOK, Link
<1>1. /\ shred_list' \in Link /\ next' \in [Shred -> Link] /\ prev' \in [Shred -> Link]
      /\ wake_time' \in [Shred -> Int]
  BY Sizes0 DEF ListInv, Listing, Link, Shred
<1> DEFINE Places == /\ current \in Shred \cup {0} /\ now \in Int
                     /\ blocked \subseteq Shred /\ refused \subseteq Shred
           Modes == /\ is_done \in BOOLEAN /\ iterate \in BOOLEAN
                    /\ max_block \in {0} \cup {Adaptive(n) : n \in Sizes}
                    /\ pc \in {"idle", "requests", "shreds", "messages", "advance", "crashed"}
                    /\ Counted
<1>2. Places /\ Modes
  BY <1>0 DEF TypeOK
<1>3. Places' /\ Modes' => TypeOK' /\ Counted'
  BY <1>1 DEF TypeOK, Link, Counted, Shred
<1>4. Places'
  <2>1. ASSUME UNCHANGED <<blocked, refused, current, now>> PROVE Places'
    BY <1>2, <2>1 DEF Shred
  <2>2. ASSUME NEW s \in Shred, s \notin Listed, NEW t \in Int, Shredule(s, t)
        PROVE  refused' \subseteq Shred
    <3>1. refused' = refused \/ refused' = refused \cup {s}
      BY <1>0, <2>2, ShreduleStep
    <3> QED BY <1>0, <3>1
  <2>3. ASSUME NEW s \in Shred, Spork(s) PROVE Places'
    <3>1. s \notin Listed /\ Shredule(s, 0) /\ UNCHANGED <<blocked, current, now>>
      BY <2>3 DEF Spork, Exist
    <3> QED BY <1>2, <2>2, <3>1 DEF Shred
  <2>4. ASSUME NEW s \in Shred, FreeShred(s) PROVE Places'
    BY <1>2, <2>4 DEF FreeShred, Shred
  <2>5. ASSUME NEW s \in Shred, Signal(s) PROVE Places'
    <3>1. s \notin Listed /\ Shredule(s, 0) /\ blocked' = blocked \ {s} /\ UNCHANGED <<current, now>>
      BY <2>5 DEF Signal, ListInv
    <3> QED BY <1>2, <2>2, <3>1 DEF Shred
  <2>6. CASE Get
    <3>1. /\ shred_list # 0 /\ current' = shred_list /\ now' = wake_time[shred_list]
          /\ UNCHANGED <<blocked, refused>>
      BY <2>6 DEF Get, IsDue
    <3> QED BY <1>0, <1>2, <3>1 DEF Shred
  <2>7. ASSUME NEW d \in Waits, TimeAdvance(d) PROVE Places'
    <3>1. /\ current # 0 /\ Shredule(current, now + d)
          /\ current' = 0 /\ now' = 0 /\ blocked' = blocked
      BY <2>7 DEF TimeAdvance, Runs
    <3>2. now + d \in Int /\ current \in Shred /\ current \notin Listed
      BY <1>0, <3>1, Sizes0 DEF ListInv
    <3> QED BY <1>2, <2>2, <3>1, <3>2 DEF Shred
  <2>8. CASE Wait
    <3>1. /\ blocked' = blocked \cup {current} /\ current \in Shred /\ current' = 0 /\ now' = 0
          /\ refused' = refused
      BY <1>0, <2>8 DEF Wait, Runs
    <3> QED BY <1>2, <3>1 DEF Shred
  <2>9. CASE Finish
    BY <1>2, <2>9 DEF Finish, shredVars, Shred
  <2>10. CASE \/ \E n \in Sizes : SetAdaptive(n)
              \/ Run \/ RequestsDone \/ GetNone \/ MessagesDone \/ Advance \/ AdvanceV
    BY <2>1, <2>10 DEF SetAdaptive, Run, RequestsDone, GetNone, MessagesDone, Advance, AdvanceV, shredVars
  <2>11. CASE Gone \/ UNCHANGED vars
    BY <2>1, <2>11 DEF Gone, vars, shredVars
  <2> HIDE DEF Places
  <2> QED BY <2>3, <2>4, <2>5, <2>6, <2>7, <2>8, <2>9, <2>10, <2>11 DEF Next, Step
<1>5. Modes'
  <2> HIDE DEF Places
  <2>1. ASSUME UNCHANGED <<max_block, pc, left>>, is_done' \in BOOLEAN, iterate' \in BOOLEAN
        PROVE  Modes'
    BY <1>2, <2>1 DEF Counted
  <2>2. CASE \E s \in Shred : Spork(s) \/ FreeShred(s) \/ Signal(s)
    BY <1>2, <2>1, <2>2 DEF Spork, FreeShred, Signal, Stays, Again
  <2>3. CASE Get \/ (\E d \in Waits : TimeAdvance(d)) \/ Wait \/ Finish
    BY <1>2, <2>1, <2>3 DEF Get, TimeAdvance, Wait, Finish, Stays
  <2>4. CASE Gone \/ UNCHANGED vars
    BY <1>2, <2>1, <2>4 DEF Gone, vars
  <2>5. CASE \E n \in Sizes : SetAdaptive(n)
    BY <1>2, <2>5 DEF SetAdaptive, Counted
  <2>6. CASE Run
    BY <1>2, <2>6, Sizes0 DEF Run, Counted
  <2>7. CASE RequestsDone \/ GetNone \/ MessagesDone \/ AdvanceV
    BY <1>2, <2>7 DEF RequestsDone, GetNone, MessagesDone, AdvanceV, Counted, ForNow
  <2>8. CASE Advance
    <3>1. left \in Nat /\ 1 <= left /\ left <= BufferFrames /\ BufferFrames \in Nat
      BY <1>2, <2>8, Sizes0 DEF Counted, Advance
    <3>2. /\ left' = left - 1 /\ pc' = (IF left' = 0 THEN "idle" ELSE "requests")
          /\ UNCHANGED <<is_done, max_block, iterate>>
      BY <2>8 DEF Advance
    <3>3. Counted'
      BY <3>1, <3>2 DEF Counted
    <3> QED BY <1>2, <3>2, <3>3
  <2> HIDE DEF Modes
  <2> QED BY <2>2, <2>3, <2>4, <2>5, <2>6, <2>7, <2>8 DEF Next, Step
<1> QED BY <1>3, <1>4, <1>5

LEMMA ShredulerInv == Spec => [](TypeOK /\ ListInv /\ Counted)
<1>1. Init => TypeOK /\ ListInv /\ Counted
  BY ListInit
<1>2. TypeOK /\ ListInv /\ Counted /\ [Next]_vars => (TypeOK /\ ListInv /\ Counted)'
  BY ListStep, CountStep
<1> QED BY <1>1, <1>2, PTL DEF Spec

\* Every variable of the shreduler keeps its type; in particular run_block's count of the
\* frames left of a block does not go below zero, whatever the wake times and waits.
THEOREM ShredulerTyped == Spec => []TypeOK
BY ShredulerInv, PTL

\* The next and prev of each shred agree and lead from shred_list to all that are in the
\* list, through shredule, remove and get, for any number of shreds and any waits.
THEOREM ShredulerLinksAgree == Spec => []LinksAgree
<1>1. ASSUME ListInv PROVE LinksAgree
  <2>1. Chain(shred_list, next, prev, Queue)
    BY <1>1 DEF ListInv, Listing
  <2>2. /\ Queue \in Seq(Shred)
        /\ \A i, j \in 1 .. Len(Queue) : Queue[i] = Queue[j] => i = j
        /\ \A s : s \in Listed <=> Member(Queue, s)
    BY <1>1, ListingFacts DEF ListInv
  <2>3. DOMAIN Queue = 1 .. Len(Queue)
    BY <2>2, LenProperties
  <2>4. IsInjective(Queue)
    BY <2>2, <2>3 DEF IsInjective
  <2>5. \A i \in DOMAIN Queue : prev[Queue[i]] = IF i = 1 THEN 0 ELSE Queue[i - 1]
    BY <2>1, <2>3, Zenon DEF Chain
  <2>6. \A s \in Shred \ Listed : next[s] = 0 /\ prev[s] = 0
    BY <2>1, <2>2 DEF Chain
  <2> QED BY <2>4, <2>5, <2>6 DEF LinksAgree
<1> QED BY <1>1, ShredulerInv, PTL

-----------------------------------------------------------------------------
(* Nobody is late: time passes only past nobody's wake time.               *)

Punctual ==
  /\ refused = {}
  /\ now >= 0
  /\ \A s \in Shred : wake_time[s] >= 0
  /\ pc = "advance" \/ (pc = "messages" /\ ~iterate) => ~IsDue

LEMMA NobodyPassed ==
  ASSUME TypeOK, ListInv, Punctual, Advance
  PROVE  /\ \A s \in Listed : wake_time[s] >= 2
         /\ \A s \in Shred : wake_time'[s] >= 0
<1>1. /\ Listing /\ wake_time \in [Shred -> Int]
      /\ Queue \in Seq(Shred)
      /\ \A s : s \in Listed <=> Member(Queue, s)
      /\ \A i \in 1 .. Len(Queue) : Queue[i] \in Shred /\ wake_time[Queue[i]] \in Int
      /\ Listed \subseteq Shred
      /\ shred_list = 0 <=> Queue = <<>>
      /\ Queue = <<>> <=> Len(Queue) = 0
      /\ shred_list # 0 => 1 \in 1 .. Len(Queue) /\ shred_list = Queue[1]
  <2>1. Listing /\ wake_time \in [Shred -> Int]
    BY DEF ListInv, TypeOK
  <2> QED BY <2>1, ListingFacts
<1>2. ~IsDue
  BY DEF Advance, Punctual
<1>3. ASSUME NEW s \in Listed PROVE wake_time[s] >= 2
  <2>1. PICK i \in 1 .. Len(Queue) : Queue[i] = s
    BY <1>1 DEF Member
  <2>2. shred_list # 0 /\ shred_list = Queue[1] /\ 1 \in 1 .. Len(Queue) /\ 1 <= i
    BY <1>1, <2>1
  <2>3. PICK first \in Int : first = wake_time[shred_list]
    BY <1>1, <2>2
  <2>4. first >= 2
    BY <1>2, <2>2, <2>3 DEF IsDue
  <2>5. wake_time[Queue[1]] <= wake_time[Queue[i]]
    BY <1>1, <2>1, <2>2 DEF Listing, Ranked
  <2>6. wake_time[s] \in Int /\ first <= wake_time[s]
    BY <1>1, <2>1, <2>2, <2>3, <2>5
  <2> QED BY <2>4, <2>6
<1>4. ASSUME NEW s \in Shred PROVE wake_time'[s] >= 0
  <2>1. wake_time'[s] = IF s \in Listed THEN wake_time[s] - 2 ELSE 0
    BY <1>1, PassStep
  <2>2. wake_time[s] \in Int
    BY <1>1
  <2> QED BY <1>3, <2>1, <2>2
<1> QED BY <1>3, <1>4

LEMMA PunctualStep ==
  ASSUME TypeOK, ListInv, Punctual, [Next]_vars
  PROVE  Punctual'
<1>0. /\ Listing /\ current \in Shred \cup {0} /\ now \in Int
      /\ refused = {} /\ 0 \notin Shred /\ Listed \subseteq Shred
      /\ wake_time \in [Shred -> Int]
      /\ shred_list # 0 => shred_list \in Listed
      /\ now >= 0
      /\ \A s \in Shred : wake_time[s] \in Int /\ wake_time[s] >= 0
  BY ListingFacts, Sizes0 DEF ListInv, TypeOK, Link, Punctual
<1>1. pc = "advance" \/ (pc = "messages" /\ ~iterate) => ~IsDue
  BY DEF Punctual
\* What is taken into the list.
<1>2. ASSUME NEW s \in Shred, s \notin Listed, NEW t \in Int, t >= 0, Shredule(s, t)
      PROVE  /\ refused' = {}
             /\ \A x \in Shred : wake_time'[x] >= 0
  <2>1. ~(t < -1)
    BY <1>2
  <2>2. /\ refused' = refused /\ wake_time' = [wake_time EXCEPT ![s] = t]
    BY <1>0, <1>2, <2>1, ShreduleStep
  <2>3. \A x \in Shred : wake_time'[x] >= 0
    BY <1>0, <1>2, <2>2
  <2> QED BY <1>0, <2>2, <2>3
<1>3. ASSUME NEW s \in Shred, Spork(s) PROVE Punctual'
  <2>1. /\ s \notin Listed /\ Shredule(s, 0) /\ Now
        /\ UNCHANGED <<now, iterate, pc>>
    BY <1>3 DEF Spork, Exist, Stays
  <2>2. ~(pc = "advance" \/ (pc = "messages" /\ ~iterate))
    BY <2>1 DEF Now
  <2>3. refused' = {} /\ \A x \in Shred : wake_time'[x] >= 0
    BY <1>2, <2>1
  <2> QED BY <1>0, <2>1, <2>2, <2>3 DEF Punctual, Shred
<1>4. ASSUME NEW s \in Shred, FreeShred(s) PROVE Punctual'
  <2>1. /\ UNCHANGED <<now, pc>>
        /\ iterate' = (iterate \/ pc = "messages") /\ pc # "advance"
    BY <1>4 DEF FreeShred, Now, Stays
  <2>2. refused' = {} /\ (wake_time' = wake_time \/ wake_time' = [wake_time EXCEPT ![s] = 0])
    BY <1>0, <1>4 DEF FreeShred, list
  <2>3. \A x \in Shred : wake_time'[x] >= 0
    BY <1>0, <2>2
  <2>4. ~(pc' = "advance" \/ (pc' = "messages" /\ ~iterate'))
    BY <2>1
  <2> QED BY <1>0, <2>1, <2>2, <2>3, <2>4 DEF Punctual, Shred
<1>5. ASSUME NEW s \in Shred, Signal(s) PROVE Punctual'
  <2>1. /\ s \notin Listed /\ Shredule(s, 0) /\ UNCHANGED <<now, pc>>
        /\ iterate' = (iterate \/ pc = "messages") /\ pc # "advance"
    BY <1>5 DEF Signal, ListInv, Again, Stays
  <2>2. ~(pc' = "advance" \/ (pc' = "messages" /\ ~iterate'))
    BY <2>1
  <2>3. refused' = {} /\ \A x \in Shred : wake_time'[x] >= 0
    BY <1>2, <2>1
  <2> QED BY <1>0, <2>1, <2>2, <2>3 DEF Punctual, Shred
<1>6. CASE Get
  <2>1. /\ pc = "shreds" /\ pc' = pc /\ refused' = refused
        /\ shred_list # 0
        /\ now' = wake_time[shred_list] /\ wake_time' = [wake_time EXCEPT ![shred_list] = 0]
    BY <1>6 DEF Get, IsDue, Stays
  <2>2. now' >= 0 /\ \A s \in Shred : wake_time'[s] >= 0
    BY <1>0, <2>1
  <2> QED BY <1>0, <2>1, <2>2 DEF Punctual, Shred
<1>7. ASSUME NEW d \in Waits, TimeAdvance(d) PROVE Punctual'
  <2>1. /\ current # 0 /\ Shredule(current, now + d) /\ now' = 0 /\ pc = "shreds" /\ pc' = pc
    BY <1>7 DEF TimeAdvance, Runs, Stays
  <2>2. now + d \in Int /\ now + d >= 0 /\ current \in Shred /\ current \notin Listed
    BY <1>0, <2>1, Sizes0 DEF ListInv
  <2>3. refused' = {} /\ \A x \in Shred : wake_time'[x] >= 0
    BY <1>2, <2>1, <2>2
  <2> QED BY <2>1, <2>3 DEF Punctual, Shred
\* The list stays as it is.
<1>8. ASSUME UNCHANGED <<list, refused>>, now' \in {now, 0},
             pc' = "advance" \/ (pc' = "messages" /\ ~iterate') => ~IsDue
      PROVE  Punctual'
  BY <1>0, <1>1, <1>8 DEF Punctual, Shred, list, IsDue
<1>9. CASE Wait \/ Finish \/ Run \/ RequestsDone \/ AdvanceV
  BY <1>8, <1>9 DEF Wait, Finish, Run, RequestsDone, AdvanceV, Runs, Stays, shredVars
<1>10. CASE GetNone
  BY <1>8, <1>10 DEF GetNone, shredVars
<1>11. CASE MessagesDone
  BY <1>1, <1>8, <1>11 DEF MessagesDone, shredVars
<1>12. CASE (\E n \in Sizes : SetAdaptive(n)) \/ Gone \/ UNCHANGED vars
  BY <1>1, <1>8, <1>12 DEF SetAdaptive, Gone, vars, shredVars
<1>13. CASE Advance
  <2>1. pc' \in {"idle", "requests"} /\ UNCHANGED <<refused, now>>
    BY <1>13 DEF Advance
  <2>2. \A s \in Shred : wake_time'[s] >= 0
    BY <1>13, NobodyPassed
  <2> QED BY <1>0, <2>1, <2>2 DEF Punctual, Shred
<1> QED BY <1>3, <1>4, <1>5, <1>6, <1>7, <1>9, <1>10, <1>11, <1>12, <1>13 DEF Next, Step

LEMMA PunctualInv == Spec => []Punctual
<1>1. Init => Punctual
  BY Sizes0 DEF Init, Punctual
<1>2. TypeOK /\ ListInv /\ Punctual /\ [Next]_vars => Punctual'
  BY PunctualStep
<1> QED BY <1>1, <1>2, ShredulerInv, PTL DEF Spec

\* No shred is in two of the places where the code looks for one, and shredule refuses none
\* for a time that is past.
THEOREM ShredulerInOnePlace == Spec => []InOnePlace
<1>1. ListInv /\ Punctual => InOnePlace
  BY DEF ListInv, Punctual, InOnePlace
<1> QED BY <1>1, ShredulerInv, PunctualInv, PTL

\* No shred is in the list when its time is past: before each advance compute has gone
\* round until get finds nobody who is due.
THEOREM ShredulerOnTime == Spec => []OnTime
<1>1. ASSUME TypeOK, ListInv, Punctual PROVE OnTime
  <2>1. Listed \subseteq Shred
    BY <1>1, ListingFacts DEF ListInv
  <2>2. \A s \in Shred : wake_time[s] \in Int /\ wake_time[s] >= 0
    BY <1>1 DEF TypeOK, Punctual
  <2> QED BY <2>1, <2>2 DEF OnTime
<1> QED BY <1>1, ShredulerInv, PunctualInv, PTL

-----------------------------------------------------------------------------
(* The list is the queue of module ReadyQueue.                             *)

LEMMA InsertRefines ==
  ASSUME Listing, NEW s \in Shred, s \notin Listed, NEW t \in Int, t >= 0, Shredule(s, t)
  PROVE  Ready!Next
<1>1. ~(t < -1)
  OBVIOUS
<1>2. /\ wake_time' = [wake_time EXCEPT ![s] = t]
      /\ \E k : Ahead(Queue, wake_time, t, k) /\ Queue' = InsertAt(Queue, k + 1, s)
  BY <1>1, ShreduleStep
<1>3. PICK k : Ahead(Queue, wake_time, t, k) /\ Queue' = InsertAt(Queue, k + 1, s)
  BY <1>2, Zenon
<1>4. /\ k \in 0 .. Len(Queue)
      /\ \A j \in 1 .. Len(Queue) : j <= k <=> wake_time[Queue[j]] <= t
  BY <1>3 DEF Ahead
<1>5. Queue' = Ready!InsertAt(Queue, k + 1, s)
  BY <1>3 DEF InsertAt, Ready!InsertAt
<1>6. s \notin Ready!ToSet(Queue)
  BY DEF Listed, ToSet, Ready!ToSet
<1>7. Ready!Insert(s, t)
  BY <1>2, <1>4, <1>5, <1>6, Zenon DEF Ready!Insert
<1>8. wake_time'[s] = t
  BY <1>2 DEF Listing
<1> QED BY <1>7, <1>8, Zenon DEF Ready!Next

LEMMA LeaveRefines ==
  ASSUME Listing, NEW s \in Listed, Unlink(s), wake_time' = [wake_time EXCEPT ![s] = 0]
  PROVE  Ready!Next
<1>1. PICK k \in 1 .. Len(Queue) : Queue[k] = s /\ Queue' = RemoveAt(Queue, k)
  BY UnlinkStep, Zenon
<1>2. Queue' = Ready!RemoveAt(Queue, k)
  BY <1>1 DEF RemoveAt, Ready!RemoveAt
<1>3. s \in Shred
  BY ListingFacts
<1>4. Ready!Leave(s)
  BY <1>1, <1>2, Zenon DEF Ready!Leave
<1> QED BY <1>3, <1>4, Zenon DEF Ready!Next

LEMMA TakeRefines ==
  ASSUME Listing, Get
  PROVE  Ready!Next
<1>1. /\ Queue # <<>> /\ Head(Queue) = shred_list /\ Queue' = Tail(Queue)
      /\ wake_time[shred_list] <= 1
  BY GetStep, Zenon
<1>2. wake_time' = [wake_time EXCEPT ![shred_list] = 0]
  BY DEF Get
<1>3. Ready!Take
  BY <1>1, <1>2, Zenon DEF Ready!Take, Ready!Due
<1> QED BY <1>3, Zenon DEF Ready!Next

LEMMA PassRefines ==
  ASSUME TypeOK, ListInv, Punctual, Advance
  PROVE  Ready!Next
<1>1. Ready!ToSet(Queue) = Listed
  BY DEF Listed, ToSet, Ready!ToSet
<1>2. Listed \subseteq Shred /\ wake_time \in [Shred -> Int] /\ Queue' = Queue
  BY ListingFacts, PassStep DEF ListInv, Listing
<1>3. ASSUME NEW s \in Listed PROVE ~(wake_time[s] <= 1)
  <2>1. wake_time[s] \in Int /\ wake_time[s] >= 2
    BY <1>2, NobodyPassed
  <2> QED BY <2>1
<1>4. wake_time' = [s \in Shred |-> IF s \in Listed THEN wake_time[s] - 2 ELSE 0]
  BY DEF Advance
<1>5. Ready!Pass
  BY <1>1, <1>2, <1>3, <1>4, Zenon DEF Ready!Pass, Ready!Due
<1> QED BY <1>5, Zenon DEF Ready!Next

LEMMA QueueRefines ==
  ASSUME TypeOK, ListInv, Punctual, [Next]_vars
  PROVE  Ready!Next \/ (Queue' = Queue /\ wake_time' = wake_time)
<1>0. /\ Listing /\ current \in Shred \cup {0} /\ now \in Int /\ now >= 0
  BY Sizes0 DEF ListInv, TypeOK, Link, Punctual
<1>1. ASSUME NEW s \in Shred, Spork(s) PROVE Ready!Next
  <2>1. s \notin Listed /\ Shredule(s, 0)
    BY <1>1 DEF Spork, Exist
  <2> QED BY <1>0, <2>1, InsertRefines
<1>2. ASSUME UNCHANGED list PROVE Queue' = Queue /\ wake_time' = wake_time
  BY <1>0, <1>2, Untouched DEF list
<1>3. ASSUME NEW s \in Shred, FreeShred(s)
      PROVE  Ready!Next \/ (Queue' = Queue /\ wake_time' = wake_time)
  <2>1. CASE s = current
    <3>1. UNCHANGED list
      BY <1>3, <2>1 DEF FreeShred
    <3> QED BY <1>2, <3>1
  <2>2. CASE s # current /\ s \in Listed
    <3>1. Unlink(s) /\ wake_time' = [wake_time EXCEPT ![s] = 0]
      BY <1>3, <2>2 DEF FreeShred
    <3> QED BY <1>0, <2>2, <3>1, LeaveRefines
  <2>3. CASE s # current /\ s \notin Listed
    <3>1. UNCHANGED <<shred_list, next, prev>> /\ wake_time' = [wake_time EXCEPT ![s] = 0]
      BY <1>3, <2>3 DEF FreeShred
    <3>2. wake_time' = wake_time
      <4>1. wake_time \in [Shred -> Int] /\ wake_time[s] = 0
        BY <1>0, <2>3, ListingFacts DEF Listing, Resting
      <4> QED BY <3>1, <4>1
    <3> QED BY <1>2, <3>1, <3>2 DEF list
  <2> QED BY <2>1, <2>2, <2>3
<1>4. ASSUME NEW s \in Shred, Signal(s) PROVE Ready!Next
  <2>1. s \notin Listed /\ Shredule(s, 0)
    BY <1>4 DEF Signal, ListInv
  <2> QED BY <1>0, <2>1, InsertRefines
<1>5. CASE Get
  BY <1>0, <1>5, TakeRefines
<1>6. ASSUME NEW d \in Waits, TimeAdvance(d) PROVE Ready!Next
  <2>1. current # 0 /\ Shredule(current, now + d)
    BY <1>6 DEF TimeAdvance, Runs
  <2>2. now + d \in Int /\ now + d >= 0 /\ current \in Shred /\ current \notin Listed
    BY <1>0, <2>1, Sizes0 DEF ListInv
  <2> QED BY <1>0, <2>1, <2>2, InsertRefines
<1>7. CASE Advance
  BY <1>7, PassRefines
<1>8. CASE \/ \E n \in Sizes : SetAdaptive(n)
           \/ Run \/ RequestsDone \/ GetNone \/ MessagesDone \/ Wait \/ Finish
           \/ AdvanceV \/ Gone \/ UNCHANGED vars
  <2>1. UNCHANGED list
    BY <1>8 DEF SetAdaptive, Run, RequestsDone, GetNone, MessagesDone, Wait, Finish, AdvanceV, Gone, vars, shredVars
  <2> QED BY <1>2, <2>1
<1> QED BY <1>1, <1>3, <1>4, <1>5, <1>6, <1>7, <1>8 DEF Next, Step

\* Following the links gives the stable queue by wake time of module ReadyQueue: a shred is
\* put behind all that are due no later, taken out without moving the rest, and time
\* passes only when nobody is due.
THEOREM ShredulerImplementsQueue == Spec => ImplementsQueue
<1>1. Init => Ready!Init
  <2> SUFFICES ASSUME Init PROVE Ready!Init
    OBVIOUS
  <2>1. Listing /\ shred_list = 0
    BY ListInit DEF ListInv, Init
  <2>2. Queue = <<>>
    BY <2>1, ListingFacts
  <2> QED BY <2>2 DEF Ready!Init, Init
<1>2. TypeOK /\ ListInv /\ Punctual /\ [Next]_vars => [Ready!Next]_<<Queue, wake_time>>
  BY QueueRefines
<1> QED BY <1>1, <1>2, ShredulerInv, PunctualInv, PTL DEF Spec, ImplementsQueue, Ready!Spec
=============================================================================
