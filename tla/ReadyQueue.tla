----------------------------- MODULE ReadyQueue -----------------------------
(***************************************************************************)
(* What the shreduler promises: shreds are run in the order of their wake  *)
(* times, those of the same time in the order in which they came, and time *)
(* passes only while nobody is due.                                        *)
(*                                                                         *)
(* Wake times are counted from now, in halves of a sample.                 *)
(***************************************************************************)
EXTENDS Integers, Sequences, SequencesExt

CONSTANT Shred

VARIABLES queue,        (* who waits for a time, in order                   *)
          wake          (* shred -> how far that is, 0 if it does not wait  *)

Due(s) == wake[s] <= 1

Init ==
  /\ queue = <<>>
  /\ wake = [s \in Shred |-> 0]

\* Behind all that are to wake then or earlier, before all that wake later.
Insert(s, t) ==
  /\ wake' = [wake EXCEPT ![s] = t]
  /\ s \notin ToSet(queue)
  /\ \E i \in 0 .. Len(queue) :
       /\ \A j \in 1 .. Len(queue) : j <= i <=> wake[queue[j]] <= t
       /\ queue' = InsertAt(queue, i + 1, s)

Take ==
  /\ queue # <<>>
  /\ Due(Head(queue))
  /\ queue' = Tail(queue)
  /\ wake' = [wake EXCEPT ![Head(queue)] = 0]

Leave(s) ==
  /\ wake' = [wake EXCEPT ![s] = 0]
  /\ \E i \in 1 .. Len(queue) : queue[i] = s /\ queue' = RemoveAt(queue, i)

\* A sample.
Pass ==
  /\ queue' = queue
  /\ \A s \in ToSet(queue) : ~Due(s)
  /\ wake' = [s \in Shred |-> IF s \in ToSet(queue) THEN wake[s] - 2 ELSE 0]

Next ==
  \/ \E s \in Shred : Insert(s, wake'[s]) \/ Leave(s)
  \/ Take
  \/ Pass

Spec == Init /\ [][Next]_<<queue, wake>>
=============================================================================
