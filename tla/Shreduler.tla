------------------------------ MODULE Shreduler ------------------------------
(***************************************************************************)
(* Chuck_VM_Shreduler: the doubly linked list of shreds that wait for a    *)
(* time, the set of those that wait for an event, and how Chuck_VM::run    *)
(* and compute advance time past them, a frame at a time.  Adaptive mode   *)
(* (message adaptive), which is to advance as many frames as fit, is off   *)
(* when the VM is made, so that none of its UGens has a vector to compute  *)
(* them into; m_samps_until_next, which only that mode reads, is left out. *)
(*                                                                         *)
(* Times are counted from now_system, in halves of a sample: 1 is the .5   *)
(* by which a shred may be early, -1 the .5 by which it may be late.       *)
(***************************************************************************)
EXTENDS Integers, Sequences, FiniteSets, FiniteSetsExt, SequencesExt

CONSTANTS Shreds,       (* how many there are at most                       *)
          Waits,        (* durations they wait, in halves of a sample       *)
          BufferFrames, (* frames of a block of Pd's: 64                    *)
          Sizes         (* what the message adaptive is sent with           *)

ASSUME ConstantsAssumption ==
  /\ {Shreds, BufferFrames} \subseteq Nat \ {0}
  /\ Waits \cup Sizes \subseteq Nat

VARIABLES shred_list,   (* the first of the list, 0 for none                *)
          next, prev,   (* its links, 0 for none                            *)
          wake_time,    (* 0 for who is not in the list                     *)
          blocked,      (* who waits for an event                           *)
          refused,      (* who was not taken into the list                  *)
          current,      (* m_current_shred, 0 for none                      *)
          now,          (* its own time, 0 for none                         *)
          is_done,      (* it was removed while it ran                      *)
          max_block,    (* m_max_block_size, 0 when not adaptive            *)
          pc,           (* "idle", and in run: "requests", "shreds",        *)
                        (* "messages", "advance"; "crashed"                 *)
          iterate,
          left          (* frames left of the block                         *)

list == <<shred_list, next, prev, wake_time>>
shredVars == <<list, blocked, refused>>
vars == <<shredVars, current, now, is_done, max_block, pc, iterate, left>>

Shred == 1 .. Shreds

Adaptive(n) == IF n > 1 THEN n ELSE 0

Init ==
  /\ shred_list = 0
  /\ next = [s \in Shred |-> 0]
  /\ prev = [s \in Shred |-> 0]
  /\ wake_time = [s \in Shred |-> 0]
  /\ blocked = {}
  /\ refused = {}
  /\ current = 0
  /\ now = 0
  /\ is_done = FALSE
  /\ max_block = 0
  /\ pc = "idle"
  /\ iterate = FALSE
  /\ left = 0

-----------------------------------------------------------------------------
(* The list *)

\* The list as it is met from its head on.
Queue ==
  LET from[n \in 0 .. Shreds] ==
        IF n = 0 THEN IF shred_list = 0 THEN <<>> ELSE <<shred_list>>
        ELSE LET q == from[n - 1] IN
             IF q = <<>> \/ next[Last(q)] = 0 THEN q ELSE Append(q, next[Last(q)])
  IN from[Shreds]

Listed == ToSet(Queue)

Exist == Listed \cup blocked \cup refused \cup ({current} \ {0})

\* The last of those before the first that wakes later.
\* Mutant: of those before the first that does not wake earlier.
Before_Earlier(t) ==
  LET q == Queue
      passed == {i \in DOMAIN q : \A j \in 1 .. i : wake_time[q[j]] < t} IN
  IF passed = {} THEN 0 ELSE q[Max(passed)]

Before(t) ==
  LET q == Queue
      passed == {i \in DOMAIN q : \A j \in 1 .. i : wake_time[q[j]] <= t} IN
  IF passed = {} THEN 0 ELSE q[Max(passed)]

\* Not when it has links, nor when the time is past.
Shredule(s, t) ==
  IF next[s] # 0 \/ prev[s] # 0 \/ t < -1
  THEN /\ refused' = refused \cup {s}
       /\ UNCHANGED list
  ELSE LET p == Before(t)
           n == IF p = 0 THEN shred_list ELSE next[p] IN
       /\ shred_list' = IF p = 0 THEN s ELSE shred_list
       /\ next' = [i \in Shred |-> CASE i = s -> n [] i = p -> s [] OTHER -> next[i]]
       /\ prev' = [i \in Shred |-> CASE i = s -> p [] i = n -> s [] OTHER -> prev[i]]
       /\ wake_time' = [wake_time EXCEPT ![s] = t]
       /\ UNCHANGED refused

\* Mutant: the follower keeps its link to the shred that has left.
PrevWithout_Kept(s) == [prev EXCEPT ![s] = 0]

PrevWithout(s) ==
  [i \in Shred |-> CASE i = s -> 0 [] i = next[s] -> prev[s] [] OTHER -> prev[i]]

Unlink(s) ==
  /\ shred_list' = IF prev[s] = 0 THEN next[s] ELSE shred_list
  /\ next' = [i \in Shred |-> CASE i = s -> 0 [] i = prev[s] -> next[s] [] OTHER -> next[i]]
  /\ prev' = PrevWithout(s)

\* Mutant: at its time only, not half a sample early or late.
IsDue_Exact == shred_list # 0 /\ wake_time[shred_list] = 0

IsDue == shred_list # 0 /\ wake_time[shred_list] <= 1

-----------------------------------------------------------------------------
(* What messages, requests and shreds do *)

Now == pc \in {"idle", "requests"} \/ (pc = "shreds" /\ current # 0)

Stays == UNCHANGED <<max_block, pc, left>>

\* add, run, eval, replace, Machine.add, spork.
Spork(s) ==
  /\ Now
  /\ s \notin Exist
  /\ Shredule(s, 0)
  /\ UNCHANGED <<blocked, current, now, is_done, iterate>>
  /\ Stays

\* By a message at any time, by a shred, which may be the one, or at the end of compute.
FreeShred(s) ==
  /\ Now \/ pc = "messages"
  /\ s \in Exist
  /\ IF s = current
     THEN is_done' = TRUE /\ UNCHANGED <<list, blocked, refused>>
     ELSE /\ blocked' = blocked \ {s}
          /\ refused' = refused \ {s}
          /\ wake_time' = [wake_time EXCEPT ![s] = 0]
          /\ IF s \in Listed THEN Unlink(s) ELSE UNCHANGED <<shred_list, next, prev>>
          /\ UNCHANGED is_done
  /\ iterate' = (iterate \/ pc = "messages")
  /\ UNCHANGED <<current, now>>
  /\ Stays

\* Broadcasts queued by other threads are looked at once more.
\* Mutant: they are not.
Again_Not == iterate

Again == iterate \/ pc = "messages"

\* signal_local, broadcast_local
Signal(s) ==
  /\ pc \in {"requests", "messages"} \/ (pc = "shreds" /\ current # 0)
  /\ s \in blocked
  /\ blocked' = blocked \ {s}
  /\ Shredule(s, 0)
  /\ iterate' = Again
  /\ UNCHANGED <<current, now, is_done>>
  /\ Stays

SetAdaptive(n) ==
  /\ pc = "idle"
  /\ max_block' = Adaptive(n)
  /\ UNCHANGED <<shredVars, current, now, is_done, pc, iterate, left>>

-----------------------------------------------------------------------------
(* Chuck_VM::run *)

Run ==
  /\ pc = "idle"
  /\ pc' = "requests"
  /\ left' = BufferFrames
  /\ UNCHANGED <<shredVars, current, now, is_done, max_block, iterate>>

RequestsDone ==
  /\ pc = "requests"
  /\ pc' = "shreds"
  /\ iterate' = TRUE
  /\ UNCHANGED <<shredVars, current, now, is_done, max_block, left>>

\* get, with somebody to run.
Get ==
  /\ pc = "shreds" /\ current = 0 /\ IsDue
  /\ current' = shred_list
  /\ shred_list' = next[shred_list]
  /\ next' = [next EXCEPT ![shred_list] = 0]
  /\ prev' = [i \in Shred |-> IF i \in {shred_list, shred_list'} THEN 0 ELSE prev[i]]
  /\ now' = wake_time[shred_list]
  /\ wake_time' = [wake_time EXCEPT ![shred_list] = 0]
  /\ is_done' = FALSE
  /\ UNCHANGED <<blocked, refused, iterate>>
  /\ Stays

Runs == pc = "shreds" /\ current # 0

\* From the shred's own time, which may be half a sample off.
TimeAdvance(d) ==
  /\ Runs /\ ~is_done
  /\ Shredule(current, now + d)
  /\ current' = 0
  /\ now' = 0
  /\ UNCHANGED <<blocked, is_done, iterate>>
  /\ Stays

Wait ==
  /\ Runs /\ ~is_done
  /\ blocked' = blocked \cup {current}
  /\ current' = 0
  /\ now' = 0
  /\ UNCHANGED <<list, refused, is_done, iterate>>
  /\ Stays

Finish ==
  /\ Runs
  /\ current' = 0
  /\ now' = 0
  /\ is_done' = FALSE
  /\ UNCHANGED <<shredVars, iterate>>
  /\ Stays

\* Mutant: what was once TRUE stays so.
ForNow_Not == iterate

ForNow == FALSE

\* get, with nobody.
GetNone ==
  /\ pc = "shreds" /\ current = 0 /\ ~IsDue
  /\ pc' = "messages"
  /\ iterate' = ForNow
  /\ UNCHANGED <<shredVars, current, now, is_done, max_block, left>>

MessagesDone ==
  /\ pc = "messages"
  /\ pc' = IF iterate THEN "shreds" ELSE "advance"
  /\ UNCHANGED <<shredVars, current, now, is_done, max_block, iterate, left>>

\* advance
Advance ==
  /\ pc = "advance" /\ max_block = 0
  /\ wake_time' = [s \in Shred |-> IF s \in Listed THEN wake_time[s] - 2 ELSE 0]
  /\ left' = left - 1
  /\ pc' = IF left' = 0 THEN "idle" ELSE "requests"
  /\ UNCHANGED <<shred_list, next, prev, blocked, refused, current, now, is_done, max_block, iterate>>

\* advance_v: a sample at least is written to the adc's m_current_v, which is NULL.
AdvanceV ==
  /\ pc = "advance" /\ max_block # 0
  /\ pc' = "crashed"
  /\ UNCHANGED <<shredVars, current, now, is_done, max_block, iterate, left>>

\* There is nothing left to take a step.
Gone == pc = "crashed" /\ UNCHANGED vars

\* What goes on by itself, once there is a block to compute.
Step ==
  \/ Run
  \/ RequestsDone
  \/ Get
  \/ GetNone
  \/ MessagesDone
  \/ Finish
  \/ Wait
  \/ \E d \in Waits : TimeAdvance(d)
  \/ Advance
  \/ AdvanceV

Next ==
  \/ \E s \in Shred : Spork(s) \/ FreeShred(s) \/ Signal(s)
  \/ \E n \in Sizes : SetAdaptive(n)
  \/ Step
  \/ Gone

Spec == Init /\ [][Next]_vars

(* DSP is on, and goes on: nobody turns adaptive mode on.  What is due at a *)
(* time comes to an end, as do the events and removals of a time: a shred   *)
(* that loops without waiting stops everything.                             *)
FairSpec ==
  /\ Spec
  /\ WF_vars(Step)
  /\ SF_vars(MessagesDone /\ ~iterate)
  /\ []<>(pc = "messages")

-----------------------------------------------------------------------------
Link == Shred \cup {0}

TypeOK ==
  /\ {shred_list, current} \subseteq Link
  /\ {next, prev} \subseteq [Shred -> Link]
  /\ wake_time \in [Shred -> Int]
  /\ now \in Int
  /\ {blocked, refused} \subseteq SUBSET Shred
  /\ {is_done, iterate} \subseteq BOOLEAN
  /\ max_block \in {0} \cup {Adaptive(n) : n \in Sizes}
  /\ pc \in {"idle", "requests", "shreds", "messages", "advance", "crashed"}
  /\ left \in 0 .. BufferFrames

(* The two links of each shred in the list agree and lead from the head to *)
(* all that have links: remove and shredule, which trust them ("no shred   *)
(* can be shreduled more than once"), do not lose or loop the list.        *)
LinksAgree ==
  /\ IsInjective(Queue)
  /\ \A i \in DOMAIN Queue : prev[Queue[i]] = IF i = 1 THEN 0 ELSE Queue[i - 1]
  /\ \A s \in Shred \ Listed : next[s] = 0 /\ prev[s] = 0

(* A shred is in one place, and none falls out of all of them: shredule    *)
(* refuses nobody ("wake time is past").                                   *)
InOnePlace ==
  /\ refused = {}
  /\ blocked \cap Listed = {}
  /\ current \notin blocked \cup Listed

(* compute gets "the shreds queued for 'now'", "all shreds at one instance *)
(* in ChucK time": none is still in the list when its time is past.        *)
OnTime == \A s \in Listed : wake_time[s] >= -1

(* After "adaptive: enabled with max block size %d samples" blocks of that *)
(* size are computed: the UGens have vectors for them to be written to.    *)
BlockFits == pc # "crashed"

(* The list is the queue of module ReadyQueue: sorted by wake time, first  *)
(* come first served, and time passes only when nobody is due.             *)
Ready == INSTANCE ReadyQueue WITH
  queue <- Queue,
  wake <- wake_time

ImplementsQueue == Ready!Spec

(* While DSP is on whoever waits for a time gets its turn, or is removed.  *)
TurnComes == \A s \in Shred : s \in Listed ~> s \notin Listed
=============================================================================
