# A formal model of pd-chuck

pd-chuck embeds the ChucK audio language in Pure Data (Pd) as one external
object, `[chuck~]`. The program proper is `src/chuck_tilde/`: `chuck_tilde.cpp`
(the object, its messages, its perform routine), `pdin.cpp` (HostIn: Pd messages
into ChucK) and `pdarray.cpp` (HostBuffer: ChucK on Pd arrays). The ChucK engine
under `src/thirdparty/chuck/core` is vendored; the external leans on a few of its
mechanisms (the global request queue and the tables of variables, events, shred ids,
the VM's message buffer, the shreduler), and these are modelled as far as the external's
own correctness rests on them.

This directory holds TLA+ modules of that code, TLC configurations that check
them on small instances, and proofs checked by TLAPS.

- `tlc -config MCReply.cfg MCReply` checks a model;
- `tlapm Reply_proofs.tla` (and `Globals_proofs`, `HostBuffer_proofs`, `HostIn_proofs`,
  `Instances_proofs`, `Perform_proofs`, `Shreds_proofs`, `Values_proofs`) checks the proofs.

## The system

### How the parts interact

Pd runs messages, clocks and the perform routine of every object under one lock,
one after the other (docs/dev/bind.md, "Threading"). A handler of `[chuck~]` is
therefore atomic, with three kinds of exceptions, and all the hard behaviour is
in them:

- **Calls out to the patch.** `outlet_anything` (reply outlet) and
  `typedmess` (receivers of `Host.send`) run the patch behind them to completion
  before they return. That patch may send messages back to the same object, and
  may create and free other `[chuck~]` objects.
- **Calls in from ChucK.** The perform routine runs ChucK's VM; deleting the VM
  and removing a shred run destructors and watchers. These call back into the
  external (HostIn, Host.msg, Host.send, event listeners, `get` answers) and find
  their object through an id, a ticket or a VM pointer.
- **Requests.** Most questions about globals are not answered in the message; they
  are queued, handled at the start of a later `Chuck_VM::compute`, retried once
  if their name does not exist yet, and answered by a callback that carries only
  an id.

So there are no data races to model, but there is re-entrancy, deferral, reuse of
ids, slots, tickets and addresses, and bounded queues and tables.

### Components

| Component | State | Operations | What makes it correct |
| --- | --- | --- | --- |
| Reply outlet | ring of 256 replies, two cursors, `reply_enabled`, a clock | push, drain (clock), `reply 0/1` | first-in first-out, nothing replayed or rewritten under the outlet's feet, drain always due while on |
| Global events and gets | listener tickets, ring of pending names, the VM's request queue and retry queue, listeners per event | `listen`, `unlisten`, `sig`, `broadcast`, `get`, `clear`, `reset`; compute; callbacks | a reply carries the name of what it answers; no reply after `unlisten`; requests settle |
| Tap outlets | three arrays indexed by outlet: UGen, width and channel of its group | `tap`, the tap part of perform | every outlet written once per block, groups disjoint |
| HostIn | list of HostIns per VM, a queue of 64 messages in each, waiting shreds | `msg`, constructor, destructor, `addAddress`, `recv`, wait, watcher | no dangling entry, no lost wakeup, order |
| HostBuffer, HostBufPlay | 64 slots name -> Pd array, dirty flags; play positions | refresh, flush, `name`, peek, poke, tick, setters | only points of live arrays touched, writes redrawn |
| Object lifecycle, Host.send | 128 instance slots, count of objects, what each object has allocated, a queue of 256 sends and its clock | `ck_new`, `ck_free`, send, drain | teardown order, unique slots, shared subsystems, every send accounted for |
| Reporting | `verbose` | `ck_info`, `ck_debug`, `ck_warn`, `ck_error`, `verbose` | errors are posted |
| Shred commands | shreds with their ids and parents, the id counter, the count, the VM's message buffer and request queue | `add`, `run`, `eval`, `replace`, `remove`, `removeall`, `clear`, `reset`, `shreds`, `abort`; spork, `Machine`, the end of a shred | an id names one shred; counts, families and the add/remove replies agree with what runs; removals in order; what is queued is handled |
| Setting globals | tables of scalars and arrays, requests and retries | `set`, any other selector, `get`, `clear globals`, `clear vm`; a program that declares, reads, writes | sets take effect, in order; no write to a container that is gone |
| VM shreduler | doubly linked list by wake time, blocked shreds, the adaptive mode | spork, wake, wait, remove; `run`/`compute` by samples, `adaptive` | the list is a stable queue by time, nobody is lost or left |
| Files, editor, parameters | a path, ChucK's own parameters | `file`, `edit`, `param`, `loglevel`, ... | only `adaptive` is modelled |
| Perform routine | buffers | refresh, run, flush, taps | the order, in the modules that need it |

PROJECT.json lists every component with its status, and under "hazards" what can
go wrong in this code where a test would hardly reach it.

## The modules

| Module | Models | Composed of |
| --- | --- | --- |
| `ReplyChannel` | what the reply outlet promises: an abstract bounded channel | |
| `Reply` | the reply ring, its drain and clock | implements `ReplyChannel` |
| `Reply_proofs` | theorems about `Reply` | extends `Reply` |
| `TapGroups` | what the taps promise: disjoint groups of outlets | |
| `Tap` | the tap message with its normalisation, and the perform loop over the taps | implements `TapGroups` |
| `Globals` | event listeners, gets, the request queue, `Chuck_VM::compute` | |
| `Globals_proofs` | theorems about `Globals` | extends `Globals` |
| `HostIn` | message inboxes and the shreds that read them | |
| `HostIn_proofs` | theorems about `HostIn` | extends `HostIn` |
| `HostBuffer` | arrays: slots, refresh and flush around ChucK, players | |
| `HostBuffer_proofs` | theorems about `HostBuffer` | extends `HostBuffer` |
| `Instances` | objects, slots, teardown, Host.send | |
| `Instances_proofs` | theorems about `Instances` | extends `Instances` |
| `Reporting` | what reaches the Pd window | |
| `Shreds` | the shred commands and the VM's handling of them | |
| `Shreds_proofs` | theorems about `Shreds` | extends `Shreds` |
| `Runaway` | `abort`, the loop of a running shred and Pd's lock | |
| `Values` | setting and getting global variables around a running program | |
| `Values_proofs` | theorems about `Values` | extends `Values` |
| `ReadyQueue` | what the shreduler promises: an abstract stable queue by wake time | |
| `Shreduler` | the shreduler's linked list, `run` and `compute`, the message `adaptive` | implements `ReadyQueue` |
| `Perform_proofs` | theorems about `Tap` and `Shreduler`, which share an induction | extends both |

The `MC*` modules give each a small instance.

### Reply

`reply_queue`, `reply_head`, `reply_tail`, `reply_enabled` are the fields of
`t_ck`; `reply_clock` says whether the clock is set. `ck_reply_drain` copies
`reply_head` into a local (`head`), and for each slot calls the outlet, advances
the local and stores it back. It is three actions: `ReplyDrain` (the clock fires),
`DrainOutlet` (the call goes out) and `DrainAdvance` (it has returned), with
`DrainReturn` at the end. Between the middle two, the patch may send what
`PatchSends` allows. A reply is the number of its acceptance, so that order,
loss and repetition can be told from `delivered` alone. `flushed` is history.

### Globals

A message (`Listen`, `Unlisten`, `Trigger`, `Get`, `ClearVM`, and the refusals)
changes the object's tables and puts a request into `requests`; a full queue loses
it, as `FinalRingBuffer::put` does. `ComputeBegin` .. `HandleRetries` ..
`ComputeEnd` are `Chuck_VM::compute`: the requests one by one, the retries put back,
then shreds (`ShredBuilds`, `ShredFires`, `Compile`). `Fire` runs `cb_event` for each listener
served, which looks the ticket up as the table is then. `Compile` stands for any
message, or call of Machine, that compiles code declaring a global. Every error path sets `halted`, for
the reason given under Reporting below. `attending`, `ahead` and `sent` are history
or bounds; `replies` is the set of those the latest step pushed: in what order one event's
listeners are told makes no difference to what their replies say.

### Tap

The three arrays are the code's. `Message` is the common end of `ck_tap`: it
normalises, one pass in place. `Perform` is the part of `ck_perform` that fills the
outlets: `Writes(i)` is what the loop writes when it comes to outlet i. A block of
samples is its origin, a UGen's name and channel.

### HostIn

`entries` is `PdInState.entries`, `registered` each entry's own flag, and `pending`
the queues. `Msg` is `pdin_deliver` with its broadcast. `Removed` is what ChucK does
to a shred that ends or is removed, `pdin_watcher` included; a HostIn of such a shred
is unlisted but never destructed. `Drop` is the destructor. Shreds read their HostIn
in the loop bind.md tells users to write (wait, then `recv` until it returns 0), and
their bodies may sleep anywhere in it.

### HostBuffer

Between blocks Pd makes, resizes (into other memory, or the same) and deletes arrays.
`PerformBegin` is `pdarray_refresh`, `PerformEnd` `pdarray_flush`. Memory is an identity,
used again once free, so that a pointer kept too long would be seen to touch
something that is not there or is something else. Positions count sub-frames;
`Double` rounds them as a double does: finely near zero, coarsely further away.

### Instances

`parts[x]` is what the object at address x has allocated and subscribed, in the order
`ck_new` and `ck_free` have; `used` is what the last step relied on. ChucK's calls
back (`VMCallback`) may come while the object performs and while its VM is being
deleted; removing shreds also within a message. `SendDrain`, `DrainSend`, `DrainEnd`
are `ck_send_drain`, cut at each call to a receiver; there, other objects may be
created and freed.

### Reporting

The last line of `ck_error` is a call of `ck_error`. Nothing else has that name (the
macro or Pd function that was meant is elsewhere called `pd_error`/`logpost`), so a
handler that reports an error never returns. That is the finding of run
`reporting_error`; the other modules take the code as it is: an error path ends in
`halted`, after which no handler runs.

### Shreds

A message reaches the VM in one of three ways, and the model keeps them apart. `Add` and
`Replace` call `process_msg` inside the message. `Eval` (also `run` and bang), `Clear` and
`Reset` put a request into `requests`, handled first in the next compute; `Eval` has taken
an id by then, so that its shred is "pending": it has an id the VM does not know. `Remove`
(`remove`, `remove last`, `remove all`, `removeall`, and `remove` with another symbol, whose
message has type 0) writes into `buffer`, which is read after the shreds have run; writing
does not look whether it is full, so that more messages than places overrun those unread
(the reader then finds `read_offset` where the writer is, or a new message in an old
place). `made` numbers shreds in the order of their making, so that the shreds that have an
id at different times differ. `ancestors` are parent links, closed: `free_shred` removes the
children of a shred with it (`Family`). A shred that is removed while it runs is "done"
at once and is let go when it returns (`Leaving`). `balance` and `handled` are history.

### Runaway

Two parties and one lock: the perform routine holds it while a shred runs, and a message
can only be handled while nobody does. Six variables; the module exists for the one
question of what `abort` can do.

### Values

`scalar` and `array` are the four maps of the globals manager; a scalar that is named is
made, an array has to be declared. `SetScalarUntyped`, `SetListUntyped` and `SetKeyUntyped`
are `ck_anything`: what the first atom is decides, not what the program declared. What is
malformed ends in `ck_error`, which never returns (`SetMalformed`, `Halted`); a type there is not
is ignored without a word (`SetIgnored`). `Handle` is one request, `HandleRetries` the end of
`handle_global_queue_messages`. The program is one shred: `ShredDeclares`, and then it reads and
writes in any order until it ends, an array that is not there ends it, or `clear vm` does.
Numbers count halves, so that a conversion to int is seen to truncate. `said`, `done` and `fresh`
are history: what the patch last made the variable, what was carried out last, and what no shred
has run since.

### Shreduler and ReadyQueue

`shred_list`, `next`, `prev` and `wake_time` are the list as it is in memory; `Queue` follows
the links from the head, and is what is compared with `ReadyQueue`, where the same is a
sequence. Times are kept relative to `now_system`, in halves of a sample: `get` takes a
shred up to half a sample early, an advance starts from the shred's own time, and a signal
wakes at the sample, which is where the halves come from. `pc` follows `run` (a block,
sample by sample) and `compute` (requests, shreds, messages, once more while `iterate`).

`[chuck~]` initialises its VM with adaptive mode off (chuck_tilde.cpp:499-529), and a VM made so
gives no UGen a vector. The message `adaptive` can turn the mode on later (`SetAdaptive`): the
next frame then goes through `advance_v`, which writes at least one sample to the adc's vector,
a NULL pointer (`AdvanceV`, pc "crashed"). Everything the run and the theorems say holds up to
there. The adaptive mode of a VM that is made with it, which only the stand-alone host has, is not
modelled, nor is `m_samps_until_next`, which nothing else reads.

## What the runs check

Passing runs:

| Run | Question | Bounds, and why they are enough |
| --- | --- | --- |
| `reply` | Does the ring with its re-entered drain deliver every accepted reply once, in order, implement `ReplyChannel`, and never strand a reply? | Ring of 4 (3 replies), 7 accepted: wraps twice, fills, and fills while a slot is out at the outlet. Deadlock is checked. |
| `globals` | Does every reply name what it answers, through retries, lost requests, clear and one-shot listeners? | 3 events on 2 tickets, a scalar and an array, of which code declares one event and the array; a queue of 2 requests, 4 messages or firings: the tickets run out and are reused by another event, the queue overflows, requests wait for names that come late or never. The patch is `Quiet` and sends at most half a ring of gets ahead. |
| `tap` | Does any sequence of tap messages keep groups disjoint and each outlet written once, and implement `TapGroups`? | 3 outlets, 2 UGens: groups of 2 and 3 overlap at either end, of the same UGen or of two. The state space is closed: no bound on the number of messages. |
| `hostin` | Do messages reach the shreds that read them, with shreds asleep, sharing, ending, removed? | 2 shreds, 2 HostIns, queues of 2, 3 messages: a queue fills and overflows, a HostIn outlives its creator, an address is used again. |
| `hostbuffer` | Is only live memory touched, everything written redrawn, no looping player silent (exact positions)? | 3 names on 2 slots, arrays of 0 to 2 points that share one block of memory, rates of a frame forward and half a frame backward; symmetric in the names (safety only). |
| `instances` | Is each callback safe during teardown, each slot unique, each send accounted for? | 3 addresses, 2 slots, 3 objects created, queues of 2, 3 sends: the table and a queue fill; slots and addresses are used again. |
| `shreds` | Do ids, counts, families and replies stay true, are removals handled in order, and is everything handled in the end? | 2 shreds, 4 ids, 3 messages, a buffer of 2 places and a queue of 2 requests: the buffer is overrun, a request is lost, the counter goes back while a shred waits with an id. Two shreds are enough for a parent and a child, for the replacer and the replaced, and for two that would share an id; the proofs cover any number. A third shred takes the liveness check past five minutes. |
| `values` | Do sets take effect, in order, with a second chance for arrays, and does no shred write to a container that is gone? | A float and an array of floats, 3 messages, a queue of 3 requests, which two lists of two overrun. One variable of each kind suffices, as variables meet only in the queue. Deadlock is checked. No `clear globals`, and no list of two that sets a second element: see below. |
| `shreduler` | Is the list the stable queue it is meant to be, is nobody lost or left when its time is past, and does everyone's turn come? | 3 shreds (a head, a middle and a tail to take out), waits of none, half, one and a half and three samples, blocks of 4 frames; adaptive mode turned on or off between blocks. Deadlock is checked, and no bound is needed: the state space is closed. |

`reply`, `values` and `shreduler` check deadlock; what an error halts (`Halted` of `Values`) or a
NULL pointer ends (`Gone` of `Shreduler`) stutters there, so that any other stop is seen. The
others stop at a bound on messages or where an error halts the object.

Type invariants and invariants that a theorem gives for all constants are left out of the runs
where the theorem says more: `TypeOK` of `Reply`, `HostIn`, `Instances`, `Shreds`, `Values`
and `Shreduler`, `ClockFollowsEnabled` of `Reply`, `SlotsMirrorPd` of `HostBuffer`.

Runs that refute what the repository says (PROJECT.json "findings" has the quotes):

| Run | Says | What happens |
| --- | --- | --- |
| `globals_names` | `event <name>` | an event is reported under the name that took over its ticket |
| `reporting_error` | errors are never gated | they are never posted |
| `values_clear` | `clear globals` cleans up "without clearing the whole VM" | a shred that runs on writes through a NULL container |

### Further disagreements

The following configurations are kept beside the runs; each is checked by
`tlc -config <cfg> <module>` and violates the one property it names.

| Configuration | Says | What happens |
| --- | --- | --- |
| `MCReplyDiscard` (`MCReply`, `DiscardIsFinal`) | `reply 0` discards what is queued (chuck_tilde.cpp:2313) | sent from behind the reply outlet, the drain under way stores its own cursor back over the discard (2021) |
| `MCGlobalsRefused` (`MCGlobals`, `RefusedOnlyWhileListening`) | "already listening" (chuck_tilde.cpp:2676) | refused though the one-shot listener has fired, or `clear vm` took it |
| `MCGlobalsPending` (`MCGlobals`, `GetReplyNamesVariable`) | wraparound of the ticket ring is "not a practical concern" (chuck_tilde.cpp:1973) | with DSP off, gets pile up and the name of an unanswered one is overwritten |
| `MCHostBufferDouble` (`MCHostBuffer`, `LoopNeverSilent`) | "silent while no array has the name" (pdarray.cpp:352) | with positions rounded as doubles, a backward loop from just below 0 drops a sample |
| `MCShredsLater` (`MCShreds`, `SparesLater`) | "removing %ld shred(s)" (chuck_tilde.cpp:1442), those there are | a shred added between `removeall` and the next block goes too, uncounted |
| `MCShredsNext` (`MCShredsNext`, `NextIsNext`) | "shreds next: %ld" (chuck_tilde.cpp:1763) | the query itself uses that id up |
| `MCRunaway` (`MCRunaway`, `AbortEndsRunaway`) | `abort` "can break out of a shred stuck in a loop that never advances time" (chuck_tilde.cpp:1449) | the message waits for the lock the shred's perform call holds |
| `MCValuesInt` (`MCValues`, `UntypedTakesEffect`) | "the value can be an int" (README.md:143) | a number always sets a float; the program's int has a table of its own |
| `MCValuesList` (`MCValues`, `UntypedTakesEffect`) | or an "array of ints or floats" (README.md:143) | a list of two also sets the element its first number indexes: `a 0.5 1` makes it 1 1 |
| `MCShredulerAdaptive` (`MCShreduler`, `BlockFits`) | "adaptive: enabled with max block size %d samples" (chuck_tilde.cpp:1495) | the VM is always initialised without, so the UGens have no vectors, and the next frame is written through a NULL pointer |

### Assumptions on the environment

- A patch does not free an object from inside that object's own drain. Pd would not
  defer it and the code does not guard against it.
- `reply`: the patch does not send `reply 0` from behind the reply outlet
  (`MCReplyDiscard` is the configuration where it does).
- `globals`: `Quiet`, the patch lets its requests be handled before it listens or
  unlistens (`globals_names` is the run where it does not), and `MaxAhead`
  (`MCGlobalsPending` is without it).
- Shreds read a HostIn in bind.md's loop.
- `values`: no `clear globals` (`values_clear` is the run with it), and no list of two numbers
  whose first is the index of an element (`MCValuesList`).
- A patch compiles what compiles: compiling is a success, or an error that halts the object.

### Fairness

- A clock that is set fires, a handler that has started goes on, calls to outlets and
  receivers return: weak fairness of the drain's steps. `SendDrain` has strong
  fairness, because other objects' perform calls and drains come in between, and Pd's
  scheduler runs every clock that is due before it computes the next block.
- While DSP is on, Pd calls perform again and again, and it finishes: weak fairness of
  `Compute`, `PerformBegin`, `PerformEnd`. Without DSP nothing is promised, and nothing is
  by the code.
- A shred's time comes, and a shred that lets time pass still gets round to its next
  `recv`: strong fairness of `Wake` and `Loop`, since sleeping and blocks ending
  disable them again and again.
- `Shreds`: the same of compute's own steps; a running shred lets time pass, waits or ends (weak
  fairness of those together), and strong fairness of `ShredsDone`: not all shreds are due again
  and again at the same time. A shred that never lets time pass stops everything, here as there.
- `Shreduler`: `run` and `compute` go on (weak fairness of `Step`), DSP is on and nobody turns
  adaptive mode on, which would end it (pc comes back to "messages"), and the events and removals
  of one time come to an end (strong fairness of `MessagesDone` without a further round).
- Nobody has to send a message, and no message action is fair.

## What is proved

The assumptions of each are the `ConstantsAssumption` of the module proved about (`Tap`'s is
`TapAssumption`), which TLC evaluates in the runs. Where a theorem needs more of the constants, it
says so as a hypothesis of its own, and a configuration without it shows that it is needed. All
invariants named below were first checked by TLC. Each safety property of a passing run, and each
refinement, is a theorem here.

### `Reply_proofs`

For every ring size of at least two slots and any number of replies:

- `TypeCorrect`: the type invariant, whatever the patch sends back;
- `ClockCorrect`: while replies are on, the drain is due or running, and while off its clock
  is not set, whatever the patch sends back;
- `RingInvariant`, `SlotStable`, `DeliversInOrder`: the ring's contents agree with its
  history; the slot at the outlet is not rewritten; each delivery is of the next reply;
- `RingIsChannel`: the ring, its drain and its clock implement `ReplyChannel`.
  These hold under `"off" \notin PatchSends`, which `MCReplyDiscard` shows to be needed.

The argument: neither `SlotStable` nor the order of delivery is inductive. The
inductive invariant `RingInv` adds what ties the cursors to the history.
`Distance(s)` is how far slot s lies after `reply_head`; `Pending` is the distance of
`reply_tail`. `Contents` says that a slot at distance d < Pending holds the number
`pushed - Pending + 1 + d`; `DrainInStep` that the drain's own cursor is the shared one
and is not at the tail during a call; `Settled` that what has been delivered or discarded
is exactly what is no longer pending. `PushKeeps` and `AdvanceKeeps` show what moving
either cursor does to the distances, with the wrap-around dealt with in `NextSlotWraps`.
A push writes only at the tail, which is at distance Pending, so no pending slot changes,
the one at the outlet included: that a full ring keeps one slot free is where this is used.
For the refinement, `MappedIsHeld` turns the channel's queue, read out of the ring with
remainders, into the sequence of numbers `Held(pushed, Pending)`, and each step of the ring is
then an `Append`, a `Head` and `Tail`, or nothing.

### `HostIn_proofs`

For any sets of shreds and HostIns, any queue limit and any number of messages:

- `TypeCorrect`: the type invariant, and with it that no queue passes `PDIN_MAX_PENDING`;
- `ListSound`: what `msg` finds in the list is a HostIn that is not destructed and whose
  creator still runs;
- `NoLostWakeup`: no creator waits on a HostIn that holds a message for it;
- `InboxesInOrder`: a HostIn gives messages in the order they were sent.

`Listed` strengthens `ListedAreUsable`: each listed HostIn has a creator, which still reads
that one. `NoSleeperHasMail` needs this and `MailIsListed` (a HostIn off the list gets no
message and is emptied as it goes): without them a creator could come back and wait on
a HostIn of its own in which messages have been left, and nobody would wake it for those.
Order needs `QueuesInOrder`: each queue increases, from above what was received last to at
most what was sent last; `AppendOrdered` and `TailOrdered` say that `msg` and `recv` keep
such a queue.

### `HostBuffer_proofs`

For any arrays, names, memory, number of slots, HostBuffers and players, any rates, and any
rounding of positions to multiples of `Coarse`:

- `TypeCorrect`: the type invariant, and with it that no reference to a slot passes
  `PDARRAY_MAX_SLOTS`;
- `MirrorsPd`: while a block runs, each slot is what a lookup of its name in Pd would give;
- `LivePointsOnly`: ChucK touches only points of arrays that are Pd's at that time;
- `AllRedrawn`: between blocks everything written has been redrawn;
- `LoopsSound`: a looping player of an array that has points sounds at every tick, under
  `Exact`: a frame and all rates are multiples of what the rounding keeps (with `Coarse` = 1,
  all are; `MCHostBufferDouble` has a rate that is not).

`LivePointsOnly` is a matter of arithmetic and of staleness. `FrameInside` and `PointsInside` say
that whatever the position, if it passes the check against n, its frame and that frame's
neighbour are points of an array of n; `Mirrored` says that n is the array's n now. The
inductive invariant adds that what refers to a slot refers to one there is (`RefersToSlots`)
and that what has been written is in a slot that is marked dirty (`WrittenIsDirty`), which
does not depend on who still refers to the slot.

`LoopsSound` is an invariant of its own, `OnGrid`: positions and rates are multiples of `Coarse`, so
that rounding leaves them alone (`DoubleIsExact`). `WrappedInside` then says of the code's remainder,
which truncates, and its correction of negative results, that a position anywhere comes back
inside the array, whatever length the array has got since the position was set.

### `Instances_proofs`

For any finite set of addresses and any size of table and of send queue:

- `TypeCorrect`: the type invariant, and with it that `CK_INSTANCE_LIVE` does not go below
  zero and no send queue passes its limit;
- `OneSlotEach`: each object has one slot for itself, from `ck_new` to the start of `ck_free`;
- `SubsystemsOutlive`: `globalCleanup` is not called while an object is left;
- `SendsAccounted`: each `Host.send` call is delivered once, queued, or reported as dropped;
- `NoUseAfterFree`: no step relies on what `ck_free` has taken away.

The inductive invariant `Inv` has, beside the properties, four parts. `Lifecycle`: an
object is absent, whole, or being freed, in which case exactly the parts that `ck_free`
takes away before it deletes the VM are gone; only whole objects perform, drain, or have
their clock set. `TableTells`: the table holds the whole objects, each in one place.
`Counted`: `live` is the number of objects there, the one being freed included, so that the
test `live <= 1` in `ck_free` tells the last. `QueuesSound`: absent objects have empty queues (an
address used again starts with one) and a drain has not passed the end of its queue. That
`ck_new`'s scan finds a free slot if there is one (`ClaimedIsFree`) is itself an argument about
the least element of a finite set, by well-foundedness of strict inclusion.

The model's `FreeBegin` excludes freeing an object from within its own drain (see the
assumptions on the environment); the theorems rest on that.

### `Shreds_proofs`

For any number of shreds, ids and messages and any size of buffer and queue:

- `TypeCorrect`: the type invariant; in particular no count goes below zero, no offset leaves
  the buffer, the queue keeps its bound;
- `CountCorrect`: `m_num_shreds` is the number of shreds there;
- `IdsCorrect`: no two shreds that run or are about to have the same id;
- `RepliesCorrect`: counting `shred add` and `shred remove` tells which ids are running;
- `FamiliesCorrect`: no shred outlives one it descends from;
- `RemovalsInOrder`: removals are handled in the order sent, none twice: an overrun of the buffer
  loses removals, but no old one comes back.

There are some twenty actions but few things that happen to shreds. `Effect` lists these
(sporked, evaluated, started, ended, emptied, replaced, turned back, or only moved between
states that are all alive), one lemma per action shows that it has one of the effects, and each
invariant is then proved against the effects. `Base` has the types, the count, and
`QueueSound`: the pending shreds are exactly those that spork requests in the queue name, each
once. On top of it, `IdsInv` has uniqueness and what makes a new id new: the counter is
not below an id in use, except while requests are handled, when `clear vm` may have set it to
zero and shreds that have an id wait behind it in the queue; there, the spork of each raises
it again (`Raised`), and no new id is given. `FamilyInv` says that a parent is older than its
child and that ancestors are closed under taking ancestors.

`RemovalsInOrder` needs to know what is in the buffer between the two offsets, and a writer that does
not look at the reader may pass it. `BufferOrdered` says that what lies between them, going round
from the reader, increases, from above what was handled last to at most what was sent last.
`Ahead(i)` is how far place i lies after the reader. A write either puts the newest behind all that
wait or makes the offsets equal, and then nothing waits: everything lost at once is
what keeps the order (`OrderAfterWrite`).

### `Values_proofs`

For any variables, values and messages and any size of queue:

- `TypeCorrect`: the type invariant; the request and retry queues together fit the buffer, so that
  putting back what is to be tried again cannot fail;
- `WritesSafe`: no shred writes to a container that is gone, under `"clear globals" \notin
  Commands`, which `values_clear` shows to be needed;
- `CarriedOutInOrder`: what is asked of one variable is carried out in the order it was sent;
- `SecondChanceGiven`: a request for an array that is not there waits until shreds have run
  since it was sent;
- `SaidTakesEffect`: what an untyped message last made a variable is what the program reads, once
  no more is asked of that variable, under `Suited`: no int is declared (`MCValuesInt`), and no list
  of two sets an element to something else than the list does (`MCValuesList`).

For the order, `OrderInv` needs four parts: requests for one variable are in order within the two
queues taken together, retries first (`Ordered`); none is numbered above what was sent
(`UpToSent`); none is numbered below what has been carried out for its variable
(`NotOvertaken`); and, for this to survive a retry being put behind later requests, a
variable that has a retry is still unknown (`RetryUnknown`): nothing later can have been carried
out for it, as arrays come only between handling and the end of compute, when
the retries are back in the queue before all else. `WritesSafe` rests on the program's
scalars being there while it runs (`ScalarsThere`).

`SaidTakesEffect` looks at the whole of the queue, in the order it will be carried out. `Comes` says
that some request in it makes the variable what was said (`Makes`), or it is that already, and
that no request after that undoes it (`Spares`): gets, requests for other variables, and the second
request of a list of two, whose element is then what the list has there. `SaidComes` is inductive
because a new message puts a request that `Makes` at the end, carrying out the head either makes
the variable so or leaves it so, and a request that is put off concerns an array not there yet,
of which nothing is claimed until the program has declared it. What waits while the program runs
are requests for arrays (`OnlyRetries`), which is why a scalar has been set by then.

### `Globals_proofs`

For any sets of events and variables, any number of tickets and requests:

- `TypeCorrect`: the type invariant; in particular putting the retries back does not overfill
  the queue, and no ticket outside the table is in a listener or a request;
- `GetsAnswered`: the answer to a get carries the name that was asked for, under
  `2 * MaxAhead <= PendingSize` (`MCGlobalsPending` is without it);
- `RepliesNameEvents`, `UnlistenedIsSilent`: an event is reported under its own name, and not at
  all once the patch has stopped listening, under `Quiet` (`globals_names` is without it).

A get's name is found by its number modulo the ring. `GetsHeld` says that the slot of each get in
the queue still holds its name, and why: a request that has a second try left was sent since
the last compute and is at most `ahead` behind the latest number; one that has none may be
`MaxAhead` further behind, by what was sent before its first try.
`Apart` is the arithmetic: two numbers closer than the ring is long have different slots.

For events, a listener knows only its ticket, and `unlisten` frees the ticket in the message but
removes the listener in the next compute. `EventsHeard` says that every listener's ticket stands
for the listener's own event, one that the patch is attending to, unless (`Going`) the
request at the head of the queue is the one that removes it. `Quiet` is used where an `unlisten`
is put into the queue: it is alone there, so nothing that fires is handled before it.

### `Perform_proofs`

Taps, for any number of outlets and any UGens:

- `TapTypeCorrect`, `TapsWrittenOnce`: groups stay within the outlets, and each outlet is
  written once per block;
- `TapGroupsImplemented`: the three arrays implement the disjoint groups of `TapGroups`.

The question is whether one pass in place is enough, since clearing a slot changes what the
slots after it, and those before it, were judged by. `NormalizeKeeps` says that it is: the pass
leaves exactly those slots whose claim was true at the start. `TogetherTrue` is the reason: if one
member of a group says the truth, so do all, so a slot that is cleared is not one that a
true claim needs. `NormalizeNeat` follows: afterwards all claims are true (`Neat`, the inductive
invariant), from which `WritersAre` computes who writes an outlet. `OverlayKeeps` says for the
refinement that, over a neat table, what the pass dissolves is the groups a message has touched.

The pass is a recursive function. Its value is computed by induction over the slots, in the form of
a set that holds 0 and with n also n + 1 (`Induction`); this follows from the well-foundedness of
the naturals without an operator parameter (`Least`).

The shreduler, for any number of shreds, any waits, any block size and any `adaptive` messages:

- `ShredulerTyped`, `ShredulerLinksAgree`: the type invariant; both links of each shred agree, and
  lead from the head to all that are in the list;
- `ShredulerInOnePlace`, `ShredulerOnTime`: nobody is in two places or refused, and nobody's time is
  passed over;
- `ShredulerImplementsQueue`: the list is the stable queue `ReadyQueue`.

The queue is what one finds by following the links, a recursive function of the memory. `Chain` ties
the links to a sequence q without repetition: the head is q[1], next and prev of q[i] are its
neighbours, and what is not in q has no links. `Followed` shows by `Induction` that following the
links of a `Chain` gives q, so there is no loop and nobody is lost. `Inserted`, `Removed` and `Taken`
show for each splice of the code, the ones at the head and at the end included, that what was a `Chain`
for q is one for q with an element inserted, removed, or without its head. `Place` finds where
`shredule` stops, as the least position of a later wake time, and `RankedInsert` and
`RankedRemove` keep the order of the wake times. The inductive invariant `ListInv` is that there
is such a `Chain`, ordered, with the shreds that run or wait outside it; it says nothing
of times past. `Punctual` adds that: whoever is due is run before time passes, one sample at a time
(`NobodyPassed`), so nobody's time is passed over. The
refinement (`QueueRefines`) puts the two together.

### Model-checked only

All liveness properties (`AcceptedIsDelivered`, `RequestsSettle`, `MailIsRead`, `SendsSettle`,
`CommandsSettle`, `TurnComes`): fairness and ENABLED are out of the proof system's reach.
What the runs and configurations with a counterexample refute has no theorem, nor have the small
modules `Reporting` and `Runaway`, which are there for their counterexamples.

## Not modelled

The vendored engine beyond what is named above (the compiler, the type system, instructions
other than those of time, spork, events and global variables, UGens, I/O classes), chugins and
the stand-alone ChucK host, which together are nearly all of the repository's lines; files, the
editor, paths and parameters (I/O and formatting without state of their own, apart from
`adaptive`); the sample loops of `ck_perform` and `ck_dsp`'s buffers (sequential array copies);
Host.sendList's truncation; `HostClock` (an example's floating-point arithmetic); build scripts
and tests. Names, values and atoms are left out everywhere except where a property tells them
apart. Freeing an object from behind its own outlet or receiver, and rates that are not
finite, are hazards without a property (see PROJECT.json).

## The plan

Done: what re-enters first (`Reply`, `Instances`), then what is deferred (`Globals`, `HostIn`,
`HostBuffer`, `Tap`), then the commands (`Shreds`, `Values`) and the engine's clockwork under
them (`Shreduler`), with proofs of the safety of all of these.

Left, in this order:

1. Composition: HostIn and the shred watchers with `Instances`, so that the order of
   teardown is checked against the lists themselves and not against a set of parts; `Shreds`
   over `Shreduler`, so that "all shreds" is what the three lookups of the code find.
2. The lists of Host.send that are truncated to what an atom array holds.
