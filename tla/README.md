# Verification of the hcpbridge component

TLA+ models, TLC model checking and TLAPS proofs for
`src/components/hcpbridge`, the ESPHome component that connects a Hörmann
garage-door drive to Home Assistant. The drive is the bus master; the component
is an accessory that answers its polls within milliseconds, on a task of its
own, while the ESPHome loop hands it presses and publishes what it learned.
There is one word of truth between the two tasks, a command slot, and no lock
anywhere: what goes wrong here goes wrong between two accesses.

## The system

| component | source | state it keeps | operations | correct when |
|---|---|---|---|---|
| HCP2 command path | `hcp2_codec.cpp/.h`, `hcp2_transport.cpp` | slot `nextCommand` and its stamp, `gotoRequest`, `cancelWatch`, `pauseRequested`; the watch (`awaited*`, `repeat*`, `confirmRepeats`), `lastSentCommand`, `gotoPosition`; `lastFrameOn`, `valid`, `link` | bus: `onFrame`, `onRequestHook`, `setCommandValuesToRead`, `checkCommandEffect`, `rearmLostCommand`, `checkGotoTarget`; loop: `setCommand`, `stopDoor`, `setPosition`, `checkBusSilence`, `announcePause` | a press is sent once, repeated a bounded number of times, never after a newer stop; none waits through a dead link or a pause, or is repeated after a pause the drive was told of; an accepted press is resolved |
| Door state | `hcp_state.h/.cpp` | what the drive reports, `changed` | `setState`, `isMoving` | entities hear of every change; a target ends with its movement |
| HCP2 delivery receipt | `hcp2_codec.cpp` (`syncCounter`, `advanceCounter`, `rearmLostCommand`) | `txCounter*`, `lastSentCommand`, `repeatsSent` | on every frame that is answered | a lost answer is made good, one that arrived is not repeated; never out of order |
| HCP2 identity exchange | `hcp2_codec.cpp` (`onIdentityData`, `publishIdentity`) | request, attempts and their time, two halves of a serial number, two texts and their flags | ask, give up, take or refuse a transfer, publish | asked a bounded number of times, acknowledged only when kept, shown only when whole |
| HCP2 pause handshake | `hcp2_codec.h`, `hcp2_transport.cpp`, `hcp_bus_task.h` | `pauseRequested`, acknowledgement | request, acknowledge, settle, end | acknowledged only by this pause's answer; ended either way |
| HCP1 codec | `hcp1_codec.cpp/.h` | slot and stamp, address, `lastFrameAt_` | scan, status request, broadcast, press, silence | nothing waits without an address, nothing goes out twice |
| Event ring | `hcp_events.h` | slots with sequence numbers, `write_`, `read_`, `dropped_` | `push`, `drain`, `takeDropped` | a bounded queue: nothing torn, twice, out of order, or lost uncounted |
| Component, entities | `hcpbridge.cpp`, `cover/`, `light/`, `output/`, ... | published values, a light call to be written | `update`, `control`, `write_state` | what is shown is what the drive said last; no entity presses by itself |
| Frame layers | `modbus_rtu.cpp`, `hcp1_serial.cpp`, `*_frame.cpp` | `rx_buf_`, its length; the driver's ring and queue | `poll` | whole frames or none, each answered as itself, and no deafness after an error |
| Bus factory, transports | `hcp_bus.cpp`, `hcp*_transport.*` | none | forwarding | - |
| Configuration | `__init__.py` | none | validation | - |

How they interact. The bus task blocks on UART events, assembles a frame, reads
`millis()` once, calls `onFrame` and sends what it returns. The loop calls
`update()` (drain the ring, publish the identity, check for silence, call the
entities) and, whenever somebody presses something, one of the command
operations. Both reach the codec's atomics directly; both push into the event
ring. On the dual-core chips the tasks really run at once; on the single-core
ones the bus task has the higher priority and preempts the loop between any two
instructions, and never the other way round.

What is hard. Presses, frames and the loop's checks interleave at every atomic;
times are unsigned differences of readings taken by two tasks and wrap every
49.7 days; two separate mechanisms repeat a command; a stop outranks a press
that is somewhere between the slot and the wire; a target travels apart from its
command; links go dead, pauses begin and time out around all of it.
`PROJECT.json` lists every hazard at its line, with the properties that cover it.

## Modules

| module | models |
|---|---|
| `HcpDoor` | what both buses share: commands, door states, links, what a command has reached, what a change of state does to a target |
| `Hcp2Commands` | the HCP2 command path on both tasks |
| `MCHcp2Commands` | its instances: doors that stand, open, or report anything |
| `Hcp2CommandsProofs` | theorems about `Hcp2Commands` |
| `Hcp1Commands` | the command path of the older bus on both tasks |
| `MCHcp1Commands` | its instance |
| `Hcp1CommandsProofs` | theorems about `Hcp1Commands` |
| `Hcp2Identity` | the identity exchange, on both tasks, with the drive's answers |
| `Hcp2IdentityProofs` | theorems about `Hcp2Identity` |
| `Hcp2Exchange` | the exchange with the drive over a wire that loses: counter, repeats, pause handshake |
| `MCHcp2Exchange` | its instance: three kinds of drive |
| `Hcp2ExchangeProofs` | theorems about `Hcp2Exchange`, among them the refinement of `HcpDelivery` |
| `HcpDelivery` | what that exchange promises for a press |
| `HcpFraming` | bytes and events of the UART driver into frames, on both buses |
| `MCHcpFraming` | its instance |
| `HcpFramingProofs` | theorems about `HcpFraming` |
| `HcpEntities` | the changed flag, what the entities publish, and the light |
| `HcpEntitiesProofs` | theorems about `HcpEntities` |
| `HcpEventQueue` | what the event ring promises: a bounded queue |
| `HcpEventRing` | the ring, and that it implements the queue |
| `HcpEventRingProofs` | theorems about `HcpEventRing`, among them that refinement |
| `HcpClockProofs` | lemmas on readings of a clock that wraps, for both command paths |

### Hcp2Commands

Variables carry the names of the fields they model. `pc` is where each task is
in its call and `now` the clock reading it works with. An action is one access
to shared state with the task-local work that follows it; an access the other
task cannot observe in between is merged with its neighbour. The main chain of
a status poll is

`StatusPoll / CounterRepeated -> RearmLostCommand -> PausedAnswer / NotPaused ->
CheckCommandEffect -> CancelWatch -> TakeCommand -> CheckAge -> DropStale /
ResolveStop / ClearTaken -> SendFresh / SendRepeat / SendNothing -> SetValid ->
SetLink`

and of the loop `PressCommand -> StampPress -> QueuePress / RefusePress ->
HandOverTarget / RestoreStamp`, `PressStop -> StampStop -> QueueStop ->
AskToCancelWatch`, `CheckBusSilence -> JudgeSilence -> SetInvalid -> SetSilent ->
DropQueued` and `AnnouncePause -> RequestPause -> EndPause`. A broadcast is
applied by `ApplyBroadcast`, which may have the bus task call `stopDoor` itself
at the target of a partway run; `StampStop`, `QueueStop` and `AskToCancelWatch`
take the task that calls them.

Abstractions:

- The counter is a choice: a poll repeats it (possible only after an answer that
  carried a command) or is in step. What the drive and the wire do to the
  counter is in `Hcp2Exchange`.
- A frame whose command byte asks for the status has the shape of a status poll.
  The code looks at the counter before the shape; with a frame that contradicts
  itself a repeat could be armed without being answered.
- Registers, addresses and checksums are left out, a malformed or foreign frame
  is a sign of life (`IgnoredFrame`). The state word is the door's state, its
  position, its light, and whether some other part of it changed (`StateNoise`).
- The wait for the acknowledgement of a pause is one step, `EndPause`, which may
  come at any time after the frame under way is done: acknowledged or timed out.
- A press refused for want of a link changes nothing and is a stuttering step.
- Events pushed on the way are left out; the ring is a module of its own.
- History variables (`accepted`, `lastStop`, `heldBack`, `told`, `slotPress`, `taken`,
  `flying`, `tookStop`, `sentIds`, `copies`) give every press an identity, which
  the code does not, so that the properties can speak of it. No guard reads them
  but the bound on `accepted`.

### Hcp2Exchange and HcpDelivery

`Hcp2Commands` has every interleaving of one frame with the loop and no counter;
`Hcp2Exchange` has the counter, the wire and the drive, and takes a frame, like a
call of the loop, as one step. The drive begins every exchange, so an action is a
whole one: the request as `onFrame` sees it (`Begin`, which is `syncCounter` and
`rearmLostCommand`), the branch it takes (`SetCommandValuesToRead`, `PausedAnswer`,
or another answer), `AdvanceCounter`, and the answer, which arrives or is lost.
`RequestLost` is an exchange the codec never hears of. What the codec knows is the
record `bridge`, whose fields are named at `Bridge`.

The drive is external. It counts in one of three ways: exactly until it is
answered and past 0, as the code expects; the same through 0, which the code
leaves out; or repeating and skipping as it likes. It restarts with any counter,
and owes an acknowledgement for a pause it was told of, which it repeats until it
is answered and may deliver in the middle of the next pause. `requestPause` keeps
its two stores apart. How long ago a command went out is a choice among `early`,
`confirm` and `giveup`, because the clock is in `Hcp2Commands`.

`HcpDelivery` is the promise: presses are numbered, and each reaches the drive at
most `MaxCopies` times and never after a later one. The refinement maps what the
drive received last and how often. That a press is not lost is the separate
invariant `NoPressIsForgotten`, which lists the reasons the code has to lose one
(`loss` keeps the account); it is stated as safety: a press not received is in the
slot, can be put back, or is watched with a repeat left.

What the model shows beside its properties:

- A press sent before the link was called dead outlives it: `lastSentCommand` is
  not cleared with the slot, and a lost answer is made good after the silence.
  `NothingOutdatedArrives` therefore excepts a stop that was itself dropped with
  the link or before a pause, after which an older press may come again.
- After the first repeat for a lost answer nobody watches any more (the watch is
  cleared at `hcp2_codec.cpp:643`). If the drive asks for something else before the
  next status poll, that loss is overlooked for good.
- An acknowledgement that arrives between the two stores of `requestPause`
  (`hcp2_codec.h:109`) is erased, and the pause times out.

### HcpFraming

Both servers' `poll` against an external UART driver: `fifo` are the bytes the
peripheral holds, `ring` those in the driver's buffer, `events` its queue of a
fixed length. A byte carries the frame it belongs to and its place in it, so that
a right checksum is "every byte of one frame and nothing else" (`Whole`). On the
newer bus `TakeEvent -> ReadFrame -> ReadMore -> CheckAddress -> HandlerReturns ->
AnswerSent`, and `FlushInput -> ResetQueue` after an error, two calls the driver
may act between; on the older one `BreakSeen` and `ReadPiece`. The line may err,
overflow, hesitate inside a frame, or begin the next one before the task is done,
`MaxFaults` times in all. `overtaken`, `missed` and `slipped` remember the three
situations in which the code loses track, so that the properties can say that there
are no others.

### Hcp1Commands

The older bus with the same two tasks, clock and granularity. A frame is
`FrameArrives` and then `Scan`, `StatusRequest -> Register -> TakePending ->
CheckAge -> ClearPending`, or `ApplyBroadcast -> SetValid`; the loop runs
`Submit -> StampPress -> QueuePress` and `CheckBusSilence -> JudgeSilence ->
SetInvalid -> SetSilent -> DropPending -> ForgetAddress`. The slot is replaced by
the next press and emptied by a plain store, as in the code; there is no receipt,
no repeat, no target and no pause. Left out are the relay, the actuator error and
the two end positions, which a broadcast stores and nothing on this path reads,
and `lastSent_`, which is written and never read. A broadcast is the set of the
bits that decide door and light (`Bit`). `slotAt` and `takenAt` are history: when
the press in the slot, or on its way out, was really made.

### Hcp2Identity

`FirstPoll`, `Ask` and `GiveUp` are the parts of a status poll that concern the
exchange; a poll whose registers carry a press or a pause, or at which nothing is
due, changes nothing here and is a stuttering step. `KeepFirstHalf`, `KeepLast`
and `Refuse` are what `onWriteBlockComplete` does with a payload that came at its
full length or short. The bus task's own registers change in one step; the texts
and flags are touched an access at a time: `KeepLast -> WriteText -> Announce` on
the bus task, `TakeReady -> CopyBeginning -> CopyRest` on the loop. A text is
`empty`, `whole`, or `partial`, which is both one that is being rewritten and one
with a half missing or padded by what the registers held before.

The drive is external: once it heard an ask it may transfer each payload of the
answer as often as it likes, without a bound, in any order, short or whole, until it
leaves off, acknowledged or not (`owed`, `Lose`). Copied text is not compared
with what the state already holds; only its becoming whole matters.

### HcpEntities

The bus task stores a field and raises `changed` after it (`RaiseFlag`), one
access each; `setValid` and `setLink` only if the field was different. The loop
makes its silence check, which sets two of the same fields, tests the flag,
clears it, and calls the entities in the order they registered in; each reads
what it reads in the code's order, so that the bus task may change a field
between any two reads. The members of the cover (`previousPosition_`,
`previousOperation_`, `published_`, its warning) are variables. Modelled are the
cover, the position sensor, the connection, the switch for half open, the link
text, the text of the state, and the light with its output; the texts of serial
number and firmware version, and presses made through cover, switch and buttons,
are not. That the bus has been silent is a choice once something arrived
(`FallenSilent`), timing being the business of `Hcp2Commands`. Entities share the
state and nothing else, so a behaviour has one `group` of them: the door's, the
light, or the state text.

Of a light call the framework performs the change at once (`LightCall`, external)
and calls `write_state` at the next round of its loop: `WriteLight -> OutputCompares
-> TurnLight -> LightWritten`. `sync_from_drive` makes such a call itself. `origin`
remembers whose word the lamp on show is: what was restored at the start, the
drive's, a user's, or a user's that was refused.

### HcpEventRing

One action per access to `write_`, a slot's `seq`, a slot's entry or `dropped_`.
Positions and sequence numbers are taken modulo `SeqMod` and compared as signed
differences, as the code does modulo 2^32. The abstract `HcpEventQueue` has
`Record`, `Lose`, `Take` and `Report`; the refinement mapping turns the places
claimed and not freed into the queue, an entry counting as queued from the
successful compare-and-swap on (what a writer will put there is in its local
copy until then), and the losses decided but not yet counted into the count.
`drain` stops at a full batch and `drain_events` asks again at once, so the batch
size is left out.

## Runs

| run | instance | properties |
|---|---|---|
| `one_core` | one core; open, stop and a partway run on an opening door | `NothingOlderAfterStop` |
| `two_cores` | two cores; open and stop; a state word with noise; two unanswered repeats | `TypeOK`, `RepeatsBounded`, `RepeatsMeetTheDeadline`, `NoPressSentTwice`, `ExpiresByItsOwnAge` |
| `dead_link` | two cores; open and partway on a door that runs, lost answers, silence checks and pauses | `NoPressOnDeadLink`, `NothingHeldAcrossAPause` |
| `recovery` | two cores; open on a standing door, silence and pauses, with fairness | `PressIsResolved`, `LinkRecovers` |
| `exchange` | open and stop, a door that opens, three kinds of drive, lost requests and answers, restarts, dead links, pauses | `TypeOK`, `ReceiptIsReliable`, `NoPressIsForgotten`, `AcknowledgedByItsOwn`, `ImplementsDelivery`, `NothingOutdatedArrives` |
| `older_bus` | the older bus, two cores; open, stop, half open and the light; broadcasts of a door that opens or stands open | `TypeOK`, `NothingWaitsUnaddressed`, `NothingSentTwice`, `ExpiresByItsOwnAge` |
| `identity` | two attempts, a clock that wraps every four ticks, a drive that transfers as often as it likes, with fairness | `TypeOK`, `ShownIsWhole`, `AckedIsKept`, `AsksAreBounded`, `AsksAreSpaced`, `IdentityEnds`, `ReceivedIsShown` |
| `framing` | both buses; on the newer a poll and a broadcast that comes in pieces; four faults, with fairness | `TypeOK`, `NothingLeftBehind`, `FramesStayApart`, `KeepsListening` |
| `shown_at_rest` | four door states, two positions, the links the bus task sets, each group of entities | `TypeOK`, `DoorIsShown`, `NoMovementWithoutLink`, `LightIsShown`, `StateIsShown`, `NobodySwitches` |
| `two_writers` | the ring with two places and two writers, one of them the reader, with fairness | `NoEntryIsTorn`, `ImplementsQueue`, `EntriesAreRead` |

`NoPressOnDeadLink` and `NothingHeldAcrossAPause` speak of what the loop queued,
that is, of what somebody pressed. The stop the bus task queues for a partway run
may be stamped before the slot is emptied and stored after it, and then survives
a dead link or a pause until its stamp expires. `NothingHeldAcrossAPause` has two
halves, each broken by a mutant of its own: what waits in the slot is gone when a
pause is over, whether or not the drive noticed the pause (`AnnouncePause`); and what
was sent before is not repeated once a status poll was answered as paused
(`PausedAnswer`).

Bounds. `MaxTime` ticks, of which one frame or one call may straddle `MaxLag`,
`MaxPresses` accepted commands. The clock counts modulo 16 and starts two ticks
before it wraps, so every run longer than that wraps. The limits are a few ticks
and keep their order: `CMD_STALE` and `CMD_CONFIRM` (2 s) below `CMD_GIVEUP` (5 s)
below `BUS_SILENCE` (20 s); `MaxTime` exceeds the longest one the run is about.
Two presses are enough for a press and what outranks, refuses or replaces it, one
lag tick for a reading older than what it is compared with; `dead_link` and
`recovery` are about what becomes of a single press.

The exchange has a counter that wraps after 3, so that a drive laps the codec, two
repeats for lost answers and one for a door that does not react (all of them may
be used up), and `MaxEvents` presses, pauses and restarts of the drive together:
three for the drive the code expects, so that two presses meet a pause or a
restart, two for the others. Losses, restarts of the chip, broadcasts and
silences are not bounded.

Frames are two or four bytes long with a threshold of three and a buffer of five
(on the older bus three), so that a frame comes in pieces, two fit the buffer only
in part, and a shifted read differs from a straight one; the queue holds two
events and there are four faults, so that it can be full of the events of one long
frame and the next, and also be full when a break comes on the older bus.

The ring has two places, the smallest size at which claimed, filled and free places occur together, and at most
`MaxDropped` losses that nobody has asked for yet; positions wrap at eight and are pushed without bound, so that they wrap
again and again; `MaxOvertaken` says that fewer than half of `SeqMod` places go by
while one task is inside `push` (2^31 in the code), without which no signed
difference means anything.

The identity exchange has no bound on its length: the clock is cyclic, and what
counts is how many ticks ago the last ask was, up to one more than `Retry`. Two
attempts are enough for a late answer to meet the next request and for a half to put
the giving up off; how often a payload is repeated has no bound. The entities have no bound either; four door states give
the cover each of its operations and the switch both of its values, two positions
a door that moves and one that stands. One group of entities at a time loses
nothing, since no entity reads or writes what another one does.

Fairness. `FairSpec` of the command path: both tasks are scheduled, so a frame
that arrived is answered and a call of the loop returns (WF); and the drive goes
on polling, as a bus master does several times a second (SF, since other frames
may come in between). `FairSpec` of the identity
exchange: both tasks go on and time passes (WF); a poll at which the request is
due and nothing is being pressed comes round again and again (SF: presses and
pauses come in between). Nothing is assumed of the drive's answers: `IdentityEnds`
is about a drive that never answers, one that answers for a while, and one that
answers for ever. `FairSpec` of the ring: both tasks are scheduled, `update`
is called again and again however many pushes come in between, and
`compare_exchange_weak` does not fail for ever without a reason. `FairSpec` of the
framing: the bus task runs when there is an event, the line finishes a frame it
began and then falls quiet (WF), and the drive goes on asking us (SF, since it has
other accessories and broadcasts). Errors need no fairness; they are bounded.

## Disagreements between the code and what it says

Each is a run that TLC refutes, with the quoted line in `PROJECT.json`.

- `target_of_another` (`hcp2_codec.cpp:889`): the command is in the slot before its target is.
  A poll in between starts the run without it, and the target is armed with the
  next press, which is then stopped partway.
- `back_on_the_way` (`hcpbridge_cover.cpp:76`): the branch for a dead link
  publishes a standing door without remembering that it did. When the link
  returns with the door moving as before, the operation counts as unchanged and
  is not published until the position changes; on the older bus, which reports
  none under way, the cover shows a standing door for the whole run.

What the properties except, and so what the code does not promise:

- `ExpiresByItsOwnAge`: on two cores, a press stamped after the frame's clock
  reading is newer than it, the unsigned difference is huge (`hcp2_codec.cpp:312`,
  the older bus `hcp1_codec.cpp:136`), and a press accepted a moment ago is
  dropped as stale. With partway runs it also fails on one core: a refused press
  puts an old stamp back (line 824) over the stamp of a stop that the bus task has
  just queued at its target. No run with that property has partway runs.
- `NothingOlderAfterStop` is checked on one core. On two, a poll between the
  slot of a stop and its flag (`hcp2_codec.cpp:851-854`) takes the stop, finds a
  standing door and sends the repeat it had armed before.
- `NothingHeldAcrossAPause` is about repeats only from the first status poll that is
  answered as paused. A pause that ends before one comes leaves `awaitedCommand` and
  `lastSentCommand` as they were: only that answer clears them
  (`hcp2_codec.cpp:78-91`), and what was sent before the pause may be repeated after it.
- `IdentityEnds` excepts a drive that never stops sending first halves. Each one that
  is kept moves `identityAskedOn` (`hcp2_codec.cpp:777`); if they come faster than
  `IDENT_RETRY_MS` no poll is ever due, so the exchange is neither given up nor
  continued. It is not asked again either (`AsksAreBounded`), and the registers are
  used only for asking, so presses are not held up.
- `NothingWaitsUnaddressed` and `NothingSentTwice` say nothing of presses that are
  lost: on the older bus a press that replaces another, or that is stored while a
  status request is answered, goes without an event (`hcp1_codec.cpp:159`).
- `NothingLeftBehind` and `KeepsListening` except `slipped`: a frame that ends
  between the two calls that empty the driver (`modbus_rtu.cpp:98-99`, `:107-108`),
  or while the queue of twenty is full, keeps its bytes in the ring with no event
  for them. Every frame from there on is read shifted by as many bytes, until the
  next error or overflow empties the driver; nothing in the code notices by itself.
- `FramesStayApart` excepts `overtaken`: a break that comes while the bytes before
  it are unread, or a request sent before the last was answered; and, on the older
  bus, `missed`: a break the full queue had no room for, after which the two frames
  it stood between are collected as one until the next break or a full buffer.
- `NobodySwitches` excepts one window: when the drive reports a different lamp
  between the read of `sync_from_drive` (`hcpbridge_light.cpp:50`) and the write of
  the next round, the correction itself presses, and may undo what a user did at
  the drive. It happens only while that report is still to be taken over.
- `LightIsShown` excepts a request that is refused although the link is up (the
  slot is busy or a pause is announced, `hcp2_codec.cpp:800-826`): the lamp is shown
  as asked until the drive next reports something.
- `StateIsShown` excepts a state that changed between the reads that remember and
  publish it (`hcpbridge_text_sensor.cpp:24-25`): if it changes back before the next
  round, the passing state stays on show.

## Proofs

Every safety property of the passing runs is the subject of a theorem. Four of the
theorems have hypotheses beyond the assumptions the modules name; they are given
below, with the reason. TLC checked each of the invariants on an instance before it
was proved. An invariant that is a single property is seldom inductive: below is
what had to be added, since that is the argument why the code works.

`Hcp2CommandsProofs`, under the assumptions named in `Hcp2Commands`:

- `TypeCorrect`: `TypeOK` is inductive because it says which labels make `cmd` and
  `op.cmd` real commands, so that a `STOP` taken from the slot is resolved before it
  can be sent. The step is proved in groups (frames, answers, the loop's calls, their
  continuations, time).
- `RepeatsAreBounded`, through `RepeatInv`: the copies sent so far, plus the one
  armed, are covered by `1 + repeatsSent + confirmRepeats`, and a repeat is armed only
  at certain labels. The property alone does not know that an armed repeat has been
  counted.
- `NothingIsSentTwice`, through `SlotInv`: identities in the slot and among those
  sent are at most `accepted`, and the press polled has not been sent while it is on
  its way through the poll (`Unsent`).
- `NoPressWaitsOnDeadLink`, through `DeadLinkInv`: a call of the loop that puts a
  press in the slot began with a link, and only the loop itself takes the link away,
  after which it is on its way to emptying the slot.
- `NothingIsHeldAcrossAPause`, through `HeldInv` and `ToldInv`. A press a poll took
  just before the pause belongs to a frame no younger than the pause, and that frame is
  done before the pause ends. A poll answered as paused has consumed what was sent last
  and drops the watch and the repeat, so there is nothing to repeat (`Quiet`) until a
  press is sent that the loop made later.
- `NothingOlderGoesOutAfterStop`, through `StopInv`. Hypothesis `DualCore = FALSE`:
  with two cores the property does not hold (below "Disagreements"). A watch that a
  stop outranks ends with the stop that waits in the slot or with the request to drop
  the watch (`WatchEnds`), at every label of a poll before it chooses what to send.
- `DeadlineIsMet`, through `DeadlineInv`: the watch runs from the first sending, not
  from the last. Hypothesis `MaxTime < ClockMod`.
- `StaleByItsOwnAge`, through `AgeInv`: whatever stamp a poll reads is no older than
  the press it took, and the loop knows the stamp to put back. Hypotheses `MaxTime <
  ClockMod` and `Targets = {}`: with partway runs it does not hold, since a refused
  press may put an old stamp over that of the stop at a target.

`MaxTime < ClockMod` says that a behaviour is shorter than one round of the clock;
`ClockStart` is any reading, so the wrap may come anywhere in it. Across more than a
round an unsigned difference says nothing, and the code has nothing else to go by: a
press that waited 49.7 days is taken for a fresh one. `HcpClockProofs` holds the
arithmetic: the unsigned difference of two readings is the time between them
(`UnsignedDifference`) if that is within a round.

`Hcp1CommandsProofs`, under the assumptions named in `Hcp1Commands`:

- `TypeCorrect`, inductive for the same reason as above.
- `NothingWaitsUnaddressedAlways`, through `AddressInv`: the loop is the only task
  that fills the slot and the only one that forgets the address, so a press on
  its way to the slot, like one in it, finds an address; and at the label where
  the address is forgotten the slot is empty.
- `NothingIsSentTwice`, through `SentInv`, the counterpart of `SlotInv` on a slot
  that is emptied by a plain store.
- `StaleByItsOwnAge`, through `AgeInv`: the stamp in place was read no earlier than
  the press was made. Hypothesis `MaxTime < ClockMod`, as above.

`Hcp2ExchangeProofs`, under the assumptions named in `Hcp2Exchange`. All six rest on
one invariant, `IInv`, and on a lemma that says what a status poll may leave behind
(one of `Fresh`, `MadeGood`, `Again`, `Watched` and `Done`), so that the nested calls
of `onFrame` are taken apart once:

- `TypeCorrect`.
- `ReceiptIsReliableAlways`: with a drive that holds its counter the repeats for a
  lost answer pay for no copy (`ReceiptInv`), because it stands where the last answer
  left it only if that answer was lost.
- `NoPressIsForgottenAlways`: a press that did not arrive was lost as often as it was
  sent (`LostEachTime`), and it waits, or was lost where the next poll shows it, or
  is watched (`LossInv`).
- `AcknowledgedByItsOwnAlways`, through `PauseInv`: in a pause the drive owes this
  pause's acknowledgement or none, unless one came late.
- `NothingOutdatedArrivesAlways`, through `OutdatedInv`: what the codec remembers is
  newer than the last pause that was told and no older than the last stop, unless that
  stop waits in the slot and will end the watch.
- `DeliveryIsImplemented`: the refinement of `HcpDelivery`. Every step is an `Accept`,
  `Receive`, `ReceiveAgain` or a stutter; `OrderInv` gives the order (what waits is
  newer than what was sent, what was sent is no older than what arrived), `CopiesInv`
  the bound.

`HcpEventRingProofs`, under the assumptions named in `HcpEventRing`: any size of the
ring and any finite number of writers, counters that wrap, and `2 * (MaxOvertaken + N)
< SeqMod`, which the signed comparison needs. The lemmas at the start say what a
remainder, a signed difference and a slot number are.

- `NoEntryIsTornAlways`: the places claimed and not freed are a window of at most `N`
  that starts at `read` (`WindowInv`); within it a place is handed over or has exactly
  one owner (`OwnerInv`); a task that goes for a place is no further behind than
  others were claimed since (`ClaimInv`), so a compare-and-swap that succeeds did not
  come round; and two places of the window never share a slot.
- `QueueIsImplemented`: the refinement of `HcpEventQueue`, step by step. The lemma
  that carries it is `OnlyAFullRingTurnsAway`: an entry is turned away only if the
  window has `N` places at that moment, although the writer looked at `write_` and at
  the slot at different times.

`HcpFramingProofs`, under the assumptions named in `HcpFraming`: any sizes of frames,
buffers, thresholds and queues, and any number of faults.

- `TypeCorrect`, which includes that nothing is written past the end of `rx_buf_`.
- `NothingLeftBehindAlways`: what the events speak of is counted by the cardinality of
  `SpokenOf`; a read takes as many bytes as its event announced because no event
  speaks of more than the threshold and that fits the buffer (`QueueInv`), and the
  ring is empty between the two calls that empty the driver (`PlaceInv`).
- `FramesStayApartAlways`: on the newer bus, when the drive does not run ahead, an
  empty queue means an empty ring, so everything collected is of the frame on the line
  (`OwnInv`); on the older one what is collected belongs to it until a break says
  otherwise, and the break is the first event the task sees (`BreakInv`).

`Hcp2IdentityProofs`, under `ConstantsAssumption`:

- `TypeCorrect`, which includes that the attempts stay within `MaxAttempts`.
- `AsksAreBoundedAlways`, through `AskInv`: the asks for the open request are the
  attempts counted, those for a request that is still to come are none.
- `AsksAreSpacedAlways`, through `SpacedInv`: a request made before is marked as made,
  and is thought no older than it is, on a clock that wraps without end.
- `ShownIsWholeAlways`, through `WholeInv`: a ready text is whole and the bus task
  is not at its writing step for it, because the request that would let it in has
  been closed; so the copy never overlaps a rewrite, although no lock says so.
- `AckedIsKeptAlways`, from the same invariant: a payload that was acknowledged is in
  the buffer whole until the value is made of it.

`HcpEntitiesProofs`, under `ReportAssumption`:

- `TypeCorrect`.
- `ShownAtRest` and `NoMovementShownWithoutLink`, through `ShownInv`: a
  field that differs from what is shown has its flag raised, or about to be raised
  by the task that stored it, or will still be read in this round. For the position
  the cover's own memory counts (`previousPosition`), except between its two reads,
  when the position it has just read does.
- `LightFollowsTheDrive` and `NobodySwitchesTheLight`, through `LightInv`:
  as long as the lamp on show is the drive's word, it is what the drive reports, or
  a flag is up or about to be, or the loop is on its way to reading it; and nothing
  is written to the output before the drive was heard.
- `StateTextFollowsTheDoor`, through `TextInv`, which follows the
  three reads of the state.

What the proofs corrected. Proving them showed that three definitions said more or
less than the code does, and they were changed:

- Two cases of `Hcp2Exchange.SyncCounter` overlapped, so that the first frame after a
  start could have been taken for one in step without counting from it; they are
  disjoint now, as the early return at `hcp2_codec.cpp:595-599` makes them. The account
  of losses (`Reckon`) names the loss that goes unseen because nobody watches after the
  first repeat.
- `HcpFraming.FramesStayApart` did not except a break lost in a full queue; a smaller
  queue in the run `framing` now reaches that case (`missed`).
- `HcpFraming.Announced` is a cardinality, and not the sum over a sequence that would
  need induction over it.

What is model-checked only: liveness (`PressIsResolved`, `LinkRecovers`, `IdentityEnds`,
`ReceivedIsShown`, `KeepsListening`, `EntriesAreRead`), since fairness is beyond the
prover. The two expected violations stay with TLC, which shows the behaviours.

## Not modelled

- Presses made through the cover, the switch for half open and the buttons: each
  passes one call on to the codec, whose operations are modelled, and reports a
  refusal.
- The texts of serial number and firmware version beyond their hand-over
  (`Hcp2Identity`), and the wording of events and warnings.
- Checksums, registers and addresses as arithmetic; a frame is whole or not.
- The setting up of the UART, of the pins and of the tasks; the pull-up options.
- `settleUntilQuiet`: that the wire is quiet when a pause ends. It is the time
  between `Acknowledged` or `TimedOut` and `EndPause`.
- Target position, relay and actuator error, which are stored and read like the
  position.
- The transports and the bus factory, which forward calls and keep no state, and
  the validation of a configuration, which the ESPHome compiler runs once.

## Plan

Done: the command paths of both buses, the event ring and its refinement, the
identity exchange, the exchange with the drive and its refinement of bounded
delivery, the frame layers, the entities, and a theorem for every safety property.
Left to prove:

1. `Hcp2Commands` and delivery: that the command path alone, access by access, already
   keeps the order of `HcpDelivery` on one core, where a poll is not split by a stop.
2. `ExpiresByItsOwnAge` with partway runs, excepting exactly the stamp put back over
   that of the stop at a target, in place of `Targets = {}`.
3. The deadline and the stale limit over any number of rounds of the clock, for what
   is looked at once in every round.
4. The safety halves of the liveness properties: what a call of either task has still
   to do decreases with each of its steps.

Hazards without a property are listed in `PROJECT.json`: a target left over from a
run that was given up (`hcp2_codec.cpp:458`), a stamp put back over a newer one
(`:824`), a live link called silent (`:739`), and on the older bus a stop that is
thrown away (`hcp1_codec.cpp:159`) and a light that toggles (`:50`).
