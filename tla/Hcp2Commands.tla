----------------------------- MODULE Hcp2Commands -----------------------------
(* The command path of the HCP2 codec: how a press travels from the ESPHome   *)
(* loop through one atomic slot to the bus task, goes out with the answer to  *)
(* a status poll, is watched for its effect, repeated, given up, outranked by *)
(* a stop, dropped with a dead link or held back by a pause.                  *)
(*                                                                            *)
(* Two tasks run it. Every action is one access to the state they share, with *)
(* the task-local work that follows it and the reads of values the other task *)
(* does not change in between; the accesses are sequentially consistent, as   *)
(* std::atomic's defaults are. On a single-core chip the bus task preempts    *)
(* the loop and never the other way round (DualCore = FALSE).                 *)
EXTENDS HcpDoor

CONSTANTS
    DualCore,           \* whether the loop runs while the bus task does
    Presses,            \* the commands somebody presses
    Targets,            \* positions asked for with setPosition, strictly partway
    Duties,             \* what else the loop does: "silence", "pause"
    Reports,            \* what the drive may report: [door, position, light]
    StateNoise,         \* whether the state word changes in parts not translated
    LostAnswerRepeats, UnactedRepeats,              \* HCP2_CAPABILITIES
    CmdStale, CmdConfirm, CmdGiveup, BusSilence,    \* in ticks of the clock
    ClockMod,           \* millis() is an unsigned number modulo this
    ClockStart,         \* what millis() reads at time 0
    MaxTime,            \* bound: ticks of a behaviour
    MaxLag,             \* bound: ticks one frame or one call of the loop straddles
    MaxPresses          \* bound: commands accepted into the slot

ASSUME LimitsAssumption == LostAnswerRepeats \in Nat /\ UnactedRepeats \in Nat
ASSUME PressesAssumption == Presses \subseteq Press
ASSUME TargetsAssumption == Targets \subseteq Nat \ {0}
ASSUME ReportsAssumption ==
    Reports \subseteq [door : DoorState, position : Nat, light : BOOLEAN]
ASSUME ClockAssumption ==
    /\ ClockMod \in Nat \ {0, 1}
    /\ ClockStart \in Nat /\ MaxTime \in Nat /\ MaxLag \in Nat /\ MaxPresses \in Nat
    /\ CmdStale \in Nat /\ CmdConfirm \in Nat /\ CmdGiveup \in Nat /\ BusSilence \in Nat

VARIABLES
    \* Shared by the two tasks.
    nextCommand, nextCommandOn,      \* the slot, and when it was filled
    gotoRequest,                     \* a target on its way to the bus task, or -1
    cancelWatch, pauseRequested,
    lastFrameOn, valid, link,
    \* Written by the bus task: the last report applied, and the watch.
    view,
    awaitedCommand, awaitedSince, lastSentAt,
    repeatCommand, confirmRepeats, repeatsSent,
    acted,                           \* stateWrites # stateWritesWhenSent
    lastSentCommand, gotoPosition,
    \* Control, and the locals of the call each task is in.
    pc, now, frame, cmd, op, previousOn,
    time,
    \* History, read by properties only.
    accepted, lastStop, heldBack,    \* commands accepted so far; the last stop among
                                     \* them; how many there were when a pause ended
    slotPress, taken, flying,        \* which press is in the slot, polled, on the wire
    tookStop,                        \* whether this poll took a stop
    sentIds, copies,                 \* fresh presses sent; copies of the last one
    told                             \* how many were accepted when a status poll was
                                     \* last answered as paused

slotVars   == <<nextCommand, slotPress, accepted, lastStop>>
flagVars   == <<gotoRequest, cancelWatch, pauseRequested>>
linkVars   == <<lastFrameOn, valid, link>>
sharedVars == <<slotVars, nextCommandOn, flagVars, linkVars>>
awaitVars  == <<awaitedCommand, awaitedSince>>
repeatVars == <<repeatCommand, confirmRepeats, repeatsSent>>
sentVars   == <<lastSentCommand, lastSentAt>>
doorVars   == <<view, acted, gotoPosition>>
watchVars  == <<awaitVars, repeatVars, sentVars, doorVars>>
pollVars   == <<cmd, taken, tookStop>>
flightVars == <<flying, sentIds, copies, told>>
busVars    == <<watchVars, frame, pollVars, flightVars>>
callVars   == <<op, previousOn>>
loopVars   == <<callVars, heldBack>>
clockVars  == <<now, time>>
vars       == <<sharedVars, busVars, loopVars, pc, clockVars>>

Task == {"loop", "bus"}

Millis(t)    == (ClockStart + t) % ClockMod
Since(t, ms) == (Millis(t) - ms) % ClockMod        \* uint32_t subtraction

NoPress == [id |-> 0, by |-> "loop", at |-> 0, target |-> 0]
NoCall  == [cmd |-> "NONE", target |-> 0]

At(t, label)   == pc[t] = label
Goto(t, label) == pc' = [pc EXCEPT ![t] = label]

\* A call returns: its locals go out of scope.
BusReturns  == /\ Goto("bus", "idle") /\ now' = [now EXCEPT !["bus"] = 0]
               /\ frame' = "none"
LoopReturns == /\ Goto("loop", "idle") /\ now' = [now EXCEPT !["loop"] = 0]
               /\ op' = NoCall /\ previousOn' = 0

\* The loop gets the processor when the bus task has a core of its own, or is
\* blocked waiting for the next frame.
MayRun(t)     == t = "bus" \/ DualCore \/ At("bus", "idle")
LoopAt(label) == MayRun("loop") /\ At("loop", label)

Init ==
    /\ nextCommand = "NONE" /\ nextCommandOn = 0
    /\ gotoRequest = -1 /\ cancelWatch = FALSE /\ pauseRequested = FALSE
    /\ lastFrameOn = 0 /\ valid = FALSE /\ link = "NEVER_SEEN"
    /\ view = [door |-> "CLOSED", position |-> 0, light |-> FALSE]
    /\ awaitedCommand = "NONE" /\ awaitedSince = 0 /\ lastSentAt = 0
    /\ repeatCommand = "NONE" /\ confirmRepeats = 0 /\ repeatsSent = 0
    /\ acted = FALSE /\ lastSentCommand = "NONE" /\ gotoPosition = 0
    /\ pc = [t \in Task |-> "idle"] /\ now = [t \in Task |-> 0]
    /\ frame = "none" /\ cmd = "NONE" /\ op = NoCall /\ previousOn = 0
    /\ time = 0
    /\ accepted = 0 /\ lastStop = 0 /\ heldBack = 0 /\ slotPress = NoPress /\ taken = NoPress
    /\ flying = [press |-> NoPress, sentAt |-> 0]
    /\ tookStop = FALSE /\ sentIds = {} /\ copies = 0 /\ told = 0

-------------------------------------------------------------------------------
(* The slot. Filling it records which press is in it.                         *)

\* Mutant: a stop competes for the slot and loses to the press that waits there.
FillSlotIfFree(t, c, target) ==
    /\ nextCommand' = IF nextCommand = "NONE" THEN c ELSE nextCommand
    /\ accepted' = accepted + 1
    /\ lastStop' = IF c = "STOP" THEN accepted + 1 ELSE lastStop
    /\ slotPress' = IF nextCommand = "NONE"
                    THEN [id |-> accepted + 1, by |-> t, at |-> now[t], target |-> target]
                    ELSE slotPress

FillSlot(t, c, target) ==
    /\ nextCommand' = c
    /\ accepted' = accepted + 1
    /\ lastStop' = IF c = "STOP" THEN accepted + 1 ELSE lastStop
    /\ slotPress' = [id |-> accepted + 1, by |-> t, at |-> now[t], target |-> target]

EmptySlot ==
    /\ nextCommand' = "NONE"
    /\ slotPress' = NoPress
    /\ UNCHANGED <<accepted, lastStop>>

\* Mutant: the slot keeps what was taken from it.
ClearNothing(c) == UNCHANGED slotVars

\* clearIfStill: a compare-and-swap against the command this poll took.
ClearIfStill(c) ==
    IF nextCommand = c THEN EmptySlot ELSE UNCHANGED slotVars

\* When the press of a task goes into the slot, as that task knew the time.
Stamp(t) == nextCommandOn' = Millis(now[t])

PressWaits == nextCommand # "NONE"

-------------------------------------------------------------------------------
(* A frame arrives at the bus task (onFrame). The clock is read once, before  *)
(* the codec sees the frame.                                                  *)

SignOfLife ==
    /\ At("bus", "idle")
    /\ lastFrameOn' = IF Millis(time) = 0 THEN 1 ELSE Millis(time)
    /\ link' = IF link = "NEVER_SEEN" THEN "ENUMERATING" ELSE link

FrameArrives(kind, label) ==
    /\ SignOfLife
    /\ Goto("bus", label) /\ frame' = kind
    /\ now' = [now EXCEPT !["bus"] = time]
    /\ UNCHANGED <<slotVars, nextCommandOn, flagVars, valid, awaitVars, repeatVars,
                   lastSentAt, doorVars, pollVars, flightVars, loopVars, time>>

\* A frame that is nothing but a sign of life: not for us, or malformed.
IgnoredFrame ==
    /\ SignOfLife
    /\ UNCHANGED <<slotVars, nextCommandOn, flagVars, valid, busVars, loopVars, pc, clockVars>>

\* A status poll whose counter is in step, or has moved elsewhere: syncCounter
\* finds no loss, and only the status branch refills what was last sent.
StatusPoll == FrameArrives("poll", "pause") /\ lastSentCommand' = "NONE"

\* A status poll that repeats the counter of an answer that carried a command.
CounterRepeated ==
    /\ lastSentCommand # "NONE"
    /\ FrameArrives("poll", "rearm") /\ UNCHANGED lastSentCommand

\* A bus scan, an empty command or a transfer.
OtherFrame == FrameArrives("other", "valid") /\ lastSentCommand' = "NONE"

\* The drive reports its state (fc 0x10).
Broadcast == FrameArrives("broadcast", "valid") /\ UNCHANGED lastSentCommand

\* Mutant: lost answers are made good without a limit.
RepeatsUnlimited == TRUE

RepeatsLeft == repeatsSent < LostAnswerRepeats

\* rearmLostCommand: the lost answer's command becomes a repeat, unless a newer
\* press waits or the limit is reached. The watch ends with it.
RearmLostCommand ==
    /\ At("bus", "rearm") /\ Goto("bus", "pause")
    /\ lastSentCommand' = "NONE"
    /\ IF ~PressWaits /\ RepeatsLeft
       THEN /\ repeatsSent' = repeatsSent + 1
            /\ repeatCommand' = lastSentCommand
            /\ awaitedCommand' = "NONE"
       ELSE UNCHANGED <<repeatsSent, repeatCommand, awaitedCommand>>
    /\ UNCHANGED <<sharedVars, awaitedSince, confirmRepeats, lastSentAt, doorVars, frame,
                   pollVars, flightVars, loopVars, clockVars>>

-------------------------------------------------------------------------------
(* Answering a status poll (the status branch of onRequestHook, then          *)
(* setCommandValuesToRead).                                                   *)

StopWatching == awaitedCommand' = "NONE" /\ repeatCommand' = "NONE"

\* Mutant: going quiet, the watch and the repeat are kept for the polls after it.
KeepWatching ==
    /\ At("bus", "pause") /\ pauseRequested
    /\ Goto("bus", "valid") /\ frame' = "paused"
    /\ told' = accepted
    /\ UNCHANGED <<sharedVars, awaitVars, repeatVars, sentVars, doorVars, pollVars, flying,
                   sentIds, copies, loopVars, clockVars>>

\* Going quiet: the slot is left alone, the watch and the repeat are dropped.
PausedAnswer ==
    /\ At("bus", "pause") /\ pauseRequested
    /\ Goto("bus", "valid") /\ frame' = "paused"
    /\ StopWatching
    /\ told' = accepted
    /\ UNCHANGED <<sharedVars, awaitedSince, confirmRepeats, repeatsSent, sentVars, doorVars,
                   pollVars, flying, sentIds, copies, loopVars, clockVars>>

NotPaused ==
    /\ At("bus", "pause") /\ ~pauseRequested
    /\ Goto("bus", "effect")
    /\ UNCHANGED <<sharedVars, busVars, loopVars, clockVars>>

\* commandTookEffect: the state word has changed since, or the door is there.
TookEffect == acted \/ Reached(awaitedCommand, view.door, view.light)

\* Mutant: the deadline runs from the last attempt, so a repeat postpones it.
OverdueSinceLastSent == Since(now["bus"], lastSentAt) > CmdGiveup

Overdue  == Since(now["bus"], awaitedSince) > CmdGiveup
AskAgain == /\ ~Overdue
            /\ Since(now["bus"], lastSentAt) > CmdConfirm
            /\ confirmRepeats < UnactedRepeats

CheckCommandEffect ==
    /\ At("bus", "effect") /\ Goto("bus", "cancel")
    /\ \/ \* Nothing is watched, or it is too early to say.
          /\ \/ awaitedCommand = "NONE"
             \/ ~TookEffect /\ ~PressWaits /\ ~Overdue /\ ~AskAgain
          /\ UNCHANGED <<awaitedCommand, repeatCommand, confirmRepeats, gotoPosition>>
       \/ \* It worked, or a press made in the meantime takes over.
          /\ awaitedCommand # "NONE" /\ (TookEffect \/ PressWaits)
          /\ StopWatching
          /\ UNCHANGED <<confirmRepeats, gotoPosition>>
       \/ \* Given up, with the target that belonged to it.
          /\ awaitedCommand # "NONE" /\ ~TookEffect /\ ~PressWaits /\ Overdue
          /\ StopWatching
          /\ gotoPosition' = 0
          /\ UNCHANGED confirmRepeats
       \/ /\ awaitedCommand # "NONE" /\ ~TookEffect /\ ~PressWaits /\ AskAgain
          /\ repeatCommand' = awaitedCommand
          /\ confirmRepeats' = confirmRepeats + 1
          /\ UNCHANGED <<awaitedCommand, gotoPosition>>
    /\ UNCHANGED <<sharedVars, awaitedSince, repeatsSent, sentVars, view, acted, frame,
                   pollVars, flightVars, loopVars, clockVars>>

\* A stop from the loop asks for the watch to be dropped.
CancelWatch ==
    /\ At("bus", "cancel") /\ Goto("bus", "take")
    /\ IF cancelWatch THEN StopWatching ELSE UNCHANGED <<awaitedCommand, repeatCommand>>
    /\ cancelWatch' = FALSE
    /\ UNCHANGED <<slotVars, nextCommandOn, gotoRequest, pauseRequested, linkVars,
                   awaitedSince, confirmRepeats, repeatsSent, sentVars, doorVars, frame,
                   pollVars, flightVars, loopVars, clockVars>>

TakeCommand ==
    /\ At("bus", "take")
    /\ Goto("bus", IF nextCommand = "NONE" THEN "fill" ELSE "age")
    /\ cmd' = nextCommand /\ taken' = slotPress
    /\ UNCHANGED <<sharedVars, watchVars, frame, tookStop, flightVars, loopVars, clockVars>>

Stale == Since(now["bus"], nextCommandOn) > CmdStale

\* The stamp is read after the slot.
CheckAge ==
    /\ At("bus", "age")
    /\ Goto("bus", IF Stale THEN "stale" ELSE IF cmd = "STOP" THEN "stop" ELSE "clear")
    /\ UNCHANGED <<sharedVars, busVars, loopVars, clockVars>>

DropStale ==
    /\ At("bus", "stale") /\ Goto("bus", "fill")
    /\ ClearIfStill(cmd)
    /\ cmd' = "NONE"
    /\ UNCHANGED <<nextCommandOn, flagVars, linkVars, watchVars, frame, taken, tookStop,
                   flightVars, loopVars, clockVars>>

\* Mutant: a stop goes on the wire as it was queued.
Unresolved == "STOP"

\* A moving door is stopped by an impulse, a standing one by nothing at all.
Resolved == IF Moving(view.door) THEN "IMPULSE" ELSE "NONE"

ResolveStop ==
    /\ At("bus", "stop")
    /\ ClearIfStill("STOP")
    /\ tookStop' = TRUE
    /\ cmd' = Resolved
    /\ Goto("bus", IF Resolved = "NONE" THEN "fill" ELSE "clear")
    /\ UNCHANGED <<nextCommandOn, flagVars, linkVars, watchVars, frame, taken, flightVars,
                   loopVars, clockVars>>

\* A press wins over a repeat of our own.
ClearTaken ==
    /\ At("bus", "clear") /\ Goto("bus", "target")
    /\ repeatCommand' = "NONE"
    /\ ClearIfStill(cmd)
    /\ UNCHANGED <<nextCommandOn, flagVars, linkVars, awaitVars, confirmRepeats, repeatsSent,
                   sentVars, doorVars, frame, pollVars, flightVars, loopVars, clockVars>>

\* The target is handed over, the watch starts and the answer carries cmd.
SendFresh ==
    /\ At("bus", "target") /\ Goto("bus", "valid")
    /\ gotoRequest' = -1
    /\ gotoPosition' = IF gotoRequest < 0 THEN 0 ELSE gotoRequest
    /\ awaitedCommand' = cmd /\ awaitedSince' = Millis(now["bus"])
    /\ confirmRepeats' = 0 /\ repeatsSent' = 0 /\ acted' = FALSE
    /\ lastSentCommand' = cmd /\ lastSentAt' = Millis(now["bus"])
    /\ flying' = [press |-> taken, sentAt |-> now["bus"]]
    /\ sentIds' = sentIds \cup {taken.id} /\ copies' = 1
    /\ UNCHANGED <<told, slotVars, nextCommandOn, cancelWatch, pauseRequested, linkVars, view,
                   repeatCommand, frame, pollVars, loopVars, clockVars>>

\* repeatStillMakesSense: an impulse while the drive has done nothing at all,
\* anything else while the door is not where it would send it.
RepeatMakesSense ==
    IF repeatCommand = "IMPULSE"
    THEN ~acted
    ELSE ~Reached(repeatCommand, view.door, view.light)

SendRepeat ==
    /\ At("bus", "fill") /\ Goto("bus", "valid")
    /\ repeatCommand # "NONE" /\ RepeatMakesSense
    /\ repeatCommand' = "NONE"
    /\ lastSentCommand' = repeatCommand /\ lastSentAt' = Millis(now["bus"])
    /\ copies' = copies + 1
    /\ UNCHANGED <<sharedVars, awaitVars, confirmRepeats, repeatsSent, doorVars, frame,
                   pollVars, flying, sentIds, told, loopVars, clockVars>>

SendNothing ==
    /\ At("bus", "fill") /\ Goto("bus", "valid")
    /\ repeatCommand = "NONE" \/ ~RepeatMakesSense
    /\ repeatCommand' = "NONE" /\ lastSentCommand' = "NONE"
    /\ UNCHANGED <<sharedVars, awaitVars, confirmRepeats, repeatsSent, lastSentAt, doorVars,
                   frame, pollVars, flightVars, loopVars, clockVars>>

-------------------------------------------------------------------------------
(* The end of onRequestHook, on every frame with a branch of its own.         *)

SetValid ==
    /\ At("bus", "valid") /\ Goto("bus", "link")
    /\ valid' = TRUE
    /\ cmd' = "NONE" /\ taken' = NoPress /\ tookStop' = FALSE
    /\ UNCHANGED <<slotVars, nextCommandOn, flagVars, lastFrameOn, link, watchVars, frame,
                   flightVars, loopVars, clockVars>>

\* Mutant: the reported link is asked instead of the pause itself.
LinkUnlessPaused ==
    IF frame = "paused" THEN "PAUSED" ELSE IF link = "PAUSED" THEN link ELSE "REGISTERED"

LinkOfAnswer ==
    IF frame = "paused" THEN "PAUSED" ELSE IF pauseRequested THEN link ELSE "REGISTERED"

SetLink ==
    /\ At("bus", "link")
    /\ link' = LinkOfAnswer
    /\ IF frame = "broadcast"
       THEN Goto("bus", "apply") /\ UNCHANGED <<frame, now>>
       ELSE BusReturns
    /\ UNCHANGED <<slotVars, nextCommandOn, flagVars, lastFrameOn, valid, watchVars,
                   pollVars, flightVars, loopVars, time>>

\* The whole telegram is applied, then the target is checked against it.
\* noise is a change of the state word that translates to the same door state.
ApplyBroadcast(report, noise) ==
    LET target == TargetAfter(view.door, report.door, gotoPosition)
        arrived == /\ report.position # view.position /\ target > 0
                   /\ \/ report.door = "CLOSING" /\ target >= report.position
                      \/ report.door = "OPENING" /\ target <= report.position
    IN  /\ At("bus", "apply")
        /\ view' = report
        /\ acted' = (acted \/ noise \/ report.door # view.door)
        /\ gotoPosition' = target
        /\ IF arrived THEN Goto("bus", "stopDoor") /\ UNCHANGED <<frame, now>>
                      ELSE BusReturns
        /\ UNCHANGED <<sharedVars, awaitVars, repeatVars, sentVars, pollVars, flightVars,
                       loopVars, time>>

-------------------------------------------------------------------------------
(* stopDoor, called by the loop for a press and by the bus task when the      *)
(* target of a partway run is reached. Stamp, slot, then the watch.           *)

StopRefused ==
    /\ At("bus", "stopDoor") /\ (~valid \/ pauseRequested)
    /\ BusReturns
    /\ UNCHANGED <<sharedVars, watchVars, pollVars, flightVars, loopVars, time>>

StopAtTarget ==
    /\ At("bus", "stopDoor") /\ valid /\ ~pauseRequested
    /\ Goto("bus", "stopStamp")
    /\ UNCHANGED <<sharedVars, busVars, loopVars, clockVars>>

StampStop(t) ==
    /\ MayRun(t) /\ At(t, "stopStamp") /\ Goto(t, "stopSlot")
    /\ Stamp(t)
    /\ UNCHANGED <<slotVars, flagVars, linkVars, busVars, loopVars, clockVars>>

QueueStop(t) ==
    /\ MayRun(t) /\ At(t, "stopSlot") /\ Goto(t, "stopWatch")
    /\ FillSlot(t, "STOP", 0)
    /\ UNCHANGED <<nextCommandOn, flagVars, linkVars, busVars, loopVars, clockVars>>

\* The bus task clears its target only here, after a stop that was issued.
AskToCancelWatch(t) ==
    /\ MayRun(t) /\ At(t, "stopWatch")
    /\ cancelWatch' = TRUE
    /\ IF t = "bus"
       THEN BusReturns /\ gotoPosition' = 0 /\ UNCHANGED callVars
       ELSE LoopReturns /\ UNCHANGED <<frame, gotoPosition>>
    /\ UNCHANGED <<heldBack, slotVars, nextCommandOn, gotoRequest, pauseRequested, linkVars,
                   awaitVars, repeatVars, sentVars, view, acted, pollVars, flightVars, time>>

-------------------------------------------------------------------------------
(* The ESPHome loop. A press refused for want of a link changes nothing and   *)
(* is a stuttering step.                                                      *)

\* setCommand, up to the old stamp it keeps for a refusal.
Ask(c, target) ==
    /\ LoopAt("idle") /\ Goto("loop", "stamp")
    /\ accepted < MaxPresses
    /\ valid /\ ~pauseRequested
    /\ now' = [now EXCEPT !["loop"] = time]
    /\ op' = [cmd |-> c, target |-> target]
    /\ previousOn' = nextCommandOn
    /\ UNCHANGED <<sharedVars, busVars, heldBack, time>>

\* openDoor, closeDoor, impulseDoor, halfPositionDoor, ventilationPositionDoor;
\* turnLight only asks for the other state.
PressCommand(c) ==
    /\ c # "STOP"
    /\ ~(c = "LIGHT_ON" /\ view.light) /\ ~(c = "LIGHT_OFF" /\ ~view.light)
    /\ Ask(c, 0)

SetPosition(target) ==
    /\ view.position # target
    /\ Ask(IF view.position < target THEN "OPEN" ELSE "CLOSE", target)

StampPress ==
    /\ LoopAt("stamp") /\ Goto("loop", "slot")
    /\ Stamp("loop")
    /\ UNCHANGED <<slotVars, flagVars, linkVars, busVars, loopVars, clockVars>>

\* The compare-and-swap: the slot takes one press, the others are refused.
QueuePress ==
    /\ LoopAt("slot") /\ nextCommand = "NONE"
    /\ FillSlot("loop", op.cmd, op.target)
    /\ IF op.target = 0 THEN LoopReturns
                        ELSE Goto("loop", "target") /\ UNCHANGED <<callVars, now>>
    /\ UNCHANGED <<nextCommandOn, flagVars, linkVars, busVars, heldBack, time>>

RefusePress ==
    /\ LoopAt("slot") /\ nextCommand # "NONE" /\ Goto("loop", "restore")
    /\ UNCHANGED <<sharedVars, busVars, loopVars, clockVars>>

\* Mutant: a refused press leaves its stamp to the one that waits.
LeaveStamp ==
    /\ LoopAt("restore") /\ LoopReturns
    /\ UNCHANGED <<sharedVars, busVars, heldBack, time>>

RestoreStamp ==
    /\ LoopAt("restore") /\ LoopReturns
    /\ nextCommandOn' = previousOn
    /\ UNCHANGED <<slotVars, flagVars, linkVars, busVars, heldBack, time>>

\* setPosition hands its target over once the command it goes with is accepted.
HandOverTarget ==
    /\ LoopAt("target") /\ LoopReturns
    /\ gotoRequest' = op.target
    /\ UNCHANGED <<slotVars, nextCommandOn, cancelWatch, pauseRequested, linkVars, busVars,
                   heldBack, time>>

PressStop ==
    /\ "STOP" \in Presses
    /\ LoopAt("idle") /\ Goto("loop", "stopStamp")
    /\ accepted < MaxPresses
    /\ valid /\ ~pauseRequested
    /\ now' = [now EXCEPT !["loop"] = time]
    /\ UNCHANGED <<sharedVars, busVars, loopVars, time>>

\* checkBusSilence is handed the time, then reads when the last frame came.
CheckBusSilence ==
    /\ "silence" \in Duties
    /\ LoopAt("idle") /\ Goto("loop", "judge")
    /\ now' = [now EXCEPT !["loop"] = time]
    /\ UNCHANGED <<sharedVars, busVars, loopVars, time>>

Silent == lastFrameOn # 0 /\ Since(now["loop"], lastFrameOn) > BusSilence

JudgeSilence ==
    /\ LoopAt("judge")
    /\ IF Silent THEN Goto("loop", "invalid") /\ UNCHANGED <<callVars, now>> ELSE LoopReturns
    /\ UNCHANGED <<sharedVars, busVars, heldBack, time>>

SetInvalid ==
    /\ LoopAt("invalid") /\ Goto("loop", "silent")
    /\ valid' = FALSE
    /\ UNCHANGED <<slotVars, nextCommandOn, flagVars, lastFrameOn, link, busVars, loopVars,
                   clockVars>>

SetSilent ==
    /\ LoopAt("silent") /\ Goto("loop", "drop")
    /\ link' = "SILENT"
    /\ UNCHANGED <<slotVars, nextCommandOn, flagVars, lastFrameOn, valid, busVars, loopVars,
                   clockVars>>

\* Mutant: the link is called dead and the press in the slot left there.
KeepQueued ==
    /\ LoopAt("drop") /\ LoopReturns
    /\ UNCHANGED <<sharedVars, busVars, heldBack, time>>

DropQueued ==
    /\ LoopAt("drop") /\ LoopReturns
    /\ EmptySlot
    /\ UNCHANGED <<nextCommandOn, flagVars, linkVars, busVars, heldBack, time>>

\* Mutant: the press in the slot is left there for the end of the pause.
AnnounceOnly ==
    /\ "pause" \in Duties
    /\ LoopAt("idle") /\ Goto("loop", "request")
    /\ lastFrameOn # 0 /\ Since(time, lastFrameOn) <= BusSilence
    /\ UNCHANGED <<sharedVars, busVars, loopVars, clockVars>>

\* announcePause: drop what waits, then ask; the loop waits in there for the
\* drive's acknowledgement or the timeout, and ends the pause either way.
AnnouncePause ==
    /\ "pause" \in Duties
    /\ LoopAt("idle") /\ Goto("loop", "request")
    /\ lastFrameOn # 0 /\ Since(time, lastFrameOn) <= BusSilence
    /\ EmptySlot
    /\ UNCHANGED <<nextCommandOn, flagVars, linkVars, busVars, loopVars, clockVars>>

RequestPause ==
    /\ LoopAt("request") /\ Goto("loop", "pausing")
    /\ now' = [now EXCEPT !["loop"] = time]
    /\ pauseRequested' = TRUE
    /\ UNCHANGED <<slotVars, nextCommandOn, gotoRequest, cancelWatch, linkVars, busVars,
                   loopVars, time>>

\* By then a frame that was being answered when the pause began is done: the
\* wait is for later frames, or 800 ms.
EndPause ==
    /\ LoopAt("pausing") /\ LoopReturns
    /\ At("bus", "idle") \/ now["bus"] > now["loop"]
    /\ pauseRequested' = FALSE
    /\ heldBack' = accepted
    /\ UNCHANGED <<slotVars, nextCommandOn, gotoRequest, cancelWatch, linkVars, busVars, time>>

-------------------------------------------------------------------------------
\* Time passes, at most MaxLag ticks within one frame or one call of the loop.
Tick ==
    /\ time < MaxTime
    /\ At("bus", "idle") \/ time - now["bus"] < MaxLag
    /\ pc["loop"] \in {"idle", "request", "pausing"} \/ time - now["loop"] < MaxLag
    /\ time' = time + 1
    /\ UNCHANGED <<sharedVars, busVars, loopVars, pc, now>>

BusReceives ==
    IgnoredFrame \/ StatusPoll \/ CounterRepeated \/ OtherFrame \/ Broadcast

BusAnswers ==
    \/ RearmLostCommand \/ PausedAnswer \/ NotPaused \/ CheckCommandEffect
    \/ CancelWatch \/ TakeCommand \/ CheckAge \/ DropStale \/ ResolveStop
    \/ ClearTaken \/ SendFresh \/ SendRepeat \/ SendNothing \/ SetValid \/ SetLink
    \/ \E report \in Reports, noise \in StateNoise : ApplyBroadcast(report, noise)
    \/ StopRefused \/ StopAtTarget
    \/ StampStop("bus") \/ QueueStop("bus") \/ AskToCancelWatch("bus")

LoopCalls ==
    \/ \E c \in Presses : PressCommand(c)
    \/ \E target \in Targets : SetPosition(target)
    \/ PressStop \/ CheckBusSilence \/ AnnouncePause

LoopContinues ==
    \/ StampPress \/ QueuePress \/ RefusePress \/ RestoreStamp \/ HandOverTarget
    \/ StampStop("loop") \/ QueueStop("loop") \/ AskToCancelWatch("loop")
    \/ JudgeSilence \/ SetInvalid \/ SetSilent \/ DropQueued
    \/ RequestPause \/ EndPause

Next == BusReceives \/ BusAnswers \/ LoopCalls \/ LoopContinues \/ Tick

Spec == Init /\ [][Next]_vars

\* Both tasks are scheduled: a frame that arrived is answered and a call of the
\* loop returns. The drive polls several times a second for as long as the bus
\* is alive, whatever else it sends in between.
FairSpec ==
    /\ Spec
    /\ WF_vars(BusAnswers) /\ WF_vars(LoopContinues)
    /\ SF_vars(StatusPoll)

-------------------------------------------------------------------------------
(* Properties.                                                                *)

MsRange   == 0 .. ClockMod - 1
PressInfo == [id : Nat, by : Task, at : Nat, target : Nat]
BusLabel  == {"idle", "rearm", "pause", "effect", "cancel", "take", "age", "stale", "stop",
              "clear", "target", "fill", "valid", "link", "apply", "stopDoor", "stopStamp",
              "stopSlot", "stopWatch"}
LoopLabel == {"idle", "stamp", "slot", "restore", "target", "stopStamp", "stopSlot",
              "stopWatch", "judge", "invalid", "silent", "drop", "request", "pausing"}

\* The types of the state, and what is on the wire: never a bare STOP.
TypeOK ==
    /\ nextCommand \in Press \cup {"NONE"} /\ nextCommandOn \in MsRange
    /\ gotoRequest \in Nat \cup {-1} /\ cancelWatch \in BOOLEAN /\ pauseRequested \in BOOLEAN
    /\ lastFrameOn \in MsRange /\ valid \in BOOLEAN /\ link \in Link
    /\ view \in [door : DoorState, position : Nat, light : BOOLEAN]
    /\ awaitedCommand \in Command \cup {"NONE"} /\ awaitedSince \in MsRange
    /\ repeatCommand \in Command \cup {"NONE"}
    /\ confirmRepeats \in Nat /\ repeatsSent \in Nat
    /\ lastSentCommand \in Command \cup {"NONE"} /\ lastSentAt \in MsRange
    /\ acted \in BOOLEAN /\ gotoPosition \in Nat
    /\ pc \in [Task -> BusLabel \cup LoopLabel]
    /\ pc["bus"] \in BusLabel /\ pc["loop"] \in LoopLabel
    /\ now \in [Task -> Nat] /\ time \in Nat
    /\ frame \in {"none", "poll", "paused", "other", "broadcast"}
    /\ cmd \in Press \cup {"NONE"} /\ (At("bus", "age") => cmd \in Press)
    /\ (pc["bus"] \in {"clear", "target"} => cmd \in Command)
    /\ op \in [cmd : Press \cup {"NONE"}, target : Nat] /\ previousOn \in MsRange
    /\ (pc["loop"] \in {"stamp", "slot", "restore", "target"} => op.cmd \in Command)
    /\ accepted \in Nat /\ lastStop \in Nat /\ heldBack \in Nat
    /\ slotPress \in PressInfo /\ taken \in PressInfo
    /\ flying \in [press : PressInfo, sentAt : Nat]
    /\ tookStop \in BOOLEAN /\ sentIds \subseteq Nat /\ copies \in Nat /\ told \in Nat

WillRepeat == At("bus", "fill") /\ repeatCommand # "NONE" /\ RepeatMakesSense

\* However often answers get lost and however long the drive does nothing, one
\* press goes out a bounded number of times: once, once more per lost answer the
\* protocol is allowed to make good, and once more per unanswered watch. A repeat is
\* sent or dropped by the poll that armed it; one left over would go out, unwatched,
\* with a poll that has nothing to do with it.
RepeatsBounded ==
    /\ copies <= 1 + LostAnswerRepeats + UnactedRepeats
    /\ At("bus", "idle") => repeatCommand = "NONE"

\* A press taken from the slot and sent is never taken from it and sent again.
NoPressSentTwice == [][SendFresh => taken.id \notin sentIds]_vars

\* Once the loop has called the link dead and is through with it, nothing that
\* somebody pressed is waiting to move the door whenever the drive returns. (The
\* stop of a partway run, which the bus task queues itself, may be.)
NoPressOnDeadLink ==
    ~valid /\ At("loop", "idle") /\ nextCommand # "NONE" => slotPress.by = "bus"

\* What somebody pressed before a pause does not leave the slot once the pause is over;
\* and once a status poll was answered as paused, what had been sent before is not
\* repeated, then or later. (A pause that is over before a status poll comes leaves
\* the watch of what was sent alone, and its repeats go on.)
NothingHeldAcrossAPause ==
    [][/\ SendFresh /\ taken.by = "loop" => taken.id > heldBack
       /\ SendRepeat /\ flying.press.by = "loop" => flying.press.id > told]_vars

\* Nothing that was pressed before an accepted stop goes out after it, neither
\* from the slot nor as a repeat; and the poll that takes a stop sends nothing but
\* the impulse that stops.
NothingOlderAfterStop ==
    /\ At("bus", "target") => taken.id >= lastStop
    /\ WillRepeat => flying.press.id >= lastStop /\ ~tookStop

\* A press is dropped as stale if it waited longer than CmdStale, however often
\* somebody tapped in the meantime, and only then. The exceptions are where the
\* clock readings cross: a stamp of a moment after the frame came in, which takes a
\* loop that runs at the same time, and another press being stamped just then.
ExpiresByItsOwnAge ==
    [][CheckAge =>
          IF pc'["bus"] = "stale"
          THEN \/ time - taken.at > CmdStale
               \/ DualCore /\ Since(time, nextCommandOn) < time - now["bus"]
          ELSE \/ now["bus"] - taken.at <= CmdStale
               \/ pc["loop"] \in {"slot", "restore", "stopSlot"} \/ slotPress # taken]_vars

\* A target stops the run it was asked for: it is armed with the press it came
\* with and with no other.
TargetBelongsToItsRun == gotoPosition # 0 => gotoPosition = flying.press.target

\* An unanswered command is asked again within CmdGiveup of its first attempt;
\* no repeat moves that deadline.
RepeatsMeetTheDeadline ==
    WillRepeat /\ awaitedCommand # "NONE" => now["bus"] - flying.sentAt <= CmdGiveup

\* With the drive polling, an accepted press does not wait in the slot for ever:
\* it is sent, dropped as stale, outranked, or dropped with the link.
PressIsResolved == nextCommand # "NONE" ~> nextCommand = "NONE"

\* With the drive polling, a link called dead is registered again, and so is one
\* shown as paused once the pause is over, unless another pause is announced.
LinkRecovers ==
    link \in {"SILENT", "PAUSED"} /\ ~pauseRequested ~> link = "REGISTERED" \/ pauseRequested

===============================================================================
