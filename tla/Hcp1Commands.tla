----------------------------- MODULE Hcp1Commands -----------------------------
(* The older bus (hcp1_codec.cpp): a drive that scans for accessories before  *)
(* it polls them, one slot whose press is replaced by the next one, no        *)
(* receipt and so no repeat. The two tasks, the granularity of the actions    *)
(* and the clock are those of Hcp2Commands.                                   *)
EXTENDS HcpDoor

CONSTANTS
    DualCore,               \* whether the loop runs while the bus task does
    Presses,                \* the commands somebody presses
    Broadcasts,             \* the sets of bits a broadcast may carry
    CmdStale, BusSilence,   \* in ticks of the clock
    ClockMod, ClockStart,   \* millis() wraps at ClockMod and starts at ClockStart
    MaxTime,                \* bound: ticks of a behaviour
    MaxLag,                 \* bound: ticks one frame or one call of the loop straddles
    MaxPresses              \* bound: commands accepted into the slot

Bit == {"moving", "closing", "venting", "open", "closed", "light"}

ASSUME PressesAssumption == Presses \subseteq Press
ASSUME BroadcastsAssumption == Broadcasts \subseteq SUBSET Bit
ASSUME ClockAssumption ==
    /\ ClockMod \in Nat \ {0, 1}
    /\ ClockStart \in Nat /\ MaxTime \in Nat /\ MaxLag \in Nat /\ MaxPresses \in Nat
    /\ CmdStale \in Nat /\ BusSilence \in Nat

VARIABLES
    pending, pendingAt,             \* the slot, and when it was filled
    addressed, lastFrameAt, valid, link,
    view,                           \* door and light as last broadcast
    pc, now, cmd, op,               \* control, and the locals of each task's call
    time,
    accepted, slotPress, taken, sentIds,    \* history: presses by number,
    slotAt, takenAt                         \* and when each was made

slotVars == <<pending, slotPress, slotAt, accepted>>
linkVars == <<addressed, lastFrameAt, valid, link>>
pollVars == <<cmd, taken, takenAt, sentIds>>
vars     == <<slotVars, pendingAt, linkVars, view, pc, now, pollVars, op, time>>

Task == {"loop", "bus"}

Millis(t)    == (ClockStart + t) % ClockMod
Since(t, ms) == (Millis(t) - ms) % ClockMod

At(t, label)   == pc[t] = label
Goto(t, label) == pc' = [pc EXCEPT ![t] = label]
Returns(t)     == Goto(t, "idle") /\ now' = [now EXCEPT ![t] = 0]

MayRun(t)     == t = "bus" \/ DualCore \/ At("bus", "idle")
LoopAt(label) == MayRun("loop") /\ At("loop", label)

Init ==
    /\ pending = "NONE" /\ pendingAt = 0
    /\ addressed = FALSE /\ lastFrameAt = 0 /\ valid = FALSE /\ link = "NEVER_SEEN"
    /\ view = [door |-> "CLOSED", light |-> FALSE]
    /\ pc = [t \in Task |-> "idle"] /\ now = [t \in Task |-> 0]
    /\ cmd = "NONE" /\ op = "NONE" /\ time = 0
    /\ accepted = 0 /\ slotPress = 0 /\ taken = 0 /\ sentIds = {}
    /\ slotAt = 0 /\ takenAt = 0

-------------------------------------------------------------------------------
(* The bus task: onFrame.                                                     *)

SignOfLife ==
    /\ At("bus", "idle")
    /\ lastFrameAt' = IF Millis(time) = 0 THEN 1 ELSE Millis(time)
    /\ link' = IF link = "NEVER_SEEN" THEN "ENUMERATING" ELSE link

\* Somebody else's frame, or one that says nothing we know.
IgnoredFrame ==
    /\ SignOfLife
    /\ UNCHANGED <<slotVars, pendingAt, addressed, valid, view, pc, now, pollVars, op, time>>

\* A scan, a status request or a broadcast.
FrameArrives ==
    /\ SignOfLife
    /\ \E kind \in {"scan", "poll", "broadcast"} : Goto("bus", kind)
    /\ now' = [now EXCEPT !["bus"] = time]
    /\ UNCHANGED <<slotVars, pendingAt, addressed, valid, view, pollVars, op, time>>

\* The drive gives us an address; we may speak from here on.
Scan ==
    /\ At("bus", "scan") /\ Returns("bus")
    /\ addressed' = TRUE
    /\ UNCHANGED <<slotVars, pendingAt, lastFrameAt, valid, link, view, pollVars, op, time>>

NotAddressed ==
    /\ ~addressed
    /\ At("bus", "poll") \/ At("bus", "broadcast")
    /\ Returns("bus")
    /\ UNCHANGED <<slotVars, pendingAt, linkVars, view, pollVars, op, time>>

StatusRequest ==
    /\ At("bus", "poll") /\ addressed /\ Goto("bus", "register")
    /\ UNCHANGED <<slotVars, pendingAt, linkVars, view, now, pollVars, op, time>>

Register ==
    /\ At("bus", "register") /\ Goto("bus", "take")
    /\ link' = "REGISTERED"
    /\ UNCHANGED <<slotVars, pendingAt, addressed, lastFrameAt, valid, view, now, pollVars,
                   op, time>>

NothingPending ==
    /\ At("bus", "take") /\ pending = "NONE" /\ Returns("bus")
    /\ UNCHANGED <<slotVars, pendingAt, linkVars, view, pollVars, op, time>>

TakePending ==
    /\ At("bus", "take") /\ pending # "NONE" /\ Goto("bus", "age")
    /\ cmd' = pending /\ taken' = slotPress /\ takenAt' = slotAt
    /\ UNCHANGED <<slotVars, pendingAt, linkVars, view, now, sentIds, op, time>>

\* Mutant: a stop goes out as it was pressed.
Unresolved(c) == c

\* A stop is an impulse at a moving door and nothing at a standing one.
Resolved(c) ==
    IF c # "STOP" THEN c ELSE IF Moving(view.door) THEN "IMPULSE" ELSE "NONE"

Stale == Since(now["bus"], pendingAt) > CmdStale

\* The stamp is read after the slot; a press that waited too long is not sent.
CheckAge ==
    /\ At("bus", "age") /\ Goto("bus", "clear")
    /\ cmd' = IF Stale THEN "NONE" ELSE Resolved(cmd)
    /\ UNCHANGED <<slotVars, pendingAt, linkVars, view, now, taken, takenAt, sentIds, op, time>>

\* Mutant: what was sent stays in the slot for the next poll.
ClearStaleOnly ==
    /\ At("bus", "clear") /\ Returns("bus")
    /\ pending' = IF cmd = "NONE" THEN "NONE" ELSE pending
    /\ sentIds' = IF cmd = "NONE" THEN sentIds ELSE sentIds \cup {taken}
    /\ UNCHANGED <<slotPress, slotAt, accepted, pendingAt, linkVars, view, cmd, taken, takenAt, op,
                   time>>

\* The slot is emptied with a plain store, and the answer goes out.
ClearPending ==
    /\ At("bus", "clear") /\ Returns("bus")
    /\ pending' = "NONE" /\ slotPress' = 0 /\ slotAt' = 0
    /\ sentIds' = IF cmd = "NONE" THEN sentIds ELSE sentIds \cup {taken}
    /\ cmd' = "NONE" /\ taken' = 0 /\ takenAt' = 0
    /\ UNCHANGED <<accepted, pendingAt, linkVars, view, op, time>>

DoorOf(bits) ==
    IF "moving" \in bits THEN (IF "closing" \in bits THEN "CLOSING" ELSE "OPENING")
    ELSE IF "venting" \in bits THEN "VENT"
    ELSE IF "open" \in bits THEN "OPEN"
    ELSE IF "closed" \in bits THEN "CLOSED"
    ELSE "STOPPED"

ApplyBroadcast(bits) ==
    /\ At("bus", "broadcast") /\ addressed /\ Goto("bus", "valid")
    /\ view' = [door |-> DoorOf(bits), light |-> "light" \in bits]
    /\ UNCHANGED <<slotVars, pendingAt, linkVars, now, pollVars, op, time>>

SetValid ==
    /\ At("bus", "valid") /\ Returns("bus")
    /\ valid' = TRUE
    /\ UNCHANGED <<slotVars, pendingAt, addressed, lastFrameAt, link, view, pollVars, op, time>>

-------------------------------------------------------------------------------
(* The loop. A press refused for want of an address, or because no bit of     *)
(* this bus says it, is a stuttering step.                                    *)

Says(c) == c # "HALF"

\* submit and stopDoor, which does the same for a stop; turnLight asks first
\* whether the light is already as wanted. setPosition is an open or a close.
Submit(c) ==
    /\ LoopAt("idle") /\ Goto("loop", "stamp")
    /\ accepted < MaxPresses
    /\ Says(c) /\ addressed
    /\ ~(c = "LIGHT_ON" /\ view.light) /\ ~(c = "LIGHT_OFF" /\ ~view.light)
    /\ now' = [now EXCEPT !["loop"] = time]
    /\ op' = c
    /\ UNCHANGED <<slotVars, pendingAt, linkVars, view, pollVars, time>>

\* Mutant: the stamp is that of the press before.
StampNothing ==
    /\ LoopAt("stamp") /\ Goto("loop", "slot")
    /\ UNCHANGED <<slotVars, pendingAt, linkVars, view, now, pollVars, op, time>>

StampPress ==
    /\ LoopAt("stamp") /\ Goto("loop", "slot")
    /\ pendingAt' = Millis(now["loop"])
    /\ UNCHANGED <<slotVars, linkVars, view, now, pollVars, op, time>>

\* Whatever waited there is replaced.
QueuePress ==
    /\ LoopAt("slot") /\ Returns("loop")
    /\ pending' = op /\ op' = "NONE"
    /\ accepted' = accepted + 1 /\ slotPress' = accepted + 1 /\ slotAt' = now["loop"]
    /\ UNCHANGED <<pendingAt, linkVars, view, pollVars, time>>

CheckBusSilence ==
    /\ LoopAt("idle") /\ Goto("loop", "judge")
    /\ now' = [now EXCEPT !["loop"] = time]
    /\ UNCHANGED <<slotVars, pendingAt, linkVars, view, pollVars, op, time>>

Silent == lastFrameAt # 0 /\ Since(now["loop"], lastFrameAt) > BusSilence

JudgeSilence ==
    /\ LoopAt("judge")
    /\ IF Silent THEN Goto("loop", "invalid") /\ UNCHANGED now ELSE Returns("loop")
    /\ UNCHANGED <<slotVars, pendingAt, linkVars, view, pollVars, op, time>>

SetInvalid ==
    /\ LoopAt("invalid") /\ Goto("loop", "silent")
    /\ valid' = FALSE
    /\ UNCHANGED <<slotVars, pendingAt, addressed, lastFrameAt, link, view, now, pollVars,
                   op, time>>

SetSilent ==
    /\ LoopAt("silent") /\ Goto("loop", "drop")
    /\ link' = "SILENT"
    /\ UNCHANGED <<slotVars, pendingAt, addressed, lastFrameAt, valid, view, now, pollVars,
                   op, time>>

\* Mutant: the press in the slot is left there.
KeepPending ==
    /\ LoopAt("drop") /\ Goto("loop", "forget")
    /\ UNCHANGED <<slotVars, pendingAt, linkVars, view, now, pollVars, op, time>>

DropPending ==
    /\ LoopAt("drop") /\ Goto("loop", "forget")
    /\ pending' = "NONE" /\ slotPress' = 0 /\ slotAt' = 0
    /\ UNCHANGED <<accepted, pendingAt, linkVars, view, now, pollVars, op, time>>

ForgetAddress ==
    /\ LoopAt("forget") /\ Returns("loop")
    /\ addressed' = FALSE
    /\ UNCHANGED <<slotVars, pendingAt, lastFrameAt, valid, link, view, pollVars, op, time>>

-------------------------------------------------------------------------------
\* Time passes, at most MaxLag ticks within one frame or one call of the loop.
Tick ==
    /\ time < MaxTime
    /\ \A t \in Task : At(t, "idle") \/ time - now[t] < MaxLag
    /\ time' = time + 1
    /\ UNCHANGED <<slotVars, pendingAt, linkVars, view, pc, now, pollVars, op>>

BusAnswers ==
    \/ Scan \/ NotAddressed \/ StatusRequest \/ Register \/ NothingPending \/ TakePending
    \/ CheckAge \/ ClearPending \/ SetValid
    \/ \E bits \in Broadcasts : ApplyBroadcast(bits)

LoopRuns ==
    \/ \E c \in Presses : Submit(c)
    \/ StampPress \/ QueuePress \/ CheckBusSilence \/ JudgeSilence
    \/ SetInvalid \/ SetSilent \/ DropPending \/ ForgetAddress

Next == IgnoredFrame \/ FrameArrives \/ BusAnswers \/ LoopRuns \/ Tick

Spec == Init /\ [][Next]_vars

-------------------------------------------------------------------------------
(* Properties.                                                                *)

BusLabel  == {"idle", "scan", "poll", "broadcast", "register", "take", "age", "clear", "valid"}
LoopLabel == {"idle", "stamp", "slot", "judge", "invalid", "silent", "drop", "forget"}

\* The types of the state; what goes out is never a bare stop.
TypeOK ==
    /\ pending \in Press \cup {"NONE"} /\ pendingAt \in 0 .. ClockMod - 1
    /\ addressed \in BOOLEAN /\ lastFrameAt \in 0 .. ClockMod - 1 /\ valid \in BOOLEAN
    /\ link \in Link /\ view \in [door : DoorState, light : BOOLEAN]
    /\ pc \in [Task -> BusLabel \cup LoopLabel]
    /\ pc["bus"] \in BusLabel /\ pc["loop"] \in LoopLabel
    /\ now \in [Task -> Nat] /\ time \in Nat
    /\ cmd \in Press \cup {"NONE"} /\ op \in Press \cup {"NONE"}
    /\ (At("bus", "clear") => cmd \in Command \cup {"NONE"})
    /\ (pc["loop"] \in {"stamp", "slot"} => op \in Press)
    /\ accepted \in Nat /\ slotPress \in Nat /\ taken \in Nat
    /\ slotAt \in Nat /\ takenAt \in Nat /\ sentIds \subseteq Nat

\* On a bus that cannot say whether a command arrived, none is sent twice.
NothingSentTwice ==
    [][ClearPending /\ cmd # "NONE" => taken \notin sentIds]_vars

\* Without an address nothing waits: what somebody pressed before the bus died
\* does not move the door when the drive scans again.
NothingWaitsUnaddressed == pending # "NONE" => addressed

\* A press is dropped as stale if it waited longer than CmdStale and only then,
\* unless one that replaces it was stamped between the poll's two readings, or a
\* stamp is of a moment after the frame came in.
ExpiresByItsOwnAge ==
    [][CheckAge =>
          IF Stale
          THEN \/ time - takenAt > CmdStale
               \/ Since(time, pendingAt) < time - now["bus"]
          ELSE \/ now["bus"] - takenAt <= CmdStale
               \/ At("loop", "slot") \/ accepted > taken]_vars
===============================================================================
