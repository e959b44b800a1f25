----------------------------- MODULE Hcp2Exchange -----------------------------
(* The exchange between the drive and the HCP2 codec over a wire that loses    *)
(* requests and answers: the counter as a delivery receipt, what is repeated   *)
(* when it shows a loss, and the handshake before a pause.                     *)
(*                                                                             *)
(* The drive is the only one that begins an exchange, so an action is a whole  *)
(* one: the request, onFrame, and the answer. The interleaving of a frame with *)
(* the loop is in Hcp2Commands; here both are atomic, and what is at stake is  *)
(* one poll against the next. The drive is external.                           *)
EXTENDS HcpDoor

CONSTANTS
    Presses,            \* the commands somebody presses
    Doors,              \* the states the drive reports
    Drives,             \* how the drive may count: [holds, zero]
    CounterMax,         \* 0x7F
    LostAnswerRepeats, UnactedRepeats,      \* HCP2_CAPABILITIES
    MaxEvents           \* bound, for each drive: presses, pauses and its restarts together

ASSUME ExchangeAssumption ==
    /\ Presses \subseteq Press /\ Doors \subseteq DoorState
    /\ Drives \subseteq [holds : BOOLEAN, zero : BOOLEAN]
    /\ CounterMax \in Nat \ {0, 1}
    /\ LostAnswerRepeats \in Nat /\ UnactedRepeats \in Nat
    /\ MaxEvents \in [Drives -> Nat]

VARIABLES
    drive,              \* [counter, kind, owes]: kind.holds if it keeps its counter
                        \* exactly until it is answered, kind.zero if it counts through
                        \* 0; owes is the pause it has yet to acknowledge
    door,               \* state->state, as last reported
    bridge,             \* what the codec knows; see Bridge
    loop,               \* where the loop stands in announcePause
    pauseRequested, pauseConfirmed, valid,
    \* History, read by properties and bounds only.
    accepted,           \* presses accepted so far
    received, copies,   \* the press the drive received last, and how often
    stopped,            \* the last stop accepted and not dropped
    quieted,            \* presses accepted before a pause was told to the drive
    pauses, confirmedBy, late,  \* pauses so far; which one the last acknowledgement
                        \* was for; whether the drive owed one when this pause began
    driveRestarts,
    loss                \* of the newest press: [answers, counter, unnoticed, excused]

codecVars   == <<bridge, door, valid>>
pauseVars   == <<loop, pauseRequested, pauseConfirmed>>
pressVars   == <<accepted, stopped>>
arrivalVars == <<received, copies>>
pauseHist   == <<quieted, pauses, confirmedBy, late>>
vars == <<drive, codecVars, pauseVars, pressVars, arrivalVars, pauseHist, driveRestarts, loss>>

Nothing == [id |-> 0, cmd |-> "NONE"]
Counter == 0 .. CounterMax

\* The codec as it starts.
Bridge ==
    [slot |-> Nothing, cancel |-> FALSE,                            \* nextCommand, cancelWatch
     counting |-> FALSE, counter |-> 0, previous |-> 0,             \* txCounter*
     lastSent |-> Nothing, awaited |-> Nothing, repeat |-> Nothing, \* *Command
     acted |-> FALSE, repeatsSent |-> 0, confirmRepeats |-> 0]

NoCounter == CounterMax + 1
NoLoss    == [answers |-> 0, counter |-> NoCounter, unnoticed |-> FALSE, excused |-> FALSE]
Settled   == [NoLoss EXCEPT !.excused = TRUE]

MoreMayHappen == accepted + pauses + driveRestarts < MaxEvents[drive.kind]

Init ==
    /\ drive \in [counter : {0}, kind : Drives, owes : {0}]
    /\ door \in Doors
    /\ bridge = Bridge /\ valid = FALSE
    /\ loop = "idle" /\ pauseRequested = FALSE /\ pauseConfirmed = FALSE
    /\ accepted = 0 /\ stopped = 0 /\ received = 0 /\ copies = 0
    /\ quieted = 0 /\ pauses = 0 /\ confirmedBy = 0 /\ late = FALSE
    /\ driveRestarts = 0 /\ loss = Settled

-------------------------------------------------------------------------------
(* The codec: what one frame makes of what it knows.                           *)

\* Mutant: lost answers are made good without a limit.
Unlimited(b) == TRUE

RepeatsLeft(b) == b.repeatsSent < LostAnswerRepeats

\* The lost answer's command becomes a repeat, unless a newer press waits or the
\* limit is reached.
RearmLostCommand(b) ==
    CASE b.lastSent = Nothing \/ b.slot # Nothing -> b
      [] OTHER ->
           IF RepeatsLeft(b)
           THEN [b EXCEPT !.repeatsSent = @ + 1, !.repeat = b.lastSent,
                          !.awaited = Nothing, !.lastSent = Nothing]
           ELSE [b EXCEPT !.lastSent = Nothing]

\* Mutant: out of step, the codec goes on counting from where it was.
KeepCounting(b, rx) == b

\* Out of step, the drive is right.
Follow(b, rx) == [b EXCEPT !.counter = rx]

\* Only a repeated counter is a loss, and only a status poll carries a command.
SyncCounter(b, rx, kind) ==
    CASE ~b.counting -> [b EXCEPT !.counter = rx, !.counting = TRUE]
      [] b.counting /\ b.counter = rx -> b
      [] OTHER -> Follow(IF rx = b.previous /\ kind = "status"
                         THEN RearmLostCommand(b) ELSE b, rx)

\* Mutant: what was sent is forgotten before the counter is looked at.
ForgetFirst(b, rx, kind) == SyncCounter([b EXCEPT !.lastSent = Nothing], rx, kind)

\* Every frame that is answered, before what it asks for.
Begin(b, rx, kind) == [SyncCounter(b, rx, kind) EXCEPT !.lastSent = Nothing]

\* With nothing watched and nothing that could be put back, what is remembered
\* of the last command is not read again before the next one replaces it.
Idle(b) == b.awaited = Nothing /\ b.lastSent = Nothing

Tidy(b) ==
    IF Idle(b) THEN [b EXCEPT !.acted = FALSE, !.repeatsSent = 0, !.confirmRepeats = 0] ELSE b

\* Zero is left out.
AdvanceCounter(b) ==
    [Tidy(b) EXCEPT !.previous = b.counter,
              !.counter = IF b.counter = CounterMax THEN 1 ELSE b.counter + 1]

\* Mutant: a pause leaves the watch alone.
GoOnWatching(b) == [b EXCEPT !.repeat = Nothing]

StopWatching(b) == [b EXCEPT !.awaited = Nothing, !.repeat = Nothing]

\* The status branch while a pause is announced: the slot is left alone.
PausedAnswer(b) == StopWatching(b)

TookEffect(b) == b.acted \/ Reached(b.awaited.cmd, door, FALSE)

\* timing says how long ago the command went out: "early", "confirm" once
\* CMD_CONFIRM_MS have passed since, "giveup" once CMD_GIVEUP_MS have.
CheckCommandEffect(b, timing) ==
    CASE b.awaited = Nothing                                      -> b
      [] b.awaited # Nothing /\ (TookEffect(b) \/ b.slot # Nothing \/ timing = "giveup")
                                                                  -> StopWatching(b)
      [] OTHER -> IF timing = "confirm" /\ b.confirmRepeats < UnactedRepeats
                  THEN [b EXCEPT !.confirmRepeats = @ + 1, !.repeat = b.awaited]
                  ELSE b

CancelWatch(b) == [(IF b.cancel THEN StopWatching(b) ELSE b) EXCEPT !.cancel = FALSE]

\* Mutant: a stop goes out as it was queued.
TakenAsQueued(b, stale) == IF stale THEN Nothing ELSE b.slot

\* What comes out of the slot: nothing if it waited too long, and an impulse or
\* nothing for a stop.
Taken(b, stale) ==
    IF stale \/ (b.slot.cmd = "STOP" /\ ~Moving(door)) THEN Nothing
    ELSE IF b.slot.cmd = "STOP" THEN [b.slot EXCEPT !.cmd = "IMPULSE"] ELSE b.slot

RepeatMakesSense(b) ==
    /\ b.repeat # Nothing
    /\ IF b.repeat.cmd = "IMPULSE" THEN ~b.acted ELSE ~Reached(b.repeat.cmd, door, FALSE)

\* A press wins over a repeat of our own. What goes out is lastSent.
Send(b, press) ==
    CASE press # Nothing ->
           [b EXCEPT !.slot = Nothing, !.repeat = Nothing, !.lastSent = press, !.awaited = press,
                     !.acted = FALSE, !.repeatsSent = 0, !.confirmRepeats = 0]
      [] OTHER ->
           [b EXCEPT !.slot = Nothing, !.repeat = Nothing,
                     !.lastSent = IF RepeatMakesSense(b) THEN b.repeat ELSE Nothing]

SetCommandValuesToRead(b, timing, stale) ==
    LET watched == CancelWatch(CheckCommandEffect(b, timing))
    IN  Send(watched, Taken(watched, stale))

-------------------------------------------------------------------------------
(* The drive (external).                                                       *)

CountOn(c) == IF c < CounterMax THEN c + 1 ELSE IF drive.kind.zero THEN 0 ELSE 1

\* Answered, a drive counts on; unanswered, it repeats itself. One that does not
\* hold its counter may do the one for the other.
CounterAfter(answered) ==
    IF drive.kind.holds
    THEN {IF answered THEN CountOn(drive.counter) ELSE drive.counter}
    ELSE {drive.counter, CountOn(drive.counter)}

Receives(press, answered) ==
    IF answered /\ press # Nothing
    THEN /\ received' = press.id
         /\ copies' = IF press.id = received THEN copies + 1 ELSE 1
    ELSE UNCHANGED arrivalVars

\* Whether the loss of the newest press's last answer goes unnoticed: the drive
\* asks for something else first, or with another counter.
Overlooked(kind) ==
    loss.counter # NoCounter /\ ~(kind = "status" /\ drive.counter = loss.counter)

\* History: the newest press, after an exchange in which `sent` was sent.
Reckon(sent, kind, answered, excuse) ==
    LET lost      == sent.id = accepted /\ sent # Nothing /\ ~answered
        arrived   == sent.id = accepted /\ answered
        answers   == loss.answers + (IF lost THEN 1 ELSE 0)
        unnoticed == loss.unnoticed \/ Overlooked(kind)
    IN  loss' = IF \/ loss.excused \/ arrived \/ excuse \/ answers > LostAnswerRepeats
                   \/ unnoticed /\ answers > UnactedRepeats
                   \/ Overlooked(kind) /\ bridge.repeatsSent > 0
                THEN Settled
                ELSE [answers |-> answers, unnoticed |-> unnoticed, excused |-> FALSE,
                      counter |-> IF lost THEN drive.counter ELSE NoCounter]

-------------------------------------------------------------------------------
(* Exchanges. The answer arrives or is lost.                                   *)

\* The request is lost, or answered by nobody.
RequestLost ==
    /\ \E c \in CounterAfter(FALSE) : drive' = [drive EXCEPT !.counter = c]
    /\ UNCHANGED <<codecVars, pauseVars, pressVars, arrivalVars, pauseHist, driveRestarts, loss>>

StatusPoll(timing, stale, answered) ==
    LET heard == Begin(bridge, drive.counter, "status")
        b     == SetCommandValuesToRead(heard, timing, stale)
    IN  /\ ~pauseRequested
        /\ stale => bridge.slot # Nothing
        /\ timing # "early" => heard.awaited # Nothing
        /\ bridge' = AdvanceCounter(b) /\ valid' = TRUE
        /\ Receives(b.lastSent, answered)
        /\ Reckon(b.lastSent, "status", answered,
                  \/ stale \/ timing = "giveup"
                  \/ bridge.slot.cmd = "STOP" /\ ~Moving(door))
        /\ \E c \in CounterAfter(answered) : drive' = [drive EXCEPT !.counter = c]
        /\ UNCHANGED <<door, pauseVars, pressVars, pauseHist, driveRestarts>>

\* The answer to a status poll says that we are about to go quiet.
PausedPoll(answered) ==
    /\ pauseRequested
    /\ bridge' = AdvanceCounter(PausedAnswer(Begin(bridge, drive.counter, "status")))
    /\ valid' = TRUE
    /\ quieted' = accepted
    /\ Reckon(Nothing, "status", answered, TRUE)
    /\ \E c \in CounterAfter(answered) :
          drive' = [drive EXCEPT !.counter = c, !.owes = IF answered THEN pauses ELSE @]
    /\ UNCHANGED <<door, pauseVars, pressVars, arrivalVars, pauses, confirmedBy, late,
                   driveRestarts>>

\* A bus scan, an empty command, a transfer: counted like any other.
OtherPoll(answered) ==
    /\ bridge' = AdvanceCounter(Begin(bridge, drive.counter, "other")) /\ valid' = TRUE
    /\ Reckon(Nothing, "other", answered, FALSE)
    /\ \E c \in CounterAfter(answered) : drive' = [drive EXCEPT !.counter = c]
    /\ UNCHANGED <<door, pauseVars, pressVars, arrivalVars, pauseHist, driveRestarts>>

\* The drive confirms a pause, and repeats that until it is answered.
PauseAck(answered) ==
    /\ drive.owes # 0
    /\ bridge' = AdvanceCounter(Begin(bridge, drive.counter, "other")) /\ valid' = TRUE
    /\ pauseConfirmed' = TRUE /\ confirmedBy' = IF loop = "waiting" THEN drive.owes ELSE confirmedBy
    /\ Reckon(Nothing, "other", answered, FALSE)
    /\ \E c \in CounterAfter(answered) :
          drive' = [drive EXCEPT !.counter = c, !.owes = IF answered THEN 0 ELSE @]
    /\ UNCHANGED <<door, loop, pauseRequested, pressVars, arrivalVars, quieted, pauses, late,
                   driveRestarts>>

\* The drive reports its door; noise is a change of the state word that
\* translates to the same door state.
Broadcast(state, noise) ==
    LET changed == noise \/ state # door
    IN  /\ door' = state /\ valid' = TRUE
        /\ bridge' = [bridge EXCEPT !.acted = @ \/ (changed /\ ~Idle(bridge))]
        /\ loss' = IF changed THEN Settled ELSE loss
        /\ UNCHANGED <<drive, pauseVars, pressVars, arrivalVars, pauseHist, driveRestarts>>

\* The drive forgets where it was, and what it had to acknowledge.
DriveRestarts ==
    /\ MoreMayHappen /\ driveRestarts' = driveRestarts + 1
    /\ \E c \in Counter : drive' = [drive EXCEPT !.counter = c, !.owes = 0]
    /\ UNCHANGED <<codecVars, pauseVars, pressVars, arrivalVars, pauseHist, loss>>

-------------------------------------------------------------------------------
(* The loop.                                                                   *)

MayPress == loop = "idle" /\ valid /\ MoreMayHappen

Accept(press) ==
    /\ accepted' = press.id
    /\ bridge' = [bridge EXCEPT !.slot = press, !.cancel = @ \/ press.cmd = "STOP"]
    /\ loss' = IF Reached(press.cmd, door, FALSE) THEN Settled ELSE NoLoss
    /\ UNCHANGED <<drive, door, valid, pauseVars, arrivalVars, pauseHist, driveRestarts>>

\* setCommand: one press at a time.
PressCommand(c) ==
    /\ MayPress /\ bridge.slot = Nothing /\ c # "STOP"
    /\ Accept([id |-> accepted + 1, cmd |-> c])
    /\ UNCHANGED stopped

\* stopDoor: it takes the place of whatever waits.
PressStop ==
    /\ MayPress /\ "STOP" \in Presses
    /\ Accept([id |-> accepted + 1, cmd |-> "STOP"])
    /\ stopped' = accepted + 1

\* dropQueuedCommand, and the slot emptied with the link.
DropQueued ==
    /\ bridge' = [bridge EXCEPT !.slot = Nothing]
    /\ stopped' = IF bridge.slot.cmd = "STOP" THEN 0 ELSE stopped
    /\ loss' = IF bridge.slot # Nothing THEN Settled ELSE loss

\* checkBusSilence: nothing has come for BUS_SILENCE_MS.
LinkCalledDead ==
    /\ loop = "idle" /\ valid
    /\ valid' = FALSE /\ DropQueued
    /\ UNCHANGED <<drive, door, pauseVars, accepted, arrivalVars, pauseHist, driveRestarts>>

AnnouncePause ==
    /\ loop = "idle" /\ valid /\ MoreMayHappen
    /\ loop' = "request" /\ DropQueued
    /\ UNCHANGED <<drive, door, valid, pauseRequested, pauseConfirmed, accepted, arrivalVars,
                   pauseHist, driveRestarts>>

\* requestPause: two stores.
RequestPause ==
    /\ loop = "request" /\ loop' = "clear"
    /\ pauseRequested' = TRUE /\ pauses' = pauses + 1
    /\ UNCHANGED <<drive, codecVars, pauseConfirmed, pressVars, arrivalVars, quieted,
                   confirmedBy, late, driveRestarts, loss>>

\* Mutant: an acknowledgement of an earlier pause is left standing.
Kept == pauseConfirmed

Cleared == FALSE

ClearConfirmed ==
    /\ loop = "clear" /\ loop' = "waiting"
    /\ pauseConfirmed' = Cleared /\ late' = (drive.owes \notin {0, pauses})
    /\ UNCHANGED <<drive, codecVars, pauseRequested, pressVars, arrivalVars, quieted, pauses,
                   confirmedBy, driveRestarts, loss>>

\* Acknowledged, or no longer waited for.
Acknowledged ==
    /\ loop = "waiting" /\ pauseConfirmed /\ loop' = "acknowledged"
    /\ UNCHANGED <<drive, codecVars, pauseRequested, pauseConfirmed, pressVars, arrivalVars,
                   pauseHist, driveRestarts, loss>>

TimedOut ==
    /\ loop = "waiting" /\ loop' = "timedOut"
    /\ UNCHANGED <<drive, codecVars, pauseRequested, pauseConfirmed, pressVars, arrivalVars,
                   pauseHist, driveRestarts, loss>>

\* settleBeforeRestart has waited for a quiet wire: the pause is over.
EndPause ==
    /\ loop \in {"acknowledged", "timedOut"} /\ loop' = "idle"
    /\ pauseRequested' = FALSE /\ confirmedBy' = 0 /\ late' = FALSE
    /\ UNCHANGED <<drive, codecVars, pauseConfirmed, pressVars, arrivalVars, quieted, pauses,
                   driveRestarts, loss>>

\* The chip restarts: after an update that was announced, or for want of power.
BridgeRestarts ==
    /\ bridge' = Bridge /\ valid' = FALSE
    /\ loop' = "idle" /\ pauseRequested' = FALSE /\ pauseConfirmed' = FALSE
    /\ loss' = Settled
    /\ UNCHANGED <<drive, door, pressVars, arrivalVars, pauseHist, driveRestarts>>

-------------------------------------------------------------------------------
Timing == {"early", "confirm", "giveup"}

Exchange ==
    \/ RequestLost
    \/ \E answered \in BOOLEAN :
          \/ \E timing \in Timing, stale \in BOOLEAN : StatusPoll(timing, stale, answered)
          \/ PausedPoll(answered) \/ OtherPoll(answered) \/ PauseAck(answered)
    \/ \E state \in Doors, noise \in BOOLEAN : Broadcast(state, noise)

LoopContinues ==
    RequestPause \/ ClearConfirmed \/ Acknowledged \/ TimedOut \/ EndPause

Next ==
    \/ Exchange \/ LoopContinues \/ DriveRestarts \/ BridgeRestarts
    \/ (\E c \in Presses : PressCommand(c)) \/ PressStop
    \/ LinkCalledDead \/ AnnouncePause

Spec == Init /\ [][Next]_vars

-------------------------------------------------------------------------------
(* Properties.                                                                 *)

PressInfo == [id : Nat, cmd : Press \cup {"NONE"}]

\* The types of the state. Only the seven commands go out, and a repeat is never
\* left for the next poll.
TypeOK ==
    /\ drive \in [counter : Counter, kind : Drives, owes : 0 .. pauses]
    /\ door \in DoorState /\ valid \in BOOLEAN
    /\ bridge \in [slot : PressInfo, cancel : BOOLEAN,
                   counting : BOOLEAN, counter : Counter, previous : Counter,
                   lastSent : PressInfo, awaited : PressInfo, repeat : {Nothing},
                   acted : BOOLEAN, repeatsSent : 0 .. LostAnswerRepeats,
                   confirmRepeats : 0 .. UnactedRepeats]
    /\ "STOP" \notin {bridge.lastSent.cmd, bridge.awaited.cmd}
    /\ loop \in {"idle", "request", "clear", "waiting", "acknowledged", "timedOut"}
    /\ pauseRequested \in BOOLEAN /\ pauseConfirmed \in BOOLEAN
    /\ accepted \in Nat /\ received \in 0 .. accepted /\ copies \in Nat
    /\ stopped \in 0 .. accepted /\ quieted \in 0 .. accepted
    /\ pauses \in Nat /\ confirmedBy \in 0 .. pauses /\ late \in BOOLEAN
    /\ driveRestarts \in Nat
    /\ loss \in [answers : Nat, counter : 0 .. NoCounter, unnoticed : BOOLEAN,
                 excused : BOOLEAN]

\* Whatever the drive does with its counter and the wire with what is on it, a
\* press reaches the drive a bounded number of times, and none after a later one.
Promise == INSTANCE HcpDelivery WITH MaxCopies <- 1 + LostAnswerRepeats + UnactedRepeats
ImplementsDelivery == Promise!Spec

\* A drive that holds its counter until it is answered gets a command again only
\* because it did not act on it: making good a lost answer costs no second press,
\* however answers and requests are lost and whatever is polled in between.
ReceiptIsReliable == drive.kind.holds /\ driveRestarts = 0 => copies <= 1 + UnactedRepeats

\* Nothing pressed before an accepted stop reaches the drive after it, unless the
\* stop itself was dropped, with a dead link or before a pause; and once the drive
\* has been told of a pause, nothing pressed before reaches it, neither during the
\* pause nor as a repeat after it.
NothingOutdatedArrives ==
    [][arrivalVars' # arrivalVars => received' >= stopped /\ received' > quieted]_vars

\* A pause counts as acknowledged only by an acknowledgement of its own, unless
\* the drive still owed one for an earlier pause.
AcknowledgedByItsOwn ==
    loop \in {"waiting", "acknowledged"} /\ pauseConfirmed => confirmedBy = pauses \/ late

\* No press gets lost without a reason: one that the drive has not received is in
\* the slot, was in an answer that can be put back, or is watched with a repeat
\* left. The reasons are: the press expired or was given up, a stop of a standing
\* door, a door that moved or is there already, a pause, a restart, a slot emptied
\* with the link; more lost answers than are made good; and, once a loss was
\* overlooked because the drive asked for something else first or had counted on,
\* more of them than the watch has repeats, or one made good before, which ended
\* the watch.
NoPressIsForgotten ==
    received < accepted /\ ~loss.excused =>
        \/ bridge.slot.id = accepted
        \/ bridge.lastSent.id = accepted /\ bridge.repeatsSent < LostAnswerRepeats
        \/ bridge.awaited.id = accepted /\ bridge.confirmRepeats < UnactedRepeats
===============================================================================
