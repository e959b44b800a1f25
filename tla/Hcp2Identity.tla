----------------------------- MODULE Hcp2Identity -----------------------------
(* Finding out who the drive is (hcp2_codec.cpp): the request for the serial  *)
(* number, then for the firmware version, that ride along with a poll, the    *)
(* payloads the drive transfers in answer, and the two texts the bus task     *)
(* hands to the loop. The bus task's own registers change in one step; the    *)
(* texts and their flags, which both tasks touch, an access at a time. The    *)
(* drive is external: it transfers what it was asked for, late, short, out of *)
(* order, not at all, or again and again without end.                         *)
EXTENDS Naturals

CONSTANTS
    MaxAttempts,            \* IDENT_MAX_ATTEMPTS
    Retry,                  \* IDENT_RETRY_MS, in ticks of the clock
    ClockMod, ClockStart    \* millis() wraps at ClockMod and starts at ClockStart

ASSUME ConstantsAssumption ==
    /\ MaxAttempts \in Nat /\ Retry \in Nat
    /\ ClockMod \in Nat \ {0} /\ ClockStart \in 0 .. ClockMod - 1

Request == {"serial", "firmware"}
Payload == {"first", "second", "firmware"}      \* the serial number comes in two halves

AnsweredBy(p)     == IF p = "firmware" THEN "firmware" ELSE "serial"
PayloadsOf(r)     == {p \in Payload : AnsweredBy(p) = r}

VARIABLES
    identityStarted, identityWanted, identityAttempts, identityAskedOn, identityAsked,
    serialFirstHalfSeen,
    buf,                    \* the payloads as kept
    text, ready,            \* identSerial and identFirmware, and their flags
    shown, heard,           \* the state's copies, and the copy being made
    bus, payload,           \* control: where the bus task is, with which payload
    loop, copied,           \* control: where the loop is, with which text
    clock,
    owed,                   \* the drive: payloads it transfers, as often as it likes
    asks, sinceAsk, acked   \* history: asks sent, ticks since the last, payloads acknowledged

requestVars == <<identityStarted, identityWanted, identityAttempts, identityAskedOn,
                 identityAsked>>
halfVars    == <<serialFirstHalfSeen, buf>>
textVars    == <<text, ready>>
loopVars    == <<shown, heard, loop, copied>>
busVars     == <<bus, payload>>
askVars     == <<asks, sinceAsk>>
vars == <<requestVars, halfVars, textVars, loopVars, busVars, clock, owed, askVars, acked>>

Init ==
    /\ identityStarted = FALSE /\ identityWanted = "NONE" /\ identityAttempts = 0
    /\ identityAskedOn = 0 /\ identityAsked = FALSE
    /\ serialFirstHalfSeen = FALSE /\ buf = [p \in Payload |-> "empty"]
    /\ text = [r \in Request |-> "empty"] /\ ready = [r \in Request |-> FALSE]
    /\ shown = [r \in Request |-> "empty"] /\ heard = "empty"
    /\ bus = "idle" /\ payload = "first" /\ loop = "take" /\ copied = "serial"
    /\ clock = ClockStart
    /\ owed = {}
    /\ asks = [r \in Request |-> 0] /\ sinceAsk = 0 /\ acked = {}

BusIdle == bus = "idle"

-------------------------------------------------------------------------------
(* The bus task: status polls. One whose answer carries a press or a pause,   *)
(* or at which nothing is due, changes nothing here.                          *)

ArmIdentityRequest(r) ==
    /\ identityWanted' = r
    /\ identityAttempts' = 0 /\ identityAskedOn' = 0 /\ identityAsked' = FALSE
    /\ serialFirstHalfSeen' = FALSE

\* The first answered poll means the drive is talking to us.
FirstPoll ==
    /\ BusIdle /\ ~identityStarted
    /\ identityStarted' = TRUE
    /\ ArmIdentityRequest("serial")
    /\ UNCHANGED <<buf, textVars, loopVars, busVars, clock, owed, askVars, acked>>

\* Mutant: one attempt too many.
OneMoreAttempt == identityAttempts <= MaxAttempts

AttemptsLeft == identityAttempts < MaxAttempts

\* Mutant: no flag, an ask at the reading 0 passes for none.
FirstTryByStamp == identityAskedOn = 0

FirstTry == ~identityAsked
Due == FirstTry \/ (clock - identityAskedOn) % ClockMod > Retry

\* Mutant: the last attempt is waited for, but never given up.
GiveUpLater ==
    /\ BusIdle /\ identityWanted # "NONE" /\ Due
    /\ identityAttempts > MaxAttempts
    /\ identityWanted' = "NONE"
    /\ UNCHANGED <<identityStarted, identityAttempts, identityAskedOn, identityAsked, halfVars,
                   textVars, loopVars, busVars, clock, owed, askVars, acked>>

GiveUp ==
    /\ BusIdle /\ identityWanted # "NONE" /\ Due
    /\ ~AttemptsLeft
    /\ identityWanted' = "NONE"
    /\ UNCHANGED <<identityStarted, identityAttempts, identityAskedOn, identityAsked, halfVars,
                   textVars, loopVars, busVars, clock, owed, askVars, acked>>

\* The request takes the registers a press would; the drive may not hear it.
Ask ==
    /\ BusIdle /\ identityWanted # "NONE" /\ Due
    /\ AttemptsLeft
    /\ identityAttempts' = identityAttempts + 1
    /\ identityAskedOn' = clock /\ identityAsked' = TRUE
    /\ asks' = [asks EXCEPT ![identityWanted] = @ + 1] /\ sinceAsk' = 0
    /\ owed' \in {owed, owed \cup PayloadsOf(identityWanted)}
    /\ UNCHANGED <<identityStarted, identityWanted, halfVars, textVars, loopVars, busVars, clock,
                   acked>>

-------------------------------------------------------------------------------
(* The bus task: payload transfers.                                           *)

\* Mutant: a payload of a request that is no longer open is taken.
KeptUnasked(p, long) == long /\ (p = "second" => serialFirstHalfSeen)

\* Only an answer to the open request is kept, only at its full length, and a
\* second half only after a first.
Kept(p, long) ==
    /\ identityWanted = AnsweredBy(p)
    /\ long
    /\ p = "second" => serialFirstHalfSeen

\* Mutant: what was thrown away is acknowledged.
AcknowledgeAll(p, long) == acked' = acked \cup {p}

\* Whether the acknowledgement arrives is the drive's affair: it may transfer the
\* payload again in any case.
Acknowledge(p, long) ==
    IF Kept(p, long) THEN acked' = acked \cup {p} ELSE UNCHANGED acked

Transferred(p, long) ==
    /\ BusIdle /\ p \in owed
    /\ Acknowledge(p, long)
    /\ owed' \in {owed, owed \ {p}}

Refuse(p, long) ==
    /\ Transferred(p, long) /\ ~Kept(p, long)
    /\ UNCHANGED <<requestVars, halfVars, textVars, loopVars, busVars, clock, askVars>>

\* Mutant: half an answer starts the count of attempts again.
ProgressRestarts ==
    /\ identityAskedOn' = clock /\ identityAsked' = TRUE
    /\ identityAttempts' = 0

\* Half an answer is progress: the retry waits, the count does not restart.
Progress ==
    /\ identityAskedOn' = clock /\ identityAsked' = TRUE
    /\ UNCHANGED identityAttempts

\* A payload that came short is padded with what the registers held before.
Store(p, long) == buf' = [buf EXCEPT ![p] = IF long THEN "whole" ELSE "padded"]

KeepFirstHalf(long) ==
    /\ Transferred("first", long) /\ Kept("first", long)
    /\ Store("first", long) /\ serialFirstHalfSeen' = TRUE
    /\ Progress
    /\ UNCHANGED <<identityStarted, identityWanted, textVars, loopVars, busVars, clock, askVars>>

\* The last payload of a value; its text is rewritten in place.
KeepLast(p, long) ==
    /\ p # "first"
    /\ Transferred(p, long) /\ Kept(p, long)
    /\ Store(p, long)
    /\ serialFirstHalfSeen' = (serialFirstHalfSeen /\ p # "second")
    /\ text' = [text EXCEPT ![AnsweredBy(p)] = "partial"]
    /\ bus' = "text" /\ payload' = p
    /\ UNCHANGED <<requestVars, ready, loopVars, clock, askVars>>

TextOf(r) == IF \A p \in PayloadsOf(r) : buf[p] = "whole" THEN "whole" ELSE "partial"

WriteText ==
    /\ bus = "text" /\ bus' = "announce"
    /\ text' = [text EXCEPT ![AnsweredBy(payload)] = TextOf(AnsweredBy(payload))]
    /\ UNCHANGED <<requestVars, halfVars, ready, loopVars, payload, clock, owed, askVars, acked>>

\* The serial number leads on to the firmware version, which ends it.
Announce ==
    /\ bus = "announce" /\ bus' = "idle"
    /\ ready' = [ready EXCEPT ![AnsweredBy(payload)] = TRUE]
    /\ IF payload = "firmware"
       THEN /\ identityWanted' = "NONE"
            /\ UNCHANGED <<identityAttempts, identityAskedOn, identityAsked, serialFirstHalfSeen>>
       ELSE ArmIdentityRequest("firmware")
    /\ UNCHANGED <<identityStarted, buf, text, loopVars, payload, clock, owed, askVars, acked>>

-------------------------------------------------------------------------------
(* The loop: publishIdentity, the serial number and then the firmware version.*)

Other(r) == IF r = "serial" THEN "firmware" ELSE "serial"

\* Mutant: both flags are taken with the first text.
TakeBoth ==
    /\ loop = "take"
    /\ IF ready[copied] THEN loop' = "copy" /\ UNCHANGED copied
                        ELSE copied' = Other(copied) /\ UNCHANGED loop
    /\ ready' = IF ready[copied] THEN [r \in Request |-> FALSE] ELSE ready
    /\ UNCHANGED <<requestVars, halfVars, text, shown, heard, busVars, clock, owed, askVars, acked>>

TakeReady ==
    /\ loop = "take"
    /\ IF ready[copied] THEN loop' = "copy" /\ UNCHANGED copied
                        ELSE copied' = Other(copied) /\ UNCHANGED loop
    /\ ready' = [ready EXCEPT ![copied] = FALSE]
    /\ UNCHANGED <<requestVars, halfVars, text, shown, heard, busVars, clock, owed, askVars, acked>>

\* The copy reads the text byte by byte: its beginning and then the rest.
CopyBeginning ==
    /\ loop = "copy" /\ loop' = "rest"
    /\ heard' = text[copied]
    /\ UNCHANGED <<requestVars, halfVars, textVars, shown, copied, busVars, clock, owed, askVars,
                   acked>>

CopyRest ==
    /\ loop = "rest" /\ loop' = "take" /\ copied' = Other(copied)
    /\ shown' = [shown EXCEPT ![copied] =
                    IF heard = "whole" /\ text[copied] = "whole" THEN "whole" ELSE "partial"]
    /\ heard' = "empty"
    /\ UNCHANGED <<requestVars, halfVars, textVars, busVars, clock, owed, askVars, acked>>

-------------------------------------------------------------------------------
\* The drive's last transfer of a payload is lost on the way, or never made.
Lose(p) ==
    /\ p \in owed /\ owed' = owed \ {p}
    /\ UNCHANGED <<requestVars, halfVars, textVars, loopVars, busVars, clock, askVars, acked>>

\* The clock, and how long ago the last ask was, as far as it matters.
Tick ==
    /\ clock' = (clock + 1) % ClockMod
    /\ sinceAsk' = IF sinceAsk > Retry THEN sinceAsk ELSE sinceAsk + 1
    /\ UNCHANGED <<requestVars, halfVars, textVars, loopVars, busVars, owed, asks, acked>>

Polls == FirstPoll \/ GiveUp \/ Ask

Transfers ==
    \/ \E long \in BOOLEAN :
          KeepFirstHalf(long) \/ \E p \in Payload : Refuse(p, long) \/ KeepLast(p, long)
    \/ \E p \in Payload : Lose(p)

Publishes == TakeReady \/ CopyBeginning \/ CopyRest

Next == Polls \/ Transfers \/ WriteText \/ Announce \/ Publishes \/ Tick

Spec == Init /\ [][Next]_vars

\* The drive polls for as long as it lives, and a poll at which the request is
\* due comes round with nothing being pressed; both tasks go on, time passes.
\* Of the drive's answers nothing is asked.
FairSpec ==
    /\ Spec
    /\ WF_vars(FirstPoll) /\ SF_vars(GiveUp \/ Ask)
    /\ WF_vars(WriteText) /\ WF_vars(Announce) /\ WF_vars(Publishes) /\ WF_vars(Tick)

-------------------------------------------------------------------------------
(* Properties.                                                                *)

Text == {"empty", "partial", "whole"}

\* The types of the state.
TypeOK ==
    /\ identityStarted \in BOOLEAN /\ identityWanted \in Request \cup {"NONE"}
    /\ identityAttempts \in 0 .. MaxAttempts
    /\ identityAskedOn \in 0 .. ClockMod - 1 /\ identityAsked \in BOOLEAN
    /\ serialFirstHalfSeen \in BOOLEAN /\ buf \in [Payload -> {"empty", "padded", "whole"}]
    /\ text \in [Request -> Text] /\ ready \in [Request -> BOOLEAN]
    /\ shown \in [Request -> Text] /\ heard \in Text
    /\ bus \in {"idle", "text", "announce"} /\ payload \in Payload
    /\ loop \in {"take", "copy", "rest"} /\ copied \in Request
    /\ clock \in 0 .. ClockMod - 1
    /\ owed \subseteq Payload /\ acked \subseteq Payload
    /\ asks \in [Request -> Nat] /\ sinceAsk \in 0 .. Retry + 1

\* What the sensors show is never half a value: not one whose halves are missing
\* or padded, and not one the bus task rewrites while the loop copies it.
ShownIsWhole == \A r \in Request : shown[r] # "partial"

\* The drive is told that a payload landed only when it did.
AckedIsKept == \A p \in acked : buf[p] = "whole"

\* A drive that answers half, or not at all, is asked MaxAttempts times.
AsksAreBounded == \A r \in Request : asks[r] <= MaxAttempts

\* The same request is not made again before the retry interval is over, at
\* whatever reading of the clock it was made.
AsksAreSpaced == [][Ask /\ asks[identityWanted] > 0 => sinceAsk > Retry]_vars

\* The exchange comes to an end, and the registers are free of it, whatever the
\* drive answers and however often, unless it never stops sending first halves that
\* are kept: each of them puts the next attempt off, and giving up with it.
IdentityEnds ==
    \/ <>[](identityStarted /\ identityWanted = "NONE")
    \/ []<><<\E long \in BOOLEAN : KeepFirstHalf(long)>>_vars

\* What was received is shown.
ReceivedIsShown == \A r \in Request : text[r] = "whole" ~> shown[r] = "whole"
===============================================================================
