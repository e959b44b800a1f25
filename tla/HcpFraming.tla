------------------------------ MODULE HcpFraming ------------------------------
(* Where a frame starts and stops (modbus_rtu.cpp on the newer bus,           *)
(* hcp1_serial.cpp on the older one). The UART driver fills a ring with bytes *)
(* and a queue with events that say how many there were; the bus task takes   *)
(* an event, reads bytes, and hands over what it takes for a frame. On the    *)
(* newer bus an idle line ends a frame, on the older one the break in front   *)
(* of the next. An action is one call of the driver, or one interrupt.        *)
(*                                                                            *)
(* The driver is external: what it does is what the code relies on. Bytes     *)
(* carry the frame they belong to, so that a checksum is that every byte of   *)
(* one frame is there and nothing else.                                       *)
EXTENDS Integers, Sequences, SequencesExt, FiniteSetsExt

CONSTANTS
    Protocols,          \* the buses a port may be set up for: "HCP2", "HCP1"
    FrameKinds,         \* the frames the drive sends on each: [to, length]
    MinFrame,           \* the shortest frame of the newer bus
    FullThreshold,      \* RX_FULL_THRESHOLD: bytes that raise an event at once
    BufferSize,         \* of each: HCP2_MAX_FRAME, HCP1_MAX_FRAME
    QueueLength,        \* events the driver's queue holds
    Tags,               \* frames are numbered modulo this
    MaxFaults           \* bound: line errors, gaps and overtakings of a behaviour

Addressee == {"us", "all", "other"}

ASSUME KindsAssumption ==
    FrameKinds \in [Protocols -> SUBSET [to : Addressee, length : Nat \ {0}]]
\* What one event of the newer bus speaks of can be read at once.
ASSUME SizesAssumption ==
    /\ MinFrame \in Nat \ {0} /\ FullThreshold \in Nat \ {0}
    /\ BufferSize \in [Protocols -> Nat \ {0}]
    /\ QueueLength \in Nat \ {0} /\ Tags \in Nat \ {0} /\ MaxFaults \in Nat
    /\ "HCP2" \in Protocols => FullThreshold <= BufferSize["HCP2"]

VARIABLES
    protocol,           \* which bus the component was configured for
    line,               \* the frame on the line: [tag, kind, sent]
    fifo, ring, events, \* the driver: bytes not announced yet, bytes, events
    pc, event,          \* the bus task in poll, and the event it took
    rx,                 \* rx_buf_ up to its length
    faults,             \* how many there were
    overtaken,          \* whether the last frame began before the task was done
    missed,             \* whether a break was lost since rx_buf_ was last emptied
    slipped             \* whether bytes ever came without an event the task saw

driverVars  == <<fifo, ring, events>>
taskVars    == <<pc, event, rx, missed>>
historyVars == <<faults, overtaken, slipped>>
vars == <<protocol, line, driverVars, taskVars, historyVars>>

NoEvent == [type |-> "none", size |-> 0]

\* On the newer bus begin leaves the driver empty: it ends like an error does.
Init ==
    /\ protocol \in Protocols
    /\ line = [tag |-> 0, kind |-> [to |-> "other", length |-> 0], sent |-> 0]
    /\ fifo = <<>> /\ ring = <<>> /\ events = <<>>
    /\ pc = IF protocol = "HCP2" THEN "flush" ELSE "wait"
    /\ event = NoEvent /\ rx = <<>>
    /\ faults = 0 /\ overtaken = FALSE /\ missed = FALSE /\ slipped = FALSE

-------------------------------------------------------------------------------
(* The line and the driver (external).                                        *)

Room == BufferSize[protocol]

Idle == line.sent = line.kind.length

NextByte == [of |-> line.tag, at |-> line.sent + 1, to |-> line.kind.to,
             last |-> line.sent + 1 = line.kind.length]

\* An event the queue has no room for is lost; the bytes it spoke of are not.
Raise(type, size) ==
    events' = IF Len(events) < QueueLength
              THEN Append(events, [type |-> type, size |-> size])
              ELSE events

\* The interrupt moves bytes to the ring and announces them. Between the two
\* calls that empty the driver, the announcement is thrown away with the rest.
Announce(bytes) ==
    /\ ring' = ring \o bytes /\ fifo' = <<>>
    /\ Raise("data", Len(bytes))
    /\ slipped' = (slipped \/ Len(events) = QueueLength \/ pc = "reset")

\* The drive sends its next frame, usually when the last has been dealt with. On
\* the older bus a break comes first, at which the driver drops what it holds.
FrameBegins(kind) ==
    LET prompt == pc = "wait" /\ events = <<>>
    IN  /\ Idle /\ fifo = <<>>
        /\ prompt \/ faults < MaxFaults
        /\ faults' = IF prompt THEN faults ELSE faults + 1
        /\ overtaken' = ~prompt
        /\ line' = [tag |-> (line.tag + 1) % Tags, kind |-> kind, sent |-> 0]
        /\ IF protocol = "HCP1" THEN /\ ring' = <<>> /\ Raise("break", 0)
                                     /\ missed' = (missed \/ Len(events) = QueueLength)
                                ELSE UNCHANGED <<ring, events, missed>>
        /\ UNCHANGED <<protocol, fifo, pc, event, rx, slipped>>

ByteArrives ==
    /\ ~Idle
    /\ line' = [line EXCEPT !.sent = @ + 1]
    /\ IF Len(fifo) + 1 = FullThreshold
       THEN Announce(Append(fifo, NextByte))
       ELSE fifo' = Append(fifo, NextByte) /\ UNCHANGED <<ring, events, slipped>>
    /\ UNCHANGED <<protocol, taskVars, faults, overtaken>>

\* The line has been quiet long enough: after a frame, or in the middle of one
\* when the drive hesitates.
LineFallsQuiet ==
    /\ fifo # <<>> /\ (Idle \/ faults < MaxFaults)
    /\ faults' = IF Idle THEN faults ELSE faults + 1
    /\ Announce(fifo)
    /\ UNCHANGED <<protocol, line, taskVars, overtaken>>

\* A parity or framing error is announced beside the bytes; an overflow costs
\* those that were not in the ring yet.
LineError(dropped) ==
    /\ faults < MaxFaults /\ faults' = faults + 1
    /\ fifo' = IF dropped THEN <<>> ELSE fifo
    /\ Raise("error", 0)
    /\ UNCHANGED <<protocol, line, ring, taskVars, overtaken, slipped>>

-------------------------------------------------------------------------------
(* The bus task: poll. An expired wait for an event changes nothing.          *)

Goto(label) == pc' = label
Stays(label) == Goto(label) /\ UNCHANGED <<event, rx, missed>>
Returns(bytes) ==
    Goto("wait") /\ event' = NoEvent /\ rx' = bytes /\ missed' = (missed /\ bytes # <<>>)

\* Mutant: an error resets the queue and leaves the bytes where they are.
OnEventKeeping(type) ==
    CASE type = "data" -> "read" [] type = "error" -> "reset" [] OTHER -> "ended"

OnEvent(type) ==
    CASE type = "data" -> "read" [] type = "error" -> "flush" [] OTHER -> "ended"

TakeEvent ==
    /\ pc = "wait" /\ events # <<>>
    /\ event' = Head(events) /\ events' = Tail(events)
    /\ Goto(OnEvent(Head(events).type))
    /\ UNCHANGED <<protocol, line, fifo, ring, rx, missed, historyVars>>

\* uart_flush_input: the ring and what is still in the peripheral.
FlushInput ==
    /\ pc = "flush"
    /\ ring' = <<>> /\ fifo' = <<>>
    /\ IF protocol = "HCP2" THEN Stays("reset") ELSE Returns(<<>>)
    /\ UNCHANGED <<protocol, line, events, historyVars>>

ResetQueue ==
    /\ pc = "reset" /\ events' = <<>> /\ Returns(<<>>)
    /\ UNCHANGED <<protocol, line, fifo, ring, historyVars>>

\* What uart_read_bytes returns when asked for so many.
Taken(asked) == SubSeq(ring, 1, Min({asked, Len(ring)}))
Left(asked)  == SubSeq(ring, 1 + Min({asked, Len(ring)}), Len(ring))

\* A full FIFO raises an event of its own, so a long frame comes in pieces.
MoreToCome(bytes) == Len(bytes) >= FullThreshold /\ Len(bytes) < Room

ReadFrame ==
    LET asked == Min({event.size, Room})
    IN  /\ pc = "read" /\ protocol = "HCP2"
        /\ ring' = Left(asked)
        /\ IF Len(Taken(asked)) < MinFrame
           THEN Returns(<<>>)
           ELSE /\ rx' = Taken(asked) /\ UNCHANGED <<event, missed>>
                /\ Goto(IF MoreToCome(rx') THEN "more" ELSE "address")
        /\ UNCHANGED <<protocol, line, fifo, events, historyVars>>

\* Waits for the rest, until nothing has come for a while.
ReadMore ==
    LET room == Room - Len(rx)
    IN  /\ pc = "more"
        /\ rx' = rx \o Taken(room) /\ ring' = Left(room)
        /\ Goto(IF ring # <<>> /\ MoreToCome(rx') THEN "more" ELSE "address")
        /\ UNCHANGED <<protocol, line, fifo, events, event, missed, historyVars>>

\* What the first byte says as an address: anything, if it is not one.
AddressIn(bytes) == IF Head(bytes).at = 1 THEN {Head(bytes).to} ELSE Addressee

\* The frame is handed over unless it is for somebody else.
CheckAddress ==
    /\ pc = "address"
    /\ \E to \in AddressIn(rx) :
          IF to = "other" THEN Returns(<<>>)
                          ELSE Stays("handler")
    /\ UNCHANGED <<protocol, line, driverVars, historyVars>>

\* Mutant: what was collected is kept for the next frame.
KeepCollected == rx

\* rx_len_ after a frame was handed over, on the older bus.
AfterFrame == <<>>

\* The older bus: what was collected before a break is a frame.
BreakSeen ==
    /\ pc = "ended"
    /\ IF rx = <<>> THEN Returns(<<>>) ELSE Stays("handler")
    /\ UNCHANGED <<protocol, line, driverVars, historyVars>>

\* Mutant: a piece is read without a look at the room that is left.
AskedBlindly(kept) == event.size

\* No more than fits; what does not stays with the driver.
Asked(kept) == Min({event.size, Room - Len(kept)})

\* A full buffer means that a break was missed: start again.
ReadPiece ==
    LET kept  == IF Len(rx) = Room THEN <<>> ELSE rx
        asked == Asked(kept)
    IN  /\ pc = "read" /\ protocol = "HCP1"
        /\ Returns(kept \o Taken(asked)) /\ ring' = Left(asked)
        /\ UNCHANGED <<protocol, line, fifo, events, historyVars>>

\* One whole frame: what a right checksum stands for.
Whole(bytes) ==
    /\ bytes # <<>> /\ Head(bytes).at = 1 /\ Last(bytes).last
    /\ \A i \in DOMAIN bytes : bytes[i].of = Head(bytes).of /\ bytes[i].at = i

\* The handler answers a whole frame or keeps quiet; a broadcast gets no answer.
HandlerReturns ==
    /\ pc = "handler"
    /\ \/ Returns(AfterFrame)
       \/ Whole(rx) /\ Head(rx).to = "us" /\ Stays("answering")
    /\ UNCHANGED <<protocol, line, driverVars, historyVars>>

\* uart_wait_tx_done: nothing is read while our own bytes go out.
AnswerSent ==
    /\ pc = "answering" /\ Returns(AfterFrame)
    /\ UNCHANGED <<protocol, line, driverVars, historyVars>>

-------------------------------------------------------------------------------
BusTask ==
    \/ TakeEvent \/ FlushInput \/ ResetQueue \/ ReadFrame \/ ReadMore \/ CheckAddress
    \/ BreakSeen \/ ReadPiece \/ HandlerReturns \/ AnswerSent

Driver ==
    ByteArrives \/ LineFallsQuiet \/ \E dropped \in BOOLEAN : LineError(dropped)

Next == BusTask \/ Driver \/ \E kind \in FrameKinds[protocol] : FrameBegins(kind)

Spec == Init /\ [][Next]_vars

\* The bus task runs when there is an event, the line finishes what it began,
\* and the drive goes on asking us.
FairSpec ==
    /\ Spec
    /\ WF_vars(BusTask) /\ WF_vars(ByteArrives) /\ WF_vars(Idle /\ LineFallsQuiet)
    /\ SF_vars(\E kind \in FrameKinds[protocol] : kind.to = "us" /\ FrameBegins(kind))

-------------------------------------------------------------------------------
(* Properties.                                                                *)

Bytes == [of : 0 .. Tags - 1, at : Nat, to : Addressee, last : BOOLEAN]
Event == [type : {"none", "data", "break", "error"}, size : Nat]

\* The types of the state; nothing is written past the end of rx_buf_.
TypeOK ==
    /\ protocol \in Protocols /\ line.tag \in 0 .. Tags - 1
    /\ fifo \in Seq(Bytes) /\ ring \in Seq(Bytes) /\ rx \in Seq(Bytes)
    /\ Len(fifo) < FullThreshold /\ Len(rx) <= Room
    /\ events \in Seq(Event) /\ Len(events) <= QueueLength /\ event \in Event
    /\ pc \in {"wait", "flush", "reset", "read", "more", "address", "ended", "handler",
               "answering"}
    /\ faults \in 0 .. MaxFaults /\ overtaken \in BOOLEAN
    /\ missed \in BOOLEAN /\ slipped \in BOOLEAN

\* What events speak of: the first bytes, as many as its size, of each.
SpokenOf(evs) == UNION {{i} \X (1 .. evs[i].size) : i \in DOMAIN evs}

\* The bytes that an event still to be handled speaks of.
Announced == Cardinality(SpokenOf(events)) + (IF pc = "read" THEN event.size ELSE 0)

\* On the newer bus no byte is left in the ring that no event speaks of: it would
\* shift every frame that follows. The exceptions are a frame that ends between
\* the two calls that empty the driver, and an event the full queue had no room
\* for.
NothingLeftBehind == protocol = "HCP2" /\ Len(ring) > Announced => slipped

\* As long as the drive does not run ahead: on the newer bus an answer goes out to
\* the frame the drive sent last, not to an earlier one that lay in the ring; on the
\* older one nothing is handed over that is put together out of two frames, which
\* eight bits of checksum are too narrow to notice. The exceptions are bytes that
\* slipped in unannounced, and a break the full queue had no room for.
FramesStayApart ==
    /\ pc = "answering" /\ protocol = "HCP2" /\ ~slipped =>
          overtaken \/ Head(rx).of = line.tag
    /\ pc = "handler" /\ protocol = "HCP1" =>
          overtaken \/ missed \/ \A i \in DOMAIN rx : rx[i].of = Head(rx).of

\* Whatever went wrong on the line, whole frames are handed over again later: on
\* the older bus always, on the newer one unless bytes slipped in unannounced.
KeepsListening ==
    []<>((pc = "handler" /\ Whole(rx)) \/ (protocol = "HCP2" /\ slipped))
===============================================================================
