-------------------------- MODULE Hcp2CommandsProofs --------------------------
(* Theorems about Hcp2Commands, for every choice of its constants.            *)
EXTENDS Hcp2Commands, HcpClockProofs, TLAPS

\* A reading of the clock is an unsigned number below ClockMod, and so is the 1
\* that stands for the reading 0 in lastFrameOn.
LEMMA MillisType ==
    ASSUME NEW t \in Nat
    PROVE  Millis(t) \in MsRange /\ 1 \in MsRange /\ 0 \in MsRange
BY ClockAssumption DEF Millis, MsRange

-------------------------------------------------------------------------------
(* Type correctness.                                                          *)

\* A frame that arrives keeps the types, whatever kind it is (onFrame).
LEMMA TypeReceives ==
    ASSUME TypeOK, BusReceives
    PROVE  TypeOK'
<1> USE ClockAssumption, MillisType
<1> USE DEF TypeOK, Task, Press, Command, PressInfo, BusLabel, LoopLabel, At, Goto, LoopAt,
            MayRun, vars, sharedVars, slotVars, flagVars, linkVars, busVars, watchVars, awaitVars,
            repeatVars, sentVars, doorVars, pollVars, flightVars, loopVars, callVars, clockVars
<1>1. CASE IgnoredFrame
  BY <1>1 DEF IgnoredFrame, SignOfLife, Link
<1>2. CASE StatusPoll
  BY <1>2 DEF StatusPoll, FrameArrives, SignOfLife, Link
<1>3. CASE CounterRepeated
  BY <1>3 DEF CounterRepeated, FrameArrives, SignOfLife, Link
<1>4. CASE OtherFrame
  BY <1>4 DEF OtherFrame, FrameArrives, SignOfLife, Link
<1>5. CASE Broadcast
  BY <1>5 DEF Broadcast, FrameArrives, SignOfLife, Link
<1>. QED  BY <1>1, <1>2, <1>3, <1>4, <1>5 DEF BusReceives

\* So does every step of answering it (onRequestHook and what it calls).
LEMMA TypeAnswers ==
    ASSUME TypeOK, BusAnswers
    PROVE  TypeOK'
<1> USE ClockAssumption, MillisType
<1> USE DEF TypeOK, Task, Press, Command, PressInfo, BusLabel, LoopLabel, At, Goto, LoopAt,
            MayRun, vars, sharedVars, slotVars, flagVars, linkVars, busVars, watchVars, awaitVars,
            repeatVars, sentVars, doorVars, pollVars, flightVars, loopVars, callVars, clockVars
<1>1. CASE RearmLostCommand
  BY <1>1 DEF RearmLostCommand
<1>2. CASE PausedAnswer
  BY <1>2 DEF PausedAnswer, StopWatching
<1>3. CASE NotPaused
  BY <1>3 DEF NotPaused
<1>4. CASE CheckCommandEffect
  BY <1>4 DEF CheckCommandEffect, StopWatching
<1>5. CASE CancelWatch
  <2>1. cancelWatch' \in BOOLEAN
    BY <1>5 DEF CancelWatch
  <2>. QED  BY <2>1, <1>5 DEF CancelWatch, StopWatching
<1>6. CASE TakeCommand
  BY <1>6 DEF TakeCommand, NoPress
<1>7. CASE CheckAge
  <2>1. /\ pc' \in [Task -> BusLabel \cup LoopLabel]
        /\ pc'["bus"] \in BusLabel /\ pc'["loop"] = pc["loop"]
    BY <1>7 DEF CheckAge
  <2>2. pc'["bus"] \in {"clear", "target"} => cmd' \in Command
    BY <1>7 DEF CheckAge
  <2>. QED  BY <2>1, <2>2, <1>7 DEF CheckAge
<1>8. CASE DropStale
  BY <1>8 DEF DropStale, ClearIfStill, EmptySlot, NoPress
<1>9. CASE ResolveStop
  BY <1>9 DEF ResolveStop, ClearIfStill, EmptySlot, NoPress, Resolved
<1>10. CASE ClearTaken
  BY <1>10 DEF ClearTaken, ClearIfStill, EmptySlot, NoPress
<1>11. CASE SendFresh
  <2>1. acted' \in BOOLEAN
    BY <1>11 DEF SendFresh
  <2>2. gotoRequest' \in Nat \cup {-1} /\ gotoPosition' \in Nat
    BY <1>11 DEF SendFresh
  <2>3. flying' \in [press : PressInfo, sentAt : Nat] /\ sentIds' \subseteq Nat /\ copies' \in Nat
    BY <1>11 DEF SendFresh
  <2>. QED  BY <2>1, <2>2, <2>3, <1>11 DEF SendFresh
<1>12. CASE SendRepeat
  BY <1>12 DEF SendRepeat
<1>13. CASE SendNothing
  BY <1>13 DEF SendNothing
<1>14. CASE SetValid
  <2>1. valid' \in BOOLEAN /\ tookStop' \in BOOLEAN
    BY <1>14 DEF SetValid
  <2>2. cmd' \in Press \cup {"NONE"} /\ taken' \in PressInfo /\ pc'["bus"] = "link"
    BY <1>14 DEF SetValid, NoPress
  <2>. QED  BY <2>1, <2>2, <1>14 DEF SetValid
<1>15. CASE SetLink
  BY <1>15 DEF SetLink, LinkOfAnswer, BusReturns, Link
<1>16. CASE StopRefused
  BY <1>16 DEF StopRefused, BusReturns
<1>17. CASE StopAtTarget
  BY <1>17 DEF StopAtTarget
<1>18. CASE \E report \in Reports, noise \in StateNoise : ApplyBroadcast(report, noise)
  BY <1>18, ReportsAssumption DEF ApplyBroadcast, TargetAfter, BusReturns
<1>19. CASE StampStop("bus")
  BY <1>19 DEF StampStop, Stamp
<1>20. CASE QueueStop("bus")
  BY <1>20 DEF QueueStop, FillSlot
<1>21. CASE AskToCancelWatch("bus")
  BY <1>21 DEF AskToCancelWatch, BusReturns, LoopReturns, NoCall
<1>. QED  BY <1>1, <1>2, <1>3, <1>4, <1>5, <1>6, <1>7, <1>8, <1>9, <1>10, <1>11, <1>12,
             <1>13, <1>14, <1>15, <1>16, <1>17, <1>18, <1>19, <1>20, <1>21 DEF BusAnswers

\* So does every call the loop starts.
LEMMA TypeCalls ==
    ASSUME TypeOK, LoopCalls
    PROVE  TypeOK'
<1> USE ClockAssumption, MillisType
<1> USE DEF TypeOK, Task, Press, Command, PressInfo, BusLabel, LoopLabel, At, Goto, LoopAt,
            MayRun, vars, sharedVars, slotVars, flagVars, linkVars, busVars, watchVars, awaitVars,
            repeatVars, sentVars, doorVars, pollVars, flightVars, loopVars, callVars, clockVars
<1>1. CASE \E c \in Presses : PressCommand(c)
  BY <1>1, PressesAssumption DEF PressCommand, Ask
<1>2. CASE \E target \in Targets : SetPosition(target)
  BY <1>2, TargetsAssumption DEF SetPosition, Ask
<1>3. CASE PressStop
  BY <1>3 DEF PressStop
<1>4. CASE CheckBusSilence
  BY <1>4 DEF CheckBusSilence
<1>5. CASE AnnouncePause
  BY <1>5 DEF AnnouncePause, EmptySlot, NoPress
<1>. QED  BY <1>1, <1>2, <1>3, <1>4, <1>5 DEF LoopCalls

\* So does every later step of such a call.
LEMMA TypeContinues ==
    ASSUME TypeOK, LoopContinues
    PROVE  TypeOK'
<1> USE ClockAssumption, MillisType
<1> USE DEF TypeOK, Task, Press, Command, PressInfo, BusLabel, LoopLabel, At, Goto, LoopAt,
            MayRun, vars, sharedVars, slotVars, flagVars, linkVars, busVars, watchVars, awaitVars,
            repeatVars, sentVars, doorVars, pollVars, flightVars, loopVars, callVars, clockVars
<1>1. CASE StampPress
  BY <1>1 DEF StampPress, Stamp
<1>2. CASE QueuePress
  BY <1>2 DEF QueuePress, FillSlot, LoopReturns, NoCall
<1>3. CASE RefusePress
  BY <1>3 DEF RefusePress
<1>4. CASE RestoreStamp
  BY <1>4 DEF RestoreStamp, LoopReturns, NoCall
<1>5. CASE HandOverTarget
  BY <1>5 DEF HandOverTarget, LoopReturns, NoCall
<1>6. CASE JudgeSilence
  BY <1>6 DEF JudgeSilence, LoopReturns, NoCall
<1>7. CASE SetInvalid
  <2>1. valid' \in BOOLEAN
    BY <1>7 DEF SetInvalid
  <2>. QED  BY <2>1, <1>7 DEF SetInvalid
<1>8. CASE SetSilent
  BY <1>8 DEF SetSilent, Link
<1>9. CASE DropQueued
  BY <1>9 DEF DropQueued, LoopReturns, NoCall, EmptySlot, NoPress
<1>10. CASE RequestPause
  BY <1>10 DEF RequestPause
<1>11. CASE EndPause
  <2>1. pauseRequested' \in BOOLEAN
    BY <1>11 DEF EndPause
  <2>. QED  BY <2>1, <1>11 DEF EndPause, LoopReturns, NoCall
<1>12. CASE StampStop("loop")
  BY <1>12 DEF StampStop, Stamp
<1>13. CASE QueueStop("loop")
  BY <1>13 DEF QueueStop, FillSlot
<1>14. CASE AskToCancelWatch("loop")
  BY <1>14 DEF AskToCancelWatch, BusReturns, LoopReturns, NoCall
<1>. QED  BY <1>1, <1>2, <1>3, <1>4, <1>5, <1>6, <1>7, <1>8, <1>9, <1>10, <1>11, <1>12,
             <1>13, <1>14 DEF LoopContinues

\* So does the passing of time.
LEMMA TypeTick ==
    ASSUME TypeOK, Tick
    PROVE  TypeOK'
<1> USE ClockAssumption, MillisType
<1> USE DEF TypeOK, Task, Press, Command, PressInfo, BusLabel, LoopLabel, At, Goto, LoopAt,
            MayRun, vars, sharedVars, slotVars, flagVars, linkVars, busVars, watchVars, awaitVars,
            repeatVars, sentVars, doorVars, pollVars, flightVars, loopVars, callVars, clockVars
<1>. QED  BY DEF Tick

\* The codec as constructed has the types: the initialisers of its members.
LEMMA TypeInit == Init => TypeOK
<1>. SUFFICES ASSUME Init PROVE TypeOK  OBVIOUS
<1>1. 0 \in MsRange
  BY ClockAssumption DEF MsRange
<1>. QED
  BY <1>1 DEF Init, TypeOK, Task, PressInfo, BusLabel, LoopLabel, At, NoPress, NoCall, Link,
              DoorState

\* No step of either task breaks them.
LEMMA TypeStep == TypeOK /\ [Next]_vars => TypeOK'
<1>. SUFFICES ASSUME TypeOK, [Next]_vars PROVE TypeOK'  OBVIOUS
<1>1. CASE UNCHANGED vars
  BY <1>1 DEF TypeOK, At, vars, sharedVars, slotVars, flagVars, linkVars, busVars, watchVars,
              awaitVars, repeatVars, sentVars, doorVars, pollVars, flightVars, loopVars,
              callVars, clockVars
<1>. QED  BY <1>1, TypeReceives, TypeAnswers, TypeCalls, TypeContinues, TypeTick DEF Next

\* Every variable keeps its type, and what a poll puts on the wire is one of the
\* commands an answer can carry: never a bare STOP (hcp2_codec.cpp:318-338).
THEOREM TypeCorrect == Spec => []TypeOK
<1>. QED  BY TypeInit, TypeStep, PTL DEF Spec

-------------------------------------------------------------------------------
(* Repeats.                                                                   *)

\* A repeat is armed only between the frame's arrival and the answer to it, and
\* never on top of a watch that is still to be judged: every repeat armed was
\* paid for with one of the two counters, and every one sent adds one copy.
RepeatInv ==
    /\ repeatsSent <= LostAnswerRepeats
    /\ confirmRepeats <= UnactedRepeats
    /\ copies + (IF repeatCommand = "NONE" THEN 0 ELSE 1) <= 1 + repeatsSent + confirmRepeats
    /\ repeatCommand # "NONE" =>
          pc["bus"] \in {"pause", "effect", "cancel", "take", "age", "stale", "stop", "clear",
                         "fill"}
    /\ repeatCommand # "NONE" /\ pc["bus"] \in {"pause", "effect"} => awaitedCommand = "NONE"

\* What a step of the loop, or of the clock, leaves to the bus task; and the
\* three things it can do to the slot.
LEMMA LoopLeavesBusAlone ==
    ASSUME TypeOK, LoopCalls \/ LoopContinues \/ Tick
    PROVE  /\ UNCHANGED <<repeatVars, awaitedCommand, flightVars, pollVars>>
           /\ pc'["bus"] = pc["bus"] /\ lastSentCommand' = lastSentCommand
           /\ UNCHANGED slotVars \/ EmptySlot
                \/ \E t \in Task, c \in Press, target \in Nat : FillSlot(t, c, target)
<1> USE DEF Goto, At, LoopAt, MayRun, Task, sharedVars, slotVars, busVars, watchVars, awaitVars,
            repeatVars, sentVars, pollVars, flightVars
<1>0. pc \in [Task -> BusLabel \cup LoopLabel]
  BY DEF TypeOK
<1>1. CASE \E c \in Presses : PressCommand(c)
  BY <1>0, <1>1 DEF PressCommand, Ask
<1>2. CASE \E target \in Targets : SetPosition(target)
  BY <1>0, <1>2 DEF SetPosition, Ask
<1>3. CASE PressStop
  BY <1>0, <1>3 DEF PressStop
<1>4. CASE CheckBusSilence
  BY <1>0, <1>4 DEF CheckBusSilence
<1>5. CASE AnnouncePause
  BY <1>0, <1>5 DEF AnnouncePause
<1>6. CASE StampPress
  BY <1>0, <1>6 DEF StampPress
<1>7. CASE QueuePress
  <2>1. "loop" \in Task /\ op.cmd \in Press /\ op.target \in Nat
    BY <1>7 DEF QueuePress, TypeOK, Press
  <2>2. FillSlot("loop", op.cmd, op.target)
    BY <1>7 DEF QueuePress
  <2>3. /\ UNCHANGED <<repeatVars, awaitedCommand, flightVars, pollVars>> /\ pc'["bus"] = pc["bus"]
        /\ lastSentCommand' = lastSentCommand
    BY <1>0, <1>7 DEF QueuePress, LoopReturns
  <2>. QED  BY <2>1, <2>2, <2>3
<1>8. CASE RefusePress
  BY <1>0, <1>8 DEF RefusePress
<1>9. CASE RestoreStamp
  BY <1>0, <1>9 DEF RestoreStamp, LoopReturns
<1>10. CASE HandOverTarget
  BY <1>0, <1>10 DEF HandOverTarget, LoopReturns
<1>11. CASE JudgeSilence
  BY <1>0, <1>11 DEF JudgeSilence, LoopReturns
<1>12. CASE SetInvalid
  BY <1>0, <1>12 DEF SetInvalid
<1>13. CASE SetSilent
  BY <1>0, <1>13 DEF SetSilent
<1>14. CASE DropQueued
  BY <1>0, <1>14 DEF DropQueued, LoopReturns
<1>15. CASE RequestPause
  BY <1>0, <1>15 DEF RequestPause
<1>16. CASE EndPause
  BY <1>0, <1>16 DEF EndPause, LoopReturns
<1>17. CASE StampStop("loop")
  BY <1>0, <1>17 DEF StampStop
<1>18. CASE QueueStop("loop")
  <2>1. "loop" \in Task /\ "STOP" \in Press /\ 0 \in Nat
    BY DEF TypeOK, Press
  <2>2. FillSlot("loop", "STOP", 0)
    BY <1>18 DEF QueueStop
  <2>3. /\ UNCHANGED <<repeatVars, awaitedCommand, flightVars, pollVars>> /\ pc'["bus"] = pc["bus"]
        /\ lastSentCommand' = lastSentCommand
    BY <1>0, <1>18 DEF QueueStop
  <2>. QED  BY <2>1, <2>2, <2>3
<1>19. CASE AskToCancelWatch("loop")
  BY <1>0, <1>19 DEF AskToCancelWatch, LoopReturns
<1>20. CASE Tick
  BY <1>0, <1>20 DEF Tick
<1>. QED  BY <1>1, <1>2, <1>3, <1>4, <1>5, <1>6, <1>7, <1>8, <1>9, <1>10, <1>11, <1>12,
             <1>13, <1>14, <1>15, <1>16, <1>17, <1>18, <1>19, <1>20 DEF LoopCalls,
             LoopContinues

\* The codec as constructed has nothing sent and nothing to repeat.
LEMMA RepeatInit == Init => RepeatInv
BY LimitsAssumption DEF Init, RepeatInv

\* Only rearmLostCommand and checkCommandEffect arm a repeat, each against its
\* limit and with nothing armed or watched; every other step uses one up or leaves
\* it alone.
LEMMA RepeatStep == TypeOK /\ RepeatInv /\ [Next]_vars => RepeatInv'
<1>. SUFFICES ASSUME TypeOK, RepeatInv, [Next]_vars PROVE RepeatInv'  OBVIOUS
<1> USE DEF RepeatInv, At, Goto, busVars, watchVars, awaitVars, repeatVars, flightVars
<1>0. /\ repeatsSent \in Nat /\ confirmRepeats \in Nat /\ copies \in Nat
      /\ LostAnswerRepeats \in Nat /\ UnactedRepeats \in Nat
      /\ pc \in [Task -> BusLabel \cup LoopLabel] /\ "bus" \in Task
  BY LimitsAssumption DEF TypeOK, Task
<1>1. CASE UNCHANGED vars \/ LoopCalls \/ LoopContinues \/ Tick
  <2>1. UNCHANGED <<repeatVars, awaitedCommand, flightVars>> /\ pc'["bus"] = pc["bus"]
    BY <1>1, LoopLeavesBusAlone
       DEF vars
  <2>. QED  BY <2>1
<1>2. CASE BusReceives
  <2>1. UNCHANGED <<repeatVars, copies>> /\ pc["bus"] = "idle"
    BY <1>2 DEF BusReceives, IgnoredFrame, StatusPoll, CounterRepeated, OtherFrame,
       Broadcast,
                FrameArrives, SignOfLife
  <2>. QED  BY <2>1
<1>3. CASE RearmLostCommand
  BY <1>0, <1>3 DEF RearmLostCommand, Goto, PressWaits, RepeatsLeft
<1>4. CASE PausedAnswer
  BY <1>0, <1>4 DEF PausedAnswer, StopWatching
<1>5. CASE NotPaused
  BY <1>0, <1>5 DEF NotPaused
<1>6. CASE CheckCommandEffect
  BY <1>0, <1>6 DEF CheckCommandEffect, StopWatching, AskAgain
<1>7. CASE CancelWatch
  BY <1>0, <1>7 DEF CancelWatch, StopWatching
<1>8. CASE TakeCommand
  BY <1>0, <1>8 DEF TakeCommand
<1>9. CASE CheckAge
  BY <1>0, <1>9 DEF CheckAge
<1>10. CASE DropStale
  BY <1>0, <1>10 DEF DropStale
<1>11. CASE ResolveStop
  BY <1>0, <1>11 DEF ResolveStop
<1>12. CASE ClearTaken
  BY <1>0, <1>12 DEF ClearTaken
<1>13. CASE SendFresh
  BY <1>0, <1>13 DEF SendFresh
<1>14. CASE SendRepeat
  BY <1>0, <1>14 DEF SendRepeat
<1>15. CASE SendNothing
  BY <1>0, <1>15 DEF SendNothing
<1>16. CASE SetValid
  BY <1>0, <1>16 DEF SetValid
<1>17. CASE SetLink
  BY <1>0, <1>17 DEF SetLink, BusReturns
<1>18. CASE StopRefused
  BY <1>0, <1>18 DEF StopRefused, BusReturns
<1>19. CASE StopAtTarget
  BY <1>0, <1>19 DEF StopAtTarget
<1>20. CASE \E report \in Reports, noise \in StateNoise : ApplyBroadcast(report, noise)
  BY <1>0, <1>20 DEF ApplyBroadcast, BusReturns
<1>21. CASE StampStop("bus")
  BY <1>0, <1>21 DEF StampStop
<1>22. CASE QueueStop("bus")
  BY <1>0, <1>22 DEF QueueStop
<1>23. CASE AskToCancelWatch("bus")
  BY <1>0, <1>23 DEF AskToCancelWatch, BusReturns
<1>. QED  BY <1>1, <1>2, <1>3, <1>4, <1>5, <1>6, <1>7, <1>8, <1>9, <1>10, <1>11, <1>12, <1>13,
     <1>14, <1>15, <1>16, <1>17, <1>18, <1>19, <1>20, <1>21, <1>22, <1>23 DEF Next,
     BusAnswers

\* However often answers get lost and however long the drive does nothing, one
\* press goes out at most once, once more per lost answer the protocol is allowed
\* to make good (rearmLostCommand, hcp2_codec.cpp:622-646) and once more per
\* unanswered watch (checkCommandEffect, hcp2_codec.cpp:430-465); and a repeat is
\* sent or dropped by the poll that armed it (setCommandValuesToRead, :350-372).
THEOREM RepeatsAreBounded == Spec => []RepeatsBounded
<1>1. TypeOK /\ RepeatInv => RepeatsBounded
  BY LimitsAssumption DEF TypeOK, RepeatInv, RepeatsBounded, At
<1>. QED  BY <1>1, TypeInit, TypeStep, RepeatInit, RepeatStep, PTL DEF Spec

-------------------------------------------------------------------------------
(* The slot.                                                                  *)

\* The press in the slot and the one a poll took are accepted ones that were not
\* sent. If they are the same press, the slot still holds the command the poll
\* compares it with, so that clearIfStill empties it before the press is sent.
Unsent == 1 .. accepted \ sentIds

SlotInv ==
    /\ sentIds \subseteq 1 .. accepted
    /\ nextCommand # "NONE" => slotPress.id \in Unsent
    /\ pc["bus"] \in {"age", "stale", "stop", "clear", "target"} => taken.id \in Unsent
    /\ pc["bus"] \in {"age", "stale", "stop", "clear"} /\ nextCommand # "NONE"
          /\ slotPress.id = taken.id => nextCommand = cmd
    /\ At("bus", "stop") => cmd = "STOP"
    /\ At("bus", "target") /\ nextCommand # "NONE" => slotPress.id # taken.id

\* The codec as constructed has an empty slot.
LEMMA SlotInit == Init => SlotInv
BY DEF Init, SlotInv, At, Task

\* No access to the slot, by either task, brings a sent press back into it.
LEMMA SlotStep == TypeOK /\ SlotInv /\ [Next]_vars => SlotInv'
<1>. SUFFICES ASSUME TypeOK, SlotInv, [Next]_vars PROVE SlotInv'  OBVIOUS
<1> USE DEF SlotInv, Unsent, At, Goto, sharedVars, slotVars, busVars, pollVars, flightVars
<1>0. /\ pc \in [Task -> BusLabel \cup LoopLabel] /\ "bus" \in Task /\ accepted \in Nat
      /\ slotPress \in PressInfo /\ taken \in PressInfo
  BY DEF TypeOK, Task
\* Filling or emptying the slot under a poll that goes on.
<1>1. ASSUME \/ UNCHANGED slotVars \/ EmptySlot
             \/ \E t \in Task, c \in Press, target \in Nat : FillSlot(t, c, target),
             UNCHANGED <<pollVars, sentIds>>, pc'["bus"] = pc["bus"]
      PROVE  SlotInv'
  <2>1. CASE UNCHANGED slotVars
    BY <1>1, <2>1
  <2>2. CASE EmptySlot
    BY <1>1, <2>2 DEF EmptySlot
  <2>3. CASE \E t \in Task, c \in Press, target \in Nat : FillSlot(t, c, target)
    <3>1. /\ accepted' = accepted + 1 /\ slotPress'.id = accepted + 1
      BY <2>3 DEF FillSlot
    <3>. QED  BY <1>0, <1>1, <3>1
  <2>. QED  BY <1>1, <2>1, <2>2, <2>3
<1>2. CASE UNCHANGED vars \/ LoopCalls \/ LoopContinues \/ Tick
  <2>1. UNCHANGED <<pollVars, sentIds>> /\ pc'["bus"] = pc["bus"]
    BY <1>2, LoopLeavesBusAlone DEF vars
  <2>2. \/ UNCHANGED slotVars \/ EmptySlot
        \/ \E t \in Task, c \in Press, target \in Nat : FillSlot(t, c, target)
    BY <1>2, LoopLeavesBusAlone DEF vars
  <2>. QED  BY <1>1, <2>1, <2>2
<1>3. CASE IgnoredFrame
  BY <1>0, <1>3 DEF IgnoredFrame, SignOfLife
<1>4. CASE StatusPoll
  BY <1>0, <1>4 DEF StatusPoll, SignOfLife, FrameArrives
<1>5. CASE CounterRepeated
  BY <1>0, <1>5 DEF CounterRepeated, SignOfLife, FrameArrives
<1>6. CASE OtherFrame
  BY <1>0, <1>6 DEF OtherFrame, SignOfLife, FrameArrives
<1>7. CASE Broadcast
  BY <1>0, <1>7 DEF Broadcast, SignOfLife, FrameArrives
<1>8. CASE RearmLostCommand
  BY <1>0, <1>8 DEF RearmLostCommand
<1>9. CASE PausedAnswer
  BY <1>0, <1>9 DEF PausedAnswer
<1>10. CASE NotPaused
  BY <1>0, <1>10 DEF NotPaused
<1>11. CASE CheckCommandEffect
  BY <1>0, <1>11 DEF CheckCommandEffect
<1>12. CASE CancelWatch
  BY <1>0, <1>12 DEF CancelWatch
<1>13. CASE TakeCommand
  BY <1>0, <1>13 DEF TakeCommand
<1>14. CASE CheckAge
  BY <1>0, <1>14 DEF CheckAge
<1>15. CASE DropStale
  BY <1>0, <1>15 DEF DropStale, ClearIfStill, EmptySlot
<1>16. CASE ResolveStop
  BY <1>0, <1>16 DEF ResolveStop, ClearIfStill, EmptySlot
<1>17. CASE ClearTaken
  BY <1>0, <1>17 DEF ClearTaken, ClearIfStill, EmptySlot
<1>18. CASE SendFresh
  BY <1>0, <1>18 DEF SendFresh
<1>19. CASE SendRepeat
  BY <1>0, <1>19 DEF SendRepeat
<1>20. CASE SendNothing
  BY <1>0, <1>20 DEF SendNothing
<1>21. CASE SetValid
  BY <1>0, <1>21 DEF SetValid
<1>22. CASE SetLink
  BY <1>0, <1>22 DEF SetLink, BusReturns
<1>23. CASE StopRefused
  BY <1>0, <1>23 DEF StopRefused, BusReturns
<1>24. CASE StopAtTarget
  BY <1>0, <1>24 DEF StopAtTarget
<1>25. CASE \E report \in Reports, noise \in StateNoise : ApplyBroadcast(report, noise)
  BY <1>0, <1>25 DEF ApplyBroadcast, BusReturns
<1>26. CASE StampStop("bus")
  BY <1>0, <1>26 DEF StampStop
<1>27. CASE QueueStop("bus")
  BY <1>0, <1>27 DEF QueueStop, FillSlot
<1>28. CASE AskToCancelWatch("bus")
  BY <1>0, <1>28 DEF AskToCancelWatch, BusReturns
<1>. QED  BY <1>1, <1>2, <1>3, <1>4, <1>5, <1>6, <1>7, <1>8, <1>9, <1>10, <1>11, <1>12, <1>13,
     <1>14, <1>15, <1>16, <1>17, <1>18, <1>19, <1>20, <1>21, <1>22, <1>23, <1>24, <1>25,
     <1>26, <1>27, <1>28 DEF Next, BusReceives, BusAnswers

\* A press that was taken from the slot and sent is never taken from it and sent
\* again, whatever is pressed, stopped or dropped in the meantime and whichever
\* task does it (setCommandValuesToRead, hcp2_codec.cpp:290-347).
THEOREM NothingIsSentTwice == Spec => NoPressSentTwice
<1>1. TypeOK /\ SlotInv /\ [Next]_vars => [SendFresh => taken.id \notin sentIds]_vars
  BY DEF SlotInv, Unsent, SendFresh, At
<1>. QED  BY <1>1, TypeInit, TypeStep, SlotInit, SlotStep, PTL DEF Spec, NoPressSentTwice

-------------------------------------------------------------------------------
(* A dead link.                                                               *)

\* A call of the loop that puts a press in the slot began with a link, and only
\* the loop itself calls the link dead; from then on it is on its way to emptying
\* the slot.
DeadLinkInv ==
    /\ pc["loop"] \in {"stamp", "slot", "restore", "target", "stopStamp", "stopSlot",
                       "stopWatch"} => valid
    /\ ~valid /\ nextCommand # "NONE" =>
          slotPress.by = "bus" \/ pc["loop"] \in {"silent", "drop"}

\* What a step of the bus task leaves to the loop; the slot it may empty, or fill
\* with the stop of a partway run.
LEMMA BusLeavesLoopAlone ==
    ASSUME TypeOK, BusReceives \/ BusAnswers
    PROVE  /\ pc'["loop"] = pc["loop"] /\ now'["loop"] = now["loop"]
           /\ UNCHANGED <<heldBack, pauseRequested, time>> /\ (valid => valid')
           /\ UNCHANGED slotVars \/ EmptySlot \/ FillSlot("bus", "STOP", 0)
<1> USE DEF Goto, At, Task, sharedVars, slotVars, flagVars, linkVars, loopVars, clockVars
<1>0. /\ pc \in [Task -> BusLabel \cup LoopLabel] /\ now \in [Task -> Nat] /\ valid \in BOOLEAN
  BY DEF TypeOK
<1>1. CASE BusReceives
  BY <1>0, <1>1
  DEF BusReceives, IgnoredFrame, StatusPoll, CounterRepeated, OtherFrame, Broadcast,
      FrameArrives, SignOfLife
<1>2. CASE \/ RearmLostCommand \/ PausedAnswer \/ NotPaused \/ CheckCommandEffect
           \/ CancelWatch \/ TakeCommand \/ CheckAge \/ SendFresh \/ SendRepeat \/ SendNothing
  BY <1>0, <1>2
  DEF RearmLostCommand, PausedAnswer, NotPaused, CheckCommandEffect, CancelWatch, TakeCommand,
      CheckAge, SendFresh, SendRepeat, SendNothing
<1>3. CASE DropStale \/ ResolveStop \/ ClearTaken
  BY <1>0, <1>3 DEF DropStale, ResolveStop, ClearTaken, ClearIfStill
<1>4. CASE SetValid
  BY <1>0, <1>4 DEF SetValid
<1>5. CASE SetLink
  BY <1>0, <1>5 DEF SetLink, BusReturns
<1>6. CASE \E report \in Reports, noise \in StateNoise : ApplyBroadcast(report, noise)
  BY <1>0, <1>6 DEF ApplyBroadcast, BusReturns
<1>7. CASE StopRefused
  BY <1>0, <1>7 DEF StopRefused, BusReturns
<1>8. CASE StopAtTarget \/ StampStop("bus") \/ QueueStop("bus")
  BY <1>0, <1>8 DEF StopAtTarget, StampStop, QueueStop
<1>9. CASE AskToCancelWatch("bus")
  BY <1>0, <1>9 DEF AskToCancelWatch, BusReturns
<1>. QED  BY <1>1, <1>2, <1>3, <1>4, <1>5, <1>6, <1>7, <1>8, <1>9 DEF BusAnswers

\* No order of presses, frames and a link called dead leaves a press of the loop
\* behind.
LEMMA DeadLinkStep == TypeOK /\ DeadLinkInv /\ [Next]_vars => DeadLinkInv'
<1>. SUFFICES ASSUME TypeOK, DeadLinkInv, [Next]_vars PROVE DeadLinkInv'  OBVIOUS
<1> USE DEF DeadLinkInv, Goto, At, LoopAt, MayRun, Task, vars, sharedVars, slotVars, linkVars
<1>0. pc \in [Task -> BusLabel \cup LoopLabel] /\ valid \in BOOLEAN
  BY DEF TypeOK
<1>1. CASE BusReceives \/ BusAnswers
  <2>1. /\ pc'["loop"] = pc["loop"] /\ (valid => valid')
        /\ UNCHANGED slotVars \/ EmptySlot \/ FillSlot("bus", "STOP", 0)
    BY <1>1, BusLeavesLoopAlone
  <2>2. CASE UNCHANGED slotVars
    BY <2>1, <2>2
  <2>3. CASE EmptySlot
    BY <2>1, <2>3 DEF EmptySlot
  <2>4. CASE FillSlot("bus", "STOP", 0)
    BY <2>1, <2>4 DEF FillSlot
  <2>. QED  BY <2>1, <2>2, <2>3, <2>4
<1>2. CASE UNCHANGED vars \/ Tick
  BY <1>2 DEF Tick
<1>3. CASE \E c \in Presses : PressCommand(c)
  BY <1>0, <1>3 DEF PressCommand, Ask
<1>4. CASE \E target \in Targets : SetPosition(target)
  BY <1>0, <1>4 DEF SetPosition, Ask
<1>5. CASE PressStop
  BY <1>0, <1>5 DEF PressStop
<1>6. CASE CheckBusSilence \/ JudgeSilence
  BY <1>0, <1>6 DEF CheckBusSilence, JudgeSilence, LoopReturns
<1>7. CASE AnnouncePause
  BY <1>0, <1>7 DEF AnnouncePause, EmptySlot
<1>8. CASE StampPress \/ RefusePress \/ StampStop("loop")
  BY <1>0, <1>8 DEF StampPress, RefusePress, StampStop
<1>9. CASE RestoreStamp \/ HandOverTarget
  BY <1>0, <1>9 DEF RestoreStamp, HandOverTarget, LoopReturns
<1>10. CASE QueuePress
  BY <1>0, <1>10 DEF QueuePress, LoopReturns
<1>11. CASE QueueStop("loop")
  BY <1>0, <1>11 DEF QueueStop
<1>12. CASE AskToCancelWatch("loop")
  BY <1>0, <1>12 DEF AskToCancelWatch, LoopReturns
<1>13. CASE SetInvalid \/ SetSilent
  BY <1>0, <1>13 DEF SetInvalid, SetSilent
<1>14. CASE DropQueued
  BY <1>0, <1>14 DEF DropQueued, EmptySlot, LoopReturns
<1>15. CASE RequestPause \/ EndPause
  BY <1>0, <1>15 DEF RequestPause, EndPause, LoopReturns
<1>. QED
  BY <1>1, <1>2, <1>3, <1>4, <1>5, <1>6, <1>7, <1>8, <1>9, <1>10, <1>11, <1>12, <1>13, <1>14,
     <1>15, Zenon
  DEF Next, LoopCalls, LoopContinues

\* Once the loop has called the link dead and is through with it, nothing that
\* somebody pressed waits for the drive to come back (checkBusSilence,
\* hcp2_codec.cpp:735-748): the loop, which alone calls it dead, is then past the
\* check a press begins with, and empties the slot.
THEOREM NoPressWaitsOnDeadLink == Spec => []NoPressOnDeadLink
<1>1. Init => DeadLinkInv
  BY DEF Init, DeadLinkInv, Task
<1>2. DeadLinkInv => NoPressOnDeadLink
  BY DEF DeadLinkInv, NoPressOnDeadLink, At
<1>. QED  BY <1>1, <1>2, TypeInit, TypeStep, DeadLinkStep, PTL DEF Spec

-------------------------------------------------------------------------------
(* A pause.                                                                   *)

\* Where a poll holds a press it took from the slot.
Holding == {"age", "stale", "stop", "clear", "target"}

\* During a pause no press of the loop waits; one that a poll took just before is
\* that of a frame no younger than the pause, which is done before the pause ends.
HeldInv ==
    /\ heldBack <= accepted /\ now["bus"] <= time
    /\ nextCommand # "NONE" /\ slotPress.by = "loop" =>
          slotPress.id > heldBack /\ pc["loop"] \notin {"request", "pausing"}
    /\ pc["bus"] \in Holding /\ taken.by = "loop" =>
          taken.id > heldBack /\ (At("loop", "pausing") => now["bus"] <= now["loop"])

\* A step of the bus task holds no more presses than it did, but for the one it
\* takes from the slot.
LEMMA BusHolds ==
    ASSUME TypeOK, BusReceives \/ BusAnswers
    PROVE  /\ now'["bus"] \in {now["bus"], time, 0}
           /\ pc'["bus"] \in Holding =>
                 /\ now'["bus"] = now["bus"]
                 /\ \/ pc["bus"] \in Holding /\ taken' = taken
                    \/ At("bus", "take") /\ nextCommand # "NONE" /\ taken' = slotPress
<1> USE DEF Goto, At, Task, Holding, pollVars, busVars, clockVars
<1>0. pc \in [Task -> BusLabel \cup LoopLabel] /\ now \in [Task -> Nat] /\ "bus" \in Task
  BY DEF TypeOK
<1>1. CASE IgnoredFrame
  BY <1>0, <1>1 DEF IgnoredFrame, SignOfLife
<1>2. CASE StatusPoll \/ CounterRepeated \/ OtherFrame \/ Broadcast
  BY <1>0, <1>2 DEF StatusPoll, CounterRepeated, OtherFrame, Broadcast, FrameArrives
<1>3. CASE RearmLostCommand \/ PausedAnswer \/ NotPaused \/ CheckCommandEffect \/ CancelWatch
  BY <1>0, <1>3 DEF RearmLostCommand, PausedAnswer, NotPaused, CheckCommandEffect, CancelWatch
<1>4. CASE TakeCommand
  BY <1>0, <1>4 DEF TakeCommand
<1>5. CASE CheckAge \/ DropStale \/ ClearTaken
  BY <1>0, <1>5 DEF CheckAge, DropStale, ClearTaken
<1>6. CASE ResolveStop
  BY <1>0, <1>6 DEF ResolveStop
<1>7. CASE SendFresh \/ SendRepeat \/ SendNothing \/ SetValid
  BY <1>0, <1>7 DEF SendFresh, SendRepeat, SendNothing, SetValid
<1>8. CASE SetLink
  BY <1>0, <1>8 DEF SetLink, BusReturns
<1>9. CASE \E report \in Reports, noise \in StateNoise : ApplyBroadcast(report, noise)
  BY <1>0, <1>9 DEF ApplyBroadcast, BusReturns
<1>10. CASE StopRefused \/ StopAtTarget
  BY <1>0, <1>10 DEF StopRefused, StopAtTarget, BusReturns
<1>11. CASE StampStop("bus") \/ QueueStop("bus")
  BY <1>0, <1>11 DEF StampStop, QueueStop
<1>12. CASE AskToCancelWatch("bus")
  BY <1>0, <1>12 DEF AskToCancelWatch, BusReturns
<1>. QED
  BY <1>1, <1>2, <1>3, <1>4, <1>5, <1>6, <1>7, <1>8, <1>9, <1>10, <1>11, <1>12, Zenon
  DEF BusReceives, BusAnswers

\* No order of presses, polls and pauses carries a press of the loop over a pause.
LEMMA HeldStep == TypeOK /\ HeldInv /\ [Next]_vars => HeldInv'
<1>. SUFFICES ASSUME TypeOK, HeldInv, [Next]_vars PROVE HeldInv'  OBVIOUS
<1> USE DEF HeldInv
<1>0. /\ pc \in [Task -> BusLabel \cup LoopLabel] /\ now \in [Task -> Nat] /\ time \in Nat
      /\ accepted \in Nat /\ heldBack \in Nat /\ slotPress \in PressInfo /\ taken \in PressInfo
      /\ "bus" \in Task /\ "loop" \in Task
  BY DEF TypeOK, Task
<1>1. CASE BusReceives \/ BusAnswers
  <2>1. /\ pc'["loop"] = pc["loop"] /\ now'["loop"] = now["loop"]
        /\ UNCHANGED <<heldBack, time>>
        /\ UNCHANGED slotVars \/ EmptySlot \/ FillSlot("bus", "STOP", 0)
    BY <1>1, BusLeavesLoopAlone
  <2>2. /\ now'["bus"] \in {now["bus"], time, 0}
        /\ pc'["bus"] \in Holding =>
              /\ now'["bus"] = now["bus"]
              /\ \/ pc["bus"] \in Holding /\ taken' = taken
                 \/ At("bus", "take") /\ nextCommand # "NONE" /\ taken' = slotPress
    BY <1>1, BusHolds
  <2>3. /\ heldBack' <= accepted' /\ now'["bus"] <= time'
        /\ nextCommand' # "NONE" /\ slotPress'.by = "loop" =>
              slotPress'.id > heldBack' /\ pc'["loop"] \notin {"request", "pausing"}
    BY <1>0, <2>1, <2>2 DEF slotVars, EmptySlot, FillSlot
  <2>4. ASSUME pc'["bus"] \in Holding, taken'.by = "loop"
        PROVE  /\ taken'.id > heldBack'
               /\ At("loop", "pausing")' => now'["bus"] <= now'["loop"]
    BY <2>1, <2>2, <2>4 DEF At
  <2>. QED  BY <2>3, <2>4
<1> USE DEF Goto, At, LoopAt, Task, vars, sharedVars, slotVars, busVars, pollVars, loopVars, clockVars
<1>2. CASE UNCHANGED vars \/ Tick
  BY <1>0, <1>2 DEF Tick
<1>3. CASE \E c \in Presses : PressCommand(c)
  BY <1>0, <1>3 DEF PressCommand, Ask
<1>4. CASE \E target \in Targets : SetPosition(target)
  BY <1>0, <1>4 DEF SetPosition, Ask
<1>5. CASE PressStop
  BY <1>0, <1>5 DEF PressStop
<1>6. CASE CheckBusSilence \/ JudgeSilence
  BY <1>0, <1>6 DEF CheckBusSilence, JudgeSilence, LoopReturns
<1>7. CASE AnnouncePause
  BY <1>0, <1>7 DEF AnnouncePause, EmptySlot
<1>8. CASE StampPress \/ RefusePress \/ StampStop("loop")
  BY <1>0, <1>8 DEF StampPress, RefusePress, StampStop
<1>9. CASE RestoreStamp \/ HandOverTarget
  BY <1>0, <1>9 DEF RestoreStamp, HandOverTarget, LoopReturns
<1>10. CASE QueuePress
  BY <1>0, <1>10 DEF QueuePress, FillSlot, LoopReturns
<1>11. CASE QueueStop("loop")
  BY <1>0, <1>11 DEF QueueStop, FillSlot
<1>12. CASE AskToCancelWatch("loop")
  BY <1>0, <1>12 DEF AskToCancelWatch, LoopReturns
<1>13. CASE SetInvalid \/ SetSilent
  BY <1>0, <1>13 DEF SetInvalid, SetSilent
<1>14. CASE DropQueued
  BY <1>0, <1>14 DEF DropQueued, EmptySlot, LoopReturns
<1>15. CASE RequestPause
  BY <1>0, <1>15 DEF RequestPause
<1>16. CASE EndPause
  BY <1>0, <1>16 DEF EndPause, LoopReturns, Holding
<1>. QED
  BY <1>1, <1>2, <1>3, <1>4, <1>5, <1>6, <1>7, <1>8, <1>9, <1>10, <1>11, <1>12, <1>13, <1>14,
     <1>15, <1>16, Zenon
  DEF Next, LoopCalls, LoopContinues

\* Where a poll is, from the look at the pause to the answer.
Answering == {"pause", "effect", "cancel", "take", "fill"} \cup Holding

\* There is nothing to watch, to repeat or to make good.
Quiet == awaitedCommand = "NONE" /\ repeatCommand = "NONE" /\ lastSentCommand = "NONE"

\* Once a status poll was answered as paused nothing is left of what was sent before
\* it, until another press is sent; and what then waits or is being sent was not
\* pressed by the loop before it.
ToldInv ==
    /\ told <= accepted
    /\ flying.press.by = "loop" => flying.press.id > told \/ Quiet
    /\ nextCommand # "NONE" /\ slotPress.by = "loop" => slotPress.id > told
    /\ pc["bus"] \in Holding /\ taken.by = "loop" => taken.id > told
    /\ pc["bus"] \in Answering => lastSentCommand = "NONE"
    /\ pauseRequested => At("loop", "pausing")

\* A pause is requested only while the loop waits in there for it to end.
LEMMA PauseStep ==
    ASSUME TypeOK, pauseRequested => At("loop", "pausing"), LoopCalls \/ LoopContinues \/ Tick
    PROVE  (pauseRequested => At("loop", "pausing"))'
<1> USE DEF Goto, At, LoopAt, Task, sharedVars, flagVars
<1>0. pc \in [Task -> BusLabel \cup LoopLabel] /\ "loop" \in Task
  BY DEF TypeOK
<1>1. CASE \E c \in Presses : PressCommand(c)
  BY <1>0, <1>1 DEF PressCommand, Ask
<1>2. CASE \E target \in Targets : SetPosition(target)
  BY <1>0, <1>2 DEF SetPosition, Ask
<1>3. CASE PressStop \/ CheckBusSilence \/ AnnouncePause
  BY <1>0, <1>3 DEF PressStop, CheckBusSilence, AnnouncePause
<1>4. CASE StampPress \/ QueuePress \/ RefusePress \/ RestoreStamp \/ HandOverTarget
  BY <1>0, <1>4 DEF StampPress, QueuePress, RefusePress, RestoreStamp, HandOverTarget
<1>5. CASE StampStop("loop") \/ QueueStop("loop")
  BY <1>0, <1>5 DEF StampStop, QueueStop
<1>6. CASE AskToCancelWatch("loop")
  BY <1>0, <1>6 DEF AskToCancelWatch
<1>7. CASE JudgeSilence \/ SetInvalid \/ SetSilent \/ DropQueued
  BY <1>0, <1>7 DEF JudgeSilence, SetInvalid, SetSilent, DropQueued
<1>8. CASE RequestPause \/ EndPause
  BY <1>0, <1>8 DEF RequestPause, EndPause
<1>9. CASE Tick
  BY <1>0, <1>9 DEF Tick
<1>. QED
  BY <1>1, <1>2, <1>3, <1>4, <1>5, <1>6, <1>7, <1>8, <1>9, Zenon DEF LoopCalls, LoopContinues

\* But for the poll that is answered as paused and the one that sends a press, no step
\* of the bus task breaks the quiet, and none sends or is told anything; a poll that is
\* past the counter has forgotten what was sent last.
LEMMA BusStaysQuiet ==
    ASSUME TypeOK, pc["bus"] \in Answering => lastSentCommand = "NONE", BusReceives \/ BusAnswers
    PROVE  /\ pc'["bus"] \in Answering => lastSentCommand' = "NONE"
           /\ \/ PausedAnswer \/ SendFresh
              \/ flying' = flying /\ told' = told /\ (Quiet => Quiet')
<1> USE DEF Goto, At, Task, Answering, Holding, Quiet, busVars, watchVars, awaitVars, repeatVars,
            sentVars, flightVars, StopWatching
<1>0. pc \in [Task -> BusLabel \cup LoopLabel] /\ "bus" \in Task
  BY DEF TypeOK
<1>1. CASE IgnoredFrame
  BY <1>1 DEF IgnoredFrame, SignOfLife
<1>2. CASE StatusPoll \/ CounterRepeated \/ OtherFrame \/ Broadcast
  BY <1>0, <1>2 DEF StatusPoll, CounterRepeated, OtherFrame, Broadcast, FrameArrives
<1>3. CASE RearmLostCommand
  BY <1>0, <1>3 DEF RearmLostCommand
<1>4. CASE PausedAnswer \/ SendFresh
  BY <1>0, <1>4 DEF PausedAnswer, SendFresh
<1>5. CASE NotPaused \/ CheckCommandEffect \/ CancelWatch
  BY <1>0, <1>5 DEF NotPaused, CheckCommandEffect, CancelWatch
<1>6. CASE TakeCommand \/ CheckAge \/ DropStale \/ ResolveStop \/ ClearTaken
  BY <1>0, <1>6 DEF TakeCommand, CheckAge, DropStale, ResolveStop, ClearTaken
<1>7. CASE SendRepeat \/ SendNothing
  BY <1>0, <1>7 DEF SendRepeat, SendNothing
<1>8. CASE SetValid \/ SetLink
  BY <1>0, <1>8 DEF SetValid, SetLink, BusReturns
<1>9. CASE \E report \in Reports, noise \in StateNoise : ApplyBroadcast(report, noise)
  BY <1>0, <1>9 DEF ApplyBroadcast, BusReturns
<1>10. CASE StopRefused \/ StopAtTarget
  BY <1>0, <1>10 DEF StopRefused, StopAtTarget, BusReturns
<1>11. CASE StampStop("bus") \/ QueueStop("bus")
  BY <1>0, <1>11 DEF StampStop, QueueStop
<1>12. CASE AskToCancelWatch("bus")
  BY <1>0, <1>12 DEF AskToCancelWatch, BusReturns
<1>. QED
  BY <1>1, <1>2, <1>3, <1>4, <1>5, <1>6, <1>7, <1>8, <1>9, <1>10, <1>11, <1>12, Zenon
  DEF BusReceives, BusAnswers

\* No order of presses, polls, lost answers and pauses leaves anything to repeat of what
\* was sent before the drive was told.
LEMMA ToldStep == TypeOK /\ HeldInv /\ ToldInv /\ [Next]_vars => ToldInv'
<1>. SUFFICES ASSUME TypeOK, HeldInv, ToldInv, [Next]_vars PROVE ToldInv'  OBVIOUS
<1> USE DEF ToldInv
<1>0. /\ accepted \in Nat /\ told \in Nat /\ slotPress \in PressInfo /\ taken \in PressInfo
      /\ flying \in [press : PressInfo, sentAt : Nat]
      /\ pc \in [Task -> BusLabel \cup LoopLabel] /\ "bus" \in Task
  BY DEF TypeOK, Task
<1>1. CASE UNCHANGED vars
  BY <1>1 DEF At, Quiet, vars, sharedVars, slotVars, flagVars, busVars, watchVars, awaitVars,
              repeatVars, sentVars, pollVars, flightVars
<1>2. CASE LoopCalls \/ LoopContinues \/ Tick
  <2>1. /\ UNCHANGED <<repeatCommand, awaitedCommand, lastSentCommand, flying, told, taken>>
        /\ pc'["bus"] = pc["bus"]
        /\ UNCHANGED slotVars \/ EmptySlot
             \/ \E t \in Task, c \in Press, target \in Nat : FillSlot(t, c, target)
    BY <1>2, LoopLeavesBusAlone DEF repeatVars, flightVars, pollVars
  <2>2. /\ told' <= accepted'
        /\ nextCommand' # "NONE" /\ slotPress'.by = "loop" => slotPress'.id > told'
    BY <1>0, <2>1 DEF slotVars, EmptySlot, FillSlot
  <2>3. (pauseRequested => At("loop", "pausing"))'
    BY <1>2, PauseStep
  <2>. QED  BY <2>1, <2>2, <2>3 DEF Quiet
<1>3. CASE BusReceives \/ BusAnswers
  <2>1. /\ pc'["loop"] = pc["loop"] /\ pauseRequested' = pauseRequested
        /\ UNCHANGED slotVars \/ EmptySlot \/ FillSlot("bus", "STOP", 0)
    BY <1>3, BusLeavesLoopAlone
  <2>2. pc'["bus"] \in Holding =>
           \/ pc["bus"] \in Holding /\ taken' = taken
           \/ At("bus", "take") /\ nextCommand # "NONE" /\ taken' = slotPress
    BY <1>3, BusHolds
  <2>3. /\ pc'["bus"] \in Answering => lastSentCommand' = "NONE"
        /\ \/ PausedAnswer \/ SendFresh
           \/ flying' = flying /\ told' = told /\ (Quiet => Quiet')
    BY <1>3, BusStaysQuiet
  <2>4. CASE PausedAnswer
    <3>1. /\ told' = accepted /\ accepted' = accepted /\ Quiet'
          /\ UNCHANGED <<nextCommand, slotPress>> /\ pc'["bus"] = "valid"
      BY <1>0, <2>4
      DEF PausedAnswer, StopWatching, Quiet, Answering, At, Goto, sharedVars, slotVars, sentVars
    <3>2. ~(nextCommand # "NONE" /\ slotPress.by = "loop")
      BY <2>4 DEF PausedAnswer, HeldInv, At
    <3>. QED  BY <1>0, <2>1, <2>3, <3>1, <3>2 DEF Holding, At
  <2>5. CASE SendFresh
    <3>1. /\ told' = told /\ flying'.press = taken /\ pc["bus"] \in Holding
          /\ UNCHANGED <<nextCommand, slotPress, accepted>> /\ pc'["bus"] = "valid"
      BY <1>0, <2>5 DEF SendFresh, At, Goto, Holding, slotVars
    <3>. QED  BY <1>0, <2>1, <2>3, <3>1 DEF Holding, At
  <2>6. CASE flying' = flying /\ told' = told /\ (Quiet => Quiet')
    <3>1. /\ told' <= accepted'
          /\ nextCommand' # "NONE" /\ slotPress'.by = "loop" => slotPress'.id > told'
      BY <1>0, <2>1, <2>6 DEF slotVars, EmptySlot, FillSlot
    <3>. QED  BY <2>1, <2>2, <2>3, <2>6, <3>1 DEF At
  <2>. QED  BY <2>3, <2>4, <2>5, <2>6
<1>. QED  BY <1>1, <1>2, <1>3 DEF Next

\* What somebody pressed before a pause does not leave the slot once the pause is over:
\* it was dropped, or a poll that began before the pause took it (announcePause,
\* hcp2_transport.cpp:47-82). And once a status poll was answered as paused, what had
\* been sent before is not repeated, then or later (hcp2_codec.cpp:78-91): that poll
\* had consumed what was sent last and drops the watch and the repeat.
THEOREM NothingIsHeldAcrossAPause == Spec => NothingHeldAcrossAPause
<1>1. Init => HeldInv /\ ToldInv
  BY DEF Init, HeldInv, ToldInv, Quiet, Task, Holding, Answering
<1>2. HeldInv => (SendFresh /\ taken.by = "loop" => taken.id > heldBack)
  BY DEF HeldInv, SendFresh, At, Holding
<1>3. ToldInv => (SendRepeat /\ flying.press.by = "loop" => flying.press.id > told)
  BY DEF ToldInv, Quiet, SendRepeat
<1>. QED
  BY <1>1, <1>2, <1>3, TypeInit, TypeStep, HeldStep, ToldStep, PTL
  DEF Spec, NothingHeldAcrossAPause

-------------------------------------------------------------------------------
(* A stop, when the bus task preempts the loop and not the other way round.   *)

\* What was sent last was pressed before the last stop.
Outranked == flying.press.id < lastStop

\* What was sent last may still be made good, by the watch or by a repeat.
Watched == awaitedCommand # "NONE" \/ repeatCommand # "NONE"

\* The part of a poll before it looks at the watch, and the part that looks at the
\* slot; and where it is past both, or has not begun.
BeforeCheck == {"pause", "effect"}
Choosing    == {"take", "fill"} \cup Holding
Outside     == {"idle", "valid", "link", "apply", "stopDoor", "stopStamp", "stopSlot",
                "stopWatch"}

\* A stop that was queued is followed by the request to drop the watch.
StopUnderWay == nextCommand # "NONE" /\ "stopWatch" \in {pc["loop"], pc["bus"]}

\* A watch the last stop outranks ends with the stop that still waits in the slot,
\* or with the request to drop it, before a poll looks at what to send.
WatchEnds ==
    Outranked =>
        /\ pc["bus"] \in Outside =>
              cancelWatch \/ StopUnderWay \/ (~Watched /\ lastSentCommand = "NONE")
        /\ At("bus", "rearm")      => cancelWatch \/ PressWaits
        /\ pc["bus"] \in BeforeCheck => cancelWatch \/ PressWaits \/ ~Watched
        /\ At("bus", "cancel")     => cancelWatch \/ ~Watched
        /\ pc["bus"] \in Choosing  => ~Watched

\* What waits, and what a poll takes, is no older than the last stop. A repeat is
\* armed only with an empty slot, so a poll that takes a stop has none.
StopInv ==
    /\ lastStop <= accepted
    /\ PressWaits => slotPress.id >= lastStop
    /\ pc["bus"] \in Holding => taken.id >= lastStop /\ repeatCommand = "NONE"
    /\ repeatCommand # "NONE" =>
          /\ pc["bus"] \in BeforeCheck \cup {"cancel", "take"} => ~PressWaits
          /\ ~tookStop
    /\ tookStop => pc["bus"] \in {"clear", "target", "fill", "valid"}
    /\ pc["bus"] \in BeforeCheck \cup {"cancel"} \cup Choosing => lastSentCommand = "NONE"
    /\ WatchEnds

\* A frame that arrives finds the watch ended, or about to be.
LEMMA StopReceives ==
    ASSUME TypeOK, RepeatInv, StopInv, BusReceives
    PROVE  StopInv'
<1> USE DEF StopInv, RepeatInv, WatchEnds, Outranked, Watched, StopUnderWay, PressWaits, BeforeCheck,
            Choosing, Holding, Outside, At, Goto, Task, FrameArrives, slotVars, flagVars,
            awaitVars, busVars, watchVars, repeatVars, sentVars, doorVars, pollVars, flightVars, loopVars, clockVars
<1>0. pc \in [Task -> BusLabel \cup LoopLabel] /\ pc["loop"] \in LoopLabel
  BY DEF TypeOK
<1>1. CASE IgnoredFrame
  BY <1>0, <1>1 DEF IgnoredFrame, SignOfLife
<1>2. CASE StatusPoll
  BY <1>0, <1>2 DEF StatusPoll, SignOfLife
<1>3. CASE CounterRepeated
  BY <1>0, <1>3 DEF CounterRepeated, SignOfLife
<1>4. CASE OtherFrame
  BY <1>0, <1>4 DEF OtherFrame, SignOfLife
<1>5. CASE Broadcast
  BY <1>0, <1>5 DEF Broadcast, SignOfLife
<1>. QED  BY <1>1, <1>2, <1>3, <1>4, <1>5 DEF BusReceives

\* A poll that is being answered keeps to the last stop at every step.
LEMMA StopAnswers ==
    ASSUME TypeOK, RepeatInv, StopInv, BusAnswers
    PROVE  StopInv'
<1> USE DEF StopInv, RepeatInv, WatchEnds, Outranked, Watched, StopUnderWay, PressWaits, BeforeCheck,
            Choosing, Holding, Outside, At, Goto, Task, sharedVars, slotVars, flagVars,
            awaitVars, busVars, watchVars, repeatVars, sentVars, doorVars, pollVars, flightVars, loopVars, clockVars
<1>0. /\ pc \in [Task -> BusLabel \cup LoopLabel] /\ pc["loop"] \in LoopLabel
      /\ accepted \in Nat /\ lastStop \in Nat /\ slotPress.id \in Nat /\ taken.id \in Nat
      /\ flying.press.id \in Nat
  BY DEF TypeOK, PressInfo
<1>1. CASE RearmLostCommand
  BY <1>0, <1>1 DEF RearmLostCommand
<1>2. CASE PausedAnswer
  BY <1>0, <1>2 DEF PausedAnswer, StopWatching
<1>3. CASE NotPaused
  BY <1>0, <1>3 DEF NotPaused
<1>4. CASE CheckCommandEffect
  BY <1>0, <1>4 DEF CheckCommandEffect, StopWatching
<1>5. CASE CancelWatch
  BY <1>0, <1>5 DEF CancelWatch, StopWatching
<1>6. CASE TakeCommand
  BY <1>0, <1>6 DEF TakeCommand
<1>7. CASE CheckAge
  BY <1>0, <1>7 DEF CheckAge
<1>8. CASE DropStale
  BY <1>0, <1>8 DEF DropStale, ClearIfStill, EmptySlot
<1>9. CASE ResolveStop
  BY <1>0, <1>9 DEF ResolveStop, ClearIfStill, EmptySlot
<1>10. CASE ClearTaken
  BY <1>0, <1>10 DEF ClearTaken, ClearIfStill, EmptySlot
<1>11. CASE SendFresh
  BY <1>0, <1>11 DEF SendFresh
<1>12. CASE SendRepeat
  BY <1>0, <1>12 DEF SendRepeat
<1>13. CASE SendNothing
  BY <1>0, <1>13 DEF SendNothing
<1>14. CASE SetValid
  BY <1>0, <1>14 DEF SetValid
<1>15. CASE SetLink
  BY <1>0, <1>15 DEF SetLink, BusReturns
<1>16. CASE StopRefused
  BY <1>0, <1>16 DEF StopRefused, BusReturns
<1>17. CASE StopAtTarget
  BY <1>0, <1>17 DEF StopAtTarget
<1>18. CASE \E report \in Reports, noise \in StateNoise : ApplyBroadcast(report, noise)
  BY <1>0, <1>18 DEF ApplyBroadcast, BusReturns
<1>19. CASE StampStop("bus")
  BY <1>0, <1>19 DEF StampStop
<1>20. CASE QueueStop("bus")
  BY <1>0, <1>20 DEF QueueStop, FillSlot
<1>21. CASE AskToCancelWatch("bus")
  BY <1>0, <1>21 DEF AskToCancelWatch, BusReturns
<1>. QED
  BY <1>1, <1>2, <1>3, <1>4, <1>5, <1>6, <1>7, <1>8, <1>9, <1>10, <1>11, <1>12, <1>13, <1>14,
     <1>15, <1>16, <1>17, <1>18, <1>19, <1>20, <1>21, Zenon
  DEF BusAnswers

\* The loop runs only between two frames, where a stop it queues is still to drop
\* the watch.
LEMMA StopLoop ==
    ASSUME DualCore = FALSE, TypeOK, RepeatInv, StopInv, LoopCalls \/ LoopContinues \/ Tick
    PROVE  StopInv'
<1> USE DEF StopInv, RepeatInv, WatchEnds, Outranked, Watched, StopUnderWay, PressWaits, BeforeCheck,
            Choosing, Holding, Outside, At, Goto, LoopAt, MayRun, Task, sharedVars, slotVars, flagVars,
            awaitVars, busVars, watchVars, repeatVars, sentVars, doorVars, pollVars, flightVars, loopVars, clockVars
<1>0. /\ pc \in [Task -> BusLabel \cup LoopLabel] /\ pc["loop"] \in LoopLabel
      /\ accepted \in Nat /\ lastStop \in Nat /\ slotPress.id \in Nat /\ taken.id \in Nat
      /\ flying.press.id \in Nat
  BY DEF TypeOK, PressInfo
<1>1. CASE \E c \in Presses : PressCommand(c)
  BY <1>0, <1>1 DEF PressCommand, Ask
<1>2. CASE \E target \in Targets : SetPosition(target)
  BY <1>0, <1>2 DEF SetPosition, Ask
<1>3. CASE PressStop
  BY <1>0, <1>3 DEF PressStop
<1>4. CASE CheckBusSilence
  BY <1>0, <1>4 DEF CheckBusSilence
<1>5. CASE AnnouncePause
  BY <1>0, <1>5 DEF AnnouncePause, EmptySlot
<1>6. CASE StampPress
  BY <1>0, <1>6 DEF StampPress
<1>7. CASE QueuePress
  <2>1. nextCommand = "NONE" /\ pc["bus"] = "idle" /\ pc'["bus"] = "idle"
    BY <1>0, <1>7 DEF QueuePress, LoopReturns
  <2>2. /\ lastStop' = lastStop /\ accepted' = accepted + 1 /\ slotPress'.id = accepted + 1
    BY <1>7 DEF QueuePress, FillSlot, TypeOK, Command
  <2>3. UNCHANGED <<awaitedCommand, repeatCommand, lastSentCommand, flying, cancelWatch,
                    taken, tookStop>>
    BY <1>7 DEF QueuePress
  <2>. QED  BY <1>0, <2>1, <2>2, <2>3
<1>8. CASE RefusePress
  BY <1>0, <1>8 DEF RefusePress
<1>9. CASE RestoreStamp
  BY <1>0, <1>9 DEF RestoreStamp, LoopReturns
<1>10. CASE HandOverTarget
  BY <1>0, <1>10 DEF HandOverTarget, LoopReturns
<1>11. CASE JudgeSilence
  BY <1>0, <1>11 DEF JudgeSilence, LoopReturns
<1>12. CASE SetInvalid
  BY <1>0, <1>12 DEF SetInvalid
<1>13. CASE SetSilent
  BY <1>0, <1>13 DEF SetSilent
<1>14. CASE DropQueued
  BY <1>0, <1>14 DEF DropQueued, EmptySlot, LoopReturns
<1>15. CASE RequestPause
  BY <1>0, <1>15 DEF RequestPause
<1>16. CASE EndPause
  BY <1>0, <1>16 DEF EndPause, LoopReturns
<1>17. CASE StampStop("loop")
  BY <1>0, <1>17 DEF StampStop
<1>18. CASE QueueStop("loop")
  BY <1>0, <1>18 DEF QueueStop, FillSlot
<1>19. CASE AskToCancelWatch("loop")
  BY <1>0, <1>19 DEF AskToCancelWatch, LoopReturns
<1>20. CASE Tick
  BY <1>0, <1>20 DEF Tick
<1>. QED
  BY <1>1, <1>2, <1>3, <1>4, <1>5, <1>6, <1>7, <1>8, <1>9, <1>10, <1>11, <1>12, <1>13, <1>14,
     <1>15, <1>16, <1>17, <1>18, <1>19, <1>20, Zenon
  DEF LoopCalls, LoopContinues


\* With the bus task on the core of the loop, nothing that was pressed before an
\* accepted stop goes out after it, neither from the slot nor as a repeat, and the
\* poll that takes a stop sends nothing but the impulse that stops (stopDoor and
\* setCommandValuesToRead, hcp2_codec.cpp:835-856 and :290-347). On two cores it is
\* false: a poll that has looked at the watch, or taken its press, goes on.
THEOREM NothingOlderGoesOutAfterStop ==
    ASSUME DualCore = FALSE
    PROVE  Spec => []NothingOlderAfterStop
<1>1. Init => StopInv
  BY DEF Init, StopInv, WatchEnds, Outranked, PressWaits, BeforeCheck, Choosing, Holding, Task,
         NoPress, At
<1>2. TypeOK /\ RepeatInv /\ StopInv /\ [Next]_vars => StopInv'
  <2>. SUFFICES ASSUME TypeOK, RepeatInv, StopInv, [Next]_vars PROVE StopInv'  OBVIOUS
  <2>1. CASE UNCHANGED vars
    BY <2>1
    DEF StopInv, WatchEnds, Outranked, Watched, StopUnderWay, PressWaits, At, vars, sharedVars,
        slotVars, flagVars, busVars, watchVars, awaitVars, repeatVars, sentVars, pollVars,
        flightVars
  <2>. QED  BY <2>1, StopReceives, StopAnswers, StopLoop DEF Next
<1>3. TypeOK /\ StopInv => NothingOlderAfterStop
  BY DEF TypeOK, PressInfo, StopInv, WatchEnds, Outranked, Watched, Choosing, Holding, At,
         NothingOlderAfterStop, WillRepeat
<1>. QED
  BY <1>1, <1>2, <1>3, TypeInit, TypeStep, RepeatInit, RepeatStep, PTL DEF Spec

-------------------------------------------------------------------------------
(* The deadline.                                                              *)

\* The time between two readings, however the clock wrapped between them.
LEMMA SinceIsElapsed ==
    ASSUME NEW s \in Nat, NEW t \in Nat, s <= t, t - s < ClockMod
    PROVE  (Millis(t) - Millis(s)) % ClockMod = t - s
<1>1. ClockMod \in Nat \ {0} /\ ClockStart + s \in Nat /\ ClockStart + t \in Nat
  BY ClockAssumption
<1>2. ClockStart + s <= ClockStart + t /\ (ClockStart + t) - (ClockStart + s) = t - s
  BY ClockAssumption
<1>. QED  BY <1>1, <1>2, UnsignedDifference DEF Millis

\* The watch runs from the moment its press was first sent, and a repeat is armed
\* under it only before the deadline.
DeadlineInv ==
    /\ now["bus"] <= time /\ flying.sentAt <= time /\ time <= MaxTime
    /\ ~At("bus", "idle") => flying.sentAt <= now["bus"]
    /\ awaitedCommand # "NONE" => awaitedSince = Millis(flying.sentAt)
    /\ repeatCommand # "NONE" /\ awaitedCommand # "NONE" =>
          now["bus"] - flying.sentAt <= CmdGiveup

\* Neither the loop nor the clock moves the watch or the time a poll began.
LEMMA LoopKeepsWatch ==
    ASSUME TypeOK, LoopCalls \/ LoopContinues \/ Tick
    PROVE  /\ now'["bus"] = now["bus"] /\ UNCHANGED awaitedSince
           /\ time' = time \/ (time < MaxTime /\ time' = time + 1)
<1> USE DEF Task, sharedVars, busVars, watchVars, awaitVars, loopVars, callVars, clockVars, LoopReturns, LoopAt
<1>0. now \in [Task -> Nat]
  BY DEF TypeOK
<1>1. CASE \E c \in Presses : PressCommand(c)
  BY <1>0, <1>1 DEF PressCommand, Ask
<1>2. CASE \E target \in Targets : SetPosition(target)
  BY <1>0, <1>2 DEF SetPosition, Ask
<1>3. CASE PressStop \/ CheckBusSilence \/ AnnouncePause
  BY <1>0, <1>3 DEF PressStop, CheckBusSilence, AnnouncePause
<1>4. CASE StampPress \/ QueuePress \/ RefusePress \/ RestoreStamp \/ HandOverTarget
  BY <1>0, <1>4 DEF StampPress, QueuePress, RefusePress, RestoreStamp, HandOverTarget
<1>5. CASE StampStop("loop") \/ QueueStop("loop")
  BY <1>0, <1>5 DEF StampStop, QueueStop
<1>6. CASE AskToCancelWatch("loop")
  BY <1>0, <1>6 DEF AskToCancelWatch
<1>7. CASE JudgeSilence \/ SetInvalid \/ SetSilent \/ DropQueued
  BY <1>0, <1>7 DEF JudgeSilence, SetInvalid, SetSilent, DropQueued
<1>8. CASE RequestPause \/ EndPause
  BY <1>0, <1>8 DEF RequestPause, EndPause
<1>9. CASE Tick
  BY <1>0, <1>9 DEF Tick
<1>. QED
  BY <1>1, <1>2, <1>3, <1>4, <1>5, <1>6, <1>7, <1>8, <1>9, Zenon DEF LoopCalls, LoopContinues

\* No order of polls, lost answers and presses lets a repeat past the deadline of
\* the press it repeats.
LEMMA DeadlineStep ==
    ASSUME MaxTime < ClockMod
    PROVE  TypeOK /\ RepeatInv /\ DeadlineInv /\ [Next]_vars => DeadlineInv'
<1>. SUFFICES ASSUME TypeOK, RepeatInv, DeadlineInv, [Next]_vars PROVE DeadlineInv'  OBVIOUS
<1> USE DEF DeadlineInv, At
<1>0. /\ pc \in [Task -> BusLabel \cup LoopLabel] /\ now \in [Task -> Nat] /\ time \in Nat
      /\ "bus" \in Task /\ now["bus"] \in Nat /\ flying.sentAt \in Nat
      /\ MaxTime \in Nat /\ CmdGiveup \in Nat /\ ClockMod \in Nat
  BY ClockAssumption DEF TypeOK, Task
<1>1. CASE UNCHANGED vars
  BY <1>1 DEF vars, busVars, watchVars, awaitVars, repeatVars, flightVars, clockVars
<1>2. CASE LoopCalls \/ LoopContinues \/ Tick
  <2>1. /\ UNCHANGED <<repeatVars, awaitedCommand, flightVars>> /\ pc'["bus"] = pc["bus"]
        /\ now'["bus"] = now["bus"] /\ UNCHANGED awaitedSince
        /\ time' = time \/ (time < MaxTime /\ time' = time + 1)
    BY <1>2, LoopLeavesBusAlone, LoopKeepsWatch
  <2>. QED  BY <1>0, <2>1 DEF repeatVars, flightVars
<1> USE DEF Goto, busVars, watchVars, awaitVars, repeatVars, sentVars, doorVars, pollVars, flightVars, clockVars
<1>3. CASE IgnoredFrame
  BY <1>0, <1>3 DEF IgnoredFrame
<1>4. CASE StatusPoll \/ CounterRepeated \/ OtherFrame \/ Broadcast
  <2>1. /\ UNCHANGED <<awaitVars, flightVars, repeatVars, time>> /\ now'["bus"] = time
        /\ repeatCommand = "NONE"
    BY <1>0, <1>4
    DEF StatusPoll, CounterRepeated, OtherFrame, Broadcast, FrameArrives, SignOfLife, RepeatInv
  <2>. QED  BY <1>0, <2>1
<1>5. CASE RearmLostCommand
  BY <1>0, <1>5 DEF RearmLostCommand
<1>6. CASE PausedAnswer
  BY <1>0, <1>6 DEF PausedAnswer, StopWatching
<1>7. CASE NotPaused
  BY <1>0, <1>7 DEF NotPaused
<1>8. CASE CheckCommandEffect
  <2>1. /\ UNCHANGED <<now, time, flying, awaitedSince>> /\ At("bus", "effect") /\ pc'["bus"] = "cancel"
        /\ awaitedCommand' \in {awaitedCommand, "NONE"}
        /\ \/ awaitedCommand' = "NONE"
           \/ UNCHANGED repeatCommand
           \/ awaitedCommand # "NONE" /\ ~Overdue
    BY <1>0, <1>8 DEF CheckCommandEffect, StopWatching, AskAgain
  <2>2. ASSUME awaitedCommand # "NONE", ~Overdue
        PROVE  now["bus"] - flying.sentAt <= CmdGiveup
    <3>1. Since(now["bus"], awaitedSince) <= CmdGiveup \/ ~(Since(now["bus"], awaitedSince) \in Int)
      BY <1>0, <2>2 DEF Overdue
    <3>2. Since(now["bus"], awaitedSince) = now["bus"] - flying.sentAt
      BY <1>0, <2>1, <2>2, SinceIsElapsed DEF Since
    <3>. QED  BY <1>0, <3>1, <3>2
  <2>. QED  BY <1>0, <2>1, <2>2
<1>9. CASE CancelWatch
  BY <1>0, <1>9 DEF CancelWatch, StopWatching
<1>10. CASE TakeCommand \/ CheckAge \/ DropStale \/ ResolveStop
  BY <1>0, <1>10 DEF TakeCommand, CheckAge, DropStale, ResolveStop
<1>11. CASE ClearTaken
  BY <1>0, <1>11 DEF ClearTaken
<1>12. CASE SendFresh
  BY <1>0, <1>12 DEF SendFresh, RepeatInv
<1>13. CASE SendRepeat \/ SendNothing
  BY <1>0, <1>13 DEF SendRepeat, SendNothing
<1>14. CASE SetValid
  BY <1>0, <1>14 DEF SetValid
<1>15. CASE SetLink
  BY <1>0, <1>15 DEF SetLink, BusReturns, RepeatInv
<1>16. CASE StopRefused \/ StopAtTarget
  BY <1>0, <1>16 DEF StopRefused, StopAtTarget, BusReturns, RepeatInv
<1>17. CASE \E report \in Reports, noise \in StateNoise : ApplyBroadcast(report, noise)
  BY <1>0, <1>17 DEF ApplyBroadcast, BusReturns, RepeatInv
<1>18. CASE StampStop("bus") \/ QueueStop("bus")
  BY <1>0, <1>18 DEF StampStop, QueueStop
<1>19. CASE AskToCancelWatch("bus")
  BY <1>0, <1>19 DEF AskToCancelWatch, BusReturns, RepeatInv
<1>. QED
  BY <1>1, <1>2, <1>3, <1>4, <1>5, <1>6, <1>7, <1>8, <1>9, <1>10, <1>11, <1>12, <1>13, <1>14,
     <1>15, <1>16, <1>17, <1>18, <1>19, Zenon
  DEF Next, BusReceives, BusAnswers

\* An unanswered command is asked again within CmdGiveup of its first attempt, no
\* repeat moves that deadline, and a clock that wraps in between does not either
\* (checkCommandEffect, hcp2_codec.cpp:430-465), in every behaviour shorter than one
\* round of the clock: a bus silent for longer would look younger than it is.
THEOREM DeadlineIsMet ==
    ASSUME MaxTime < ClockMod
    PROVE  Spec => []RepeatsMeetTheDeadline
<1>1. Init => DeadlineInv
  BY ClockAssumption DEF Init, DeadlineInv, Task, At
<1>2. DeadlineInv => RepeatsMeetTheDeadline
  BY DEF DeadlineInv, RepeatsMeetTheDeadline, WillRepeat
<1>. QED
  BY <1>1, <1>2, TypeInit, TypeStep, RepeatInit, RepeatStep, DeadlineStep, PTL DEF Spec

-------------------------------------------------------------------------------
(* The age of a press.                                                        *)

\* Without partway runs the bus task has no target to stop at.
NoTargetInv ==
    /\ op.target = 0 /\ gotoRequest = -1 /\ gotoPosition = 0
    /\ ~At("loop", "target")
    /\ pc["bus"] \notin {"stopDoor", "stopStamp", "stopSlot", "stopWatch"}

\* The calls of the loop that press something, and the parts of them where the
\* stamp in place is the one of the call.
Pressing == {"stamp", "slot", "restore", "stopStamp", "stopSlot"}
Stamped  == {"slot", "restore", "stopSlot"}

\* A reading of the clock taken no earlier than a given time, and on one core not
\* after the frame that is being answered came in.
ReadSince(ms, t) ==
    \E s \in Nat : ms = Millis(s) /\ t <= s /\ s <= time /\ (DualCore \/ s <= now["bus"])

\* The stamp is that of the press in the slot, but while a call of the loop has its
\* own there; that call knows the one to put back. Whatever stamp a poll reads, it
\* is no older than the press it took.
AgeInv ==
    /\ time <= MaxTime /\ now["loop"] <= time /\ now["bus"] <= time
    /\ PressWaits =>
          /\ slotPress.id > 0 /\ slotPress.at <= time
          /\ pc["loop"] \notin Stamped => nextCommandOn = Millis(slotPress.at)
          /\ pc["loop"] \in {"stamp", "slot", "restore"} =>
                previousOn = Millis(slotPress.at)
          /\ pc["loop"] \in Pressing => slotPress.at <= now["loop"]
    /\ pc["loop"] \in Stamped => nextCommandOn = Millis(now["loop"])
    /\ ~DualCore /\ ~At("bus", "idle") =>
          /\ now["loop"] <= now["bus"]
          /\ PressWaits => slotPress.at <= now["bus"]
    /\ At("bus", "age") =>
          /\ taken.id > 0
          /\ ReadSince(nextCommandOn, taken.at)
          /\ pc["loop"] \in Pressing => taken.at <= now["loop"]
          /\ pc["loop"] \in {"stamp", "slot", "restore"} => ReadSince(previousOn, taken.at)
    /\ ~PressWaits => slotPress = NoPress

\* No step of either task arms a target nobody asked for.
LEMMA NoTargetStep ==
    ASSUME Targets = {}
    PROVE  TypeOK /\ NoTargetInv /\ [Next]_vars => NoTargetInv'
<1>. SUFFICES ASSUME TypeOK, NoTargetInv, [Next]_vars PROVE NoTargetInv'  OBVIOUS
<1> USE DEF NoTargetInv, At, Goto, LoopAt, Task, NoCall, sharedVars, slotVars, flagVars, linkVars, busVars,
            watchVars, sentVars, doorVars, pollVars, flightVars, loopVars, callVars
<1>0. /\ pc \in [Task -> BusLabel \cup LoopLabel] /\ "bus" \in Task /\ "loop" \in Task
      /\ pc["loop"] \in LoopLabel
  BY DEF TypeOK, Task
<1>1. CASE UNCHANGED vars \/ Tick
  BY <1>1 DEF vars, Tick
<1>2. CASE IgnoredFrame \/ StatusPoll \/ CounterRepeated \/ OtherFrame \/ Broadcast
  BY <1>0, <1>2
  DEF IgnoredFrame, StatusPoll, CounterRepeated, OtherFrame, Broadcast, FrameArrives, SignOfLife
<1>3. CASE RearmLostCommand \/ PausedAnswer \/ NotPaused
  BY <1>0, <1>3 DEF RearmLostCommand, PausedAnswer, NotPaused
<1>4. CASE CheckCommandEffect
  BY <1>0, <1>4 DEF CheckCommandEffect
<1>5. CASE CancelWatch \/ TakeCommand
  BY <1>0, <1>5 DEF CancelWatch, TakeCommand
<1>6. CASE CheckAge \/ DropStale \/ ResolveStop \/ ClearTaken
  BY <1>0, <1>6 DEF CheckAge, DropStale, ResolveStop, ClearTaken
<1>7. CASE SendFresh \/ SendRepeat \/ SendNothing
  BY <1>0, <1>7 DEF SendFresh, SendRepeat, SendNothing
<1>8. CASE SetValid \/ SetLink
  BY <1>0, <1>8 DEF SetValid, SetLink, BusReturns
<1>9. CASE \E report \in Reports, noise \in StateNoise : ApplyBroadcast(report, noise)
  <2>1. PICK report \in Reports, noise \in StateNoise : ApplyBroadcast(report, noise)
    BY <1>9
  <2>2. TargetAfter(view.door, report.door, gotoPosition) = 0
    BY DEF TargetAfter
  <2>. QED  BY <1>0, <2>1, <2>2 DEF ApplyBroadcast, BusReturns
<1>10. CASE StopRefused \/ StopAtTarget \/ StampStop("bus") \/ QueueStop("bus")
            \/ AskToCancelWatch("bus")
  BY <1>10 DEF StopRefused, StopAtTarget, StampStop, QueueStop, AskToCancelWatch
<1>11. CASE (\E c \in Presses : PressCommand(c)) \/ (\E target \in Targets : SetPosition(target))
  BY <1>0, <1>11 DEF PressCommand, SetPosition, Ask
<1>12. CASE PressStop \/ CheckBusSilence \/ AnnouncePause
  BY <1>0, <1>12 DEF PressStop, CheckBusSilence, AnnouncePause
<1>13. CASE StampPress \/ RefusePress \/ RestoreStamp
  BY <1>0, <1>13 DEF StampPress, RefusePress, RestoreStamp, LoopReturns
<1>14. CASE QueuePress
  BY <1>0, <1>14 DEF QueuePress, LoopReturns
<1>15. CASE HandOverTarget
  BY <1>15 DEF HandOverTarget
<1>16. CASE StampStop("loop") \/ QueueStop("loop")
  BY <1>0, <1>16 DEF StampStop, QueueStop
<1>17. CASE AskToCancelWatch("loop")
  BY <1>0, <1>17 DEF AskToCancelWatch, LoopReturns
<1>18. CASE JudgeSilence \/ SetInvalid \/ SetSilent \/ DropQueued
  BY <1>0, <1>18 DEF JudgeSilence, SetInvalid, SetSilent, DropQueued, LoopReturns
<1>19. CASE RequestPause \/ EndPause
  BY <1>0, <1>19 DEF RequestPause, EndPause, LoopReturns
<1>. QED
  BY <1>1, <1>2, <1>3, <1>4, <1>5, <1>6, <1>7, <1>8, <1>9, <1>10, <1>11, <1>12, <1>13, <1>14,
     <1>15, <1>16, <1>17, <1>18, <1>19, Zenon
  DEF Next, BusReceives, BusAnswers, LoopCalls, LoopContinues

\* What a poll reads stays what it is while the stamp, the press it took and the
\* time it began stay.
LEMMA AgeOfBus ==
    ASSUME TypeOK, NoTargetInv, AgeInv, BusReceives \/ BusAnswers
    PROVE  AgeInv'
<1> USE DEF AgeInv, At, Goto, PressWaits, Pressing, Stamped, NoPress
<1>0. /\ pc \in [Task -> BusLabel \cup LoopLabel] /\ now \in [Task -> Nat] /\ time \in Nat
      /\ "bus" \in Task /\ "loop" \in Task /\ now["bus"] \in Nat /\ now["loop"] \in Nat
      /\ slotPress \in PressInfo /\ slotPress.at \in Nat /\ slotPress.id \in Nat
      /\ taken.at \in Nat /\ MaxTime \in Nat
  BY ClockAssumption DEF TypeOK, Task, PressInfo
<1>1. /\ pc'["loop"] = pc["loop"] /\ now'["loop"] = now["loop"] /\ UNCHANGED time
      /\ UNCHANGED slotVars \/ EmptySlot
      /\ UNCHANGED <<nextCommandOn, previousOn>>
  <2>1. /\ pc'["loop"] = pc["loop"] /\ now'["loop"] = now["loop"] /\ UNCHANGED time
        /\ UNCHANGED slotVars \/ EmptySlot \/ FillSlot("bus", "STOP", 0)
    BY BusLeavesLoopAlone
  <2> USE DEF sharedVars, loopVars, callVars
  <2>2. CASE BusReceives
    BY <2>1, <2>2
    DEF BusReceives, IgnoredFrame, StatusPoll, CounterRepeated, OtherFrame, Broadcast,
        FrameArrives, SignOfLife, slotVars
  <2>3. CASE \/ RearmLostCommand \/ PausedAnswer \/ NotPaused \/ CheckCommandEffect
             \/ CancelWatch \/ TakeCommand \/ CheckAge \/ SendFresh \/ SendRepeat \/ SendNothing
    BY <2>1, <2>3
    DEF RearmLostCommand, PausedAnswer, NotPaused, CheckCommandEffect, CancelWatch, TakeCommand,
        CheckAge, SendFresh, SendRepeat, SendNothing
  <2>4. CASE DropStale \/ ResolveStop \/ ClearTaken \/ SetValid \/ SetLink
    BY <2>1, <2>4 DEF DropStale, ResolveStop, ClearTaken, ClearIfStill, SetValid, SetLink
  <2>5. CASE \E report \in Reports, noise \in StateNoise : ApplyBroadcast(report, noise)
    BY <2>1, <2>5 DEF ApplyBroadcast
  <2>6. ~(\/ StopRefused \/ StopAtTarget \/ StampStop("bus") \/ QueueStop("bus")
          \/ AskToCancelWatch("bus"))
    BY DEF NoTargetInv, StopRefused, StopAtTarget, StampStop, QueueStop, AskToCancelWatch
  <2>. QED  BY <2>2, <2>3, <2>4, <2>5, <2>6 DEF BusAnswers
<1>2. /\ now'["bus"] \in {now["bus"], time, 0}
      /\ pc'["bus"] # "idle" => now'["bus"] = now["bus"] \/ now'["bus"] = time
      /\ pc'["bus"] # "idle" /\ now'["bus"] # time => pc["bus"] # "idle"
  <2> USE DEF busVars, clockVars
  <2>1. CASE IgnoredFrame
    BY <1>0, <2>1 DEF IgnoredFrame, SignOfLife
  <2>2. CASE StatusPoll \/ CounterRepeated \/ OtherFrame \/ Broadcast
    BY <1>0, <2>2 DEF StatusPoll, CounterRepeated, OtherFrame, Broadcast, FrameArrives
  <2>3. CASE \/ RearmLostCommand \/ PausedAnswer \/ NotPaused \/ CheckCommandEffect
             \/ CancelWatch \/ TakeCommand \/ CheckAge \/ SendFresh \/ SendRepeat \/ SendNothing
    BY <1>0, <2>3
    DEF RearmLostCommand, PausedAnswer, NotPaused, CheckCommandEffect, CancelWatch, TakeCommand,
        CheckAge, SendFresh, SendRepeat, SendNothing
  <2>4. CASE DropStale \/ ResolveStop \/ ClearTaken \/ SetValid
    BY <1>0, <2>4 DEF DropStale, ResolveStop, ClearTaken, SetValid
  <2>5. CASE SetLink
    BY <1>0, <2>5 DEF SetLink, BusReturns
  <2>6. CASE \E report \in Reports, noise \in StateNoise : ApplyBroadcast(report, noise)
    BY <1>0, <2>6 DEF ApplyBroadcast, BusReturns
  <2>7. ~(\/ StopRefused \/ StopAtTarget \/ StampStop("bus") \/ QueueStop("bus")
          \/ AskToCancelWatch("bus"))
    BY DEF NoTargetInv, StopRefused, StopAtTarget, StampStop, QueueStop, AskToCancelWatch
  <2>. QED  BY <2>1, <2>2, <2>3, <2>4, <2>5, <2>6, <2>7, Zenon DEF BusReceives, BusAnswers
<1>3. \/ UNCHANGED <<nextCommand, slotPress>>
      \/ nextCommand' = "NONE" /\ slotPress' = NoPress
  BY <1>1 DEF slotVars, EmptySlot
<1>4. /\ PressWaits' =>
            /\ slotPress'.id > 0 /\ slotPress'.at <= time'
            /\ pc'["loop"] \notin Stamped => nextCommandOn' = Millis(slotPress'.at)
            /\ pc'["loop"] \in {"stamp", "slot", "restore"} => previousOn' = Millis(slotPress'.at)
            /\ pc'["loop"] \in Pressing => slotPress'.at <= now'["loop"]
      /\ ~DualCore /\ pc'["bus"] # "idle" =>
            /\ now'["loop"] <= now'["bus"]
            /\ PressWaits' => slotPress'.at <= now'["bus"]
      /\ ~PressWaits' => slotPress' = NoPress
      /\ time' <= MaxTime /\ now'["loop"] <= time' /\ now'["bus"] <= time'
      /\ pc'["loop"] \in Stamped => nextCommandOn' = Millis(now'["loop"])
  BY <1>0, <1>1, <1>2, <1>3
<1>5. ASSUME pc'["bus"] = "age"
      PROVE  /\ TakeCommand /\ pc["bus"] = "take" /\ nextCommand # "NONE" /\ taken' = slotPress
             /\ now' = now /\ slotPress' = slotPress /\ nextCommand' = nextCommand
  <2>1. ~(\/ StopRefused \/ StopAtTarget \/ StampStop("bus") \/ QueueStop("bus")
          \/ AskToCancelWatch("bus"))
    BY DEF NoTargetInv, StopRefused, StopAtTarget, StampStop, QueueStop, AskToCancelWatch
  <2>2. ~BusReceives
    <3>1. ~IgnoredFrame
      BY <1>0, <1>5 DEF IgnoredFrame, SignOfLife
    <3>. QED
      BY <1>0, <1>5, <3>1
      DEF BusReceives, StatusPoll, CounterRepeated, OtherFrame, Broadcast, FrameArrives
  <2>3. ~(\/ RearmLostCommand \/ PausedAnswer \/ NotPaused \/ CheckCommandEffect
          \/ CancelWatch \/ CheckAge \/ SendFresh \/ SendRepeat \/ SendNothing)
    BY <1>0, <1>5
    DEF RearmLostCommand, PausedAnswer, NotPaused, CheckCommandEffect, CancelWatch,
        CheckAge, SendFresh, SendRepeat, SendNothing
  <2>4. ~(DropStale \/ ResolveStop \/ ClearTaken \/ SetValid)
    BY <1>0, <1>5 DEF DropStale, ResolveStop, ClearTaken, SetValid
  <2>5. ~SetLink
    BY <1>0, <1>5 DEF SetLink, BusReturns
  <2>6. ~(\E report \in Reports, noise \in StateNoise : ApplyBroadcast(report, noise))
    BY <1>0, <1>5 DEF ApplyBroadcast, BusReturns
  <2>7. TakeCommand
    BY <2>1, <2>2, <2>3, <2>4, <2>5, <2>6 DEF BusAnswers
  <2>. QED  BY <1>0, <1>5, <2>7 DEF TakeCommand, sharedVars, slotVars, clockVars
<1>6. ASSUME pc'["bus"] = "age"
      PROVE  /\ taken'.id > 0
             /\ ReadSince(nextCommandOn, taken.at)'
             /\ pc'["loop"] \in Pressing => taken'.at <= now'["loop"]
             /\ pc'["loop"] \in {"stamp", "slot", "restore"} => ReadSince(previousOn, taken.at)'
  <2>1. /\ taken' = slotPress /\ now' = now /\ nextCommandOn' = nextCommandOn
        /\ previousOn' = previousOn /\ time' = time /\ pc'["loop"] = pc["loop"]
        /\ nextCommand # "NONE" /\ pc["bus"] = "take"
    BY <1>1, <1>5, <1>6
  <2>2. taken'.id > 0 /\ (pc'["loop"] \in Pressing => taken'.at <= now'["loop"])
    BY <2>1
  <2>3. DualCore \/ (slotPress.at <= now["bus"] /\ now["loop"] <= now["bus"])
    BY <2>1
  <2>4. \E s \in Nat : /\ nextCommandOn = Millis(s) /\ slotPress.at <= s /\ s <= time
                       /\ DualCore \/ s <= now["bus"]
    <3>1. CASE pc["loop"] \in Stamped
      <4>1. nextCommandOn = Millis(now["loop"]) /\ slotPress.at <= now["loop"]
            /\ now["loop"] <= time
        BY <2>1, <3>1
      <4>. QED  BY <1>0, <2>3, <4>1
    <3>2. CASE pc["loop"] \notin Stamped
      <4>1. nextCommandOn = Millis(slotPress.at) /\ slotPress.at <= time
        BY <2>1, <3>2
      <4>. QED  BY <1>0, <2>3, <4>1
    <3>. QED  BY <3>1, <3>2
  <2>5. ASSUME pc["loop"] \in {"stamp", "slot", "restore"}
        PROVE  \E s \in Nat : /\ previousOn = Millis(s) /\ slotPress.at <= s /\ s <= time
                              /\ DualCore \/ s <= now["bus"]
    <3>1. previousOn = Millis(slotPress.at) /\ slotPress.at <= time
      BY <2>1, <2>5
    <3>. QED  BY <1>0, <2>3, <3>1
  <2>. QED  BY <2>1, <2>2, <2>4, <2>5 DEF ReadSince
<1>. QED  BY <1>4, <1>6


\* A call of the loop stamps its press with a time that is no earlier than what is
\* in the slot, and a refused one puts back the stamp that belongs to it.
LEMMA AgeOfLoop ==
    ASSUME TypeOK, NoTargetInv, AgeInv, LoopCalls \/ LoopContinues \/ Tick
    PROVE  AgeInv'
<1> USE DEF AgeInv, At, Goto, LoopAt, MayRun, PressWaits, Pressing, Stamped, NoPress, Stamp, NoCall, LoopReturns,
            sharedVars, slotVars, busVars, pollVars, loopVars, callVars, clockVars
<1>0. /\ pc \in [Task -> BusLabel \cup LoopLabel] /\ now \in [Task -> Nat] /\ time \in Nat
      /\ "bus" \in Task /\ "loop" \in Task /\ now["bus"] \in Nat /\ now["loop"] \in Nat
      /\ slotPress \in PressInfo /\ slotPress.at \in Nat /\ slotPress.id \in Nat
      /\ taken.at \in Nat /\ MaxTime \in Nat /\ accepted \in Nat
  BY ClockAssumption DEF TypeOK, Task, PressInfo
\* What is left of a reading, with the same frame and no less time.
<1>1. ASSUME NEW m, NEW t \in Nat, now'["bus"] = now["bus"], time' \in Nat, time <= time',
             ReadSince(m, t)
      PROVE  \E s \in Nat : m = Millis(s) /\ t <= s /\ s <= time' /\ (DualCore \/ s <= now'["bus"])
  BY <1>0, <1>1 DEF ReadSince
<1>2. CASE Tick
  <2>1. /\ UNCHANGED <<pc, now, slotPress, nextCommand, nextCommandOn, previousOn, taken>>
        /\ time' = time + 1 /\ time' <= MaxTime
    BY <1>0, <1>2 DEF Tick
  <2>2. At("bus", "age") => ReadSince(nextCommandOn, taken.at)'
    BY <1>0, <1>1, <2>1 DEF ReadSince
  <2>3. At("bus", "age") /\ pc["loop"] \in {"stamp", "slot", "restore"} =>
           ReadSince(previousOn, taken.at)'
    BY <1>0, <1>1, <2>1 DEF ReadSince
  <2>. QED  BY <1>0, <2>1, <2>2, <2>3
\* The call of the loop that a poll does not see.
<1>3. ASSUME NEW c, NEW target, Ask(c, target)  PROVE AgeInv'
  <2>1. /\ UNCHANGED <<slotPress, nextCommand, nextCommandOn, taken, time>>
        /\ previousOn' = nextCommandOn /\ pc' = [pc EXCEPT !["loop"] = "stamp"]
        /\ now' = [now EXCEPT !["loop"] = time] /\ pc["loop"] = "idle"
        /\ DualCore \/ pc["bus"] = "idle"
    BY <1>3 DEF Ask
  <2>2. At("bus", "age") => ReadSince(nextCommandOn, taken.at)' /\ ReadSince(previousOn, taken.at)'
    BY <1>0, <1>1, <2>1 DEF ReadSince
  <2>3. At("bus", "age") => taken.at <= time
    BY <1>0 DEF ReadSince
  <2>. QED  BY <1>0, <2>1, <2>2, <2>3
<1>4. CASE \E c \in Presses : PressCommand(c)
  BY <1>3, <1>4 DEF PressCommand
<1>5. CASE \E target \in Targets : SetPosition(target)
  BY <1>3, <1>5 DEF SetPosition
<1>6. CASE PressStop \/ CheckBusSilence
  <2>1. /\ UNCHANGED <<slotPress, nextCommand, nextCommandOn, previousOn, taken, time>>
        /\ pc' = [pc EXCEPT !["loop"] = "stopStamp"] \/ pc' = [pc EXCEPT !["loop"] = "judge"]
        /\ now' = [now EXCEPT !["loop"] = time] /\ pc["loop"] = "idle"
        /\ DualCore \/ pc["bus"] = "idle"
    BY <1>6 DEF PressStop, CheckBusSilence
  <2>2. At("bus", "age") => ReadSince(nextCommandOn, taken.at)'
    BY <1>0, <1>1, <2>1 DEF ReadSince
  <2>3. At("bus", "age") => taken.at <= time
    BY <1>0 DEF ReadSince
  <2>. QED  BY <1>0, <2>1, <2>2, <2>3
<1>7. CASE AnnouncePause
  BY <1>0, <1>7 DEF AnnouncePause, EmptySlot, ReadSince
\* A press of the loop is stamped with the time of its call.
<1>8. ASSUME UNCHANGED <<slotPress, nextCommand, previousOn, taken, time, now>>,
             nextCommandOn' = Millis(now["loop"]), DualCore \/ pc["bus"] = "idle",
             \/ pc["loop"] = "stamp" /\ pc' = [pc EXCEPT !["loop"] = "slot"]
             \/ pc["loop"] = "stopStamp" /\ pc' = [pc EXCEPT !["loop"] = "stopSlot"]
      PROVE  AgeInv'
  <2>1. At("bus", "age") => ReadSince(nextCommandOn, taken.at)'
    BY <1>0, <1>8 DEF ReadSince
  <2>2. At("bus", "age") /\ pc'["loop"] = "slot" => ReadSince(previousOn, taken.at)'
    BY <1>0, <1>8 DEF ReadSince
  <2>. QED  BY <1>0, <1>8, <2>1, <2>2
<1>9. CASE StampPress
  BY <1>8, <1>9 DEF StampPress
<1>10. CASE StampStop("loop")
  BY <1>8, <1>10 DEF StampStop
<1>11. CASE QueuePress
  <2>1. /\ pc' = [pc EXCEPT !["loop"] = "idle"] /\ now' = [now EXCEPT !["loop"] = 0]
        /\ slotPress'.id = accepted + 1 /\ slotPress'.at = now["loop"]
        /\ UNCHANGED <<nextCommandOn, taken, time>> /\ pc["loop"] = "slot"
        /\ DualCore \/ pc["bus"] = "idle"
    BY <1>11 DEF QueuePress, FillSlot, NoTargetInv
  <2>2. At("bus", "age") => ReadSince(nextCommandOn, taken.at)'
    BY <1>0, <1>1, <2>1 DEF ReadSince
  <2>3. ~(~PressWaits')
    BY <1>11 DEF QueuePress, FillSlot, TypeOK, Command
  <2>. QED  BY <1>0, <2>1, <2>2, <2>3
<1>12. CASE QueueStop("loop")
  <2>1. /\ pc' = [pc EXCEPT !["loop"] = "stopWatch"] /\ now' = now
        /\ slotPress'.id = accepted + 1 /\ slotPress'.at = now["loop"]
        /\ UNCHANGED <<nextCommandOn, taken, time>> /\ pc["loop"] = "stopSlot"
        /\ DualCore \/ pc["bus"] = "idle"
        /\ nextCommand' = "STOP"
    BY <1>12 DEF QueueStop, FillSlot
  <2>2. At("bus", "age") => ReadSince(nextCommandOn, taken.at)'
    BY <1>0, <1>1, <2>1 DEF ReadSince
  <2>. QED  BY <1>0, <2>1, <2>2
<1>13. CASE RefusePress
  <2>1. /\ UNCHANGED <<slotPress, nextCommand, nextCommandOn, previousOn, taken, time, now>>
        /\ pc' = [pc EXCEPT !["loop"] = "restore"] /\ pc["loop"] = "slot"
        /\ DualCore \/ pc["bus"] = "idle"
    BY <1>13 DEF RefusePress
  <2>. QED  BY <1>0, <2>1 DEF ReadSince
<1>14. CASE RestoreStamp
  <2>1. /\ UNCHANGED <<slotPress, nextCommand, taken, time>> /\ nextCommandOn' = previousOn
        /\ pc' = [pc EXCEPT !["loop"] = "idle"] /\ pc["loop"] = "restore"
        /\ now' = [now EXCEPT !["loop"] = 0]
        /\ DualCore \/ pc["bus"] = "idle"
    BY <1>14 DEF RestoreStamp
  <2>2. At("bus", "age") => ReadSince(nextCommandOn, taken.at)'
    BY <1>0, <1>1, <2>1 DEF ReadSince
  <2>. QED  BY <1>0, <2>1, <2>2
<1>15. CASE HandOverTarget
  BY <1>15 DEF HandOverTarget, NoTargetInv
\* Everything else a call does leaves the slot and its stamp, or empties the slot.
<1>16. ASSUME UNCHANGED <<slotPress, nextCommand>> \/ EmptySlot,
              UNCHANGED <<nextCommandOn, taken, time>>, pc'["bus"] = pc["bus"],
              now'["bus"] = now["bus"], now'["loop"] \in {now["loop"], time, 0},
              DualCore \/ pc["bus"] = "idle",
              pc'["loop"] \notin Pressing, pc["loop"] \notin Stamped
       PROVE  AgeInv'
  <2>1. At("bus", "age") => ReadSince(nextCommandOn, taken.at)'
    BY <1>0, <1>1, <1>16 DEF ReadSince
  <2>. QED  BY <1>0, <1>16, <2>1 DEF EmptySlot
<1>17. CASE AskToCancelWatch("loop")
  BY <1>0, <1>16, <1>17 DEF AskToCancelWatch
<1>18. CASE JudgeSilence \/ SetInvalid \/ SetSilent
  BY <1>0, <1>16, <1>18 DEF JudgeSilence, SetInvalid, SetSilent
<1>19. CASE DropQueued
  BY <1>0, <1>16, <1>19 DEF DropQueued
<1>20. CASE RequestPause \/ EndPause
  BY <1>0, <1>16, <1>20 DEF RequestPause, EndPause
<1>. QED
  BY <1>2, <1>4, <1>5, <1>6, <1>7, <1>9, <1>10, <1>11, <1>12, <1>13, <1>14, <1>15, <1>17,
     <1>18, <1>19, <1>20, Zenon
  DEF LoopCalls, LoopContinues

\* A press is dropped as stale if it waited longer than CmdStale, however often
\* somebody tapped in the meantime, and only then, but for readings of the clock that
\* cross: the stamp goes in before the slot, a poll reads the slot before the stamp,
\* and a refused tap puts back the stamp it found (setCommand, hcp2_codec.cpp:805-833,
\* and :308-316). Partway runs are left out: the bus task's own stop may then find its
\* stamp overwritten by a refused tap.
THEOREM StaleByItsOwnAge ==
    ASSUME Targets = {}, MaxTime < ClockMod
    PROVE  Spec => ExpiresByItsOwnAge
<1>1. Init => NoTargetInv /\ AgeInv
  BY ClockAssumption
  DEF Init, NoTargetInv, AgeInv, PressWaits, Pressing, Stamped, Task, At, NoCall, NoPress
<1>2. TypeOK /\ NoTargetInv /\ AgeInv /\ [Next]_vars => AgeInv'
  <2>. SUFFICES ASSUME TypeOK, NoTargetInv, AgeInv, [Next]_vars PROVE AgeInv'  OBVIOUS
  <2>1. CASE UNCHANGED vars
    BY <2>1
    DEF AgeInv, ReadSince, At, PressWaits, vars, sharedVars, slotVars, busVars, pollVars,
        loopVars, callVars, clockVars
  <2>. QED  BY <2>1, AgeOfBus, AgeOfLoop DEF Next
<1>3. ASSUME TypeOK, AgeInv, CheckAge
      PROVE  IF pc'["bus"] = "stale"
             THEN \/ time - taken.at > CmdStale
                  \/ DualCore /\ Since(time, nextCommandOn) < time - now["bus"]
             ELSE \/ now["bus"] - taken.at <= CmdStale
                  \/ pc["loop"] \in {"slot", "restore", "stopSlot"} \/ slotPress # taken
  <2>0. /\ time \in Nat /\ now["bus"] \in Nat /\ taken.at \in Nat /\ CmdStale \in Nat
        /\ time <= MaxTime /\ now["bus"] <= time /\ MaxTime \in Nat /\ ClockMod \in Nat
        /\ pc \in [Task -> BusLabel \cup LoopLabel] /\ "bus" \in Task
    BY <1>3, ClockAssumption DEF TypeOK, Task, PressInfo, AgeInv
  <2>1. At("bus", "age") /\ (pc'["bus"] = "stale" <=> Stale)
    BY <1>3, <2>0 DEF CheckAge, At, Goto
  <2>2. PICK s \in Nat : /\ nextCommandOn = Millis(s) /\ taken.at <= s /\ s <= time
                         /\ DualCore \/ s <= now["bus"]
    BY <1>3, <2>1 DEF AgeInv, ReadSince
  <2>3. CASE Stale
    <3>1. CASE s <= now["bus"]
      <4>1. Since(now["bus"], nextCommandOn) = now["bus"] - s
        BY <2>0, <2>2, <3>1, SinceIsElapsed DEF Since
      <4>. QED  BY <2>0, <2>1, <2>2, <2>3, <3>1, <4>1 DEF Stale
    <3>2. CASE s > now["bus"]
      <4>1. Since(time, nextCommandOn) = time - s
        BY <2>0, <2>2, SinceIsElapsed DEF Since
      <4>. QED  BY <2>0, <2>1, <2>2, <2>3, <3>2, <4>1
    <3>. QED  BY <2>0, <3>1, <3>2
  <2>4. CASE ~Stale
    <3>. SUFFICES ASSUME pc["loop"] \notin {"slot", "restore", "stopSlot"}, slotPress = taken
                  PROVE  now["bus"] - taken.at <= CmdStale
      BY <2>1, <2>4
    <3>1. PressWaits /\ nextCommandOn = Millis(taken.at)
      BY <1>3, <2>1 DEF AgeInv, NoPress, Stamped
    <3>2. CASE taken.at <= now["bus"]
      <4>1. Since(now["bus"], nextCommandOn) = now["bus"] - taken.at
        BY <2>0, <3>1, <3>2, SinceIsElapsed DEF Since
      <4>. QED  BY <2>0, <2>4, <4>1 DEF Stale
    <3>3. CASE taken.at > now["bus"]
      BY <2>0, <3>3
    <3>. QED  BY <2>0, <3>2, <3>3
  <2>. QED  BY <2>3, <2>4
<1>. QED
  BY <1>1, <1>2, <1>3, TypeInit, TypeStep, NoTargetStep, PTL DEF Spec, ExpiresByItsOwnAge

===============================================================================
