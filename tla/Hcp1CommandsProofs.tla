-------------------------- MODULE Hcp1CommandsProofs --------------------------
(* Theorems about Hcp1Commands, for every choice of its constants.            *)
EXTENDS Hcp1Commands, HcpClockProofs, TLAPS

\* A reading of the clock is an unsigned number below ClockMod, and so is the 1
\* that stands for the reading 0 in lastFrameAt.
LEMMA MillisType ==
    ASSUME NEW t \in Nat
    PROVE  /\ Millis(t) \in 0 .. ClockMod - 1
           /\ 1 \in 0 .. ClockMod - 1 /\ 0 \in 0 .. ClockMod - 1
BY ClockAssumption DEF Millis

\* The codec as constructed has the types: the initialisers of its members.
LEMMA TypeInit == Init => TypeOK
<1>. SUFFICES ASSUME Init PROVE TypeOK  OBVIOUS
<1>1. 0 \in 0 .. ClockMod - 1
  BY ClockAssumption
<1>. QED  BY <1>1 DEF Init, TypeOK, Task, At, BusLabel, LoopLabel, Link, DoorState

\* No step of either task breaks them.
LEMMA TypeStep == TypeOK /\ [Next]_vars => TypeOK'
<1>. SUFFICES ASSUME TypeOK, [Next]_vars PROVE TypeOK'  OBVIOUS
<1> USE ClockAssumption, MillisType, PressesAssumption
<1> USE DEF TypeOK, Task, Press, Command, Link, DoorState, BusLabel, LoopLabel, At, Goto, LoopAt,
            MayRun, vars, slotVars, linkVars, pollVars
<1>1. CASE UNCHANGED vars
  BY <1>1
<1>2. CASE IgnoredFrame
  BY <1>2 DEF IgnoredFrame, SignOfLife
<1>3. CASE FrameArrives
  BY <1>3 DEF FrameArrives, SignOfLife
<1>4. CASE Scan
  BY <1>4 DEF Scan, Returns
<1>5. CASE NotAddressed
  BY <1>5 DEF NotAddressed, Returns
<1>6. CASE StatusRequest
  BY <1>6 DEF StatusRequest
<1>7. CASE Register
  BY <1>7 DEF Register
<1>8. CASE NothingPending
  BY <1>8 DEF NothingPending, Returns
<1>9. CASE TakePending
  BY <1>9 DEF TakePending
<1>10. CASE CheckAge
  BY <1>10 DEF CheckAge, Resolved
<1>11. CASE ClearPending
  BY <1>11 DEF ClearPending, Returns
<1>12. CASE SetValid
  BY <1>12 DEF SetValid, Returns
<1>13. CASE \E bits \in Broadcasts : ApplyBroadcast(bits)
  BY <1>13 DEF ApplyBroadcast, DoorOf
<1>14. CASE \E c \in Presses : Submit(c)
  BY <1>14 DEF Submit
<1>15. CASE StampPress
  BY <1>15 DEF StampPress
<1>16. CASE QueuePress
  BY <1>16 DEF QueuePress, Returns
<1>17. CASE CheckBusSilence
  BY <1>17 DEF CheckBusSilence
<1>18. CASE JudgeSilence
  BY <1>18 DEF JudgeSilence, Returns
<1>19. CASE SetInvalid
  <2>1. valid' \in BOOLEAN
    BY <1>19 DEF SetInvalid
  <2>. QED  BY <2>1, <1>19 DEF SetInvalid
<1>20. CASE SetSilent
  BY <1>20 DEF SetSilent
<1>21. CASE DropPending
  BY <1>21 DEF DropPending
<1>22. CASE ForgetAddress
  <2>1. addressed' \in BOOLEAN
    BY <1>22 DEF ForgetAddress
  <2>. QED  BY <2>1, <1>22 DEF ForgetAddress, Returns
<1>23. CASE Tick
  BY <1>23 DEF Tick
<1>. QED  BY <1>1, <1>2, <1>3, <1>4, <1>5, <1>6, <1>7, <1>8, <1>9, <1>10, <1>11, <1>12,
             <1>13, <1>14, <1>15, <1>16, <1>17, <1>18, <1>19, <1>20, <1>21, <1>22, <1>23
          DEF Next, BusAnswers, LoopRuns

\* Every variable keeps its type, and what a status request is answered with is
\* never a bare stop (hcp1_codec.cpp:143-148).
THEOREM TypeCorrect == Spec => []TypeOK
<1>. QED  BY TypeInit, TypeStep, PTL DEF Spec

-------------------------------------------------------------------------------
(* The address.                                                               *)

\* Only the loop forgets the address, and it is the loop that fills the slot: in
\* the call that forgets it, the slot has just been emptied and stays so.
AddressInv ==
    /\ pending # "NONE" => addressed
    /\ pc["loop"] \in {"stamp", "slot"} => addressed
    /\ At("loop", "forget") => pending = "NONE"

\* The codec as constructed has an empty slot.
LEMMA AddressInit == Init => AddressInv
BY DEF Init, AddressInv, At, Task

\* No step of either task leaves a press behind when the address goes.
LEMMA AddressStep == TypeOK /\ AddressInv /\ [Next]_vars => AddressInv'
<1>. SUFFICES ASSUME TypeOK, AddressInv, [Next]_vars PROVE AddressInv'  OBVIOUS
<1>0. pc \in [Task -> BusLabel \cup LoopLabel] /\ "bus" \in Task /\ "loop" \in Task
  BY DEF TypeOK, Task
<1> USE DEF AddressInv, At, Goto, LoopAt, vars, slotVars, linkVars, pollVars
<1>1. CASE UNCHANGED vars
  BY <1>1
<1>2. CASE IgnoredFrame
  BY <1>0, <1>2 DEF IgnoredFrame, SignOfLife
<1>3. CASE FrameArrives
  BY <1>0, <1>3 DEF FrameArrives, SignOfLife
<1>4. CASE Scan
  BY <1>0, <1>4 DEF Scan, Returns
<1>5. CASE NotAddressed
  BY <1>0, <1>5 DEF NotAddressed, Returns
<1>6. CASE StatusRequest
  BY <1>0, <1>6 DEF StatusRequest
<1>7. CASE Register
  BY <1>0, <1>7 DEF Register
<1>8. CASE NothingPending
  BY <1>0, <1>8 DEF NothingPending, Returns
<1>9. CASE TakePending
  BY <1>0, <1>9 DEF TakePending
<1>10. CASE CheckAge
  BY <1>0, <1>10 DEF CheckAge, Resolved
<1>11. CASE ClearPending
  BY <1>0, <1>11 DEF ClearPending, Returns
<1>12. CASE SetValid
  BY <1>0, <1>12 DEF SetValid, Returns
<1>13. CASE \E bits \in Broadcasts : ApplyBroadcast(bits)
  BY <1>0, <1>13 DEF ApplyBroadcast, DoorOf
<1>14. CASE \E c \in Presses : Submit(c)
  BY <1>0, <1>14 DEF Submit
<1>15. CASE StampPress
  BY <1>0, <1>15 DEF StampPress
<1>16. CASE QueuePress
  BY <1>0, <1>16 DEF QueuePress, Returns
<1>17. CASE CheckBusSilence
  BY <1>0, <1>17 DEF CheckBusSilence
<1>18. CASE JudgeSilence
  BY <1>0, <1>18 DEF JudgeSilence, Returns
<1>19. CASE SetInvalid
  BY <1>0, <1>19 DEF SetInvalid
<1>20. CASE SetSilent
  BY <1>0, <1>20 DEF SetSilent
<1>21. CASE DropPending
  BY <1>0, <1>21 DEF DropPending
<1>22. CASE ForgetAddress
  BY <1>0, <1>22 DEF ForgetAddress, Returns
<1>23. CASE Tick
  BY <1>0, <1>23 DEF Tick
<1>. QED  BY <1>1, <1>2, <1>3, <1>4, <1>5, <1>6, <1>7, <1>8, <1>9, <1>10, <1>11, <1>12,
             <1>13, <1>14, <1>15, <1>16, <1>17, <1>18, <1>19, <1>20, <1>21, <1>22, <1>23
          DEF Next, BusAnswers, LoopRuns

\* Whenever the bus dies and whatever either task is doing then, no press waits
\* for the drive to scan again (hcp1_codec.cpp:63-74 and 32-45).
THEOREM NothingWaitsUnaddressedAlways == Spec => []NothingWaitsUnaddressed
<1>1. AddressInv => NothingWaitsUnaddressed
  BY DEF AddressInv, NothingWaitsUnaddressed
<1>. QED  BY <1>1, TypeInit, TypeStep, AddressInit, AddressStep, PTL DEF Spec

-------------------------------------------------------------------------------
(* The slot.                                                                  *)

\* Neither the press in the slot nor the one a poll took has been sent, and the
\* next press has a number of its own.
SentInv ==
    /\ \A id \in sentIds : id <= accepted
    /\ taken <= accepted /\ slotPress <= accepted
    /\ pending # "NONE" => slotPress \notin sentIds
    /\ pc["bus"] \in {"age", "clear"} => taken \notin sentIds

\* The codec as constructed has sent nothing.
LEMMA SentInit == Init => SentInv
BY DEF Init, SentInv, Task

\* A poll empties the slot with what it sends, so nothing sent comes back.
LEMMA SentStep == TypeOK /\ SentInv /\ [Next]_vars => SentInv'
<1>. SUFFICES ASSUME TypeOK, SentInv, [Next]_vars PROVE SentInv'  OBVIOUS
<1>0. /\ pc \in [Task -> BusLabel \cup LoopLabel] /\ "bus" \in Task /\ "loop" \in Task
      /\ accepted \in Nat /\ slotPress \in Nat /\ taken \in Nat /\ sentIds \subseteq Nat
  BY DEF TypeOK, Task
<1> USE DEF SentInv, At, Goto, LoopAt, vars, slotVars, linkVars, pollVars
<1>1. CASE UNCHANGED vars
  BY <1>1
<1>2. CASE IgnoredFrame
  BY <1>0, <1>2 DEF IgnoredFrame, SignOfLife
<1>3. CASE FrameArrives
  BY <1>0, <1>3 DEF FrameArrives, SignOfLife
<1>4. CASE Scan
  BY <1>0, <1>4 DEF Scan, Returns
<1>5. CASE NotAddressed
  BY <1>0, <1>5 DEF NotAddressed, Returns
<1>6. CASE StatusRequest
  BY <1>0, <1>6 DEF StatusRequest
<1>7. CASE Register
  BY <1>0, <1>7 DEF Register
<1>8. CASE NothingPending
  BY <1>0, <1>8 DEF NothingPending, Returns
<1>9. CASE TakePending
  BY <1>0, <1>9 DEF TakePending
<1>10. CASE CheckAge
  BY <1>0, <1>10 DEF CheckAge, Resolved
<1>11. CASE ClearPending
  BY <1>0, <1>11 DEF ClearPending, Returns
<1>12. CASE SetValid
  BY <1>0, <1>12 DEF SetValid, Returns
<1>13. CASE \E bits \in Broadcasts : ApplyBroadcast(bits)
  BY <1>0, <1>13 DEF ApplyBroadcast, DoorOf
<1>14. CASE \E c \in Presses : Submit(c)
  BY <1>0, <1>14 DEF Submit
<1>15. CASE StampPress
  BY <1>0, <1>15 DEF StampPress
<1>16. CASE QueuePress
  BY <1>0, <1>16 DEF QueuePress, Returns
<1>17. CASE CheckBusSilence
  BY <1>0, <1>17 DEF CheckBusSilence
<1>18. CASE JudgeSilence
  BY <1>0, <1>18 DEF JudgeSilence, Returns
<1>19. CASE SetInvalid
  BY <1>0, <1>19 DEF SetInvalid
<1>20. CASE SetSilent
  BY <1>0, <1>20 DEF SetSilent
<1>21. CASE DropPending
  BY <1>0, <1>21 DEF DropPending
<1>22. CASE ForgetAddress
  BY <1>0, <1>22 DEF ForgetAddress, Returns
<1>23. CASE Tick
  BY <1>0, <1>23 DEF Tick
<1>. QED  BY <1>1, <1>2, <1>3, <1>4, <1>5, <1>6, <1>7, <1>8, <1>9, <1>10, <1>11, <1>12,
             <1>13, <1>14, <1>15, <1>16, <1>17, <1>18, <1>19, <1>20, <1>21, <1>22, <1>23
          DEF Next, BusAnswers, LoopRuns

\* No press goes out twice on a bus that cannot say whether it arrived, whichever
\* task touches the slot between the poll's accesses (hcp1_codec.cpp:129-163).
THEOREM NothingIsSentTwice == Spec => NothingSentTwice
<1>1. SentInv /\ [Next]_vars => [ClearPending /\ cmd # "NONE" => taken \notin sentIds]_vars
  BY DEF SentInv, ClearPending, At
<1>. QED  BY <1>1, TypeInit, TypeStep, SentInit, SentStep, PTL DEF Spec, NothingSentTwice

-------------------------------------------------------------------------------
(* The age of a press.                                                        *)

\* The time between two readings, however the clock wrapped between them.
LEMMA SinceIsElapsed ==
    ASSUME NEW s \in Nat, NEW t \in Nat, s <= t, t - s < ClockMod
    PROVE  Since(t, Millis(s)) = t - s
<1>1. ClockMod \in Nat \ {0} /\ ClockStart + s \in Nat /\ ClockStart + t \in Nat
  BY ClockAssumption
<1>2. ClockStart + s <= ClockStart + t /\ (ClockStart + t) - (ClockStart + s) = t - s
  BY ClockAssumption
<1>. QED  BY <1>1, <1>2, UnsignedDifference DEF Since, Millis

\* The stamp is a reading of the clock taken no earlier than a given time.
StampedSince(t) == \E s \in Nat : pendingAt = Millis(s) /\ t <= s /\ s <= time

\* The stamp is that of the press in the slot, but while the next press has its own
\* there already; whatever stamp a poll reads, it is no older than the press it took,
\* and it is that press's own if none was accepted since.
AgeInv ==
    /\ time <= MaxTime /\ now["loop"] <= time /\ now["bus"] <= time
    /\ At("loop", "slot") => pendingAt = Millis(now["loop"])
    /\ pending # "NONE" =>
          /\ slotPress = accepted /\ slotAt <= time
          /\ ~At("loop", "slot") => pendingAt = Millis(slotAt)
          /\ pc["loop"] \in {"stamp", "slot"} => slotAt <= now["loop"]
    /\ At("bus", "age") =>
          /\ taken <= accepted
          /\ StampedSince(takenAt)
          /\ ~At("loop", "slot") /\ taken = accepted => pendingAt = Millis(takenAt)
          /\ pc["loop"] \in {"stamp", "slot"} => takenAt <= now["loop"]

\* Neither a press that replaces another nor a poll that takes it in between parts a
\* press from its stamp.
LEMMA AgeStep == TypeOK /\ AgeInv /\ [Next]_vars => AgeInv'
<1>. SUFFICES ASSUME TypeOK, AgeInv, [Next]_vars PROVE AgeInv'  OBVIOUS
<1>0. /\ pc \in [Task -> BusLabel \cup LoopLabel] /\ now \in [Task -> Nat] /\ time \in Nat
      /\ "bus" \in Task /\ "loop" \in Task /\ now["bus"] \in Nat /\ now["loop"] \in Nat
      /\ accepted \in Nat /\ taken \in Nat /\ slotAt \in Nat /\ takenAt \in Nat
      /\ MaxTime \in Nat
  BY ClockAssumption DEF TypeOK, Task
<1> USE DEF AgeInv, At, Goto, LoopAt, Returns, vars, slotVars, linkVars, pollVars
<1>1. CASE UNCHANGED vars
  BY <1>1 DEF StampedSince
<1>2. CASE IgnoredFrame
  BY <1>0, <1>2 DEF IgnoredFrame, SignOfLife, StampedSince
<1>3. CASE FrameArrives
  BY <1>0, <1>3 DEF FrameArrives, SignOfLife
\* A step of the bus task to anywhere but the check of the age.
<1>4. ASSUME UNCHANGED <<pendingAt, time, accepted>>, pc'["loop"] = pc["loop"],
             now'["loop"] = now["loop"], now'["bus"] \in {now["bus"], 0}, pc'["bus"] # "age",
             UNCHANGED <<pending, slotPress, slotAt>> \/ pending' = "NONE"
      PROVE  AgeInv'
  BY <1>0, <1>4
<1>5. CASE \/ Scan \/ NotAddressed \/ StatusRequest \/ Register \/ NothingPending \/ SetValid
           \/ CheckAge \/ ClearPending
           \/ \E bits \in Broadcasts : ApplyBroadcast(bits)
  BY <1>0, <1>4, <1>5
  DEF Scan, NotAddressed, StatusRequest, Register, NothingPending, SetValid, CheckAge,
      ClearPending, ApplyBroadcast
<1>6. CASE TakePending
  <2>1. /\ UNCHANGED <<pendingAt, time, accepted, pending, slotPress, slotAt, now>>
        /\ pc'["loop"] = pc["loop"] /\ pending # "NONE"
        /\ taken' = slotPress /\ takenAt' = slotAt
    BY <1>0, <1>6 DEF TakePending
  <2>2. StampedSince(takenAt)'
    BY <1>0, <2>1 DEF StampedSince
  <2>. QED  BY <1>0, <2>1, <2>2
\* A step of the loop that leaves the stamp alone.
<1>7. ASSUME UNCHANGED <<pendingAt, time, accepted, taken, takenAt>>, pc'["bus"] = pc["bus"],
             now'["bus"] = now["bus"], pc["loop"] # "slot", pc'["loop"] # "slot",
             now'["loop"] \in {now["loop"], time, 0},
             pc'["loop"] = "stamp" => now'["loop"] = time,
             UNCHANGED <<pending, slotPress, slotAt>> \/ pending' = "NONE"
      PROVE  AgeInv'
  <2>1. At("bus", "age") => StampedSince(takenAt)' /\ takenAt <= time
    BY <1>0, <1>7 DEF StampedSince
  <2>. QED  BY <1>0, <1>7, <2>1
<1>8. CASE \E c \in Presses : Submit(c)
  BY <1>0, <1>7, <1>8 DEF Submit
<1>9. CASE \/ CheckBusSilence \/ JudgeSilence \/ SetInvalid \/ SetSilent \/ DropPending
           \/ ForgetAddress
  BY <1>0, <1>7, <1>9
  DEF CheckBusSilence, JudgeSilence, SetInvalid, SetSilent, DropPending, ForgetAddress
<1>10. CASE StampPress
  <2>1. /\ UNCHANGED <<time, accepted, taken, takenAt, pending, slotPress, slotAt, now>>
        /\ pendingAt' = Millis(now["loop"]) /\ pc["loop"] = "stamp"
        /\ pc' = [pc EXCEPT !["loop"] = "slot"]
    BY <1>10 DEF StampPress
  <2>2. At("bus", "age") => StampedSince(takenAt)'
    BY <1>0, <2>1 DEF StampedSince
  <2>. QED  BY <1>0, <2>1, <2>2
<1>11. CASE QueuePress
  <2>1. /\ UNCHANGED <<time, pendingAt, taken, takenAt>>
        /\ accepted' = accepted + 1 /\ slotPress' = accepted + 1 /\ slotAt' = now["loop"]
        /\ pc["loop"] = "slot" /\ pc' = [pc EXCEPT !["loop"] = "idle"]
        /\ now' = [now EXCEPT !["loop"] = 0]
    BY <1>11 DEF QueuePress
  <2>2. At("bus", "age") => StampedSince(takenAt)'
    BY <1>0, <2>1 DEF StampedSince
  <2>. QED  BY <1>0, <2>1, <2>2
<1>12. CASE Tick
  <2>1. /\ UNCHANGED <<pc, now, pendingAt, taken, takenAt, accepted, pending, slotPress, slotAt>>
        /\ time' = time + 1 /\ time' <= MaxTime
    BY <1>0, <1>12 DEF Tick
  <2>2. At("bus", "age") => StampedSince(takenAt)'
    BY <1>0, <2>1 DEF StampedSince
  <2>. QED  BY <1>0, <2>1, <2>2
<1>. QED
  BY <1>1, <1>2, <1>3, <1>5, <1>6, <1>8, <1>9, <1>10, <1>11, <1>12, Zenon
  DEF Next, BusAnswers, LoopRuns

\* A press is dropped as stale if it waited longer than CmdStale and only then, but
\* for one that replaces it between the poll's two reads and for a stamp of a moment
\* after the frame came in, whose unsigned age is huge (submit and the status request,
\* hcp1_codec.cpp:30-45, :129-163).
THEOREM StaleByItsOwnAge ==
    ASSUME MaxTime < ClockMod
    PROVE  Spec => ExpiresByItsOwnAge
<1>1. Init => AgeInv
  BY ClockAssumption DEF Init, AgeInv, At, Task
<1>2. ASSUME TypeOK, AgeInv, CheckAge
      PROVE  IF Stale
             THEN \/ time - takenAt > CmdStale
                  \/ Since(time, pendingAt) < time - now["bus"]
             ELSE \/ now["bus"] - takenAt <= CmdStale
                  \/ At("loop", "slot") \/ accepted > taken
  <2>0. /\ time \in Nat /\ now["bus"] \in Nat /\ takenAt \in Nat /\ CmdStale \in Nat
        /\ accepted \in Nat /\ taken \in Nat /\ taken <= accepted
        /\ time <= MaxTime /\ now["bus"] <= time /\ MaxTime \in Nat /\ ClockMod \in Nat
        /\ At("bus", "age")
    BY <1>2, ClockAssumption DEF TypeOK, Task, AgeInv, CheckAge
  <2>1. CASE Stale
    <3>1. PICK s \in Nat : pendingAt = Millis(s) /\ takenAt <= s /\ s <= time
      BY <1>2, <2>0 DEF AgeInv, StampedSince
    <3>2. CASE s <= now["bus"]
      <4>1. Since(now["bus"], pendingAt) = now["bus"] - s
        BY <2>0, <3>1, <3>2, SinceIsElapsed
      <4>. QED  BY <2>0, <2>1, <3>1, <3>2, <4>1 DEF Stale
    <3>3. CASE s > now["bus"]
      <4>1. Since(time, pendingAt) = time - s
        BY <2>0, <3>1, SinceIsElapsed
      <4>. QED  BY <2>0, <2>1, <3>1, <3>3, <4>1
    <3>. QED  BY <2>0, <3>1, <3>2, <3>3
  <2>2. CASE ~Stale
    <3>. SUFFICES ASSUME ~At("loop", "slot"), taken = accepted
                  PROVE  now["bus"] - takenAt <= CmdStale
      BY <2>0, <2>2
    <3>1. pendingAt = Millis(takenAt)
      BY <1>2, <2>0 DEF AgeInv
    <3>2. CASE takenAt <= now["bus"]
      <4>1. Since(now["bus"], pendingAt) = now["bus"] - takenAt
        BY <2>0, <3>1, <3>2, SinceIsElapsed
      <4>. QED  BY <2>0, <2>2, <4>1 DEF Stale
    <3>3. CASE takenAt > now["bus"]
      BY <2>0, <3>3
    <3>. QED  BY <2>0, <3>2, <3>3
  <2>. QED  BY <2>1, <2>2
<1>. QED  BY <1>1, <1>2, TypeInit, TypeStep, AgeStep, PTL DEF Spec, ExpiresByItsOwnAge

===============================================================================
