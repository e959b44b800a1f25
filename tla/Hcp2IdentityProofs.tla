-------------------------- MODULE Hcp2IdentityProofs --------------------------
(* Theorems about Hcp2Identity, for every choice of its constants.            *)
EXTENDS Hcp2Identity, HcpClockProofs, TLAPS

\* The codec as constructed has the types: the initialisers of its members.
LEMMA TypeInit == Init => TypeOK
<1>. SUFFICES ASSUME Init PROVE TypeOK  OBVIOUS
<1> USE ConstantsAssumption DEF Init
<1>1. /\ identityAttempts \in 0 .. MaxAttempts /\ identityAskedOn \in 0 .. ClockMod - 1
      /\ clock \in 0 .. ClockMod - 1 /\ owed \subseteq Payload
      /\ asks \in [Request -> Nat] /\ sinceAsk \in 0 .. Retry + 1
  OBVIOUS
<1>. QED  BY <1>1 DEF TypeOK, Request, Payload, Text

\* No step of the drive or of either task breaks them.
LEMMA TypeStep == TypeOK /\ [Next]_vars => TypeOK'
<1>. SUFFICES ASSUME TypeOK, [Next]_vars PROVE TypeOK'  OBVIOUS
<1> USE ConstantsAssumption
<1> USE DEF TypeOK, Request, Payload, Text, AnsweredBy, Other, vars, requestVars, halfVars,
            textVars, loopVars, busVars, askVars, BusIdle
<1>1. CASE UNCHANGED vars
  BY <1>1
<1>2. CASE FirstPoll
  <2>1. identityAskedOn' \in 0 .. ClockMod - 1 /\ identityAttempts' \in 0 .. MaxAttempts
    BY <1>2 DEF FirstPoll, ArmIdentityRequest
  <2>. QED  BY <1>2, <2>1 DEF FirstPoll, ArmIdentityRequest
<1>3. CASE GiveUp
  BY <1>3 DEF GiveUp
<1>4. CASE Ask
  <2>1. identityAttempts' \in 0 .. MaxAttempts
    BY <1>4 DEF Ask, AttemptsLeft
  <2>2. owed' \subseteq Payload
    BY <1>4 DEF Ask, PayloadsOf
  <2>. QED  BY <1>4, <2>1, <2>2 DEF Ask
\* What a transfer does to the drive's side.
<1>5. ASSUME NEW p \in Payload, NEW long \in BOOLEAN, Transferred(p, long)
      PROVE  owed' \subseteq Payload /\ acked' \subseteq Payload
  <2>1. acked' \subseteq Payload
    BY <1>5 DEF Transferred, Acknowledge
  <2>2. owed' \subseteq Payload
    BY <1>5 DEF Transferred
  <2>. QED  BY <2>1, <2>2
<1>6. ASSUME NEW long \in BOOLEAN, KeepFirstHalf(long)
      PROVE  TypeOK'
  <2>1. Transferred("first", long)
    BY <1>6 DEF KeepFirstHalf
  <2>2. owed' \subseteq Payload /\ acked' \subseteq Payload
    BY <1>5, <2>1
  <2>3. buf' \in [Payload -> {"empty", "padded", "whole"}]
    BY <1>6 DEF KeepFirstHalf, Store
  <2>. QED  BY <1>6, <2>2, <2>3 DEF KeepFirstHalf, Progress
<1>7. ASSUME NEW long \in BOOLEAN, NEW p \in Payload, Refuse(p, long)
      PROVE  TypeOK'
  <2>1. owed' \subseteq Payload /\ acked' \subseteq Payload
    BY <1>5, <1>7 DEF Refuse
  <2>. QED  BY <1>7, <2>1 DEF Refuse
<1>8. ASSUME NEW long \in BOOLEAN, NEW p \in Payload, KeepLast(p, long)
      PROVE  TypeOK'
  <2>1. owed' \subseteq Payload /\ acked' \subseteq Payload
    BY <1>5, <1>8 DEF KeepLast
  <2>2. buf' \in [Payload -> {"empty", "padded", "whole"}]
    BY <1>8 DEF KeepLast, Store
  <2>3. text' \in [Request -> Text] /\ serialFirstHalfSeen' \in BOOLEAN
    BY <1>8 DEF KeepLast
  <2>. QED  BY <1>8, <2>1, <2>2, <2>3 DEF KeepLast
<1>9. CASE WriteText
  BY <1>9 DEF WriteText, TextOf
<1>10. CASE Announce
  <2>1. identityAskedOn' \in 0 .. ClockMod - 1 /\ identityAttempts' \in 0 .. MaxAttempts
    BY <1>10 DEF Announce, ArmIdentityRequest
  <2>2. ready' \in [Request -> BOOLEAN] /\ serialFirstHalfSeen' \in BOOLEAN
    BY <1>10 DEF Announce, ArmIdentityRequest
  <2>. QED  BY <1>10, <2>1, <2>2 DEF Announce, ArmIdentityRequest
<1>11. CASE TakeReady
  BY <1>11 DEF TakeReady
<1>12. CASE CopyBeginning
  BY <1>12 DEF CopyBeginning
<1>13. CASE CopyRest
  BY <1>13 DEF CopyRest
<1>14. ASSUME NEW p \in Payload, Lose(p)
       PROVE  TypeOK'
  BY <1>14 DEF Lose
<1>15. CASE Tick
  BY <1>15 DEF Tick
<1>. QED  BY <1>1, <1>2, <1>3, <1>4, <1>6, <1>7, <1>8, <1>9, <1>10, <1>11, <1>12, <1>13,
             <1>14, <1>15 DEF Next, Polls, Transfers, Publishes

\* Every variable keeps its type.
THEOREM TypeCorrect == Spec => []TypeOK
<1>. QED  BY TypeInit, TypeStep, PTL DEF Spec

-------------------------------------------------------------------------------
(* Attempts.                                                                  *)

\* The count of attempts is that of the open request; the request for the
\* firmware version has not been made while the serial number is still open, and
\* a value being written is the one that is open.
AskInv ==
    /\ ~identityStarted => identityWanted = "NONE" /\ asks["serial"] = 0
    /\ ~identityStarted \/ identityWanted = "serial" => asks["firmware"] = 0
    /\ identityWanted # "NONE" => asks[identityWanted] = identityAttempts
    /\ \A r \in Request : asks[r] <= MaxAttempts
    /\ bus # "idle" => identityWanted = AnsweredBy(payload)

\* The codec as constructed has asked for nothing.
LEMMA AskInit == Init => AskInv
BY ConstantsAssumption DEF Init, AskInv, Request

\* Only a request that is armed restarts the count, and each is armed once.
LEMMA AskStep == TypeOK /\ AskInv /\ [Next]_vars => AskInv'
<1>. SUFFICES ASSUME TypeOK, AskInv, [Next]_vars PROVE AskInv'  OBVIOUS
<1>0. /\ MaxAttempts \in Nat /\ identityAttempts \in 0 .. MaxAttempts
      /\ asks \in [Request -> Nat] /\ Request = {"serial", "firmware"}
      /\ payload \in {"first", "second", "firmware"}
      /\ identityWanted \in {"serial", "firmware", "NONE"}
  BY ConstantsAssumption DEF TypeOK, Request, Payload
<1> USE DEF AskInv, AnsweredBy, vars, requestVars, busVars, loopVars, askVars, BusIdle
<1>1. CASE UNCHANGED vars
  BY <1>1
<1>2. CASE FirstPoll
  BY <1>0, <1>2 DEF FirstPoll, ArmIdentityRequest
<1>3. CASE GiveUp
  BY <1>0, <1>3 DEF GiveUp
<1>4. CASE Ask
  BY <1>0, <1>4 DEF Ask, AttemptsLeft
<1>5. CASE Transfers
  <2>1. ASSUME NEW long \in BOOLEAN, KeepFirstHalf(long)
        PROVE  AskInv'
    BY <1>0, <2>1 DEF KeepFirstHalf, Progress
  <2>2. ASSUME NEW long \in BOOLEAN, NEW p \in Payload, Refuse(p, long)
        PROVE  AskInv'
    BY <1>0, <2>2 DEF Refuse
  <2>3. ASSUME NEW long \in BOOLEAN, NEW p \in Payload, KeepLast(p, long)
        PROVE  AskInv'
    BY <1>0, <2>3 DEF KeepLast, Kept
  <2>4. ASSUME NEW p \in Payload, Lose(p)
        PROVE  AskInv'
    BY <1>0, <2>4 DEF Lose
  <2>. QED  BY <1>5, <2>1, <2>2, <2>3, <2>4 DEF Transfers
<1>6. CASE WriteText
  BY <1>0, <1>6 DEF WriteText
<1>7. CASE Announce
  BY <1>0, <1>7 DEF Announce, ArmIdentityRequest
<1>8. CASE Publishes
  BY <1>0, <1>8 DEF Publishes, TakeReady, CopyBeginning, CopyRest
<1>9. CASE Tick
  BY <1>0, <1>9 DEF Tick
<1>. QED  BY <1>1, <1>2, <1>3, <1>4, <1>5, <1>6, <1>7, <1>8, <1>9 DEF Next, Polls

\* Whatever the drive transfers, each of its two values is asked for at most
\* MaxAttempts times (hcp2_codec.cpp:107-118; half an answer does not restart
\* the count, hcp2_codec.cpp:776-779).
THEOREM AsksAreBoundedAlways == Spec => []AsksAreBounded
<1>1. AskInv => AsksAreBounded
  BY DEF AskInv, AsksAreBounded
<1>. QED  BY <1>1, TypeInit, TypeStep, AskInit, AskStep, PTL DEF Spec

-------------------------------------------------------------------------------
(* The texts.                                                                 *)

\* A text is written while its request is open and no later: once it is complete
\* the request is closed for good, and the loop reads it only then. What it is
\* made of was kept at its full length.
WholeInv ==
    /\ ~identityStarted => identityWanted = "NONE" /\ \A r \in Request : text[r] = "empty"
    /\ identityWanted = "serial" => text["firmware"] = "empty"
    /\ bus = "idle" /\ identityWanted # "NONE" => text[identityWanted] = "empty"
    /\ bus # "idle" => identityWanted = AnsweredBy(payload) /\ payload # "first"
    /\ bus # "announce" /\ identityWanted # "NONE" => ~ready[identityWanted]
    /\ bus = "announce" => text[identityWanted] = "whole" /\ ~ready[identityWanted]
    /\ bus # "idle" => \A p \in PayloadsOf(identityWanted) : buf[p] = "whole"
    /\ serialFirstHalfSeen => buf["first"] = "whole"
    /\ \A r \in Request : ready[r] => text[r] = "whole"
    /\ loop # "take" => text[copied] = "whole"
    /\ loop = "rest" => heard = "whole"
    /\ \A r \in Request : shown[r] # "partial"

\* The codec as constructed has nothing to show.
LEMMA WholeInit == Init => WholeInv
BY DEF Init, WholeInv, Request

\* Neither a late, a short nor a repeated transfer reaches a text that is read.
LEMMA WholeStep == TypeOK /\ WholeInv /\ [Next]_vars => WholeInv'
<1>. SUFFICES ASSUME TypeOK, WholeInv, [Next]_vars PROVE WholeInv'  OBVIOUS
<1>0. /\ text \in [Request -> Text] /\ ready \in [Request -> BOOLEAN]
      /\ shown \in [Request -> Text] /\ buf \in [Payload -> {"empty", "padded", "whole"}]
      /\ copied \in Request /\ payload \in Payload
      /\ identityWanted \in {"serial", "firmware", "NONE"}
      /\ bus \in {"idle", "text", "announce"} /\ loop \in {"take", "copy", "rest"}
  BY DEF TypeOK, Request
<1> USE DEF WholeInv, AnsweredBy, PayloadsOf, Request, Payload, vars, requestVars, halfVars,
            textVars, loopVars, busVars, BusIdle
<1>1. CASE UNCHANGED vars
  BY <1>1
<1>2. CASE FirstPoll
  BY <1>0, <1>2 DEF FirstPoll, ArmIdentityRequest
<1>3. CASE GiveUp
  BY <1>0, <1>3 DEF GiveUp
<1>4. CASE Ask
  BY <1>0, <1>4 DEF Ask
<1>5. CASE Transfers
  <2>1. ASSUME NEW long \in BOOLEAN, KeepFirstHalf(long)
        PROVE  WholeInv'
    BY <1>0, <2>1 DEF KeepFirstHalf, Kept, Store
  <2>2. ASSUME NEW long \in BOOLEAN, NEW p \in Payload, Refuse(p, long)
        PROVE  WholeInv'
    BY <1>0, <2>2 DEF Refuse
  <2>3. ASSUME NEW long \in BOOLEAN, NEW p \in Payload, KeepLast(p, long)
        PROVE  WholeInv'
    <3>1. /\ bus = "idle" /\ bus' = "text" /\ payload' = p /\ p # "first"
          /\ identityWanted = AnsweredBy(p) /\ identityWanted' = identityWanted
          /\ identityStarted' = identityStarted /\ ready' = ready
          /\ UNCHANGED <<shown, heard, loop, copied>>
      BY <2>3 DEF KeepLast, Kept, Transferred
    <3>2. /\ text'[AnsweredBy(p)] = "partial"
          /\ \A r \in Request : r # AnsweredBy(p) => text'[r] = text[r]
      BY <1>0, <2>3 DEF KeepLast
    <3>3. /\ buf'[p] = "whole" /\ \A q \in Payload : q # p => buf'[q] = buf[q]
          /\ p = "second" => buf'["first"] = "whole"
          /\ serialFirstHalfSeen' => serialFirstHalfSeen
      BY <1>0, <2>3 DEF KeepLast, Kept, Store
    <3>4. copied = AnsweredBy(p) => loop = "take"
      BY <1>0, <3>1
    <3>. QED  BY <1>0, <3>1, <3>2, <3>3, <3>4
  <2>4. ASSUME NEW p \in Payload, Lose(p)
        PROVE  WholeInv'
    BY <1>0, <2>4 DEF Lose
  <2>. QED  BY <1>5, <2>1, <2>2, <2>3, <2>4 DEF Transfers
<1>6. CASE WriteText
  BY <1>0, <1>6 DEF WriteText, TextOf
<1>7. CASE Announce
  BY <1>0, <1>7 DEF Announce, ArmIdentityRequest
<1>8. CASE TakeReady
  BY <1>0, <1>8 DEF TakeReady, Other
<1>9. CASE CopyBeginning
  BY <1>0, <1>9 DEF CopyBeginning
<1>10. CASE CopyRest
  BY <1>0, <1>10 DEF CopyRest, Other
<1>11. CASE Tick
  BY <1>0, <1>11 DEF Tick
<1>. QED  BY <1>1, <1>2, <1>3, <1>4, <1>5, <1>6, <1>7, <1>8, <1>9, <1>10, <1>11
          DEF Next, Polls, Publishes

\* The sensors never show a value of which a half is missing, short or being
\* rewritten, although the two tasks share the text without a lock: it is written
\* before its flag and never again (hcp2_codec.cpp:749-793).
THEOREM ShownIsWholeAlways == Spec => []ShownIsWhole
<1>1. WholeInv => ShownIsWhole
  BY DEF WholeInv, ShownIsWhole
<1>. QED  BY <1>1, TypeInit, TypeStep, WholeInit, WholeStep, PTL DEF Spec

-------------------------------------------------------------------------------
(* Acknowledgements.                                                          *)

\* A payload the drive was told had landed is there in full, and nothing that
\* comes later writes over it with less: only a full payload is ever stored.
LEMMA AckedStep == TypeOK /\ AckedIsKept /\ [Next]_vars => AckedIsKept'
<1>. SUFFICES ASSUME TypeOK, AckedIsKept, [Next]_vars PROVE AckedIsKept'  OBVIOUS
<1>0. /\ buf \in [Payload -> {"empty", "padded", "whole"}]
      /\ "first" \in Payload /\ acked \subseteq Payload
  BY DEF TypeOK, Payload
<1> USE DEF AckedIsKept, vars, halfVars
<1>1. CASE UNCHANGED vars \/ Polls \/ WriteText \/ Announce \/ Publishes \/ Tick
  <2>1. UNCHANGED <<buf, acked>>
    BY <1>1
    DEF Polls, FirstPoll, GiveUp, Ask, WriteText, Announce, Publishes, TakeReady, CopyBeginning,
        CopyRest, Tick
  <2>. QED  BY <2>1
\* A payload that is kept is stored in full before it is acknowledged.
<1>2. ASSUME NEW p \in Payload, NEW long \in BOOLEAN, Kept(p, long), Acknowledge(p, long),
             Store(p, long)
      PROVE  AckedIsKept'
  BY <1>0, <1>2 DEF Kept, Acknowledge, Store
<1>3. ASSUME NEW long \in BOOLEAN, KeepFirstHalf(long)
      PROVE  AckedIsKept'
  BY <1>0, <1>2, <1>3 DEF KeepFirstHalf, Transferred
<1>4. ASSUME NEW long \in BOOLEAN, NEW p \in Payload, Refuse(p, long)
      PROVE  AckedIsKept'
  BY <1>4 DEF Refuse, Transferred, Acknowledge
<1>5. ASSUME NEW long \in BOOLEAN, NEW p \in Payload, KeepLast(p, long)
      PROVE  AckedIsKept'
  BY <1>2, <1>5 DEF KeepLast, Transferred
<1>6. ASSUME NEW p \in Payload, Lose(p)
      PROVE  AckedIsKept'
  BY <1>6 DEF Lose
<1>. QED  BY <1>1, <1>3, <1>4, <1>5, <1>6 DEF Next, Transfers

\* However the drive resends, shortens or reorders its transfers, it is told that a
\* payload landed only when it did, and what it was told stays true
\* (onIdentityData, hcp2_codec.cpp:750-795, whose result decides the
\* acknowledgement).
THEOREM AckedIsKeptAlways == Spec => []AckedIsKept
<1>1. Init => AckedIsKept
  BY DEF Init, AckedIsKept
<1>. QED  BY <1>1, TypeInit, TypeStep, AckedStep, PTL DEF Spec

-------------------------------------------------------------------------------
(* The retry interval.                                                        *)

\* How long ago the bus task thinks it asked: an unsigned difference.
Elapsed == (clock - identityAskedOn) % ClockMod

\* A request made before is marked as made, and is thought no older than it is.
SpacedInv ==
    identityWanted # "NONE" /\ asks[identityWanted] > 0 =>
        identityAsked /\ (sinceAsk <= Retry => Elapsed <= sinceAsk)

\* A tick makes an unsigned difference one larger, or starts it again at 0.
LEMMA TickElapses ==
    ASSUME NEW M \in Nat \ {0}, NEW c \in 0 .. M - 1, NEW a \in 0 .. M - 1
    PROVE  (((c + 1) % M) - a) % M \in {((c - a) % M) + 1, 0}
<1>1. (c + 1) % M = IF c + 1 < M THEN c + 1 ELSE 0
  <2>1. CASE c + 1 < M
    BY <2>1, WithinARound
  <2>2. CASE c + 1 >= M
    <3>1. c + 1 = M        BY <2>2
    <3>2. M % M = 0        OBVIOUS
    <3>. QED  BY <3>1, <3>2
  <2>. QED  BY <2>1, <2>2
<1>2. CASE c >= a /\ c + 1 < M
  <2>1. c - a \in Nat /\ c - a < M /\ (c + 1) - a \in Nat /\ (c + 1) - a < M
    BY <1>2
  <2>2. (c - a) % M = c - a
    BY <2>1, WithinARound
  <2>3. ((c + 1) - a) % M = (c + 1) - a
    BY <2>1, WithinARound
  <2>. QED  BY <1>1, <1>2, <2>2, <2>3
<1>3. CASE c < a /\ c + 1 < M
  <2>1. /\ (c - a) + M \in Nat /\ (c - a) + M < M
        /\ c - a = ((c - a) + M) - M
    BY <1>3
  <2>2. (c - a) % M = (c - a) + M
    BY <2>1, WithinARound
  <2>3. CASE c + 1 = a
    <3>1. (c + 1) - a = 0 /\ 0 % M = 0
      BY <2>3, WithinARound
    <3>. QED  BY <1>1, <1>3, <3>1
  <2>4. CASE c + 1 < a
    <3>1. /\ ((c + 1) - a) + M \in Nat /\ ((c + 1) - a) + M < M
          /\ (c + 1) - a = (((c + 1) - a) + M) - M
      BY <2>4
    <3>2. ((c + 1) - a) % M = ((c + 1) - a) + M
      BY <3>1, WithinARound
    <3>. QED  BY <1>1, <1>3, <2>2, <3>2
  <2>. QED  BY <1>3, <2>3, <2>4
<1>4. CASE c + 1 >= M
  <2>1. c = M - 1 /\ (c + 1) % M = 0
    BY <1>1, <1>4
  <2>2. c - a \in Nat /\ c - a < M
    BY <2>1
  <2>3. (c - a) % M = c - a
    BY <2>2, WithinARound
  <2>4. CASE a = 0
    <3>1. 0 % M = 0
      BY WithinARound
    <3>. QED  BY <2>1, <2>4, <3>1
  <2>5. CASE a > 0
    <3>1. M - a \in Nat /\ M - a < M /\ 0 - a = (M - a) - M
      BY <2>5
    <3>2. (0 - a) % M = M - a
      BY <3>1, WithinARound
    <3>. QED  BY <2>1, <2>3, <3>2
  <2>. QED  BY <2>4, <2>5
<1>. QED  BY <1>2, <1>3, <1>4

\* Neither a retry, half an answer nor a clock that wraps makes an ask look older
\* than it is.
LEMMA SpacedStep == TypeOK /\ AskInv /\ SpacedInv /\ [Next]_vars => SpacedInv'
<1>. SUFFICES ASSUME TypeOK, AskInv, SpacedInv, [Next]_vars PROVE SpacedInv'  OBVIOUS
<1>0. /\ asks \in [Request -> Nat] /\ Request = {"serial", "firmware"}
      /\ identityWanted \in {"serial", "firmware", "NONE"}
      /\ clock \in 0 .. ClockMod - 1 /\ identityAskedOn \in 0 .. ClockMod - 1
      /\ ClockMod \in Nat \ {0} /\ Retry \in Nat /\ sinceAsk \in Nat
  BY ConstantsAssumption DEF TypeOK, Request
<1>1. \A c \in 0 .. ClockMod - 1 : (c - c) % ClockMod = 0
  BY <1>0, WithinARound
<1> USE DEF SpacedInv, vars, requestVars, halfVars, busVars, loopVars, askVars
<1>2. CASE UNCHANGED vars
  BY <1>2 DEF Elapsed
<1>3. CASE FirstPoll
  BY <1>0, <1>3 DEF FirstPoll, ArmIdentityRequest, AskInv
<1>4. CASE GiveUp
  BY <1>4 DEF GiveUp
<1>5. CASE Ask
  <2>1. identityAsked' = TRUE /\ clock' = clock /\ identityAskedOn' = clock /\ sinceAsk' = 0
    BY <1>5 DEF Ask
  <2>2. Elapsed' = 0
    BY <1>0, <1>1, <2>1 DEF Elapsed
  <2>. QED  BY <2>1, <2>2
<1>6. ASSUME NEW long \in BOOLEAN, KeepFirstHalf(long)
      PROVE  SpacedInv'
  <2>1. /\ identityAsked' = TRUE /\ clock' = clock /\ identityAskedOn' = clock
        /\ UNCHANGED <<identityWanted, asks, sinceAsk>>
    BY <1>6 DEF KeepFirstHalf, Progress
  <2>2. Elapsed' = 0
    BY <1>0, <1>1, <2>1 DEF Elapsed
  <2>. QED  BY <1>0, <2>1, <2>2
<1>7. ASSUME NEW long \in BOOLEAN, NEW p \in Payload, Refuse(p, long) \/ KeepLast(p, long)
      PROVE  SpacedInv'
  BY <1>7 DEF Refuse, KeepLast, Elapsed
<1>8. ASSUME NEW p \in Payload, Lose(p)
      PROVE  SpacedInv'
  BY <1>8 DEF Lose, Elapsed
<1>9. CASE WriteText
  BY <1>9 DEF WriteText, Elapsed
<1>10. CASE Announce
  <2>1. CASE payload = "firmware"
    BY <1>10, <2>1 DEF Announce
  <2>2. CASE payload # "firmware"
    <3>1. identityWanted = "serial"
      BY <1>10, <2>2 DEF Announce, AskInv, AnsweredBy
    <3>2. asks["firmware"] = 0
      BY <3>1 DEF AskInv
    <3>. QED  BY <1>10, <2>2, <3>2 DEF Announce, ArmIdentityRequest
  <2>. QED  BY <2>1, <2>2
<1>11. CASE Publishes
  BY <1>11 DEF Publishes, TakeReady, CopyBeginning, CopyRest, Elapsed
<1>12. CASE Tick
  <2>1. /\ UNCHANGED <<identityWanted, asks, identityAsked, identityAskedOn>>
        /\ clock' = (clock + 1) % ClockMod
        /\ sinceAsk' = IF sinceAsk > Retry THEN sinceAsk ELSE sinceAsk + 1
    BY <1>12 DEF Tick
  <2>2. Elapsed' \in {Elapsed + 1, 0}
    BY <1>0, <2>1, TickElapses DEF Elapsed
  <2>3. Elapsed \in Int
    BY <1>0 DEF Elapsed
  <2>. QED  BY <1>0, <2>1, <2>2, <2>3
<1>. QED
  BY <1>2, <1>3, <1>4, <1>5, <1>6, <1>7, <1>8, <1>9, <1>10, <1>11, <1>12
  DEF Next, Polls, Transfers

\* The same request is not made again before the retry interval is over, wherever
\* the clock wraps and at whatever reading the request was made, 0 included
\* (onRequestHook, hcp2_codec.cpp:99-120).
THEOREM AsksAreSpacedAlways == Spec => AsksAreSpaced
<1>1. Init => SpacedInv
  BY DEF Init, SpacedInv
<1>2. TypeOK /\ SpacedInv /\ Ask /\ asks[identityWanted] > 0 => sinceAsk > Retry
  <2>. SUFFICES ASSUME TypeOK, SpacedInv, Ask, asks[identityWanted] > 0 PROVE sinceAsk > Retry
    OBVIOUS
  <2>1. Elapsed > Retry /\ (sinceAsk <= Retry => Elapsed <= sinceAsk)
    BY DEF Ask, Due, FirstTry, SpacedInv, Elapsed
  <2>2. Elapsed \in Int /\ Retry \in Nat /\ sinceAsk \in Nat
    BY ConstantsAssumption DEF TypeOK, Elapsed
  <2>. QED  BY <2>1, <2>2
<1>. QED
  BY <1>1, <1>2, TypeInit, TypeStep, AskInit, AskStep, SpacedStep, PTL DEF Spec, AsksAreSpaced

===============================================================================
