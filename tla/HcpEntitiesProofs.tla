--------------------------- MODULE HcpEntitiesProofs ---------------------------
(* Theorems about HcpEntities, for whatever the drive may report.             *)
EXTENDS HcpEntities, TLAPS

\* The types hold before anything was heard.
LEMMA TypeInit == Init => TypeOK
<1>. SUFFICES ASSUME Init PROVE TypeOK  OBVIOUS
<1>1. cover \in [operation : CoverOperation, position : Nat] /\ sensor \subseteq Nat
  BY DEF Init, CoverOperation
<1>2. /\ valid \in BOOLEAN /\ changed \in BOOLEAN /\ published \in BOOLEAN /\ warning \in BOOLEAN
      /\ lightOn \in BOOLEAN /\ sawDrive \in BOOLEAN /\ lamp \in BOOLEAN
      /\ writePending \in BOOLEAN /\ slipped \in BOOLEAN
  BY DEF Init
<1>. QED  BY <1>1, <1>2 DEF Init, TypeOK, DoorState, Link, CoverOperation

\* No setter and no entity breaks them.
LEMMA TypeStep == TypeOK /\ [Next]_vars => TypeOK'
<1>. SUFFICES ASSUME TypeOK, [Next]_vars PROVE TypeOK'  OBVIOUS
<1> USE ReportAssumption
<1> USE DEF TypeOK, Link, CoverOperation, vars, stateVars, coverVars, lightVars, textVars,
             othersVars, memberVars, shownVars
<1>1. CASE UNCHANGED vars
  BY <1>1
<1>2. CASE \E d \in Doors : SetState(d)
  BY <1>2 DEF SetState, BusSets
<1>3. CASE \E p \in Positions : SetCurrentPosition(p)
  BY <1>3 DEF SetCurrentPosition, BusSets
<1>4. CASE SetValid
  BY <1>4 DEF SetValid, BusSets
<1>5. CASE \E l \in BusLinks : SetLink(l)
  BY <1>5 DEF SetLink, BusSets
<1>6. CASE RaiseFlag
  BY <1>6 DEF RaiseFlag
<1>7. CASE StillHeard
  BY <1>7 DEF StillHeard
<1>8. CASE FallenSilent
  <2>1. valid' \in BOOLEAN
    BY <1>8 DEF FallenSilent
  <2>. QED  BY <2>1, <1>8 DEF FallenSilent
<1>9. CASE FlagInvalid
  BY <1>9 DEF FlagInvalid
<1>10. CASE SetSilent
  BY <1>10 DEF SetSilent
<1>11. CASE FlagSilent
  BY <1>11 DEF FlagSilent
<1>12. CASE TestChanged
  BY <1>12 DEF TestChanged
<1>13. CASE ClearChanged
  <2>1. changed' \in BOOLEAN
    BY <1>13 DEF ClearChanged
  <2>. QED  BY <2>1, <1>13 DEF ClearChanged
<1>14. CASE CoverLosesLink
  BY <1>14 DEF CoverLosesLink
<1>15. CASE CoverHasLink
  <2>1. warning' \in BOOLEAN
    BY <1>15 DEF CoverHasLink
  <2>. QED  BY <2>1, <1>15 DEF CoverHasLink
<1>16. CASE CoverReadsPosition
  BY <1>16 DEF CoverReadsPosition
<1>17. CASE CoverReadsState
  BY <1>17 DEF CoverReadsState, WorthPublishing, Remember, Operation
<1>18. CASE ShowConnection
  BY <1>18 DEF ShowConnection
<1>19. CASE SensorSkips
  BY <1>19 DEF SensorSkips
<1>20. CASE SensorHasLink
  BY <1>20 DEF SensorHasLink
<1>21. CASE ShowPosition
  BY <1>21 DEF ShowPosition
<1>22. CASE SwitchSkips
  BY <1>22 DEF SwitchSkips
<1>23. CASE SwitchHasLink
  BY <1>23 DEF SwitchHasLink
<1>24. CASE ShowSwitch
  BY <1>24 DEF ShowSwitch
<1>25. CASE ShowLink
  BY <1>25 DEF ShowLink
<1>26. CASE \E on \in BOOLEAN : SetLigthOn(on)
  <2>1. lightOn' \in BOOLEAN
    BY <1>26 DEF SetLigthOn
  <2>. QED  BY <2>1, <1>26 DEF SetLigthOn, BusSets
<1>27. CASE LightSkips
  BY <1>27 DEF LightSkips
<1>28. CASE LightHasLink
  <2>1. sawDrive' \in BOOLEAN
    BY <1>28 DEF LightHasLink
  <2>. QED  BY <2>1, <1>28 DEF LightHasLink
<1>29. CASE SyncFromDrive
  <2>1. lamp' \in BOOLEAN /\ writePending' \in BOOLEAN
    BY <1>29 DEF SyncFromDrive
  <2>. QED  BY <2>1, <1>29 DEF SyncFromDrive
<1>30. CASE \E on \in BOOLEAN : LightCall(on)
  <2>1. lamp' \in BOOLEAN /\ writePending' \in BOOLEAN
    BY <1>30 DEF LightCall
  <2>. QED  BY <2>1, <1>30 DEF LightCall
<1>31. CASE WriteLight
  <2>1. writePending' \in BOOLEAN
    BY <1>31 DEF WriteLight
  <2>. QED  BY <2>1, <1>31 DEF WriteLight
<1>32. CASE OutputCompares
  BY <1>32 DEF OutputCompares
<1>33. CASE TurnLight
  BY <1>33 DEF TurnLight
<1>34. CASE LightWritten
  BY <1>34 DEF LightWritten, AfterWrite
<1>35. CASE TextUnchanged
  BY <1>35 DEF TextUnchanged
<1>36. CASE TextChanged
  BY <1>36 DEF TextChanged
<1>37. CASE RememberState
  BY <1>37 DEF RememberState, Remembered
<1>38. CASE ShowState
  <2>1. slipped' \in BOOLEAN
    BY <1>38 DEF ShowState
  <2>. QED  BY <2>1, <1>38 DEF ShowState
<1>. QED  BY <1>1, <1>2, <1>3, <1>4, <1>5, <1>6, <1>7, <1>8, <1>9, <1>10, <1>11,
             <1>12, <1>13, <1>14, <1>15, <1>16, <1>17, <1>18, <1>19, <1>20, <1>21,
             <1>22, <1>23, <1>24, <1>25, <1>26, <1>27, <1>28, <1>29, <1>30, <1>31,
             <1>32, <1>33, <1>34, <1>35, <1>36, <1>37, <1>38
          DEF Next, BusWrites, Update, Entities, Light, StateText

\* Every variable keeps its type; the cover is never told anything but that the
\* door stands, opens or closes (hcpbridge_cover.cpp:87-107).
THEOREM TypeCorrect == Spec => []TypeOK
<1>. QED  BY TypeInit, TypeStep, PTL DEF Spec

-------------------------------------------------------------------------------
(* What is shown.                                                             *)

\* Where in a round of the entities the loop still reads a field before it shows
\* it: a change made before that needs no flag.
BeforeLink       == {"clear", "cover", "coverPosition", "coverState", "connection", "sensor",
                     "sensorPosition", "switch", "switchState", "link"}
BeforeSwitch     == BeforeLink \ {"link"}
BeforeSensor     == BeforeSwitch \ {"switch", "switchState"}
BeforeConnection == {"clear", "cover", "coverPosition", "coverState", "connection"}
BeforePosition   == {"clear", "cover", "coverPosition"}
BeforeCover      == {"clear", "cover"}

\* Each thing shown agrees with the field it shows, or its flag is up or about to
\* be raised, or the loop is on its way to reading it.
ShownInv ==
    /\ loop \in {"coverPosition", "coverState"} => valid /\ ~warning
    /\ warning => cover.operation \in {"unknown", "IDLE"}
    /\ published => cover.position = previousPosition
    /\ group = "door" =>
         /\ \/ linkText = link \/ link = "NEVER_SEEN" \/ changed \/ bus = "flag"
            \/ loop \in BeforeLink \cup {"flagSilent"}
         /\ \/ connection = IF valid THEN "on" ELSE "off"
            \/ link = "NEVER_SEEN" \/ changed \/ bus = "flag"
            \/ loop \in BeforeConnection \cup {"flagInvalid", "flagSilent"}
         /\ \/ ~valid \/ switch = IF door = "HALFOPEN" THEN "on" ELSE "off"
            \/ changed \/ bus = "flag" \/ loop \in BeforeSwitch
         /\ \/ ~valid \/ sensor = {position}
            \/ changed \/ bus = "flag" \/ loop \in BeforeSensor
         /\ \/ ~valid \/ (published /\ previousPosition = position /\ loop # "coverState")
            \/ changed \/ bus = "flag" \/ loop \in BeforePosition
            \/ loop = "coverState" /\ seen = position
         /\ \/ valid \/ cover.operation \in {"unknown", "IDLE"}
            \/ changed \/ bus = "flag" \/ loop \in BeforeCover \cup {"flagInvalid"}

\* Nothing is shown before anything was heard.
LEMMA ShownInit == Init => ShownInv
BY DEF Init, ShownInv

\* No order of the bus task's stores and the loop's reads loses a change.
LEMMA ShownStep == TypeOK /\ ShownInv /\ [Next]_vars => ShownInv'
<1>. SUFFICES ASSUME TypeOK, ShownInv, [Next]_vars PROVE ShownInv'  OBVIOUS
<1>0. /\ cover \in [operation : CoverOperation, position : Nat] /\ valid \in BOOLEAN
      /\ changed \in BOOLEAN /\ warning \in BOOLEAN
  BY DEF TypeOK
<1> USE DEF ShownInv, BeforeLink, BeforeSwitch, BeforeSensor, BeforeConnection, BeforePosition,
            BeforeCover, vars, stateVars, coverVars, othersVars, memberVars, shownVars
<1>1. CASE UNCHANGED vars
  BY <1>1
<1>2. CASE \E d \in Doors : SetState(d)
  BY <1>0, <1>2 DEF SetState, BusSets
<1>3. CASE \E p \in Positions : SetCurrentPosition(p)
  BY <1>0, <1>3 DEF SetCurrentPosition, BusSets
<1>4. CASE SetValid
  BY <1>0, <1>4 DEF SetValid, BusSets
<1>5. CASE \E l \in BusLinks : SetLink(l)
  BY <1>0, <1>5 DEF SetLink, BusSets
<1>6. CASE RaiseFlag
  BY <1>0, <1>6 DEF RaiseFlag
<1>7. CASE StillHeard
  BY <1>0, <1>7 DEF StillHeard
<1>8. CASE FallenSilent
  BY <1>0, <1>8 DEF FallenSilent
<1>9. CASE FlagInvalid
  BY <1>0, <1>9 DEF FlagInvalid
<1>10. CASE SetSilent
  BY <1>0, <1>10 DEF SetSilent
<1>11. CASE FlagSilent
  BY <1>0, <1>11 DEF FlagSilent
<1>12. CASE TestChanged
  BY <1>0, <1>12 DEF TestChanged
<1>13. CASE ClearChanged
  <2>1. group \in {"door", "light", "text"}
    BY ReportAssumption DEF TypeOK
  <2>2. loop' \notin {"coverPosition", "coverState"} /\ (group = "door" => loop' = "cover")
    BY <2>1, <1>13 DEF ClearChanged
  <2>. QED  BY <1>0, <1>13, <2>2 DEF ClearChanged
<1>14. CASE CoverLosesLink
  BY <1>0, <1>14 DEF CoverLosesLink
<1>15. CASE CoverHasLink
  BY <1>0, <1>15 DEF CoverHasLink
<1>16. CASE CoverReadsPosition
  BY <1>0, <1>16 DEF CoverReadsPosition
<1>17. CASE CoverReadsState
  <2>1. published' /\ previousPosition' = seen /\ position' = position /\ seen' = seen
    BY <1>17 DEF CoverReadsState, Remember
  <2>2. cover'.position = previousPosition'
    <3>1. CASE WorthPublishing
      BY <1>17, <2>1, <3>1 DEF CoverReadsState
    <3>2. CASE ~WorthPublishing
      BY <1>17, <2>1, <3>2 DEF CoverReadsState, WorthPublishing
    <3>. QED  BY <3>1, <3>2
  <2>3. valid /\ ~warning /\ loop = "coverState" /\ loop' = "connection"
    BY <1>17 DEF CoverReadsState
  <2>4. UNCHANGED <<valid, link, door, changed, bus, group, sensor, connection, switch, linkText,
                    warning>>
    BY <1>17 DEF CoverReadsState
  <2>5. group = "door" =>
          (published' /\ previousPosition' = position') \/ changed \/ bus = "flag"
    BY <2>1, <2>3
  <2>. HIDE <1>17
  <2>. QED  BY <2>1, <2>2, <2>3, <2>4, <2>5
<1>18. CASE ShowConnection
  BY <1>0, <1>18 DEF ShowConnection
<1>19. CASE SensorSkips
  BY <1>0, <1>19 DEF SensorSkips
<1>20. CASE SensorHasLink
  BY <1>0, <1>20 DEF SensorHasLink
<1>21. CASE ShowPosition
  BY <1>0, <1>21 DEF ShowPosition
<1>22. CASE SwitchSkips
  BY <1>0, <1>22 DEF SwitchSkips
<1>23. CASE SwitchHasLink
  BY <1>0, <1>23 DEF SwitchHasLink
<1>24. CASE ShowSwitch
  BY <1>0, <1>24 DEF ShowSwitch
<1>25. CASE ShowLink
  BY <1>0, <1>25 DEF ShowLink
<1>26. CASE \E on \in BOOLEAN : SetLigthOn(on)
  BY <1>0, <1>26 DEF SetLigthOn, BusSets
<1>27. CASE LightSkips
  BY <1>0, <1>27 DEF LightSkips
<1>28. CASE LightHasLink
  BY <1>0, <1>28 DEF LightHasLink
<1>29. CASE SyncFromDrive
  BY <1>0, <1>29 DEF SyncFromDrive
<1>30. CASE \E on \in BOOLEAN : LightCall(on)
  BY <1>0, <1>30 DEF LightCall
<1>31. CASE WriteLight
  BY <1>0, <1>31 DEF WriteLight
<1>32. CASE OutputCompares
  BY <1>0, <1>32 DEF OutputCompares
<1>33. CASE TurnLight
  BY <1>0, <1>33 DEF TurnLight
<1>34. CASE LightWritten
  BY <1>0, <1>34 DEF LightWritten, AfterWrite
<1>35. CASE TextUnchanged
  BY <1>0, <1>35 DEF TextUnchanged
<1>36. CASE TextChanged
  BY <1>0, <1>36 DEF TextChanged
<1>37. CASE RememberState
  BY <1>0, <1>37 DEF RememberState, Remembered
<1>38. CASE ShowState
  BY <1>0, <1>38 DEF ShowState
<1>. QED  BY <1>1, <1>2, <1>3, <1>4, <1>5, <1>6, <1>7, <1>8, <1>9, <1>10, <1>11,
             <1>12, <1>13, <1>14, <1>15, <1>16, <1>17, <1>18, <1>19, <1>20, <1>21,
             <1>22, <1>23, <1>24, <1>25, <1>26, <1>27, <1>28, <1>29, <1>30, <1>31,
             <1>32, <1>33, <1>34, <1>35, <1>36, <1>37, <1>38
          DEF Next, BusWrites, Update, Entities, Light, StateText

\* The cover, the position, the switch for half open and the link sensors show at
\* rest what the state holds, however the bus task's stores fall between the loop's
\* test of the flag, its clearing, and the reads (hcpbridge.cpp:80-91).
THEOREM ShownAtRest == Spec => []DoorIsShown
<1>1. ShownInv => DoorIsShown
  BY DEF ShownInv, DoorIsShown, AtRest, BeforeLink, BeforeSwitch, BeforeSensor,
         BeforeConnection, BeforePosition, BeforeCover
<1>. QED  BY <1>1, TypeInit, TypeStep, ShownInit, ShownStep, PTL DEF Spec

\* A cover whose link is gone does not go on showing a door on its way
\* (hcpbridge_cover.cpp:70-85).
THEOREM NoMovementShownWithoutLink == Spec => []NoMovementWithoutLink
<1>1. ShownInv => NoMovementWithoutLink
  BY DEF ShownInv, NoMovementWithoutLink, AtRest, BeforeLink, BeforeSwitch, BeforeSensor,
         BeforeConnection, BeforePosition, BeforeCover
<1>. QED  BY <1>1, TypeInit, TypeStep, ShownInit, ShownStep, PTL DEF Spec

-------------------------------------------------------------------------------
(* The light and the text of the state.                                       *)

\* The lamp on show is the drive's, or a report of it is still to be read; a
\* request refused for want of a link is about to be taken back; and nothing is
\* written to the output before the drive was heard.
LightInv ==
    /\ writePending \/ loop \in {"light", "sync", "output", "turn", "written"} => group = "light"
    /\ group = "light" =>
      /\ loop \in {"sync", "output", "turn", "written"} => sawDrive
      /\ sawDrive /\ origin = "restored" => loop = "sync"
      /\ origin = "refused" => loop \in {"written", "sync"}
      /\ origin = "drive" /\ valid =>
            \/ lamp = lightOn \/ changed \/ bus = "flag"
            \/ loop \in {"clear", "light", "sync"}

\* No order of reports, requests and corrections loses the drive's word.
LEMMA LightStep == TypeOK /\ LightInv /\ [Next]_vars => LightInv'
<1>. SUFFICES ASSUME TypeOK, LightInv, [Next]_vars PROVE LightInv'  OBVIOUS
<1>0. /\ origin \in {"restored", "drive", "user", "refused"}
      /\ valid \in BOOLEAN /\ changed \in BOOLEAN /\ sawDrive \in BOOLEAN
      /\ lamp \in BOOLEAN /\ lightOn \in BOOLEAN /\ writePending \in BOOLEAN
  BY DEF TypeOK
<1> USE DEF LightInv, vars, stateVars, coverVars, lightVars, textVars, othersVars, memberVars,
            shownVars
<1>1. CASE UNCHANGED vars
  BY <1>0, <1>1
<1>2. CASE \E d \in Doors : SetState(d)
  BY <1>0, <1>2 DEF SetState, BusSets
<1>3. CASE \E p \in Positions : SetCurrentPosition(p)
  BY <1>0, <1>3 DEF SetCurrentPosition, BusSets
<1>4. CASE SetValid
  BY <1>0, <1>4 DEF SetValid, BusSets
<1>5. CASE \E l \in BusLinks : SetLink(l)
  BY <1>0, <1>5 DEF SetLink, BusSets
<1>6. CASE RaiseFlag
  BY <1>0, <1>6 DEF RaiseFlag
<1>7. CASE StillHeard
  BY <1>0, <1>7 DEF StillHeard
<1>8. CASE FallenSilent
  BY <1>0, <1>8 DEF FallenSilent
<1>9. CASE FlagInvalid
  BY <1>0, <1>9 DEF FlagInvalid
<1>10. CASE SetSilent
  BY <1>0, <1>10 DEF SetSilent
<1>11. CASE FlagSilent
  BY <1>0, <1>11 DEF FlagSilent
<1>12. CASE TestChanged
  BY <1>0, <1>12 DEF TestChanged
<1>13. CASE ClearChanged
  <2>1. group \in {"door", "light", "text"}
    BY ReportAssumption DEF TypeOK
  <2>2. loop' \in {"cover", "light", "text"} /\ (loop' = "light" <=> group = "light")
    BY <2>1, <1>13 DEF ClearChanged
  <2>. QED  BY <1>0, <1>13, <2>2 DEF ClearChanged
<1>14. CASE \E on \in BOOLEAN : SetLigthOn(on)
  BY <1>0, <1>14 DEF SetLigthOn, BusSets
<1>15. CASE LightSkips
  BY <1>0, <1>15 DEF LightSkips
<1>16. CASE LightHasLink
  BY <1>0, <1>16 DEF LightHasLink
<1>17. CASE SyncFromDrive
  BY <1>0, <1>17 DEF SyncFromDrive
<1>18. CASE \E on \in BOOLEAN : LightCall(on)
  BY <1>0, <1>18 DEF LightCall
<1>19. CASE WriteLight
  BY <1>0, <1>19 DEF WriteLight, MayWrite
<1>20. CASE OutputCompares
  BY <1>0, <1>20 DEF OutputCompares
<1>21. CASE TurnLight
  BY <1>0, <1>21 DEF TurnLight
<1>22. CASE LightWritten
  BY <1>0, <1>22 DEF LightWritten, AfterWrite
<1>23. CASE TextUnchanged
  BY <1>0, <1>23 DEF TextUnchanged
<1>24. CASE TextChanged
  BY <1>0, <1>24 DEF TextChanged
<1>25. CASE RememberState
  BY <1>0, <1>25 DEF RememberState, Remembered
<1>26. CASE ShowState
  BY <1>0, <1>26 DEF ShowState
<1>27. CASE Entities
  BY <1>0, <1>27
     DEF Entities, CoverLosesLink, CoverHasLink, CoverReadsPosition, CoverReadsState, Remember,
         ShowConnection, SensorSkips, SensorHasLink, ShowPosition, SwitchSkips, SwitchHasLink,
         ShowSwitch, ShowLink
<1>. QED  BY <1>1, <1>2, <1>3, <1>4, <1>5, <1>6, <1>7, <1>8, <1>9, <1>10, <1>11,
             <1>12, <1>13, <1>14, <1>15, <1>16, <1>17, <1>18, <1>19, <1>20, <1>21,
             <1>22, <1>23, <1>24, <1>25, <1>26, <1>27
          DEF Next, BusWrites, Update, Light, StateText

\* Before the loop runs, the light has not heard of the drive.
LEMMA LightInit == Init => LightInv
BY DEF Init, LightInv

\* The light shows the drive's lamp at rest and after a refusal
\* (hcpbridge_light.cpp:19-40, :50-59).
THEOREM LightFollowsTheDrive == Spec => []LightIsShown
<1>1. TypeOK /\ LightInv => LightIsShown
  BY DEF TypeOK, LightInv, LightIsShown, AtRest
<1>. QED  BY <1>1, TypeInit, TypeStep, LightInit, LightStep, PTL DEF Spec

\* No correction and no restored state switches the drive's light while its word is
\* the one last read (hcpbridge_light.cpp:19-40, :50-59).
THEOREM NobodySwitchesTheLight == Spec => NobodySwitches
<1>1. ASSUME TypeOK, LightInv, [Next]_vars
      PROVE  [loop = "turn" /\ loop' = "written" /\ valid /\ lamp # lightOn =>
                 origin = "user" \/ (origin = "drive" /\ (changed \/ bus = "flag"))]_vars
  <2>. SUFFICES ASSUME loop = "turn", valid, lamp # lightOn, loop' = "written"
                PROVE  origin = "user" \/ (origin = "drive" /\ (changed \/ bus = "flag"))
    OBVIOUS
  <2>1. group = "light"
    BY <1>1 DEF LightInv
  <2>. QED  BY <1>1, <2>1 DEF TypeOK, LightInv
<1>. QED  BY <1>1, TypeInit, TypeStep, LightInit, LightStep, PTL DEF Spec, NobodySwitches

\* What is remembered is the door's state unless a report is still to be read, and
\* what is shown is what was remembered unless it slipped.
TextInv ==
    group = "text" =>
      /\ \/ (stateText = "unknown" /\ loop # "publish") \/ previousState = door
         \/ changed \/ bus = "flag" \/ loop \in {"clear", "text", "remember"}
      /\ stateText = "unknown" \/ slipped \/ stateText = previousState \/ loop = "publish"

\* Three reads that may see three states still end with the last one remembered.
LEMMA TextStep == TypeOK /\ TextInv /\ [Next]_vars => TextInv'
<1>. SUFFICES ASSUME TypeOK, TextInv, [Next]_vars PROVE TextInv'  OBVIOUS
<1>0. changed \in BOOLEAN /\ slipped \in BOOLEAN
  BY DEF TypeOK
<1> USE DEF TextInv, vars, stateVars, coverVars, lightVars, textVars, othersVars, memberVars,
            shownVars
<1>1. CASE UNCHANGED vars
  BY <1>0, <1>1
<1>2. CASE \E d \in Doors : SetState(d)
  BY <1>0, <1>2 DEF SetState, BusSets
<1>3. CASE \E p \in Positions : SetCurrentPosition(p)
  BY <1>0, <1>3 DEF SetCurrentPosition, BusSets
<1>4. CASE SetValid
  BY <1>0, <1>4 DEF SetValid, BusSets
<1>5. CASE \E l \in BusLinks : SetLink(l)
  BY <1>0, <1>5 DEF SetLink, BusSets
<1>6. CASE RaiseFlag
  BY <1>0, <1>6 DEF RaiseFlag
<1>7. CASE StillHeard
  BY <1>0, <1>7 DEF StillHeard
<1>8. CASE FallenSilent
  BY <1>0, <1>8 DEF FallenSilent
<1>9. CASE FlagInvalid
  BY <1>0, <1>9 DEF FlagInvalid
<1>10. CASE SetSilent
  BY <1>0, <1>10 DEF SetSilent
<1>11. CASE FlagSilent
  BY <1>0, <1>11 DEF FlagSilent
<1>12. CASE TestChanged
  BY <1>0, <1>12 DEF TestChanged
<1>13. CASE ClearChanged
  <2>1. group = "text" => loop' = "text"
    BY <1>13 DEF ClearChanged
  <2>. QED  BY <1>0, <1>13, <2>1 DEF ClearChanged
<1>14. CASE \E on \in BOOLEAN : SetLigthOn(on)
  BY <1>0, <1>14 DEF SetLigthOn, BusSets
<1>15. CASE LightSkips
  BY <1>0, <1>15 DEF LightSkips
<1>16. CASE LightHasLink
  BY <1>0, <1>16 DEF LightHasLink
<1>17. CASE SyncFromDrive
  BY <1>0, <1>17 DEF SyncFromDrive
<1>18. CASE \E on \in BOOLEAN : LightCall(on)
  BY <1>0, <1>18 DEF LightCall
<1>19. CASE WriteLight
  BY <1>0, <1>19 DEF WriteLight
<1>20. CASE OutputCompares
  BY <1>0, <1>20 DEF OutputCompares
<1>21. CASE TurnLight
  BY <1>0, <1>21 DEF TurnLight
<1>22. CASE LightWritten
  BY <1>0, <1>22 DEF LightWritten, AfterWrite
<1>23. CASE TextUnchanged
  BY <1>0, <1>23 DEF TextUnchanged
<1>24. CASE TextChanged
  BY <1>0, <1>24 DEF TextChanged
<1>25. CASE RememberState
  BY <1>0, <1>25 DEF RememberState, Remembered
<1>26. CASE ShowState
  BY <1>0, <1>26 DEF ShowState
<1>27. CASE Entities
  BY <1>0, <1>27
     DEF Entities, CoverLosesLink, CoverHasLink, CoverReadsPosition, CoverReadsState, Remember,
         ShowConnection, SensorSkips, SensorHasLink, ShowPosition, SwitchSkips, SwitchHasLink,
         ShowSwitch, ShowLink
<1>. QED  BY <1>1, <1>2, <1>3, <1>4, <1>5, <1>6, <1>7, <1>8, <1>9, <1>10, <1>11,
             <1>12, <1>13, <1>14, <1>15, <1>16, <1>17, <1>18, <1>19, <1>20, <1>21,
             <1>22, <1>23, <1>24, <1>25, <1>26, <1>27
          DEF Next, BusWrites, Update, Light, StateText

\* The text of the state follows the door, whatever happens between the reads
\* (hcpbridge_text_sensor.cpp:20-29).
THEOREM StateTextFollowsTheDoor == Spec => []StateIsShown
<1>1. Init => TextInv
  BY DEF Init, TextInv
<1>2. TextInv => StateIsShown
  BY DEF TextInv, StateIsShown, AtRest
<1>. QED  BY <1>1, <1>2, TypeInit, TypeStep, TextStep, PTL DEF Spec
===============================================================================
