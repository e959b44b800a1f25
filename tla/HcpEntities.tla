------------------------------ MODULE HcpEntities ------------------------------
(* What the entities show of the door (hcpbridge.cpp, cover/, sensor/,        *)
(* binary_sensor/, switch/, text_sensor/, light/, output/): the bus task      *)
(* writes the state a field at a time and raises a flag after each, the loop  *)
(* tests the flag, clears it, and has every entity read what it needs. An     *)
(* action is one access to the shared state and what the task does with it    *)
(* alone. Of the presses made through entities, only the light's is modelled: *)
(* it is the one that an entity can make by itself.                           *)
EXTENDS HcpDoor

CONSTANTS
    Doors, Positions,   \* what the drive may report
    BusLinks,           \* the links the bus task sets
    Groups              \* the entities a configuration may have: "door", "light",
                        \* "text". They share the state and nothing else, so that
                        \* one group at a time is enough.

ASSUME ReportAssumption ==
    /\ Doors \subseteq DoorState /\ Positions \subseteq Nat /\ 0 \in Positions
    /\ BusLinks \subseteq Link /\ Groups \subseteq {"door", "light", "text"}

VARIABLES
    door, position, lightOn, valid, link, changed,  \* HoermannState
    group,                                  \* the entities that are configured
    bus, loop, seen,                        \* control, and the loop's local position
    previousPosition, previousOperation, published, warning,    \* the cover's members
    cover, sensor, connection, switch, linkText,                \* what was published
    sawDrive, lamp, writePending,           \* the light: is_on, and a write to come
    origin,                                 \* history: whose word lamp is
    previousState, stateText,               \* the text of the state
    slipped                                 \* history: it changed while it was read

stateVars  == <<door, position, lightOn, valid, link>>
coverVars  == <<previousPosition, previousOperation, published, warning>>
lightVars  == <<sawDrive, lamp, writePending, origin>>
textVars   == <<previousState, stateText, slipped>>
othersVars == <<group, lightVars, textVars>>
memberVars == <<coverVars, othersVars>>
shownVars  == <<cover, sensor, connection, switch, linkText>>
vars == <<stateVars, changed, bus, loop, seen, memberVars, shownVars>>

Init ==
    /\ door = "CLOSED" /\ position = 0 /\ lightOn = FALSE /\ valid = FALSE /\ link = "NEVER_SEEN"
    /\ changed = FALSE
    /\ bus = "idle" /\ loop = "idle" /\ seen = 0
    /\ previousPosition = 0 /\ previousOperation = "IDLE" /\ published = FALSE /\ warning = FALSE
    /\ cover = [operation |-> "unknown", position |-> 0]
    /\ sensor = {} /\ connection = "unknown" /\ switch = "unknown" /\ linkText = "unknown"
    /\ group \in Groups
    /\ sawDrive = FALSE /\ lamp \in {FALSE, group = "light"}
    /\ writePending = (group = "light")
    /\ origin = "restored"
    /\ previousState = "CLOSED" /\ stateText = "unknown" /\ slipped = FALSE

-------------------------------------------------------------------------------
(* The bus task: a setter stores its field and then raises the flag. Two of   *)
(* them do so only if the field was different.                                *)

BusSets ==
    /\ bus = "idle" /\ bus' = "flag"
    /\ UNCHANGED <<changed, loop, seen, memberVars, shownVars>>

SetState(d) ==
    /\ BusSets /\ door' = d /\ UNCHANGED <<position, lightOn, valid, link>>

SetCurrentPosition(p) ==
    /\ BusSets /\ position' = p /\ UNCHANGED <<door, lightOn, valid, link>>

SetLigthOn(on) ==
    /\ BusSets /\ lightOn' = on /\ UNCHANGED <<door, position, valid, link>>

SetValid ==
    /\ BusSets /\ ~valid /\ valid' = TRUE /\ UNCHANGED <<door, position, lightOn, link>>

SetLink(l) ==
    /\ l = "ENUMERATING" => link = "NEVER_SEEN"
    /\ BusSets /\ link # l /\ link' = l /\ UNCHANGED <<door, position, lightOn, valid>>

RaiseFlag ==
    /\ bus = "flag" /\ bus' = "idle"
    /\ changed' = TRUE
    /\ UNCHANGED <<stateVars, loop, seen, memberVars, shownVars>>

-------------------------------------------------------------------------------
(* The loop: update. First the silence check, which sets two fields itself.   *)

StillHeard ==
    /\ loop = "idle" /\ loop' = "test"
    /\ UNCHANGED <<stateVars, changed, bus, seen, memberVars, shownVars>>

FallenSilent ==
    /\ loop = "idle" /\ link # "NEVER_SEEN"
    /\ loop' = IF valid THEN "flagInvalid" ELSE "setSilent"
    /\ valid' = FALSE
    /\ UNCHANGED <<door, position, lightOn, link, changed, bus, seen, memberVars, shownVars>>

FlagInvalid ==
    /\ loop = "flagInvalid" /\ loop' = "setSilent"
    /\ changed' = TRUE
    /\ UNCHANGED <<stateVars, bus, seen, memberVars, shownVars>>

SetSilent ==
    /\ loop = "setSilent" /\ loop' = IF link = "SILENT" THEN "test" ELSE "flagSilent"
    /\ link' = "SILENT"
    /\ UNCHANGED <<door, position, lightOn, valid, changed, bus, seen, memberVars, shownVars>>

FlagSilent ==
    /\ loop = "flagSilent" /\ loop' = "test"
    /\ changed' = TRUE
    /\ UNCHANGED <<stateVars, bus, seen, memberVars, shownVars>>

TestChanged ==
    /\ loop = "test" /\ loop' = IF changed THEN "clear" ELSE "idle"
    /\ UNCHANGED <<stateVars, changed, bus, seen, memberVars, shownVars>>

\* Cleared before anything is read, so that what changes after is seen next time.
ClearChanged ==
    /\ loop = "clear"
    /\ loop' = [door |-> "cover", light |-> "light", text |-> "text"][group]
    /\ changed' = FALSE
    /\ UNCHANGED <<stateVars, bus, seen, memberVars, shownVars>>

-------------------------------------------------------------------------------
(* The loop: the entities.                                                    *)

\* Mutant: a dead link is not shown by the cover.
CoverKeepsQuiet ==
    /\ loop = "cover" /\ ~valid /\ loop' = "connection"
    /\ warning' = TRUE
    /\ UNCHANGED <<stateVars, changed, bus, seen, previousPosition, previousOperation,
                   published, othersVars, shownVars>>

\* With the link down nobody knows what the door is doing; said once.
CoverLosesLink ==
    /\ loop = "cover" /\ ~valid /\ loop' = "connection"
    /\ warning' = TRUE
    /\ cover' = IF warning THEN cover ELSE [cover EXCEPT !.operation = "IDLE"]
    /\ UNCHANGED <<stateVars, changed, bus, seen, previousPosition, previousOperation,
                   published, othersVars, sensor, connection, switch, linkText>>

CoverHasLink ==
    /\ loop = "cover" /\ valid /\ loop' = "coverPosition"
    /\ warning' = FALSE
    /\ UNCHANGED <<stateVars, changed, bus, seen, previousPosition, previousOperation,
                   published, othersVars, shownVars>>

CoverReadsPosition ==
    /\ loop = "coverPosition" /\ loop' = "coverState"
    /\ seen' = position
    /\ UNCHANGED <<stateVars, changed, bus, memberVars, shownVars>>

\* Mutant: the drive's word for what the door does.
OperationAsReported == IF Moving(door) THEN door ELSE "IDLE"

\* On the way to half or vent the position tells which way the door goes.
Operation ==
    CASE door = "OPENING" -> "OPENING"
      [] door = "CLOSING" -> "CLOSING"
      [] door \in {"MOVE_HALF", "MOVE_VENTING"} ->
            IF previousPosition > seen THEN "CLOSING" ELSE "OPENING"
      [] OTHER -> "IDLE"

Remember ==
    /\ previousOperation' = Operation /\ published' = TRUE
    /\ previousPosition' = seen

WorthPublishing == ~published \/ previousOperation # Operation \/ previousPosition # seen

CoverReadsState ==
    /\ loop = "coverState" /\ loop' = "connection"
    /\ cover' = IF WorthPublishing THEN [operation |-> Operation, position |-> seen] ELSE cover
    /\ Remember
    /\ UNCHANGED <<stateVars, changed, bus, seen, warning, othersVars, sensor, connection,
                   switch, linkText>>

ShowConnection ==
    /\ loop = "connection" /\ loop' = "sensor"
    /\ connection' = IF valid THEN "on" ELSE "off"
    /\ UNCHANGED <<stateVars, changed, bus, seen, memberVars, cover, sensor, switch, linkText>>

SensorSkips ==
    /\ loop = "sensor" /\ ~valid /\ loop' = "switch"
    /\ UNCHANGED <<stateVars, changed, bus, seen, memberVars, shownVars>>

SensorHasLink ==
    /\ loop = "sensor" /\ valid /\ loop' = "sensorPosition"
    /\ UNCHANGED <<stateVars, changed, bus, seen, memberVars, shownVars>>

ShowPosition ==
    /\ loop = "sensorPosition" /\ loop' = "switch"
    /\ sensor' = {position}
    /\ UNCHANGED <<stateVars, changed, bus, seen, memberVars, cover, connection, switch, linkText>>

SwitchSkips ==
    /\ loop = "switch" /\ ~valid /\ loop' = "link"
    /\ UNCHANGED <<stateVars, changed, bus, seen, memberVars, shownVars>>

SwitchHasLink ==
    /\ loop = "switch" /\ valid /\ loop' = "switchState"
    /\ UNCHANGED <<stateVars, changed, bus, seen, memberVars, shownVars>>

ShowSwitch ==
    /\ loop = "switchState" /\ loop' = "link"
    /\ switch' = IF door = "HALFOPEN" THEN "on" ELSE "off"
    /\ UNCHANGED <<stateVars, changed, bus, seen, memberVars, cover, sensor, connection,
                   linkText>>

\* Mutant: the flag is cleared when everything is read.
ShowLinkAndClear ==
    /\ loop = "link" /\ loop' = "idle"
    /\ linkText' = link
    /\ changed' = FALSE
    /\ UNCHANGED <<stateVars, bus, seen, memberVars, cover, sensor, connection, switch>>

ShowLink ==
    /\ loop = "link" /\ loop' = "idle"
    /\ linkText' = link
    /\ UNCHANGED <<stateVars, changed, bus, seen, memberVars, cover, sensor, connection, switch>>

-------------------------------------------------------------------------------
(* The loop: the light. A call is performed at once and written to the output *)
(* the next time the loop comes round.                                        *)

LightSkips ==
    /\ loop = "light" /\ ~valid /\ loop' = "idle"
    /\ UNCHANGED <<stateVars, changed, bus, seen, memberVars, shownVars>>

LightHasLink ==
    /\ loop = "light" /\ valid /\ loop' = "sync"
    /\ sawDrive' = TRUE
    /\ UNCHANGED <<stateVars, changed, bus, seen, coverVars, group, lamp, writePending, origin,
                   textVars, shownVars>>

\* Puts the drive's own state back.
SyncFromDrive ==
    /\ loop = "sync" /\ loop' = "idle"
    /\ lamp' = lightOn /\ writePending' = (writePending \/ lamp # lightOn)
    /\ origin' = "drive"
    /\ UNCHANGED <<stateVars, changed, bus, seen, coverVars, group, sawDrive, textVars, shownVars>>

\* Somebody switches the light.
LightCall(on) ==
    /\ loop = "idle" /\ group = "light"
    /\ lamp' = on /\ writePending' = TRUE /\ origin' = "user"
    /\ UNCHANGED <<stateVars, changed, bus, loop, seen, coverVars, group, sawDrive, textVars,
                   shownVars>>

\* Mutant: the call that restores the last state is written like any other.
MayWriteAtOnce == TRUE

MayWrite == sawDrive

WriteLight ==
    /\ loop = "idle" /\ writePending
    /\ writePending' = FALSE
    /\ loop' = IF MayWrite THEN "output" ELSE "idle"
    /\ UNCHANGED <<stateVars, changed, bus, seen, coverVars, group, sawDrive, lamp, origin,
                   textVars, shownVars>>

OutputCompares ==
    /\ loop = "output" /\ loop' = IF lamp # lightOn THEN "turn" ELSE "written"
    /\ UNCHANGED <<stateVars, changed, bus, seen, memberVars, shownVars>>

\* turnLight: compared once more; refused without a link, and at times with one.
TurnLight ==
    /\ loop = "turn" /\ loop' = "written"
    /\ origin' = IF valid \/ lamp = lightOn THEN origin ELSE "refused"
    /\ UNCHANGED <<stateVars, changed, bus, seen, coverVars, group, sawDrive, lamp, writePending,
                   textVars, shownVars>>

\* Mutant: what was refused stays on show.
LeaveIt == "idle"

AfterWrite == IF valid THEN "idle" ELSE "sync"

LightWritten ==
    /\ loop = "written" /\ loop' = AfterWrite
    /\ origin' = IF valid /\ origin = "refused" THEN "user" ELSE origin
    /\ UNCHANGED <<stateVars, changed, bus, seen, coverVars, group, sawDrive, lamp, writePending,
                   textVars, shownVars>>

-------------------------------------------------------------------------------
(* The loop: the text of the state, which is read three times.                *)

TextUnchanged ==
    /\ loop = "text" /\ stateText # "unknown" /\ door = previousState /\ loop' = "idle"
    /\ UNCHANGED <<stateVars, changed, bus, seen, memberVars, shownVars>>

TextChanged ==
    /\ loop = "text" /\ (stateText = "unknown" \/ door # previousState)
    /\ loop' = "remember"
    /\ UNCHANGED <<stateVars, changed, bus, seen, memberVars, shownVars>>

\* Mutant: what was compared is taken for remembered.
RememberNothing == previousState

Remembered == door

RememberState ==
    /\ loop = "remember" /\ loop' = "publish"
    /\ previousState' = Remembered
    /\ UNCHANGED <<stateVars, changed, bus, seen, coverVars, group, lightVars, stateText, slipped,
                   shownVars>>

ShowState ==
    /\ loop = "publish" /\ loop' = "idle"
    /\ stateText' = door /\ slipped' = (door # previousState)
    /\ UNCHANGED <<stateVars, changed, bus, seen, coverVars, group, lightVars, previousState,
                   shownVars>>

-------------------------------------------------------------------------------
BusWrites ==
    \/ \E d \in Doors : SetState(d)
    \/ \E p \in Positions : SetCurrentPosition(p)
    \/ \E on \in BOOLEAN : SetLigthOn(on)
    \/ SetValid \/ (\E l \in BusLinks : SetLink(l)) \/ RaiseFlag

Update ==
    StillHeard \/ FallenSilent \/ FlagInvalid \/ SetSilent \/ FlagSilent \/ TestChanged
        \/ ClearChanged

Entities ==
    \/ CoverLosesLink \/ CoverHasLink \/ CoverReadsPosition \/ CoverReadsState
    \/ ShowConnection \/ SensorSkips \/ SensorHasLink \/ ShowPosition
    \/ SwitchSkips \/ SwitchHasLink \/ ShowSwitch \/ ShowLink

Light ==
    \/ LightSkips \/ LightHasLink \/ SyncFromDrive \/ (\E on \in BOOLEAN : LightCall(on))
    \/ WriteLight \/ OutputCompares \/ TurnLight \/ LightWritten

StateText == TextUnchanged \/ TextChanged \/ RememberState \/ ShowState

Next == BusWrites \/ Update \/ Entities \/ Light \/ StateText

Spec == Init /\ [][Next]_vars

-------------------------------------------------------------------------------
(* Properties. Between two changes, with both tasks done, what is shown is    *)
(* what the drive last said, whatever the two tasks did before.               *)

CoverOperation == {"unknown", "IDLE", "OPENING", "CLOSING"}

\* The types of the state.
TypeOK ==
    /\ door \in DoorState /\ position \in Nat /\ lightOn \in BOOLEAN /\ valid \in BOOLEAN
    /\ link \in Link /\ group \in Groups /\ changed \in BOOLEAN
    /\ bus \in {"idle", "flag"} /\ seen \in Nat
    /\ loop \in {"idle", "flagInvalid", "setSilent", "flagSilent", "test", "clear", "cover",
                 "coverPosition", "coverState", "connection", "sensor", "sensorPosition",
                 "switch", "switchState", "link", "light", "sync", "output", "turn", "written",
                 "text", "remember", "publish"}
    /\ previousPosition \in Nat /\ previousOperation \in CoverOperation
    /\ published \in BOOLEAN /\ warning \in BOOLEAN
    /\ cover \in [operation : CoverOperation, position : Nat] /\ sensor \subseteq Nat
    /\ connection \in {"unknown", "on", "off"} /\ switch \in {"unknown", "on", "off"}
    /\ linkText \in Link \cup {"unknown"}
    /\ sawDrive \in BOOLEAN /\ lamp \in BOOLEAN /\ writePending \in BOOLEAN
    /\ origin \in {"restored", "drive", "user", "refused"}
    /\ previousState \in DoorState /\ stateText \in DoorState \cup {"unknown"}
    /\ slipped \in BOOLEAN

AtRest(g) == group = g /\ ~changed /\ bus = "idle" /\ loop = "idle"

\* The position, as the cover and the sensor show it, is the door's, and so is the
\* switch for half open; the link is shown, and whether there is one.
DoorIsShown ==
    AtRest("door") =>
        /\ valid => /\ cover.position = position /\ sensor = {position}
                    /\ switch = IF door = "HALFOPEN" THEN "on" ELSE "off"
        /\ link # "NEVER_SEEN" =>
              linkText = link /\ connection = IF valid THEN "on" ELSE "off"

\* A cover whose bus died mid-travel does not stay opening or closing.
NoMovementWithoutLink ==
    AtRest("door") /\ ~valid => cover.operation \in {"unknown", "IDLE"}

\* The lamp is shown as the drive last reported it, and so it is after a request
\* that was refused because the link is down; with a link, what was asked for is
\* shown until the drive reports something.
LightIsShown ==
    AtRest("light") /\ sawDrive =>
        lamp = lightOn \/ origin = "user" \/ (origin = "drive" /\ ~valid)

\* The drive's lamp is not switched without somebody asking: not by what was
\* restored at the start, and by a correction only if the drive has reported
\* something else since, which is still to be taken over.
NobodySwitches ==
    [][loop = "turn" /\ loop' = "written" /\ valid /\ lamp # lightOn =>
          origin = "user" \/ (origin = "drive" /\ (changed \/ bus = "flag"))]_vars

\* The text is the door's state, unless that changed between the reads that
\* remember it and publish it.
StateIsShown ==
    AtRest("text") /\ stateText # "unknown" =>
        previousState = door /\ (stateText = door \/ slipped)

\* A door that moves is shown moving, and one that stands is not.
OperationIsShown ==
    AtRest("door") /\ valid => (cover.operation = "IDLE" <=> ~Moving(door))
===============================================================================
