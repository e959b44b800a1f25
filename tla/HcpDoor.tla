------------------------------- MODULE HcpDoor -------------------------------
(* The vocabulary both buses share (hcp_state.h, hcp_state.cpp): what can be  *)
(* asked of the drive, what it reports of the door, and where the             *)
(* conversation with it stands.                                               *)
EXTENDS Integers

\* HoermannCommand without NONE and STOP: what an answer can carry.
Command == {"OPEN", "CLOSE", "IMPULSE", "HALF", "VENT", "LIGHT_ON", "LIGHT_OFF"}

\* What a task can put in the slot: STOP is an intent, resolved when polled.
Press == Command \cup {"STOP"}

DoorState == {"OPEN", "OPENING", "CLOSED", "CLOSING", "HALFOPEN",
              "MOVE_VENTING", "VENT", "MOVE_HALF", "STOPPED"}

Link == {"NEVER_SEEN", "ENUMERATING", "REGISTERED", "SILENT", "PAUSED"}

Moving(door) == door \in {"OPENING", "CLOSING", "MOVE_HALF", "MOVE_VENTING"}

\* commandReached: is the door, or the light, already where cmd would send it?
\* An impulse names no destination.
Reached(cmd, door, light) ==
    \/ cmd = "OPEN"      /\ door \in {"OPENING", "OPEN"}
    \/ cmd = "CLOSE"     /\ door \in {"CLOSING", "CLOSED"}
    \/ cmd = "HALF"      /\ door \in {"MOVE_HALF", "HALFOPEN"}
    \/ cmd = "VENT"      /\ door \in {"MOVE_VENTING", "VENT"}
    \/ cmd = "LIGHT_ON"  /\ light
    \/ cmd = "LIGHT_OFF" /\ ~light

\* setState: a target does not survive a movement that ended.
TargetAfter(was, is, target) == IF Moving(was) /\ ~Moving(is) THEN 0 ELSE target

==============================================================================
