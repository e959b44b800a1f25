--------------------------- MODULE MCHcp2Commands ---------------------------
(* Instances of Hcp2Commands for TLC. Times are in ticks. The limits keep the *)
(* order they have in hcp_state.h: CMD_STALE and CMD_CONFIRM (2000 ms) below  *)
(* CMD_GIVEUP (5000 ms) below BUS_SILENCE (20000 ms). millis() starts two     *)
(* ticks before it wraps.                                                     *)
EXTENDS Hcp2Commands

Door(d, p) == [door |-> d, position |-> p, light |-> FALSE]

\* A door that does not react.
StandingDoor == {Door("CLOSED", 0)}

\* A door that only ever opens, or is stopped on the way.
OpeningDoor == {Door("CLOSED", 0), Door("OPENING", 1), Door("STOPPED", 1)}

\* A door that only ever opens.
RunningDoor == {Door("CLOSED", 0), Door("OPENING", 1)}
=============================================================================
