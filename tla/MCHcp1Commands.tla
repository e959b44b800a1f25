--------------------------- MODULE MCHcp1Commands ---------------------------
(* Instances of Hcp1Commands for TLC. CMD_STALE (2000 ms) lies below          *)
(* BUS_SILENCE (20000 ms); millis() starts two ticks before it wraps.         *)
EXTENDS Hcp1Commands

\* A door that opens or stands open, and a light somebody else may switch.
DoorAndLight == {{"moving"}, {"open"}, {"open", "light"}}
=============================================================================
