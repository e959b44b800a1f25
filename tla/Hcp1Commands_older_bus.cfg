SPECIFICATION Spec
CONSTANTS
  DualCore = TRUE
  Presses = {"OPEN", "STOP", "HALF", "LIGHT_ON"}
  Broadcasts <- DoorAndLight
  CmdStale = 1
  BusSilence = 2
  ClockMod = 16
  ClockStart = 14
  MaxTime = 4
  MaxLag = 1
  MaxPresses = 2
INVARIANTS
  TypeOK
  NothingWaitsUnaddressed
PROPERTIES
  NothingSentTwice
  ExpiresByItsOwnAge
