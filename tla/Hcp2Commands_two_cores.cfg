SPECIFICATION Spec
CONSTANTS
  DualCore = TRUE
  Presses = {"OPEN", "STOP"}
  Targets = {}
  Duties = {}
  Reports <- OpeningDoor
  StateNoise = {FALSE, TRUE}
  LostAnswerRepeats = 1
  UnactedRepeats = 2
  CmdStale = 1
  CmdConfirm = 1
  CmdGiveup = 2
  BusSilence = 3
  ClockMod = 16
  ClockStart = 14
  MaxTime = 4
  MaxLag = 1
  MaxPresses = 2
INVARIANTS
  RepeatsBounded
  TypeOK
  RepeatsMeetTheDeadline
PROPERTIES
  NoPressSentTwice
  ExpiresByItsOwnAge
