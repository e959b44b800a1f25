SPECIFICATION Spec
CONSTANTS
  DualCore = TRUE
  Presses = {"OPEN"}
  Targets = {1}
  Duties = {"silence", "pause"}
  Reports <- RunningDoor
  StateNoise = {FALSE}
  LostAnswerRepeats = 1
  UnactedRepeats = 0
  CmdStale = 0
  CmdConfirm = 0
  CmdGiveup = 1
  BusSilence = 2
  ClockMod = 16
  ClockStart = 14
  MaxTime = 3
  MaxLag = 1
  MaxPresses = 1
INVARIANTS
  NoPressOnDeadLink
PROPERTIES
  NothingHeldAcrossAPause
