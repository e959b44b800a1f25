SPECIFICATION Spec
CONSTANTS
  DualCore = FALSE
  Presses = {"OPEN"}
  Targets = {1}
  Duties = {}
  Reports <- StandingDoor
  StateNoise = {FALSE}
  LostAnswerRepeats = 1
  UnactedRepeats = 1
  CmdStale = 1
  CmdConfirm = 1
  CmdGiveup = 2
  BusSilence = 3
  ClockMod = 16
  ClockStart = 14
  MaxTime = 3
  MaxLag = 1
  MaxPresses = 2
INVARIANTS
  TargetBelongsToItsRun
