SPECIFICATION FairSpec
CONSTANTS
  DualCore = TRUE
  Presses = {"OPEN"}
  Targets = {}
  Duties = {"silence", "pause"}
  Reports <- StandingDoor
  StateNoise = {FALSE}
  LostAnswerRepeats = 0
  UnactedRepeats = 1
  CmdStale = 0
  CmdConfirm = 0
  CmdGiveup = 1
  BusSilence = 2
  ClockMod = 16
  ClockStart = 14
  MaxTime = 3
  MaxLag = 1
  MaxPresses = 1
PROPERTIES
  PressIsResolved
  LinkRecovers
