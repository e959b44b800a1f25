SPECIFICATION FairSpec
CONSTANTS
  MaxAttempts = 2
  Retry = 1
  ClockMod = 4
  ClockStart = 3
INVARIANTS
  TypeOK
  ShownIsWhole
  AckedIsKept
  AsksAreBounded
PROPERTIES
  AsksAreSpaced
  IdentityEnds
  ReceivedIsShown
