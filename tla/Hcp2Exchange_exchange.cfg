SPECIFICATION Spec
CONSTANTS
  Presses = {"OPEN", "STOP"}
  Doors = {"CLOSED", "OPENING"}
  Drives <- EveryDrive
  CounterMax = 3
  LostAnswerRepeats = 2
  UnactedRepeats = 1
  MaxEvents <- Events
INVARIANTS
  TypeOK
  ReceiptIsReliable
  NoPressIsForgotten
  AcknowledgedByItsOwn
PROPERTIES
  ImplementsDelivery
  NothingOutdatedArrives
