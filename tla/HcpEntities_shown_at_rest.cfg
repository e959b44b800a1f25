SPECIFICATION Spec
CONSTANTS
  Doors = {"CLOSED", "OPENING", "MOVE_HALF", "HALFOPEN"}
  Positions = {0, 1}
  BusLinks = {"ENUMERATING", "REGISTERED", "PAUSED"}
  Groups = {"door", "light", "text"}
INVARIANTS
  TypeOK
  DoorIsShown
  NoMovementWithoutLink
  LightIsShown
  StateIsShown
PROPERTIES
  NobodySwitches
