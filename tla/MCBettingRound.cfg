SPECIFICATION Spec
CONSTANTS
  Nobody = Nobody
  N = 3
  SmallBlind = 1
  BigBlind = 2
  MaxStack = 6
CHECK_DEADLOCK FALSE
INVARIANTS
  NoFreeRide
  NoSeatSkipped
PROPERTIES
  RaiseNeedsLicence
  RoundEnds
