SPECIFICATION Spec
CONSTANTS
  Nobody = Nobody
  Players = {p1, p2, p3}
  SmallBlind = 1
  BigBlind = 2
  BuyIn = 3
  RakeBPS = 2500
  TwiceEnabled = FALSE
  MaxChips = 9
  MaxHands = 3
  MaxCalls = 1
  Commands = {"join", "leave"}
SYMMETRY Symmetry
CHECK_DEADLOCK FALSE
INVARIANTS
  ClosedBettingIsRunOut
