SPECIFICATION Spec
CONSTANTS
  Nobody = Nobody
  Players = {p1, p2, p3}
  SmallBlind = 1
  BigBlind = 2
  BuyIn = 3
  RakeBPS = 2500
  TwiceEnabled = FALSE
  MaxChips = 9
  MaxHands = 2
  MaxCalls = 2
  Commands = {"join", "leave", "ready", "sitout", "exit", "cancel", "post", "rebuy"}
SYMMETRY Symmetry
CHECK_DEADLOCK FALSE
INVARIANTS
  ChipsConserved
  SomebodyIsAwaited
  StreetsAreLevel
  HandMatchesRound
PROPERTIES
  FoldedForfeit
  ButtonHolds
  ClockIsKept
  EntrantsPost
