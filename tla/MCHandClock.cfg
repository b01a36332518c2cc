SPECIFICATION FairSpec
CONSTANTS
  Nobody = Nobody
  Players = {p1, p2}
  SmallBlind = 1
  BigBlind = 2
  BuyIn = 3
  RakeBPS = 2500
  TwiceEnabled = TRUE
  MaxChips = 6
  MaxHands = 2
  MaxCalls = 3
  Commands = {"join", "leave", "sitout", "exit", "cancel"}
CHECK_DEADLOCK FALSE
INVARIANTS
  ChipsConserved
PROPERTIES
  LeaversNotDealt
  HandEnds
  ExitHonored
