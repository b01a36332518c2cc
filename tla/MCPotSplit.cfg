SPECIFICATION PotSpec
CONSTANTS
  Bettors = {p1, p2, p3, p4}
  MaxIn = 5
CHECK_DEADLOCK FALSE
INVARIANTS
  EveryChipLayered
  FairShares
  RefundIsUnmatched
