SPECIFICATION FairSpec
CONSTANTS
  PixKeys = {k1, k2}
  ChipKeys = {k3}
  Callers = {c1, c2}
  None = None
  MaxAsks = 3
  MaxStops = 1
CHECK_DEADLOCK FALSE
INVARIANTS
  OwnedIsPaid
PROPERTIES
  PaidIsOwned
  OnlyRefundTakes
