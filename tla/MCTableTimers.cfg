SPECIFICATION FairSpec
CONSTANTS
  alice = alice
  h1 = h1
  h2 = h2
  preflop = preflop
  flop = flop
  showdown = showdown
  Nobody = Nobody
  Nowhere = Nowhere
  Positions <- MCPositions
  Shape <- MCShape
  Follows <- MCFollows
  Start = 1
  MaxRetries = 1
  MaxArms = 2
  MaxQueued = 1
  MaxFaults = 2
  MaxRejections = 2
INVARIANTS
  KeyMeansPending
  StallsOnlyAfterFailures
CHECK_DEADLOCK FALSE
PROPERTY
  KeepsMoving
