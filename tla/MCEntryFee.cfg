SPECIFICATION Spec
CONSTANTS
  Requests = {r1, r2}
  Rooms = {A, B, C}
  None = None
  Window = 2
  MaxAttempts = 1
  MaxClock = 2
  MaxTurns = 1
  MaxAsks = 3
INVARIANTS
  PaidBeforeSeated
  OneLiveCharge
PROPERTY
  LeavesOnlyFilled
CHECK_DEADLOCK FALSE
SYMMETRY Symmetry
