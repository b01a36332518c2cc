SPECIFICATION FairSpec
CONSTANTS
  Callers = {c1, c2}
  Actors = {a1, a2, a3}
  Locks = {l1, l2}
  None = None
  MaxStops = 1
  Resolves = 2
  MaxRequests = 3
INVARIANTS
  OneActor
  NothingLeaks
PROPERTY
  RequestsAnswered
CHECK_DEADLOCK FALSE
