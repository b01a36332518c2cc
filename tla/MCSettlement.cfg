SPECIFICATION FairSpec
CONSTANTS
  Players = {a, b}
  Requests = {r1, r2}
  Clicks = {x, z}
  Removals = {y}
  Sweeps = {s1}
  BuyIn = 1
  Funds = 2
  MaxAttempts = 2
CHECK_DEADLOCK FALSE
INVARIANTS
  MoneyAccounted
  OneCallPays
  ResolvedIsPaid
PROPERTIES
  RowsAreSettled
