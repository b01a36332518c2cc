SPECIFICATION Spec
CONSTANTS
  Players = {a, b}
  Requests = {r1, r2}
  Clicks = {x}
  Removals = {y}
  Sweeps = {s1}
  BuyIn = 1
  Funds = 2
  MaxAttempts = 2
SYMMETRY Symmetry
CHECK_DEADLOCK FALSE
INVARIANTS
  ChipsArePaid
