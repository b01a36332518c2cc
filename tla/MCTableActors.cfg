SPECIFICATION Spec
CONSTANTS
  alice = alice
  bob = bob
  Players = {alice, bob}
  Order <- HeadsUp
  Nobody = Nobody
  Ids = {x, y}
  NoId = NoId
  OutcomeId = OutcomeId
  Instances = {i1, i2}
  Trusting = {i1}
  NoRow = NoRow
  Faults = {"crash", "silence"}
  MaxVersion = 4
SYMMETRY Symmetry
CHECK_DEADLOCK FALSE
INVARIANTS
  OncePerHand
  CacheIsCommitted
  FirstTryIsFresh
  AckedIsCommitted
PROPERTIES
  ActsAsOne
