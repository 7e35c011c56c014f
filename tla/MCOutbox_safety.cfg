SPECIFICATION Spec
CONSTANTS
  Events <- MCEvents
  Consumers = {c1, c2}
  Relays = {r1, r2}
  MaxAttempts = 2
  None = None
  BatchLimit = 2
  TimeLimited = TRUE
  MaxFaults = 1
  MaxReplays = 1
SYMMETRY MCSymmetry
INVARIANTS EffectMatchesReceipt ClaimsAreExclusive StatusIsTruthful AttemptsBounded
PROPERTIES ImplementsDelivery
CHECK_DEADLOCK FALSE
