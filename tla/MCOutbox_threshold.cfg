SPECIFICATION Spec
CONSTANTS
  Events <- MCOneEvent
  Consumers = {c1}
  Relays = {r1}
  MaxAttempts = 2
  None = None
  BatchLimit = 1
  TimeLimited = TRUE
  MaxFaults = 1
  MaxReplays = 0
INVARIANTS PendingHasAttemptsLeft
CHECK_DEADLOCK FALSE
