SPECIFICATION FairSpec
CONSTANTS
  Events <- MCEvents
  Consumers = {c1}
  Relays = {r1, r2}
  MaxAttempts = 2
  None = None
  BatchLimit = 1
  TimeLimited = TRUE
  MaxFaults = 1
  MaxReplays = 0
PROPERTIES EventSettles
CHECK_DEADLOCK FALSE
