SPECIFICATION SpecConcurrent
CONSTANTS
  Lines = {l1, l2}
  Ordered <- MCOrdered
  Purchases = {p1, p2}
  MaxQuantity = 1
  Sessions = {a1, a2}
  None = None
SYMMETRY MCSymmetry
INVARIANTS ReadsStayTrue DecidedAsSeen NobodyWaitsInACircle
PROPERTIES ImplementsPurchaseBook FinalizedKeepsCommitments
CHECK_DEADLOCK FALSE
