SPECIFICATION Spec
CONSTANTS
  Lines = {l1, l2}
  Ordered <- MCOrdered
  Purchases = {p1, p2, p3}
  MaxQuantity = 2
  None = None
SYMMETRY MCSymmetry
INVARIANTS CommittedWithinOrdered StatusTellsReceipts ReplacedOnce
PROPERTIES HistoryKept
CHECK_DEADLOCK FALSE
