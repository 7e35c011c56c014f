SPECIFICATION SpecConcurrent
CONSTANTS
  Purchases = {b1}
  Price <- MCPrice
  Payables <- MCPayables
  Payments = {p1, p2}
  MaxAmount = 2
  MaxShare = 1
  Sessions = {a1, a2}
  None = None
SYMMETRY MCSymmetry
CONSTRAINT OneLargePayment
INVARIANTS LedgerSound ReadsStayTrue SettledAsSeen NobodyWaitsInACircle
PROPERTIES ImplementsSupplierLedger
CHECK_DEADLOCK FALSE
