SPECIFICATION Spec
CONSTANTS
  o1 = o1
  o2 = o2
  l1 = l1
  l2 = l2
  p1 = p1
  p2 = p2
  s1 = s1
  s2 = s2
  Orders <- TwoOrders
  Lines = {l1, l2}
  OrderOf <- OneLineEach
  Quantity <- Single
  Total <- MoneyTotal
  Customer <- OneCustomer
  Payments = {p1, p2}
  Received <- MoneyReceived
  Payer <- OnePayer
  Shipments = {s1}
  Documents = {}
  Kind <- OneKind
  LastDay = 2
  MaxQuantity = 1
  MaxTasks = 1
CONSTRAINT DaysOfOneOrder
INVARIANTS DepositGatesExecution ReceivablesFollowLedger ReceiptsAddUp CompletedIsSettled
PROPERTIES CompletedIsFrozen
CHECK_DEADLOCK FALSE
