SPECIFICATION Spec
CONSTANTS
  o1 = o1
  o2 = o2
  l1 = l1
  l2 = l2
  p1 = p1
  p2 = p2
  s1 = s1
  s2 = s2
  Orders <- OneOrder
  Lines = {l1, l2}
  OrderOf <- BothLines
  Quantity <- SplitQuantity
  Total <- One
  Customer <- OneCustomer
  Payments = {p1}
  Received <- OneReceived
  Payer <- OnePayer
  Shipments = {s1, s2}
  Documents = {d1, d2}
  Kind <- OneKind
  LastDay = 0
  MaxQuantity = 2
  MaxTasks = 1
SYMMETRY DocumentsAlike
INVARIANTS OrderFollowsShipments
CHECK_DEADLOCK FALSE
