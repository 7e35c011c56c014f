SPECIFICATION UploadSpec
CONSTANTS
  o1 = o1
  o2 = o2
  l1 = l1
  l2 = l2
  p1 = p1
  p2 = p2
  s1 = s1
  s2 = s2
  Orders <- OneOrder
  Lines = {l1}
  OrderOf <- BothLines
  Quantity <- Single
  Total <- One
  Customer <- OneCustomer
  Payments = {p1}
  Received <- OneReceived
  Payer <- OnePayer
  Shipments = {s1}
  Documents = {d1}
  Kind <- OneKind
  LastDay = 0
  MaxQuantity = 1
  MaxTasks = 1
PROPERTIES DeliveredRegainsDocuments
CHECK_DEADLOCK FALSE
