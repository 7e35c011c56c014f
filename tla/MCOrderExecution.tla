-------------------------- MODULE MCOrderExecution --------------------------
(***************************************************************************)
(* Instances of OrderExecution for TLC.                                    *)
(***************************************************************************)
EXTENDS OrderExecution, TLC
CONSTANTS o1, o2, l1, l2, p1, p2, s1, s2

\* Money: two orders of one customer share two receipts, each large enough for the
\* deposit and the balance of one order or for a part of both, on one day; or days
\* pass over the one order there is.
TwoOrders == {o1, o2}
OneLineEach == (l1 :> o1) @@ (l2 :> o2)
Single == [l \in Lines |-> 1]
MoneyTotal == (o1 :> 2) @@ (o2 :> 1)
OneCustomer == [o \in Orders |-> 1]
MoneyReceived == (p1 :> 2) @@ (p2 :> 2)
OnePayer == [p \in Payments |-> 1]
DaysOfOneOrder ==
  order[o2] # "ABSENT" => today = 0 /\ \A r \in Receivables : due[r] = 0

\* Shipping: one order of two lines, the first split over two shipments.
OneOrder == {o1}
BothLines == [l \in Lines |-> o1]
SplitQuantity == (l1 :> 2) @@ (l2 :> 1)
One == [o \in Orders |-> 1]
OneReceived == [p \in Payments |-> 1]

\* The documents of a shipment are all of one kind, and may be exchanged.
OneKind == [d \in Documents |-> 1]
DocumentsAlike == Permutations(Documents)

=============================================================================
