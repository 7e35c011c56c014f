----------------------- MODULE OrderExecutionProofs -------------------------
(***************************************************************************)
(* Proofs about OrderExecution for any orders, receipts and shipments.     *)
(*                                                                         *)
(* None of the properties is inductive alone.  Whether an order may fall   *)
(* back to DEPOSIT_PENDING hangs on its shipments, whether its deposit is  *)
(* PAID on the ledger, and whether a row of the ledger can move at all on  *)
(* the receivable having been generated: Coupling joins the three.  What   *)
(* shipments cover of an order and what receipts pay are sums, proved with *)
(* the laws of FiniteSums, as is what completion leaves behind.            *)
(***************************************************************************)
EXTENDS OrderExecution, FiniteSums

Coupling ==
  /\ \A r \in Receivables, p \in Payments : allocated[p][r] > 0 => Exists(r)
  /\ \A r \in Receivables : order[r[1]] \in {"ABSENT", "DRAFT"} => ~Exists(r)
  /\ \A s \in Shipments, l \in Lines : shipment[s] = "ABSENT" => load[s][l] = 0
  /\ \A o \in Orders : order[o] \in {"READY_TO_SHIP", "SHIPPED", "COMPLETED"} => HasShipments(o)
  /\ \A o \in Orders : Finalized(o) => tasks[o] = 0

IInv == TypeOK /\ Coupling /\ ReceivablesFollowLedger /\ DepositGatesExecution

-----------------------------------------------------------------------------
(* What the operators of the commands return.                              *)

\* Installments are numbers, and what identifies one names its order.
LEMMA AmountsAreNumbers ==
  ASSUME TypeOK, NEW r \in Receivables PROVE Amount(r) \in Int /\ r[1] \in Orders
  BY OrderAssumption DEF TypeOK, Amount, Receivables

\* The status of a receivable tells how its paid total compares with its amount
\* and whether its date has come.
LEMMA StatusTellsLedger ==
  ASSUME NEW amount \in Int, NEW paid \in Int, NEW dueOn \in Int, NEW day \in Int,
         NEW s, s = StatusFor(amount, paid, dueOn, day)
  PROVE  /\ s \in ReceivableStatus \ {"ABSENT"}
         /\ s = "PAID" <=> paid >= amount
         /\ s = "PARTIALLY_PAID" <=> 0 < paid /\ paid < amount
         /\ s = "OVERDUE" => dueOn < day
         /\ s = "DUE" => dueOn = day
  BY DEF StatusFor, Unpaid, ReceivableStatus

\* A receipt moves an order only between DEPOSIT_PENDING and EXECUTING.
LEMMA AllocationMovesOrder ==
  ASSUME NEW state, NEW settled \in BOOLEAN, NEW reversed \in BOOLEAN
  PROVE  LET next == AfterAllocation(state, settled, reversed) IN
         /\ state = "DEPOSIT_PENDING" =>
              next = IF settled /\ ~reversed THEN "EXECUTING" ELSE "DEPOSIT_PENDING"
         /\ state = "EXECUTING" =>
              next = IF ~settled /\ reversed THEN "DEPOSIT_PENDING" ELSE "EXECUTING"
         /\ state \notin {"DEPOSIT_PENDING", "EXECUTING"} => next = state
  BY DEF AfterAllocation

-----------------------------------------------------------------------------
LEMMA SettleIsTyped ==
  ASSUME TypeOK, NEW R \in SUBSET Receivables, NEW total \in [Receivables -> Int],
         NEW reversed \in BOOLEAN, Settle(R, total, reversed)
  PROVE  /\ ledger' \in [Receivables -> Int]
         /\ receivable' \in [Receivables -> ReceivableStatus]
         /\ order' \in [Orders -> OrderStatus]
<1>1. ledger' \in [Receivables -> Int]
  BY DEF Settle, TypeOK
<1>2. receivable' \in [Receivables -> ReceivableStatus]
  <2> DEFINE f == [r \in Receivables |->
                     IF r \in R THEN StatusFor(Amount(r), total[r], due[r], today)
                                ELSE receivable[r]]
  <2>1. receivable' = f
    BY DEF Settle
  <2>2. ASSUME NEW r \in Receivables
        PROVE  StatusFor(Amount(r), total[r], due[r], today) \in ReceivableStatus
    <3>1. Amount(r) \in Int /\ total[r] \in Int /\ due[r] \in Int /\ today \in Int
      BY AmountsAreNumbers, BoundsAssumption DEF TypeOK, Days
    <3> QED BY <3>1, StatusTellsLedger
  <2>3. \A r \in Receivables : receivable[r] \in ReceivableStatus
    BY DEF TypeOK
  <2> QED BY <2>1, <2>2, <2>3
<1>3. order' \in [Orders -> OrderStatus]
  <2>1. \A o \in Orders : order[o] \in OrderStatus
    BY DEF TypeOK
  <2>2. \A o \in Orders, settled \in BOOLEAN :
          AfterAllocation(order[o], settled, reversed) \in OrderStatus
    BY <2>1 DEF AfterAllocation, OrderStatus
  <2> QED BY <2>1, <2>2 DEF Settle
<1> QED BY <1>1, <1>2, <1>3

LEMMA TypeInductive == TypeOK /\ [Next]_vars => TypeOK'
<1> SUFFICES ASSUME TypeOK, [Next]_vars PROVE TypeOK'
  OBVIOUS
<1> USE OrderAssumption, PaymentAssumption, BoundsAssumption
<1> USE DEF orderVars, moneyVars, shippingVars
<1>1. ASSUME NEW o \in Orders, OrderStep(o) PROVE TypeOK'
  <2>1. CASE Create(o)
    BY <2>1 DEF Create, TypeOK, OrderStatus
  <2>2. CASE Confirm(o)
    <3>1. tasks' \in [Orders -> 0..MaxTasks]
      BY <2>2 DEF Confirm, TypeOK
    <3> QED BY <2>2, <3>1 DEF Confirm, TypeOK, OrderStatus
  <2>3. CASE Complete(o)
    BY <2>3 DEF Complete, TypeOK, OrderStatus
  <2>4. CASE ApprovedFollowUp(o)
    BY <2>4 DEF ApprovedFollowUp, TypeOK
  <2>5. CASE CompleteTask(o)
    BY <2>5 DEF CompleteTask, TypeOK
  <2>6. CASE GenerateReceivables(o)
    <3>1. PICK dates \in [{"DEPOSIT", "BALANCE"} -> Days] :
            /\ due' = [r \in Receivables |->
                         IF r[1] = o /\ Amount(r) > 0 THEN dates[r[2]] ELSE due[r]]
            /\ receivable' = [r \in Receivables |->
                                IF r[1] = o /\ Amount(r) > 0
                                THEN StatusFor(Amount(r), 0, dates[r[2]], today)
                                ELSE receivable[r]]
      BY <2>6 DEF GenerateReceivables
    <3>2. \A r \in Receivables : dates[r[2]] \in Days
      BY DEF Receivables
    <3>3. due' \in [Receivables -> Days]
      BY <3>1, <3>2 DEF TypeOK
    <3>4. ASSUME NEW r \in Receivables
          PROVE  StatusFor(Amount(r), 0, dates[r[2]], today) \in ReceivableStatus
      <4>1. Amount(r) \in Int /\ dates[r[2]] \in Int /\ today \in Int
        BY <3>2, AmountsAreNumbers DEF TypeOK, Days
      <4> QED BY <4>1, StatusTellsLedger
    <3>5. receivable' \in [Receivables -> ReceivableStatus]
      BY <3>1, <3>4 DEF TypeOK
    <3> QED BY <2>6, <3>3, <3>5 DEF GenerateReceivables, TypeOK
  <2> QED BY <1>1, <2>1, <2>2, <2>3, <2>4, <2>5, <2>6 DEF OrderStep
<1>2. ASSUME NEW p \in Payments, PaymentStep(p) PROVE TypeOK'
  <2>1. CASE RecordPayment(p)
    BY <2>1 DEF RecordPayment, TypeOK, PaymentStatus
  <2>2. CASE Allocate(p)
    <3>1. PICK share \in [Receivables -> 0..Received[p]] :
            /\ Settle({r \in Receivables : share[r] > 0},
                      [r \in Receivables |-> ledger[r] + share[r]], FALSE)
            /\ allocated' = [allocated EXCEPT ![p] =
                               [r \in Receivables |-> allocated[p][r] + share[r]]]
      BY <2>2 DEF Allocate
    <3>2. \A r \in Receivables : share[r] \in Nat
      OBVIOUS
    <3>3. [r \in Receivables |-> ledger[r] + share[r]] \in [Receivables -> Int]
      BY <3>2 DEF TypeOK
    <3>4. /\ ledger' \in [Receivables -> Int]
          /\ receivable' \in [Receivables -> ReceivableStatus]
          /\ order' \in [Orders -> OrderStatus]
      BY <3>1, <3>3, SettleIsTyped
    <3>5. \A r \in Receivables : allocated[p][r] + share[r] \in Nat
      BY <3>2 DEF TypeOK
    <3>6. allocated' \in [Payments -> [Receivables -> Nat]]
      BY <3>1, <3>5 DEF TypeOK
    <3> QED BY <2>2, <3>4, <3>6 DEF Allocate, TypeOK
  <2>3. CASE Reverse(p)
    <3>1. [r \in Receivables |-> ledger[r] - allocated[p][r]] \in [Receivables -> Int]
      BY DEF TypeOK
    <3>2. /\ ledger' \in [Receivables -> Int]
          /\ receivable' \in [Receivables -> ReceivableStatus]
          /\ order' \in [Orders -> OrderStatus]
      BY <2>3, <3>1, SettleIsTyped DEF Reverse
    <3> QED BY <2>3, <3>2 DEF Reverse, TypeOK, PaymentStatus
  <2> QED BY <1>2, <2>1, <2>2, <2>3 DEF PaymentStep
<1>3. ASSUME NEW s \in Shipments, ShipmentStep(s) PROVE TypeOK'
  <2>1. CASE CreateShipment(s)
    BY <2>1 DEF CreateShipment, TypeOK, ShipmentStatus
  <2>2. ASSUME NEW from \in ShipmentStatus, NEW to \in ShipmentStatus, Milestone(s, from, to),
               order' \in [Orders -> OrderStatus]
        PROVE  TypeOK'
    BY <2>2 DEF Milestone, TypeOK
  <2>3. order \in [Orders -> OrderStatus]
    BY DEF TypeOK
  <2>4. ASSUME NEW target \in OrderStatus, NEW states, NEW status,
               RefreshProgress(s, target, states, status)
        PROVE  order' \in [Orders -> OrderStatus]
    BY <2>3, <2>4 DEF RefreshProgress
  <2>5. CASE Book(s) \/ EnterCustoms(s) \/ StartTransit(s) \/ Arrive(s) \/ Deliver(s)
    BY <2>2, <2>3, <2>5
       DEF Book, EnterCustoms, StartTransit, Arrive, Deliver, ShipmentStatus
  <2>6. CASE Ready(s)
    BY <2>2, <2>4, <2>6 DEF Ready, ShipmentStatus, OrderStatus
  <2>7. CASE Depart(s)
    BY <2>2, <2>4, <2>7 DEF Depart, ShipmentStatus, OrderStatus
  <2> QED BY <1>3, <2>1, <2>5, <2>6, <2>7 DEF ShipmentStep
<1>4. ASSUME NEW s \in Shipments, NEW d \in Documents, DocumentStep(s, d) PROVE TypeOK'
  <2>1. PICK status \in DocumentStatus : SetDocument(s, d, status)
    BY <1>4
       DEF DocumentStep, CreateUpload, CreateVersion, StartUpload, CompleteUpload, ScanDocument, DocumentStatus
  <2>2. document' \in [Shipments -> [Documents -> DocumentStatus]]
    BY <2>1 DEF SetDocument, TypeOK
  <2> QED BY <2>1, <2>2 DEF SetDocument, TypeOK
<1>5. CASE RefreshStatuses
  <2>1. PICK R \in SUBSET Receivables :
          receivable' = [r \in Receivables |->
                           IF r \in R THEN StatusFor(Amount(r), ledger[r], due[r], today)
                                      ELSE receivable[r]]
    BY <1>5 DEF RefreshStatuses
  <2>2. ASSUME NEW r \in Receivables
        PROVE  StatusFor(Amount(r), ledger[r], due[r], today) \in ReceivableStatus
    <3>1. Amount(r) \in Int /\ ledger[r] \in Int /\ due[r] \in Int /\ today \in Int
      BY AmountsAreNumbers DEF TypeOK, Days
    <3> QED BY <3>1, StatusTellsLedger
  <2>3. receivable' \in [Receivables -> ReceivableStatus]
    BY <2>1, <2>2 DEF TypeOK
  <2> QED BY <1>5, <2>3 DEF RefreshStatuses, TypeOK
<1>6. CASE NextDay
  BY <1>6 DEF NextDay, TypeOK, Days
<1>7. CASE UNCHANGED vars
  BY <1>7 DEF vars, TypeOK
<1> QED BY <1>1, <1>2, <1>3, <1>4, <1>5, <1>6, <1>7 DEF Next

\* The rows of orders, receivables, receipts, shipments and documents keep to the
\* domains their columns have, under any commands (the status columns).
THEOREM TypeCorrect == Spec => []TypeOK
<1>1. Init => TypeOK
  BY OrderAssumption, BoundsAssumption
     DEF Init, TypeOK, OrderStatus, ReceivableStatus, PaymentStatus, ShipmentStatus,
         DocumentStatus, Days
<1> QED BY <1>1, TypeInductive, PTL DEF Spec

-----------------------------------------------------------------------------
(* Receivables: the ledger and the date decide the status.                 *)

\* ReceivablesFollowLedger for one receivable.
Follows(r) ==
  /\ ledger[r] > 0 => Exists(r)
  /\ Exists(r) =>
       /\ ledger[r] <= Amount(r)
       /\ receivable[r] = "PAID" <=> ledger[r] = Amount(r)
       /\ receivable[r] = "PARTIALLY_PAID" <=> 0 < ledger[r] /\ ledger[r] < Amount(r)
       /\ receivable[r] = "OVERDUE" => due[r] < today
       /\ receivable[r] = "DUE" => due[r] <= today

LEMMA FollowsEach == ReceivablesFollowLedger <=> \A r \in Receivables : Follows(r)
  BY DEF ReceivablesFollowLedger, Follows

\* A receivable whose row, amount and ledger a step leaves alone still follows
\* them, whatever day it becomes.
LEMMA FollowsFrame ==
  ASSUME TypeOK, NEW r \in Receivables, Follows(r),
         receivable'[r] = receivable[r], due'[r] = due[r], ledger'[r] = ledger[r],
         deposit'[r[1]] = deposit[r[1]], today' \in Int, today <= today'
  PROVE  Follows(r)'
<1>1. Amount(r)' = Amount(r)
  BY DEF Amount
<1>2. due[r] \in Int /\ today \in Int
  BY DEF TypeOK, Days
<1> QED BY <1>1, <1>2 DEF Follows, Exists

\* One whose status is computed anew follows its ledger, if it is not overpaid.
LEMMA FollowsAnew ==
  ASSUME TypeOK, NEW r \in Receivables, Amount(r)' = Amount(r),
         due'[r] \in Int, today' = today, ledger'[r] \in Int,
         ledger'[r] <= Amount(r),
         receivable'[r] = StatusFor(Amount(r), ledger'[r], due'[r], today)
  PROVE  Follows(r)' /\ Exists(r)'
<1>1. Amount(r) \in Int /\ today \in Int
  BY AmountsAreNumbers DEF TypeOK, Days
<1> DEFINE s == StatusFor(Amount(r), ledger'[r], due'[r], today)
<1>2. /\ s \in ReceivableStatus \ {"ABSENT"}
      /\ s = "PAID" <=> ledger'[r] >= Amount(r)
      /\ s = "PARTIALLY_PAID" <=> 0 < ledger'[r] /\ ledger'[r] < Amount(r)
      /\ s = "OVERDUE" => due'[r] < today
      /\ s = "DUE" => due'[r] = today
  BY <1>1, StatusTellsLedger
<1>3. receivable'[r] = s
  OBVIOUS
<1> HIDE DEF s
<1>4. Exists(r)'
  BY <1>2, <1>3 DEF Exists, ReceivableStatus
<1> QED BY <1>1, <1>2, <1>3, <1>4 DEF Follows

LEMMA SettleFollows ==
  ASSUME TypeOK, ReceivablesFollowLedger, NEW R \in SUBSET Receivables,
         NEW total \in [Receivables -> Int], NEW reversed \in BOOLEAN,
         Settle(R, total, reversed), \A r \in R : total[r] <= Amount(r),
         UNCHANGED <<deposit, due, today>>
  PROVE  /\ ReceivablesFollowLedger'
         /\ \A r \in Receivables : Exists(r) => Exists(r)'
<1> SUFFICES ASSUME NEW r \in Receivables
             PROVE  Follows(r)' /\ (Exists(r) => Exists(r)')
  BY FollowsEach DEF ReceivablesFollowLedger, Follows
<1>1. Follows(r) /\ Amount(r)' = Amount(r) /\ today \in Int /\ due[r] \in Int
  BY FollowsEach DEF Amount, TypeOK, Days
<1>2. CASE r \in R
  <2>1. /\ ledger'[r] = total[r]
        /\ receivable'[r] = StatusFor(Amount(r), total[r], due[r], today)
    BY <1>2 DEF Settle
  <2> QED BY <1>1, <1>2, <2>1, FollowsAnew
<1>3. CASE r \notin R
  <2>1. ledger'[r] = ledger[r] /\ receivable'[r] = receivable[r]
    BY <1>3 DEF Settle
  <2> QED BY <1>1, <2>1, FollowsFrame DEF Exists
<1> QED BY <1>2, <1>3

LEMMA GenerateFollows ==
  ASSUME IInv, NEW o \in Orders, GenerateReceivables(o)
  PROVE  ReceivablesFollowLedger'
<1> SUFFICES ASSUME NEW r \in Receivables PROVE Follows(r)'
  BY DEF ReceivablesFollowLedger, Follows
<1>1. TypeOK /\ Follows(r) /\ Amount(r) \in Int
  BY FollowsEach, AmountsAreNumbers DEF IInv
<1>2. PICK dates \in [{"DEPOSIT", "BALANCE"} -> Days] :
        /\ due' = [q \in Receivables |->
                     IF q[1] = o /\ Amount(q) > 0 THEN dates[q[2]] ELSE due[q]]
        /\ receivable' = [q \in Receivables |->
                            IF q[1] = o /\ Amount(q) > 0
                            THEN StatusFor(Amount(q), 0, dates[q[2]], today)
                            ELSE receivable[q]]
  BY DEF GenerateReceivables
<1>3. UNCHANGED <<deposit, ledger, today>> /\ Amount(r)' = Amount(r) /\ today \in Int
  BY <1>1 DEF GenerateReceivables, orderVars, Amount, TypeOK, Days
<1>4. CASE r[1] = o /\ Amount(r) > 0
  <2>1. ledger[r] \in Int /\ ledger[r] <= 0
    BY <1>1, <1>4 DEF GenerateReceivables, Follows, TypeOK
  <2>2. dates[r[2]] \in Int
    BY DEF Receivables, Days
  <2> DEFINE s == StatusFor(Amount(r), 0, dates[r[2]], today)
  <2>3. receivable'[r] = s /\ due'[r] = dates[r[2]]
    BY <1>2, <1>4
  <2>4. /\ s = "PAID" <=> 0 >= Amount(r)
        /\ s = "PARTIALLY_PAID" <=> 0 < 0 /\ 0 < Amount(r)
        /\ s = "OVERDUE" => dates[r[2]] < today
        /\ s = "DUE" => dates[r[2]] = today
    BY <1>1, <1>3, <2>2, StatusTellsLedger
  <2> HIDE DEF s
  <2> QED BY <1>1, <1>3, <1>4, <2>1, <2>2, <2>3, <2>4 DEF Follows
<1>5. CASE ~(r[1] = o /\ Amount(r) > 0)
  <2>1. due'[r] = due[r] /\ receivable'[r] = receivable[r]
    BY <1>2, <1>5
  <2> QED BY <1>1, <1>3, <2>1, FollowsFrame
<1> QED BY <1>4, <1>5

LEMMA RefreshFollows ==
  ASSUME TypeOK, ReceivablesFollowLedger, RefreshStatuses
  PROVE  /\ ReceivablesFollowLedger'
         /\ \A r \in Receivables : (receivable'[r] = "PAID") = (receivable[r] = "PAID")
         /\ \A r \in Receivables : Exists(r)' = Exists(r)
<1>1. PICK R \in SUBSET {r \in Receivables : Stale(r)} :
        receivable' = [r \in Receivables |->
                         IF r \in R THEN StatusFor(Amount(r), ledger[r], due[r], today)
                                    ELSE receivable[r]]
  BY DEF RefreshStatuses
<1>2. UNCHANGED <<deposit, ledger, due, today>>
  BY DEF RefreshStatuses, orderVars
<1> SUFFICES ASSUME NEW r \in Receivables
             PROVE  /\ Follows(r)'
                    /\ (receivable'[r] = "PAID") = (receivable[r] = "PAID")
                    /\ Exists(r)' = Exists(r)
  BY DEF ReceivablesFollowLedger, Follows
<1>3. /\ Follows(r) /\ Amount(r)' = Amount(r) /\ Amount(r) \in Int
      /\ due[r] \in Int /\ today \in Int /\ ledger[r] \in Int
  BY <1>2, FollowsEach, AmountsAreNumbers DEF TypeOK, Days, Amount
<1>4. CASE r \in R
  <2>1. Exists(r) /\ receivable[r] # "PAID"
    BY <1>4 DEF Stale, Exists
  <2>2. receivable'[r] = StatusFor(Amount(r), ledger[r], due[r], today)
    BY <1>1, <1>4
  <2>3. ledger[r] <= Amount(r) /\ ledger[r] # Amount(r)
    BY <1>3, <2>1 DEF Follows
  <2>4. Follows(r)' /\ Exists(r)'
    BY <1>2, <1>3, <2>2, <2>3, FollowsAnew
  <2>5. receivable'[r] # "PAID"
    BY <1>2, <1>3, <2>3, <2>4 DEF Follows
  <2> QED BY <2>1, <2>4, <2>5
<1>5. CASE r \notin R
  <2>1. receivable'[r] = receivable[r]
    BY <1>1, <1>5
  <2> QED BY <1>2, <1>3, <2>1, FollowsFrame DEF Exists
<1> QED BY <1>4, <1>5

\* What allocate does, in terms of the receivables it pays.
LEMMA AllocateSettles ==
  ASSUME TypeOK, NEW p \in Payments, Allocate(p)
  PROVE  \E R \in SUBSET Receivables, total \in [Receivables -> Int] :
           /\ Settle(R, total, FALSE)
           /\ \A r \in R : Exists(r) /\ ledger[r] < total[r] /\ total[r] <= Amount(r)
           /\ \A q \in Payments, r \in Receivables :
                allocated'[q][r] > 0 => allocated[q][r] > 0 \/ r \in R
<1>1. PICK share \in [Receivables -> 0..Received[p]] :
        /\ \A r \in {q \in Receivables : share[q] > 0} : Payable(p, r, share[r])
        /\ Settle({r \in Receivables : share[r] > 0},
                  [r \in Receivables |-> ledger[r] + share[r]], FALSE)
        /\ allocated' = [allocated EXCEPT ![p] =
                           [r \in Receivables |-> allocated[p][r] + share[r]]]
  BY DEF Allocate
<1>2. \A r \in Receivables : share[r] \in Nat /\ ledger[r] \in Int
  BY PaymentAssumption DEF TypeOK
<1> DEFINE R == {r \in Receivables : share[r] > 0}
           total == [r \in Receivables |-> ledger[r] + share[r]]
<1>3. total \in [Receivables -> Int]
  BY <1>2
<1>4. \A r \in R : Exists(r) /\ ledger[r] < total[r] /\ total[r] <= Amount(r)
  BY <1>1, <1>2 DEF Payable
<1>5. ASSUME NEW q \in Payments, NEW r \in Receivables, allocated'[q][r] > 0
      PROVE  allocated[q][r] > 0 \/ r \in R
  <2>1. allocated[q][r] \in Nat /\ share[r] \in Nat
    BY <1>2 DEF TypeOK
  <2>2. allocated'[q][r] = allocated[q][r] \/ allocated'[q][r] = allocated[q][r] + share[r]
    BY <1>1 DEF TypeOK
  <2> QED BY <1>5, <2>1, <2>2
<1> QED BY <1>1, <1>3, <1>4, <1>5

\* What reverse does: every row of the receipt comes off a receivable.
LEMMA ReverseSettles ==
  ASSUME IInv, NEW p \in Payments, Reverse(p)
  PROVE  \E R \in SUBSET Receivables, total \in [Receivables -> Int] :
           /\ Settle(R, total, TRUE)
           /\ Reversible(R)
           /\ \A r \in R : Exists(r) /\ total[r] < Amount(r)
<1> DEFINE R == {r \in Receivables : allocated[p][r] > 0}
           total == [r \in Receivables |-> ledger[r] - allocated[p][r]]
<1>1. total \in [Receivables -> Int]
  BY DEF IInv, TypeOK
<1>2. Reversible(R) /\ Settle(R, total, TRUE)
  BY DEF Reverse
<1>3. ASSUME NEW r \in R PROVE Exists(r) /\ total[r] < Amount(r)
  <2>1. Exists(r) /\ Follows(r) /\ Amount(r) \in Int
    BY FollowsEach, AmountsAreNumbers DEF IInv, Coupling
  <2>2. ledger[r] \in Int /\ allocated[p][r] \in Nat /\ ledger[r] <= Amount(r)
    BY <2>1 DEF IInv, TypeOK, Follows
  <2> QED BY <2>1, <2>2
<1> QED BY <1>1, <1>2, <1>3

LEMMA LedgerInductive == IInv /\ [Next]_vars => ReceivablesFollowLedger'
<1> SUFFICES ASSUME IInv, [Next]_vars PROVE ReceivablesFollowLedger'
  OBVIOUS
<1> USE DEF orderVars, moneyVars, shippingVars
<1>1. TypeOK /\ ReceivablesFollowLedger /\ today \in Int
  BY DEF IInv, TypeOK, Days
<1>2. ASSUME UNCHANGED <<receivable, due, ledger, deposit>>, today' \in Int, today <= today'
      PROVE  ReceivablesFollowLedger'
  <2>1. \A r \in Receivables : Follows(r) => Follows(r)'
    BY <1>1, <1>2, FollowsFrame
  <2> QED BY <1>1, <2>1, FollowsEach DEF ReceivablesFollowLedger, Follows
<1>3. ASSUME NEW o \in Orders, Create(o) PROVE ReceivablesFollowLedger'
  <2>1. ASSUME NEW r \in Receivables PROVE Follows(r)'
    <3>1. Follows(r) /\ UNCHANGED <<receivable, due, ledger, today>>
      BY <1>1, <1>3, FollowsEach DEF Create
    <3>2. CASE r[1] = o
      <4>1. ~Exists(r)
        BY <1>3, <3>2 DEF Create, IInv, Coupling
      <4> QED BY <3>1, <4>1 DEF Follows, Exists
    <3>3. CASE r[1] # o
      <4>1. deposit'[r[1]] = deposit[r[1]]
        BY <1>1, <1>3, <3>3, AmountsAreNumbers DEF Create, TypeOK
      <4> QED BY <1>1, <3>1, <4>1, FollowsFrame
    <3> QED BY <3>2, <3>3
  <2> QED BY <2>1 DEF ReceivablesFollowLedger, Follows
<1>4. ASSUME NEW p \in Payments, Allocate(p) PROVE ReceivablesFollowLedger'
  BY <1>1, <1>4, AllocateSettles, SettleFollows DEF Allocate
<1>5. ASSUME NEW p \in Payments, Reverse(p) PROVE ReceivablesFollowLedger'
  <2>1. PICK R \in SUBSET Receivables, total \in [Receivables -> Int] :
          Settle(R, total, TRUE) /\ \A r \in R : total[r] < Amount(r)
    BY <1>5, ReverseSettles
  <2>2. \A r \in R : total[r] <= Amount(r)
    BY <1>1, <2>1, AmountsAreNumbers
  <2> QED BY <1>1, <1>5, <2>1, <2>2, SettleFollows DEF Reverse
<1>6. CASE NextDay
  BY <1>1, <1>2, <1>6 DEF NextDay
<1>7. CASE UNCHANGED vars
  BY <1>1, <1>2, <1>7 DEF vars
<1>8. ASSUME NEW o \in Orders, Confirm(o) \/ Complete(o) \/ ApprovedFollowUp(o) \/ CompleteTask(o)
      PROVE  ReceivablesFollowLedger'
  BY <1>1, <1>2, <1>8 DEF Confirm, Complete, ApprovedFollowUp, CompleteTask
<1>9. ASSUME NEW p \in Payments, RecordPayment(p) PROVE ReceivablesFollowLedger'
  BY <1>1, <1>2, <1>9 DEF RecordPayment
<1>10. ASSUME NEW s \in Shipments, ShipmentStep(s) PROVE ReceivablesFollowLedger'
  BY <1>1, <1>2, <1>10 DEF ShipmentStep, CreateShipment, Book, Ready, EnterCustoms,
     Depart, StartTransit, Arrive, Deliver, Milestone
<1>11. ASSUME NEW s \in Shipments, NEW d \in Documents, DocumentStep(s, d)
       PROVE  ReceivablesFollowLedger'
  BY <1>1, <1>2, <1>11
     DEF DocumentStep, CreateUpload, CreateVersion, StartUpload, CompleteUpload, ScanDocument, SetDocument
<1> QED BY <1>1, <1>3, <1>4, <1>5, <1>6, <1>7, <1>8, <1>9, <1>10, <1>11,
           GenerateFollows, RefreshFollows DEF Next, OrderStep, PaymentStep

-----------------------------------------------------------------------------
(* Orders, and what is coupled to their status.                            *)

LEMMA ParentsHaveShipments ==
  ASSUME NEW s \in Shipments, NEW o \in Orders, o \in Parents(s)
  PROVE  HasShipments(o)
  BY DEF Parents, HasShipments

\* How an order moves, without saying when its shipments let it.
LEMMA OrderSteps ==
  ASSUME TypeOK, [Next]_vars, NEW o \in Orders, order'[o] # order[o]
  PROVE  \/ order[o] = "ABSENT" /\ order'[o] = "DRAFT"
         \/ /\ order[o] = "DRAFT"
            /\ order'[o] = IF deposit[o] > 0 THEN "DEPOSIT_PENDING" ELSE "EXECUTING"
            /\ UNCHANGED <<receivable, deposit>>
         \/ /\ order[o] \in {"DEPOSIT_PENDING", "EXECUTING"}
            /\ order'[o] \in {"DEPOSIT_PENDING", "EXECUTING"}
            /\ \E p \in Payments : Allocate(p) \/ Reverse(p)
         \/ /\ order[o] \in {"EXECUTING", "READY_TO_SHIP"}
            /\ order'[o] \in {"READY_TO_SHIP", "SHIPPED"}
            /\ HasShipments(o) /\ UNCHANGED <<moneyVars, deposit>>
            /\ \E s \in Shipments : Ready(s) \/ Depart(s)
         \/ /\ order[o] = "SHIPPED" /\ order'[o] = "COMPLETED"
            /\ tasks[o] = 0 /\ UNCHANGED <<moneyVars, deposit, tasks>>
            /\ Complete(o)
<1> USE DEF orderVars, moneyVars, shippingVars
<1> DEFINE Goal ==
         \/ order[o] = "ABSENT" /\ order'[o] = "DRAFT"
         \/ /\ order[o] = "DRAFT"
            /\ order'[o] = IF deposit[o] > 0 THEN "DEPOSIT_PENDING" ELSE "EXECUTING"
            /\ UNCHANGED <<receivable, deposit>>
         \/ /\ order[o] \in {"DEPOSIT_PENDING", "EXECUTING"}
            /\ order'[o] \in {"DEPOSIT_PENDING", "EXECUTING"}
            /\ \E p \in Payments : Allocate(p) \/ Reverse(p)
         \/ /\ order[o] \in {"EXECUTING", "READY_TO_SHIP"}
            /\ order'[o] \in {"READY_TO_SHIP", "SHIPPED"}
            /\ HasShipments(o) /\ UNCHANGED <<moneyVars, deposit>>
            /\ \E s \in Shipments : Ready(s) \/ Depart(s)
         \/ /\ order[o] = "SHIPPED" /\ order'[o] = "COMPLETED"
            /\ tasks[o] = 0 /\ UNCHANGED <<moneyVars, deposit, tasks>>
            /\ Complete(o)
<1>1. ASSUME NEW q \in Orders, OrderStep(q) PROVE Goal
  <2>1. CASE Create(q)
    BY <2>1 DEF Create, TypeOK
  <2>2. CASE Confirm(q)
    BY <2>2 DEF Confirm, TypeOK
  <2>3. CASE Complete(q)
    BY <2>3 DEF Complete, TypeOK
  <2>4. CASE ApprovedFollowUp(q) \/ CompleteTask(q) \/ GenerateReceivables(q)
    BY <2>4 DEF ApprovedFollowUp, CompleteTask, GenerateReceivables
  <2> QED BY <1>1, <2>1, <2>2, <2>3, <2>4 DEF OrderStep
<1>2. ASSUME NEW p \in Payments, PaymentStep(p) PROVE Goal
  <2>1. ASSUME NEW R, NEW total, NEW reversed \in BOOLEAN, Settle(R, total, reversed)
        PROVE  /\ order[o] \in {"DEPOSIT_PENDING", "EXECUTING"}
               /\ order'[o] \in {"DEPOSIT_PENDING", "EXECUTING"}
    <3>1. \E settled \in BOOLEAN : order'[o] = AfterAllocation(order[o], settled, reversed)
      BY <2>1 DEF Settle
    <3> QED BY <3>1, AllocationMovesOrder
  <2>2. CASE RecordPayment(p)
    BY <2>2 DEF RecordPayment
  <2>3. CASE Allocate(p)
    <3>1. \E R, total : Settle(R, total, FALSE)
      BY <2>3 DEF Allocate
    <3> QED BY <2>1, <2>3, <3>1
  <2>4. CASE Reverse(p)
    <3>1. \E R, total : Settle(R, total, TRUE)
      BY <2>4 DEF Reverse
    <3> QED BY <2>1, <2>4, <3>1
  <2> QED BY <1>2, <2>2, <2>3, <2>4 DEF PaymentStep
<1>3. ASSUME NEW s \in Shipments, ShipmentStep(s) PROVE Goal
  <2>1. ASSUME NEW target \in {"READY_TO_SHIP", "SHIPPED"}, NEW states, NEW status,
               NEW from, NEW to,
               Milestone(s, from, to), RefreshProgress(s, target, states, status),
               Ready(s) \/ Depart(s)
        PROVE  Goal
    <3>1. o \in Parents(s) /\ order[o] \in {"EXECUTING", "READY_TO_SHIP"} /\ order'[o] = target
      BY <2>1 DEF RefreshProgress
    <3>2. HasShipments(o)
      BY <3>1, ParentsHaveShipments
    <3> QED BY <2>1, <3>1, <3>2 DEF Milestone
  <2>2. CASE Ready(s)
    BY <2>1, <2>2 DEF Ready
  <2>3. CASE Depart(s)
    BY <2>1, <2>3 DEF Depart
  <2>4. CASE CreateShipment(s) \/ Book(s) \/ EnterCustoms(s) \/ StartTransit(s)
             \/ Arrive(s) \/ Deliver(s)
    BY <2>4 DEF CreateShipment, Book, EnterCustoms, StartTransit, Arrive, Deliver
  <2> QED BY <1>3, <2>2, <2>3, <2>4 DEF ShipmentStep
<1>4. ASSUME NEW s \in Shipments, NEW d \in Documents, DocumentStep(s, d) PROVE Goal
  BY <1>4
     DEF DocumentStep, CreateUpload, CreateVersion, StartUpload, CompleteUpload, ScanDocument, SetDocument
<1>5. CASE RefreshStatuses \/ NextDay
  BY <1>5 DEF RefreshStatuses, NextDay
<1>6. CASE UNCHANGED vars
  BY <1>6 DEF vars
<1> QED BY <1>1, <1>2, <1>3, <1>4, <1>5, <1>6 DEF Next

LEMMA ReceivablesStay ==
  ASSUME IInv, [Next]_vars, NEW r \in Receivables, Exists(r)
  PROVE  Exists(r)'
<1> USE DEF orderVars, moneyVars, shippingVars
<1>1. TypeOK /\ ReceivablesFollowLedger
  BY DEF IInv
<1>2. ASSUME UNCHANGED receivable PROVE Exists(r)'
  BY <1>2 DEF Exists
<1>3. ASSUME NEW o \in Orders, GenerateReceivables(o) PROVE Exists(r)'
  <2>1. r[1] # o
    BY <1>3 DEF GenerateReceivables
  <2>2. receivable'[r] = receivable[r]
    BY <1>3, <2>1 DEF GenerateReceivables
  <2> QED BY <2>2 DEF Exists
<1>4. ASSUME NEW p \in Payments, Allocate(p) PROVE Exists(r)'
  BY <1>1, <1>4, AllocateSettles, SettleFollows DEF Allocate
<1>5. ASSUME NEW p \in Payments, Reverse(p) PROVE Exists(r)'
  <2>1. PICK R \in SUBSET Receivables, total \in [Receivables -> Int] :
          Settle(R, total, TRUE) /\ \A q \in R : total[q] < Amount(q)
    BY <1>5, ReverseSettles
  <2>2. \A q \in R : total[q] <= Amount(q)
    BY <1>1, <2>1, AmountsAreNumbers
  <2> QED BY <1>1, <1>5, <2>1, <2>2, SettleFollows DEF Reverse
<1>6. CASE RefreshStatuses
  BY <1>1, <1>6, RefreshFollows
<1>7. ASSUME NEW o \in Orders,
             Create(o) \/ Confirm(o) \/ Complete(o) \/ ApprovedFollowUp(o) \/ CompleteTask(o)
      PROVE  Exists(r)'
  BY <1>2, <1>7 DEF Create, Confirm, Complete, ApprovedFollowUp, CompleteTask
<1>8. ASSUME NEW p \in Payments, RecordPayment(p) PROVE Exists(r)'
  BY <1>2, <1>8 DEF RecordPayment
<1>9. ASSUME NEW s \in Shipments, ShipmentStep(s) PROVE Exists(r)'
  BY <1>2, <1>9 DEF ShipmentStep, CreateShipment, Book, Ready, EnterCustoms,
     Depart, StartTransit, Arrive, Deliver, Milestone
<1>10. ASSUME NEW s \in Shipments, NEW d \in Documents, DocumentStep(s, d) PROVE Exists(r)'
  BY <1>2, <1>10
     DEF DocumentStep, CreateUpload, CreateVersion, StartUpload, CompleteUpload, ScanDocument, SetDocument
<1>11. CASE NextDay \/ UNCHANGED vars
  BY <1>2, <1>11 DEF NextDay, vars
<1> QED BY <1>3, <1>4, <1>5, <1>6, <1>7, <1>8, <1>9, <1>10, <1>11
        DEF Next, OrderStep, PaymentStep

\* The rows of a receipt are rows of generated receivables.
LEMMA RowsStayOnReceivables ==
  ASSUME IInv, [Next]_vars, NEW r \in Receivables, NEW p \in Payments, allocated'[p][r] > 0
  PROVE  Exists(r)'
<1> USE DEF orderVars, moneyVars, shippingVars
<1>1. ASSUME allocated[p][r] > 0 PROVE Exists(r)'
  BY <1>1, ReceivablesStay DEF IInv, Coupling
<1>2. ASSUME NEW q \in Payments, Allocate(q) PROVE Exists(r)'
  <2>1. allocated[p][r] > 0 \/ Exists(r)
    BY <1>2, AllocateSettles DEF IInv
  <2> QED BY <1>1, <2>1, ReceivablesStay
<1>3. CASE UNCHANGED allocated
  BY <1>1, <1>3
<1>4. UNCHANGED allocated \/ \E q \in Payments : Allocate(q)
  <2>1. ASSUME NEW o \in Orders, OrderStep(o) PROVE UNCHANGED allocated
    BY <2>1 DEF OrderStep, Create, Confirm, Complete, ApprovedFollowUp, CompleteTask,
       GenerateReceivables
  <2>2. ASSUME NEW q \in Payments, RecordPayment(q) \/ Reverse(q) PROVE UNCHANGED allocated
    BY <2>2 DEF RecordPayment, Reverse
  <2>3. ASSUME NEW s \in Shipments, ShipmentStep(s) PROVE UNCHANGED allocated
    BY <2>3 DEF ShipmentStep, CreateShipment, Book, Ready, EnterCustoms,
       Depart, StartTransit, Arrive, Deliver, Milestone
  <2>4. ASSUME NEW s \in Shipments, NEW d \in Documents, DocumentStep(s, d)
        PROVE  UNCHANGED allocated
    BY <2>4
       DEF DocumentStep, CreateUpload, CreateVersion, StartUpload, CompleteUpload, ScanDocument, SetDocument
  <2>5. CASE RefreshStatuses \/ NextDay \/ UNCHANGED vars
    BY <2>5 DEF RefreshStatuses, NextDay, vars
  <2> QED BY <2>1, <2>2, <2>3, <2>4, <2>5 DEF Next, PaymentStep
<1> QED BY <1>2, <1>3, <1>4

\* Only generate_for_order makes receivables.
LEMMA ReceivablesAreGenerated ==
  ASSUME IInv, [Next]_vars, NEW r \in Receivables, Exists(r)'
  PROVE  Exists(r) \/ GenerateReceivables(r[1])
<1> USE DEF orderVars, moneyVars, shippingVars
<1>1. ASSUME UNCHANGED receivable PROVE Exists(r)
  BY <1>1 DEF Exists
<1>2. ASSUME NEW o \in Orders, GenerateReceivables(o), r[1] # o PROVE Exists(r)
  <2>1. receivable'[r] = receivable[r]
    BY <1>2 DEF GenerateReceivables
  <2> QED BY <2>1 DEF Exists
<1>3. ASSUME NEW R \in SUBSET Receivables, NEW total, NEW reversed,
             Settle(R, total, reversed), \A q \in R : Exists(q)
      PROVE  Exists(r)
  <2>1. r \in R \/ receivable'[r] = receivable[r]
    BY <1>3 DEF Settle
  <2> QED BY <1>3, <2>1 DEF Exists
<1>4. ASSUME NEW p \in Payments, Allocate(p) PROVE Exists(r)
  BY <1>3, <1>4, AllocateSettles DEF IInv
<1>5. ASSUME NEW p \in Payments, Reverse(p) PROVE Exists(r)
  BY <1>3, <1>5, ReverseSettles
<1>6. CASE RefreshStatuses
  BY <1>6, RefreshFollows DEF IInv
<1>7. ASSUME NEW o \in Orders,
             Create(o) \/ Confirm(o) \/ Complete(o) \/ ApprovedFollowUp(o) \/ CompleteTask(o)
      PROVE  Exists(r)
  BY <1>1, <1>7 DEF Create, Confirm, Complete, ApprovedFollowUp, CompleteTask
<1>8. ASSUME NEW p \in Payments, RecordPayment(p) PROVE Exists(r)
  BY <1>1, <1>8 DEF RecordPayment
<1>9. ASSUME NEW s \in Shipments, ShipmentStep(s) PROVE Exists(r)
  BY <1>1, <1>9 DEF ShipmentStep, CreateShipment, Book, Ready, EnterCustoms,
     Depart, StartTransit, Arrive, Deliver, Milestone
<1>10. ASSUME NEW s \in Shipments, NEW d \in Documents, DocumentStep(s, d) PROVE Exists(r)
  BY <1>1, <1>10
     DEF DocumentStep, CreateUpload, CreateVersion, StartUpload, CompleteUpload, ScanDocument, SetDocument
<1>11. ASSUME NextDay \/ UNCHANGED vars PROVE Exists(r)
  BY <1>1, <1>11 DEF NextDay, vars
<1> QED BY <1>2, <1>4, <1>5, <1>6, <1>7, <1>8, <1>9, <1>10, <1>11
        DEF Next, OrderStep, PaymentStep

\* Only a new shipment is loaded, and it is no longer ABSENT.
LEMMA LoadsAreKept ==
  ASSUME IInv, [Next]_vars, NEW s \in Shipments
  PROVE  /\ shipment'[s] = "ABSENT" => \A l \in Lines : load'[s][l] = 0
         /\ \A l \in Lines : load[s][l] > 0 => load'[s][l] > 0
<1> USE DEF orderVars, moneyVars, shippingVars
<1> DEFINE Goal == /\ shipment'[s] = "ABSENT" => \A l \in Lines : load'[s][l] = 0
                   /\ \A l \in Lines : load[s][l] > 0 => load'[s][l] > 0
<1>1. TypeOK /\ (shipment[s] = "ABSENT" => \A l \in Lines : load[s][l] = 0)
  BY DEF IInv, Coupling
<1>2. ASSUME UNCHANGED load, shipment'[s] = "ABSENT" => shipment[s] = "ABSENT" PROVE Goal
  BY <1>1, <1>2
<1>3. ASSUME NEW t \in Shipments, CreateShipment(t) PROVE Goal
  <2>1. CASE s = t
    <3>1. shipment'[s] # "ABSENT"
      BY <1>1, <1>3, <2>1 DEF CreateShipment, TypeOK
    <3>2. \A l \in Lines : load[s][l] = 0
      BY <1>1, <1>3, <2>1 DEF CreateShipment
    <3> QED BY <3>1, <3>2
  <2>2. CASE s # t
    <3>1. load'[s] = load[s] /\ shipment'[s] = shipment[s]
      BY <1>1, <1>3, <2>2 DEF CreateShipment, TypeOK
    <3> QED BY <1>1, <3>1
  <2> QED BY <2>1, <2>2
<1>4. ASSUME NEW t \in Shipments, NEW from, NEW to \in ShipmentStatus \ {"ABSENT"},
             Milestone(t, from, to)
      PROVE  Goal
  <2>1. shipment'[s] = "ABSENT" => shipment[s] = "ABSENT"
    BY <1>1, <1>4 DEF Milestone, TypeOK
  <2> QED BY <1>2, <1>4, <2>1 DEF Milestone
<1>5. ASSUME NEW t \in Shipments, ShipmentStep(t) PROVE Goal
  BY <1>3, <1>4, <1>5 DEF ShipmentStep, Book, Ready, EnterCustoms, Depart,
     StartTransit, Arrive, Deliver, ShipmentStatus
<1>6. ASSUME NEW o \in Orders, OrderStep(o) PROVE Goal
  BY <1>2, <1>6 DEF OrderStep, Create, Confirm, Complete, ApprovedFollowUp, CompleteTask,
     GenerateReceivables
<1>7. ASSUME NEW p \in Payments, PaymentStep(p) PROVE Goal
  BY <1>2, <1>7 DEF PaymentStep, RecordPayment, Allocate, Reverse
<1>8. ASSUME NEW t \in Shipments, NEW d \in Documents, DocumentStep(t, d) PROVE Goal
  BY <1>2, <1>8
     DEF DocumentStep, CreateUpload, CreateVersion, StartUpload, CompleteUpload, ScanDocument, SetDocument
<1>9. CASE RefreshStatuses \/ NextDay \/ UNCHANGED vars
  BY <1>2, <1>9 DEF RefreshStatuses, NextDay, vars
<1> QED BY <1>5, <1>6, <1>7, <1>8, <1>9 DEF Next

\* A completed order keeps its tasks and its status.
LEMMA CompletedStays ==
  ASSUME IInv, [Next]_vars, NEW o \in Orders, Finalized(o)
  PROVE  order'[o] = "COMPLETED" /\ tasks'[o] = tasks[o]
<1> USE DEF orderVars, moneyVars, shippingVars
<1>1. TypeOK /\ tasks[o] = 0 /\ order[o] = "COMPLETED"
  BY DEF IInv, Coupling, Finalized
<1>2. order'[o] = "COMPLETED"
  BY <1>1, OrderSteps
<1>3. ASSUME NEW q \in Orders, OrderStep(q) PROVE tasks'[o] = tasks[o]
  <2>1. CASE Confirm(q) \/ ApprovedFollowUp(q) \/ CompleteTask(q)
    <3>1. q # o
      BY <1>1, <2>1, BoundsAssumption DEF Confirm, ApprovedFollowUp, CompleteTask, Finalized
    <3> QED BY <1>1, <2>1, <3>1 DEF Confirm, ApprovedFollowUp, CompleteTask, TypeOK
  <2>2. CASE Create(q) \/ Complete(q) \/ GenerateReceivables(q)
    BY <2>2 DEF Create, Complete, GenerateReceivables
  <2> QED BY <1>3, <2>1, <2>2 DEF OrderStep
<1>4. ASSUME NEW p \in Payments, PaymentStep(p) PROVE tasks'[o] = tasks[o]
  BY <1>4 DEF PaymentStep, RecordPayment, Allocate, Reverse
<1>5. ASSUME NEW s \in Shipments, ShipmentStep(s) PROVE tasks'[o] = tasks[o]
  BY <1>5 DEF ShipmentStep, CreateShipment, Book, Ready, EnterCustoms,
     Depart, StartTransit, Arrive, Deliver, Milestone
<1>6. ASSUME NEW s \in Shipments, NEW d \in Documents, DocumentStep(s, d)
      PROVE  tasks'[o] = tasks[o]
  BY <1>6
     DEF DocumentStep, CreateUpload, CreateVersion, StartUpload, CompleteUpload, ScanDocument, SetDocument
<1>7. ASSUME RefreshStatuses \/ NextDay \/ UNCHANGED vars PROVE tasks'[o] = tasks[o]
  BY <1>7 DEF RefreshStatuses, NextDay, vars
<1> QED BY <1>2, <1>3, <1>4, <1>5, <1>6, <1>7 DEF Next

LEMMA CouplingInductive == IInv /\ [Next]_vars => Coupling'
<1> SUFFICES ASSUME IInv, [Next]_vars PROVE Coupling'
  OBVIOUS
<1>1. ASSUME NEW r \in Receivables, NEW p \in Payments, allocated'[p][r] > 0 PROVE Exists(r)'
  BY <1>1, RowsStayOnReceivables
<1>2. ASSUME NEW r \in Receivables, order'[r[1]] \in {"ABSENT", "DRAFT"}, Exists(r)'
      PROVE  FALSE
  <2>1. r[1] \in Orders /\ TypeOK
    BY DEF Receivables, IInv
  <2>2. order[r[1]] \in {"ABSENT", "DRAFT"}
    BY <1>2, <2>1, OrderSteps
  <2>3. ~Exists(r)
    BY <2>2 DEF IInv, Coupling
  <2>4. GenerateReceivables(r[1])
    BY <1>2, <2>3, ReceivablesAreGenerated
  <2> QED BY <2>2, <2>4 DEF GenerateReceivables
<1>3. ASSUME NEW s \in Shipments, NEW l \in Lines, shipment'[s] = "ABSENT"
      PROVE  load'[s][l] = 0
  BY <1>3, LoadsAreKept
<1>4. ASSUME NEW o \in Orders, order'[o] \in {"READY_TO_SHIP", "SHIPPED", "COMPLETED"}
      PROVE  HasShipments(o)'
  <2>1. HasShipments(o)
    BY <1>4, OrderSteps DEF IInv, Coupling
  <2>2. PICK s \in Shipments, l \in Lines : OrderOf[l] = o /\ load[s][l] > 0
    BY <2>1 DEF HasShipments
  <2>3. load'[s][l] > 0
    BY <2>2, LoadsAreKept
  <2> QED BY <2>2, <2>3 DEF HasShipments
<1>5. ASSUME NEW o \in Orders, Finalized(o)' PROVE tasks'[o] = 0
  <2>1. CASE Finalized(o)
    BY <2>1, CompletedStays DEF IInv, Coupling
  <2>2. CASE ~Finalized(o)
    BY <1>5, <2>2, OrderSteps DEF IInv, Finalized
  <2> QED BY <2>1, <2>2
<1> QED BY <1>1, <1>2, <1>3, <1>4, <1>5 DEF Coupling

-----------------------------------------------------------------------------
(* The deposit and the execution of its order.                             *)

LEMMA DepositInductive == IInv /\ [Next]_vars => DepositGatesExecution'
<1> SUFFICES ASSUME IInv, [Next]_vars, NEW o \in Orders, deposit'[o] > 0
             PROVE  /\ order'[o] \in Executing => receivable'[<<o, "DEPOSIT">>] = "PAID"
                    /\ order'[o] = "DEPOSIT_PENDING" => receivable'[<<o, "DEPOSIT">>] # "PAID"
  BY DEF DepositGatesExecution
<1> USE DEF orderVars, moneyVars, shippingVars
<1> DEFINE D == <<o, "DEPOSIT">>
           Paid == receivable[D] = "PAID"
           Goal == /\ order'[o] \in Executing => receivable'[D] = "PAID"
                   /\ order'[o] = "DEPOSIT_PENDING" => receivable'[D] # "PAID"
<1>1. D \in Receivables /\ D[1] = o /\ Amount(D) = deposit[o]
  BY DEF Receivables, Amount
<1>2. /\ TypeOK /\ ReceivablesFollowLedger /\ Follows(D)
      /\ deposit[o] \in Nat /\ ledger[D] \in Int
  BY <1>1, FollowsEach DEF IInv, TypeOK
<1>3. deposit[o] > 0 => /\ order[o] \in Executing => Paid
                        /\ order[o] = "DEPOSIT_PENDING" => ~Paid
  BY DEF IInv, DepositGatesExecution
<1>4. order[o] \in {"ABSENT", "DRAFT"} => ~Exists(D)
  BY <1>1 DEF IInv, Coupling
<1> HIDE DEF D
<1>5. ASSUME NEW R \in SUBSET Receivables, NEW total, NEW reversed \in BOOLEAN,
             Settle(R, total, reversed)
      PROVE  /\ D \in R => order'[o] = AfterAllocation(order[o], receivable'[D] = "PAID", reversed)
             /\ D \notin R => order'[o] = order[o] /\ receivable'[D] = receivable[D]
  BY <1>1, <1>5 DEF Settle, D
<1>6. ASSUME NEW p \in Payments, Allocate(p) PROVE Goal
  <2>1. deposit'[o] = deposit[o]
    BY <1>6 DEF Allocate
  <2>2. PICK R \in SUBSET Receivables, total \in [Receivables -> Int] :
          /\ Settle(R, total, FALSE)
          /\ \A r \in R : Exists(r) /\ ledger[r] < total[r] /\ total[r] <= Amount(r)
    BY <1>2, <1>6, AllocateSettles
  <2>3. CASE D \in R
    <3>1. ~Paid
      BY <1>1, <1>2, <2>2, <2>3 DEF Follows
    <3>2. order[o] \notin Executing
      BY <1>3, <2>1, <3>1
    <3>3. order'[o] = AfterAllocation(order[o], receivable'[D] = "PAID", FALSE)
      BY <1>5, <2>2, <2>3
    <3> QED BY <3>2, <3>3 DEF AfterAllocation, Executing
  <2>4. CASE D \notin R
    BY <1>3, <1>5, <2>1, <2>2, <2>4
  <2> QED BY <2>3, <2>4
<1>7. ASSUME NEW p \in Payments, Reverse(p) PROVE Goal
  <2>1. UNCHANGED <<deposit, due, today>>
    BY <1>7 DEF Reverse
  <2>2. PICK R \in SUBSET Receivables, total \in [Receivables -> Int] :
          /\ Settle(R, total, TRUE)
          /\ Reversible(R)
          /\ \A r \in R : Exists(r) /\ total[r] < Amount(r)
    BY <1>7, ReverseSettles
  <2>3. CASE D \in R
    <3>1. ~Finalized(o) /\ ~HasShipments(o)
      BY <1>1, <2>2, <2>3 DEF Reversible, D
    <3>2. order[o] \notin {"READY_TO_SHIP", "SHIPPED", "COMPLETED"}
      BY <3>1 DEF IInv, Coupling
    <3>3. order'[o] = AfterAllocation(order[o], receivable'[D] = "PAID", TRUE)
      BY <1>5, <2>2, <2>3
    <3>4. receivable'[D] # "PAID"
      <4>1. ledger'[D] = total[D]
        BY <1>1, <2>2, <2>3 DEF Settle
      <4>2. total[D] < Amount(D) /\ Amount(D)' = Amount(D) /\ total[D] \in Int
        BY <1>1, <2>1, <2>2, <2>3 DEF Amount
      <4>3. ReceivablesFollowLedger' /\ Exists(D)'
        <5>1. \A r \in R : total[r] <= Amount(r)
          BY <1>2, <2>2, AmountsAreNumbers
        <5> QED BY <1>1, <1>2, <2>1, <2>2, <2>3, <5>1, SettleFollows
      <4>4. (receivable'[D] = "PAID") <=> (ledger'[D] = Amount(D)')
        BY <1>1, <4>3 DEF ReceivablesFollowLedger
      <4> QED BY <1>1, <1>2, <4>1, <4>2, <4>4
    <3> QED BY <3>2, <3>3, <3>4 DEF AfterAllocation, Executing
  <2>4. CASE D \notin R
    BY <1>3, <1>5, <2>1, <2>2, <2>4
  <2> QED BY <2>3, <2>4
<1>8. CASE Create(o)
  <2>1. order'[o] = "DRAFT"
    BY <1>2, <1>8 DEF Create, TypeOK
  <2> QED BY <2>1 DEF Executing, D
<1>9. CASE GenerateReceivables(o)
  <2>1. /\ order'[o] = order[o] /\ order[o] \notin {"ABSENT", "DRAFT", "COMPLETED"}
        /\ ~Exists(D) /\ UNCHANGED <<deposit, ledger>>
    BY <1>1, <1>9 DEF GenerateReceivables
  <2>2. order[o] \notin Executing
    BY <1>3, <2>1 DEF Exists
  <2>3. ledger[D] <= 0 /\ Amount(D)' = deposit'[o] /\ Amount(D)' # ledger'[D]
    BY <1>1, <1>2, <2>1 DEF Follows, Amount
  <2>4. Exists(D)' => receivable'[D] # "PAID"
    BY <1>1, <1>9, <2>3, GenerateFollows DEF ReceivablesFollowLedger
  <2> QED BY <2>1, <2>2, <2>4 DEF Exists, D
<1>10. ASSUME deposit'[o] = deposit[o], (receivable'[D] = "PAID") <=> Paid,
              ~ \E p \in Payments : Allocate(p) \/ Reverse(p)
       PROVE  Goal
  <2>1. CASE order'[o] = order[o]
    BY <1>3, <1>10, <2>1
  <2>2. CASE order'[o] # order[o]
    BY <1>2, <1>3, <1>4, <1>10, <2>2, OrderSteps DEF Executing, Exists
  <2> QED BY <2>1, <2>2
<1>11. \/ \E p \in Payments : Allocate(p) \/ Reverse(p)
       \/ Create(o) \/ GenerateReceivables(o)
       \/ deposit'[o] = deposit[o] /\ ((receivable'[D] = "PAID") <=> Paid)
  <2> DEFINE Same == deposit'[o] = deposit[o] /\ ((receivable'[D] = "PAID") <=> Paid)
  <2>1. ASSUME NEW q \in Orders, q # o, Create(q) PROVE Same
    BY <1>2, <2>1 DEF Create, TypeOK
  <2>2. ASSUME NEW q \in Orders, q # o, GenerateReceivables(q) PROVE Same
    BY <1>1, <2>2 DEF GenerateReceivables
  <2>3. ASSUME NEW q \in Orders,
               Confirm(q) \/ Complete(q) \/ ApprovedFollowUp(q) \/ CompleteTask(q)
        PROVE  Same
    BY <2>3 DEF Confirm, Complete, ApprovedFollowUp, CompleteTask
  <2>4. ASSUME NEW p \in Payments, RecordPayment(p) PROVE Same
    BY <2>4 DEF RecordPayment
  <2>5. ASSUME NEW s \in Shipments, ShipmentStep(s) PROVE Same
    BY <2>5 DEF ShipmentStep, CreateShipment, Book, Ready, EnterCustoms,
       Depart, StartTransit, Arrive, Deliver, Milestone
  <2>6. ASSUME NEW s \in Shipments, NEW d \in Documents, DocumentStep(s, d) PROVE Same
    BY <2>6
       DEF DocumentStep, CreateUpload, CreateVersion, StartUpload, CompleteUpload, ScanDocument, SetDocument
  <2>7. ASSUME RefreshStatuses PROVE Same
    BY <1>1, <1>2, <2>7, RefreshFollows DEF RefreshStatuses
  <2>8. ASSUME NextDay \/ UNCHANGED vars PROVE Same
    BY <2>8 DEF NextDay, vars
  <2> HIDE DEF Same
  <2>9. \/ \E p \in Payments : Allocate(p) \/ Reverse(p)
        \/ Create(o) \/ GenerateReceivables(o) \/ Same
    BY <2>1, <2>2, <2>3, <2>4, <2>5, <2>6, <2>7, <2>8 DEF Next, OrderStep, PaymentStep
  <2> QED BY <2>9 DEF Same
<1>12. Goal
  <2>1. CASE \E p \in Payments : Allocate(p) \/ Reverse(p)
    BY <1>6, <1>7, <2>1
  <2>2. CASE ~ \E p \in Payments : Allocate(p) \/ Reverse(p)
    BY <1>8, <1>9, <1>10, <1>11, <2>2 DEF D
  <2> QED BY <2>1, <2>2
<1> QED BY <1>12 DEF D

\* The ledger of a completed order only grows.
LEMMA LedgerGrows ==
  ASSUME IInv, [Next]_vars, NEW r \in Receivables, Finalized(r[1])
  PROVE  ledger'[r] >= ledger[r]
<1> USE DEF orderVars, moneyVars, shippingVars
<1>1. ledger[r] \in Int /\ TypeOK
  BY DEF IInv, TypeOK
<1>2. ASSUME NEW p \in Payments, Allocate(p) PROVE ledger'[r] >= ledger[r]
  <2>1. PICK R \in SUBSET Receivables, total \in [Receivables -> Int] :
          Settle(R, total, FALSE) /\ \A q \in R : ledger[q] < total[q]
    BY <1>1, <1>2, AllocateSettles
  <2>2. ledger'[r] = IF r \in R THEN total[r] ELSE ledger[r]
    BY <2>1 DEF Settle
  <2> QED BY <1>1, <2>1, <2>2
<1>3. ASSUME NEW p \in Payments, Reverse(p) PROVE ledger'[r] >= ledger[r]
  <2>1. PICK R \in SUBSET Receivables, total \in [Receivables -> Int] :
          Settle(R, total, TRUE) /\ Reversible(R)
    BY <1>3, ReverseSettles
  <2>2. ledger'[r] = ledger[r]
    BY <2>1 DEF Settle, Reversible
  <2> QED BY <1>1, <2>2
<1>4. ASSUME UNCHANGED ledger PROVE ledger'[r] >= ledger[r]
  BY <1>1, <1>4
<1>5. ASSUME NEW o \in Orders, OrderStep(o) PROVE UNCHANGED ledger
  BY <1>5 DEF OrderStep, Create, Confirm, Complete, ApprovedFollowUp, CompleteTask,
     GenerateReceivables
<1>6. ASSUME NEW p \in Payments, RecordPayment(p) PROVE UNCHANGED ledger
  BY <1>6 DEF RecordPayment
<1>7. ASSUME NEW s \in Shipments, ShipmentStep(s) PROVE UNCHANGED ledger
  BY <1>7 DEF ShipmentStep, CreateShipment, Book, Ready, EnterCustoms,
     Depart, StartTransit, Arrive, Deliver, Milestone
<1>8. ASSUME NEW s \in Shipments, NEW d \in Documents, DocumentStep(s, d) PROVE UNCHANGED ledger
  BY <1>8
     DEF DocumentStep, CreateUpload, CreateVersion, StartUpload, CompleteUpload, ScanDocument, SetDocument
<1>9. ASSUME RefreshStatuses \/ NextDay \/ UNCHANGED vars PROVE UNCHANGED ledger
  BY <1>9 DEF RefreshStatuses, NextDay, vars
<1> QED BY <1>2, <1>3, <1>4, <1>5, <1>6, <1>7, <1>8, <1>9 DEF Next, PaymentStep

-----------------------------------------------------------------------------
LEMMA Inductive == Spec => []IInv
<1>1. Init => IInv
  <2>1. Init => TypeOK
    BY OrderAssumption, BoundsAssumption
       DEF Init, TypeOK, OrderStatus, ReceivableStatus, PaymentStatus, ShipmentStatus,
           DocumentStatus, Days
  <2>2. Init => Coupling
    BY DEF Init, Coupling, Exists, Finalized, Receivables
  <2>3. Init => ReceivablesFollowLedger /\ DepositGatesExecution
    BY DEF Init, ReceivablesFollowLedger, DepositGatesExecution, Exists
  <2> QED BY <2>1, <2>2, <2>3 DEF IInv
<1>2. IInv /\ [Next]_vars => IInv'
  BY TypeInductive, CouplingInductive, LedgerInductive, DepositInductive DEF IInv
<1> QED BY <1>1, <1>2, PTL DEF Spec

\* An order executes if and only if its deposit is paid, whatever receipts are
\* recorded, allocated and reversed (record_allocation, reverse, create).
THEOREM DepositGates == Spec => []DepositGatesExecution
<1>1. IInv => DepositGatesExecution
  BY DEF IInv
<1> QED BY <1>1, Inductive, PTL

\* No receivable is overpaid and its status tells how far it is paid
\* (allocate, reverse, generate_for_order, refresh_statuses).
THEOREM ReceivablesFollow == Spec => []ReceivablesFollowLedger
<1>1. IInv => ReceivablesFollowLedger
  BY DEF IInv
<1> QED BY <1>1, Inductive, PTL

\* Nothing is taken back from a completed order (reverse, lock_open_order).
THEOREM CompletedFrozen == Spec => CompletedIsFrozen
<1> DEFINE A == \A o \in Orders : Finalized(o) =>
                  /\ order'[o] = "COMPLETED" /\ tasks'[o] = tasks[o]
                  /\ \A r \in ReceivablesOf(o) : ledger'[r] >= ledger[r]
<1>1. IInv /\ [Next]_vars => A
  BY CompletedStays, LedgerGrows DEF ReceivablesOf
<1>2. IInv /\ [Next]_vars => [A]_vars
  BY <1>1
<1>3. Spec => [][A]_vars
  BY <1>2, Inductive, PTL DEF Spec
<1> QED BY <1>3 DEF CompletedIsFrozen

-----------------------------------------------------------------------------
(* What the shipments carry of an order.  The amounts are those of a given  *)
(* load m, so that the laws speak of the load before a step and after it.   *)

Loads == [Shipments -> [Lines -> Nat]]
Shares(m, l) == [s \in Shipments |-> m[s][l]]
CoveredBy(o, m, S) ==
  \A l \in Lines : OrderOf[l] = o => SumOver(Shares(m, l), S) >= Quantity[l]
Within(states, st) == {s \in Shipments : st[s] \in states}

LEMMA LoadsAreTyped == ASSUME TypeOK PROVE load \in Loads
  BY BoundsAssumption, OrderAssumption DEF TypeOK, Loads

LEMMA SumIs == ASSUME NEW f, NEW S PROVE SumFunctionOnSet(f, S) = SumOver(f, S)
  BY DEF SumFunctionOnSet, SumOver

LEMMA CarriedIs ==
  ASSUME NEW l
  PROVE  /\ \A S : Carried(l, S) = SumOver(Shares(load, l), S)
         /\ \A S : Carried(l, S)' = SumOver(Shares(load', l), S)
<1>1. \A S : Carried(l, S) = SumOver(Shares(load, l), S)
  BY SumIs DEF Carried, Shares
<1>2. \A S : Carried(l, S)' = SumOver(Shares(load', l), S)
  BY SumIs DEF Carried, Shares
<1> QED BY <1>1, <1>2

LEMMA CoveredIs ==
  ASSUME NEW o, NEW states, NEW st
  PROVE  Covered(o, states, st) <=> CoveredBy(o, load, Within(states, st))
  BY CarriedIs DEF Covered, CoveredBy, Within

LEMMA CoveredIsNext ==
  ASSUME NEW o, NEW states
  PROVE  Covered(o, states, shipment)' <=> CoveredBy(o, load', Within(states, shipment'))
<1>1. \A l, S : SumFunctionOnSet([s \in Shipments |-> load'[s][l]], S) = SumOver(Shares(load', l), S)
  BY SumIs DEF Shares
<1> QED BY <1>1 DEF Covered, Carried, CoveredBy, Within

LEMMA SharesAreTyped ==
  ASSUME NEW m \in Loads, NEW l \in Lines, NEW S \in SUBSET Shipments
  PROVE  /\ IsFiniteSet(S)
         /\ \A s \in S : Shares(m, l)[s] \in Nat /\ Shares(m, l)[s] \in Int
         /\ \A s \in S : Shares(m, l)[s] = m[s][l]
         /\ SumOver(Shares(m, l), S) \in Nat
<1>1. IsFiniteSet(S)
  BY FiniteAssumption, FS_Subset
<1>2. \A s \in S : Shares(m, l)[s] = m[s][l] /\ m[s][l] \in Nat
  BY DEF Shares, Loads
<1>3. \A s \in S : Shares(m, l)[s] \in Nat /\ Shares(m, l)[s] \in Int
  BY <1>2
<1>4. SumOver(Shares(m, l), S) \in Nat
  BY <1>1, <1>3, SumNat
<1> QED BY <1>1, <1>2, <1>3, <1>4

\* More shipments cover at least as much.
LEMMA CoverGrows ==
  ASSUME NEW o \in Orders, NEW m \in Loads, NEW S \in SUBSET Shipments, NEW T \in SUBSET S,
         CoveredBy(o, m, T)
  PROVE  CoveredBy(o, m, S)
<1> SUFFICES ASSUME NEW l \in Lines, OrderOf[l] = o
             PROVE  SumOver(Shares(m, l), S) >= Quantity[l]
  BY DEF CoveredBy
<1>1. SumOver(Shares(m, l), T) >= Quantity[l] /\ Quantity[l] \in Nat
  BY OrderAssumption DEF CoveredBy
<1>2. SumOver(Shares(m, l), T) \in Nat /\ SumOver(Shares(m, l), S) \in Nat
  BY SharesAreTyped
<1>3. SumOver(Shares(m, l), T) <= SumOver(Shares(m, l), S)
  BY SharesAreTyped, SumSubset
<1> QED BY <1>1, <1>2, <1>3

\* Equal loads cover the same.
LEMMA CoverSame ==
  ASSUME NEW o \in Orders, NEW m \in Loads, NEW n \in Loads, NEW S \in SUBSET Shipments,
         \A s \in S : \A l \in Lines : OrderOf[l] = o => m[s][l] = n[s][l]
  PROVE  CoveredBy(o, m, S) <=> CoveredBy(o, n, S)
<1>1. ASSUME NEW l \in Lines, OrderOf[l] = o
      PROVE  SumOver(Shares(m, l), S) = SumOver(Shares(n, l), S)
  <2>1. IsFiniteSet(S) /\ \A s \in S : Shares(m, l)[s] = Shares(n, l)[s]
    BY <1>1, SharesAreTyped
  <2> QED BY <2>1, SumSame
<1> QED BY <1>1 DEF CoveredBy

\* A shipment that carries nothing of an order does not help to cover it.
LEMMA CoverWithout ==
  ASSUME NEW o \in Orders, NEW m \in Loads, NEW S \in SUBSET Shipments, NEW t \in Shipments,
         \A l \in Lines : OrderOf[l] = o => m[t][l] = 0
  PROVE  CoveredBy(o, m, S \cup {t}) <=> CoveredBy(o, m, S)
<1>1. ASSUME NEW l \in Lines, OrderOf[l] = o, t \notin S
      PROVE  SumOver(Shares(m, l), S \cup {t}) = SumOver(Shares(m, l), S)
  <2>1. /\ IsFiniteSet(S) /\ \A s \in S : Shares(m, l)[s] \in Int
        /\ SumOver(Shares(m, l), S) \in Nat
    BY SharesAreTyped
  <2>2. Shares(m, l)[t] = 0
    BY <1>1 DEF Shares
  <2>3. SumOver(Shares(m, l), S \cup {t}) = 0 + SumOver(Shares(m, l), S)
    BY <1>1, <2>1, <2>2, SumGrow
  <2> QED BY <2>1, <2>3
<1>2. CASE t \in S
  <2>1. S \cup {t} = S
    BY <1>2
  <2> QED BY <2>1
<1>3. CASE t \notin S
  BY <1>1, <1>3 DEF CoveredBy
<1> QED BY <1>2, <1>3

\* An order that no shipment carries anything of is not covered: it has a line.
LEMMA NothingCovered ==
  ASSUME NEW o \in Orders, NEW m \in Loads, NEW S \in SUBSET Shipments,
         \A s \in Shipments, l \in Lines : OrderOf[l] = o => m[s][l] = 0
  PROVE  ~CoveredBy(o, m, S)
<1>1. PICK l \in Lines : OrderOf[l] = o
  BY LinesAssumption
<1>2. IsFiniteSet(S) /\ \A s \in S : Shares(m, l)[s] = 0
  BY <1>1, SharesAreTyped
<1>3. SumOver(Shares(m, l), S) = 0
  BY <1>2, SumZero
<1>4. Quantity[l] \in 1..MaxQuantity /\ MaxQuantity \in Nat
  BY OrderAssumption
<1> QED BY <1>1, <1>3, <1>4 DEF CoveredBy


-----------------------------------------------------------------------------
(* The milestones of an order and what its shipments carry.                 *)

Early == {"ABSENT", "DRAFT", "DEPOSIT_PENDING"}

\* One order, given which parts of it have departed or are ready.
Tells(state, departed, readied) ==
  /\ state \in {"SHIPPED", "COMPLETED"} => departed
  /\ state = "READY_TO_SHIP" => readied /\ ~departed
  /\ state = "EXECUTING" => ~readied

FollowsShipments(o) ==
  Tells(order[o], Covered(o, Departed, shipment), Covered(o, Readied, shipment))

LEMMA FollowsShipmentsIs ==
  OrderFollowsShipments <=> /\ \A l \in Lines : Carried(l, Shipments) <= Quantity[l]
                            /\ \A o \in Orders : FollowsShipments(o)
  BY DEF OrderFollowsShipments, FollowsShipments, Tells

ShippingInv ==
  /\ OrderFollowsShipments
  /\ \A o \in Orders : order[o] \in Early => ~HasShipments(o)

\* What is left of an order in the shipments before it executes: nothing.
LEMMA NoShipmentsNoCover ==
  ASSUME TypeOK, NEW o \in Orders, ~HasShipments(o), NEW states
  PROVE  ~Covered(o, states, shipment)
<1>1. load \in Loads /\ \A s \in Shipments, l \in Lines : load[s][l] \in Nat
  BY LoadsAreTyped DEF Loads
<1>2. \A s \in Shipments, l \in Lines : OrderOf[l] = o => load[s][l] = 0
  BY <1>1 DEF HasShipments
<1>3. ~CoveredBy(o, load, Within(states, shipment))
  BY <1>1, <1>2, NothingCovered DEF Within
<1> QED BY <1>3, CoveredIs

\* A commitment to ship is never taken back: reverse keeps a deposit that
\* shipments were planned on.
LEMMA EarlyStays ==
  ASSUME IInv, [Next]_vars, NEW o \in Orders, order'[o] \in Early
  PROVE  order[o] \in Early \/ ~HasShipments(o)
<1>1. TypeOK
  BY DEF IInv
<1>2. CASE order'[o] = order[o]
  BY <1>2
<1>3. CASE order'[o] # order[o] /\ order[o] \notin Early
  <2>1. /\ order[o] = "EXECUTING" /\ order'[o] = "DEPOSIT_PENDING"
        /\ \E p \in Payments : Allocate(p) \/ Reverse(p)
    BY <1>1, <1>3, OrderSteps DEF Early
  <2>2. ASSUME NEW p \in Payments, Allocate(p) PROVE FALSE
    <3>1. \E R, total : Settle(R, total, FALSE)
      BY <2>2 DEF Allocate
    <3>2. \E settled \in BOOLEAN : order'[o] = AfterAllocation(order[o], settled, FALSE)
      BY <1>3, <3>1 DEF Settle
    <3> QED BY <2>1, <3>2 DEF AfterAllocation
  <2>3. ASSUME NEW p \in Payments, Reverse(p) PROVE ~HasShipments(o)
    <3>1. \E total : \E R \in SUBSET Receivables : Settle(R, total, TRUE) /\ Reversible(R)
      BY <2>3, ReverseSettles
    <3> QED BY <1>3, <3>1 DEF Settle, Reversible
  <2> QED BY <2>1, <2>2, <2>3
<1> QED BY <1>2, <1>3

\* Every step that is none of a shipment leaves the shipments alone, and an
\* order that moves keeps telling where they are.
LEMMA OfficeKeepsShipping ==
  ASSUME IInv, ShippingInv, [Next]_vars, UNCHANGED <<shipment, load>>,
         ~ \E s \in Shipments : Ready(s) \/ Depart(s)
  PROVE  ShippingInv'
<1>1. TypeOK
  BY DEF IInv
<1>2. ASSUME NEW o \in Orders, order'[o] \in Early PROVE ~HasShipments(o)'
  <2>1. ~HasShipments(o)
    BY <1>2, EarlyStays DEF ShippingInv
  <2> QED BY <2>1 DEF HasShipments
<1>3. ASSUME NEW o \in Orders PROVE FollowsShipments(o)'
  <2> DEFINE D == Covered(o, Departed, shipment)
             R == Covered(o, Readied, shipment)
  <2>1. Tells(order[o], D, R)
    BY FollowsShipmentsIs DEF ShippingInv, FollowsShipments
  <2>2. D' = D /\ R' = R
    BY DEF Covered, Carried
  <2>3. order[o] \in Early => ~R
    BY <1>1, NoShipmentsNoCover DEF ShippingInv
  <2>4. order'[o] # order[o] => \/ order'[o] \in Early
                                \/ order'[o] = "EXECUTING" /\ order[o] \in Early
                                \/ order'[o] = "COMPLETED" /\ order[o] = "SHIPPED"
    BY <1>1, OrderSteps DEF Early
  <2> HIDE DEF D, R
  <2>5. Tells(order'[o], D, R)
    BY <2>1, <2>3, <2>4 DEF Tells, Early
  <2> QED BY <2>2, <2>5 DEF FollowsShipments, D, R
<1>4. \A l \in Lines : Carried(l, Shipments)' <= Quantity[l]
  BY FollowsShipmentsIs DEF ShippingInv, Carried
<1>5. OrderFollowsShipments'
  BY <1>3, <1>4 DEF OrderFollowsShipments, FollowsShipments, Tells
<1> QED BY <1>2, <1>5 DEF ShippingInv

\* The steps of a shipment, for one of its orders or another: if its state and
\* what is covered of it move together, the order still tells.
LEMMA ShippingFollows ==
  ASSUME TypeOK, TypeOK', ShippingInv,
         \A l \in Lines : Carried(l, Shipments)' <= Quantity[l],
         \A o \in Orders : order[o] \in Early =>
            order'[o] = order[o] /\ \A s \in Shipments, l \in Lines :
              OrderOf[l] = o /\ load'[s][l] > 0 => load[s][l] > 0,
         \A o \in Orders : order'[o] \in Early => order[o] \in Early,
         \A o \in Orders : FollowsShipments(o)'
  PROVE  ShippingInv'
<1>1. OrderFollowsShipments'
  BY DEF OrderFollowsShipments, FollowsShipments, Tells
<1>2. ASSUME NEW o \in Orders, order'[o] \in Early PROVE ~HasShipments(o)'
  <2>1. order[o] \in Early /\ ~HasShipments(o)
    BY <1>2 DEF ShippingInv
  <2>2. \A s \in Shipments, l \in Lines : ~(OrderOf[l] = o /\ load'[s][l] > 0)
    BY <2>1 DEF HasShipments
  <2> QED BY <2>2 DEF HasShipments
<1> QED BY <1>1, <1>2 DEF ShippingInv

\* A new shipment plans what fits, and covers nothing yet.
LEMMA PlanningFollows ==
  ASSUME IInv, ShippingInv, [Next]_vars, TypeOK', NEW s \in Shipments, CreateShipment(s)
  PROVE  ShippingInv'
<1> USE DEF orderVars
<1>1. TypeOK /\ load \in Loads /\ load' \in Loads /\ shipment[s] = "ABSENT"
  <2>1. load' \in [Shipments -> [Lines -> 0..MaxQuantity]]
    BY DEF TypeOK
  <2> QED BY <2>1, LoadsAreTyped, BoundsAssumption, OrderAssumption DEF IInv, Loads, CreateShipment
<1>2. PICK items \in [Lines -> 0..MaxQuantity] :
        /\ \A l \in Lines : items[l] > 0 =>
             order[OrderOf[l]] \in {"EXECUTING", "READY_TO_SHIP"} /\ Fits(l, items[l])
        /\ load' = [load EXCEPT ![s] = items]
  BY DEF CreateShipment
<1>3. order' = order /\ shipment' = [shipment EXCEPT ![s] = "PLANNING"]
  BY DEF CreateShipment
<1>4. \A l \in Lines : load[s][l] = 0 /\ load'[s][l] = items[l] /\ items[l] \in Nat
  BY <1>1, <1>2, OrderAssumption DEF IInv, Coupling, TypeOK
<1>5. \A t \in Shipments \ {s} : load'[t] = load[t] /\ shipment'[t] = shipment[t]
  BY <1>1, <1>2, <1>3 DEF TypeOK
<1>6. ASSUME NEW l \in Lines PROVE Carried(l, Shipments)' <= Quantity[l]
  <2> DEFINE f == Shares(load, l)
             h == Shares(load', l)
  <2>1. /\ IsFiniteSet(Shipments) /\ SumOver(f, Shipments) \in Nat
        /\ \A t \in Shipments : f[t] \in Int /\ h[t] \in Int
        /\ \A t \in Shipments : f[t] = load[t][l] /\ h[t] = load'[t][l]
    BY <1>1, SharesAreTyped
  <2>2. \A t \in Shipments \ {s} : h[t] = f[t]
    BY <1>5, <2>1
  <2> HIDE DEF f, h
  <2>3. SumOver(h, Shipments) = SumOver(f, Shipments) + h[s] - f[s]
    BY <2>1, <2>2, SumChange
  <2>4. SumOver(h, Shipments) = SumOver(f, Shipments) + items[l]
    BY <1>4, <2>1, <2>3
  <2>5. SumOver(f, Shipments) <= Quantity[l] /\ Quantity[l] \in Nat
    BY CarriedIs, FollowsShipmentsIs, OrderAssumption DEF ShippingInv, f
  <2>6. items[l] > 0 => SumOver(f, Shipments) + items[l] <= Quantity[l]
    BY <1>2, CarriedIs DEF Fits, f
  <2>7. SumOver(h, Shipments) <= Quantity[l]
    BY <1>4, <2>1, <2>4, <2>5, <2>6
  <2> QED BY <2>7, CarriedIs DEF h
<1>7. ASSUME NEW o \in Orders, order[o] \in Early, NEW t \in Shipments, NEW l \in Lines,
             OrderOf[l] = o, load'[t][l] > 0
      PROVE  load[t][l] > 0
  BY <1>2, <1>4, <1>5, <1>7 DEF Early
<1>8. ASSUME NEW o \in Orders, NEW states \in {Departed, Readied}
      PROVE  Covered(o, states, shipment)' <=> Covered(o, states, shipment)
  <2> DEFINE S == Within(states, shipment)
  <2>1. Within(states, shipment') = S /\ s \notin S /\ S \in SUBSET Shipments
    BY <1>1, <1>3, <1>5 DEF Within, Departed, Readied, TypeOK
  <2>2. \A t \in S : \A l \in Lines : load'[t][l] = load[t][l]
    BY <1>5, <2>1
  <2> HIDE DEF S
  <2>3. CoveredBy(o, load', S) <=> CoveredBy(o, load, S)
    BY <1>1, <2>1, <2>2, CoverSame
  <2>4. Covered(o, states, shipment) <=> CoveredBy(o, load, S)
    BY CoveredIs DEF S
  <2>5. Covered(o, states, shipment)' <=> CoveredBy(o, load', Within(states, shipment'))
    BY CoveredIsNext
  <2> QED BY <2>1, <2>3, <2>4, <2>5
<1>9. ASSUME NEW o \in Orders PROVE FollowsShipments(o)'
  BY <1>3, <1>8, FollowsShipmentsIs DEF ShippingInv, FollowsShipments, Tells
<1> QED BY <1>1, <1>3, <1>6, <1>7, <1>9, ShippingFollows

\* A milestone moves one shipment on and no load.
LEMMA MilestoneFollows ==
  ASSUME IInv, ShippingInv, TypeOK', NEW s \in Shipments, NEW from, NEW to,
         Milestone(s, from, to),
         \A o \in Orders : order[o] \in Early => order'[o] = order[o],
         \A o \in Orders : order'[o] \in Early => order[o] \in Early,
         \A o \in Orders : FollowsShipments(o)'
  PROVE  ShippingInv'
<1>1. TypeOK /\ load' = load
  BY DEF IInv, Milestone
<1>2. \A l \in Lines : Carried(l, Shipments)' <= Quantity[l]
  BY <1>1, FollowsShipmentsIs DEF ShippingInv, Carried
<1> QED BY <1>1, <1>2, ShippingFollows

\* What a milestone makes of the cover of the orders.
LEMMA MilestoneCovers ==
  ASSUME TypeOK, NEW s \in Shipments, NEW from, NEW to, Milestone(s, from, to),
         NEW o \in Orders, NEW states
  PROVE  /\ (from \in states <=> to \in states) =>
              (Covered(o, states, shipment)' <=> Covered(o, states, shipment))
         /\ from \notin states /\ to \in states =>
              /\ Covered(o, states, shipment) => Covered(o, states, shipment)'
              /\ o \notin Parents(s) =>
                   (Covered(o, states, shipment)' <=> Covered(o, states, shipment))
         /\ Covered(o, states, shipment)' <=> Covered(o, states, [shipment EXCEPT ![s] = to])
<1> DEFINE S == Within(states, shipment)
           T == Within(states, shipment')
<1>1. load \in Loads /\ load' = load /\ shipment' = [shipment EXCEPT ![s] = to]
      /\ shipment[s] = from /\ S \in SUBSET Shipments /\ T \in SUBSET Shipments
  BY LoadsAreTyped DEF Milestone, Within
<1>2. shipment'[s] = to /\ \A t \in Shipments \ {s} : shipment'[t] = shipment[t]
  BY <1>1 DEF TypeOK
<1>3. /\ Covered(o, states, shipment) <=> CoveredBy(o, load, S)
      /\ Covered(o, states, shipment)' <=> CoveredBy(o, load, T)
      /\ Covered(o, states, [shipment EXCEPT ![s] = to]) <=> CoveredBy(o, load, T)
  BY <1>1, CoveredIs, CoveredIsNext
<1>4. (from \in states <=> to \in states) => S = T
  BY <1>1, <1>2 DEF Within
<1>5. from \notin states /\ to \in states => T = S \cup {s}
  BY <1>1, <1>2 DEF Within
<1> HIDE DEF S, T
<1>6. from \notin states /\ to \in states /\ Covered(o, states, shipment)
        => Covered(o, states, shipment)'
  <2>1. CoveredBy(o, load, S) /\ S \in SUBSET T => CoveredBy(o, load, T)
    BY <1>1, CoverGrows
  <2> QED BY <1>3, <1>5, <2>1
<1>7. ASSUME o \notin Parents(s), from \notin states, to \in states
      PROVE  Covered(o, states, shipment)' <=> Covered(o, states, shipment)
  <2>1. \A l \in Lines : OrderOf[l] = o => load[s][l] = 0
    BY <1>1, <1>7 DEF Parents, Loads
  <2>2. CoveredBy(o, load, S \cup {s}) <=> CoveredBy(o, load, S)
    BY <1>1, <2>1, CoverWithout
  <2> QED BY <1>3, <1>5, <1>7, <2>2
<1> QED BY <1>3, <1>4, <1>6, <1>7

\* Departed shipments are ready ones, so departed orders are.
LEMMA DepartedIsReadied ==
  ASSUME TypeOK, NEW o \in Orders, Covered(o, Departed, shipment)
  PROVE  Covered(o, Readied, shipment)
<1>1. /\ Within(Departed, shipment) \in SUBSET Within(Readied, shipment)
      /\ Within(Readied, shipment) \in SUBSET Shipments /\ load \in Loads
  BY LoadsAreTyped DEF Within, Readied
<1> QED BY <1>1, CoverGrows, CoveredIs

\* READY and DEPARTED move the orders whose whole quantity they complete; the
\* other milestones move none, and cover no more than before.
LEMMA ShipmentKeepsShipping ==
  ASSUME IInv, ShippingInv, [Next]_vars, TypeOK', NEW s \in Shipments, ShipmentStep(s)
  PROVE  ShippingInv'
<1> DEFINE D(o) == Covered(o, Departed, shipment)
           R(o) == Covered(o, Readied, shipment)
<1>1. TypeOK /\ \A o \in Orders : Tells(order[o], D(o), R(o))
  BY FollowsShipmentsIs DEF IInv, ShippingInv, FollowsShipments
<1>2. \A o \in Orders : D(o) => R(o)
  BY <1>1, DepartedIsReadied
<1>3. ASSUME NEW target \in {"READY_TO_SHIP", "SHIPPED"}, NEW states, NEW st,
             RefreshProgress(s, target, states, st), NEW o \in Orders
      PROVE  order'[o] = IF o \in Parents(s) /\ order[o] \in {"EXECUTING", "READY_TO_SHIP"}
                            /\ Covered(o, states, st)
                         THEN target ELSE order[o]
  BY <1>3 DEF RefreshProgress
<1>4. CASE Ready(s)
  <2>1. Milestone(s, "BOOKED", "READY")
    BY <1>4 DEF Ready
  <2>2. RefreshProgress(s, "READY_TO_SHIP", Readied, [shipment EXCEPT ![s] = "READY"])
    BY <1>4 DEF Ready
  <2>3. ASSUME NEW o \in Orders PROVE FollowsShipments(o)'
    <3>1. /\ D(o)' <=> D(o)
          /\ R(o) => R(o)'
          /\ o \notin Parents(s) => (R(o)' <=> R(o))
          /\ R(o)' <=> Covered(o, Readied, [shipment EXCEPT ![s] = "READY"])
      BY <1>1, <2>1, MilestoneCovers DEF Departed, Readied
    <3>2. order'[o] = IF o \in Parents(s) /\ order[o] \in {"EXECUTING", "READY_TO_SHIP"} /\ R(o)'
                      THEN "READY_TO_SHIP" ELSE order[o]
      BY <1>3, <2>2, <3>1
    <3>3. Tells(order[o], D(o), R(o)) /\ (D(o) => R(o))
      BY <1>1, <1>2
    <3> HIDE DEF D, R
    <3>4. Tells(order'[o], D(o)', R(o)')
      BY <3>1, <3>2, <3>3 DEF Tells
    <3> QED BY <3>4 DEF FollowsShipments, D, R
  <2>4. \A o \in Orders : \/ order'[o] = order[o]
                          \/ order'[o] = "READY_TO_SHIP" /\ order[o] \notin Early
    BY <1>3, <2>2 DEF Early
  <2>5. /\ \A o \in Orders : order[o] \in Early => order'[o] = order[o]
        /\ \A o \in Orders : order'[o] \in Early => order[o] \in Early
    BY <2>4 DEF Early
  <2> QED BY <2>1, <2>3, <2>5, MilestoneFollows
<1>5. CASE Depart(s)
  <2>1. Milestone(s, "CUSTOMS", "DEPARTED")
    BY <1>5 DEF Depart
  <2>2. RefreshProgress(s, "SHIPPED", Departed, [shipment EXCEPT ![s] = "DEPARTED"])
    BY <1>5 DEF Depart
  <2>3. ASSUME NEW o \in Orders PROVE FollowsShipments(o)'
    <3>1. /\ R(o)' <=> R(o)
          /\ D(o) => D(o)'
          /\ o \notin Parents(s) => (D(o)' <=> D(o))
          /\ D(o)' <=> Covered(o, Departed, [shipment EXCEPT ![s] = "DEPARTED"])
      BY <1>1, <2>1, MilestoneCovers DEF Departed, Readied
    <3>2. order'[o] = IF o \in Parents(s) /\ order[o] \in {"EXECUTING", "READY_TO_SHIP"} /\ D(o)'
                      THEN "SHIPPED" ELSE order[o]
      BY <1>3, <2>2, <3>1
    <3>3. Tells(order[o], D(o), R(o))
      BY <1>1
    <3> HIDE DEF D, R
    <3>4. Tells(order'[o], D(o)', R(o)')
      BY <3>1, <3>2, <3>3 DEF Tells
    <3> QED BY <3>4 DEF FollowsShipments, D, R
  <2>4. \A o \in Orders : \/ order'[o] = order[o]
                          \/ order'[o] = "SHIPPED" /\ order[o] \notin Early
    BY <1>3, <2>2 DEF Early
  <2>5. /\ \A o \in Orders : order[o] \in Early => order'[o] = order[o]
        /\ \A o \in Orders : order'[o] \in Early => order[o] \in Early
    BY <2>4 DEF Early
  <2> QED BY <2>1, <2>3, <2>5, MilestoneFollows
<1>6. ASSUME NEW from, NEW to, Milestone(s, from, to), UNCHANGED order,
             from \in Departed <=> to \in Departed, from \in Readied <=> to \in Readied
      PROVE  ShippingInv'
  <2>1. ASSUME NEW o \in Orders PROVE FollowsShipments(o)'
    <3>1. (D(o)' <=> D(o)) /\ (R(o)' <=> R(o))
      BY <1>1, <1>6, MilestoneCovers
    <3>2. Tells(order[o], D(o), R(o))
      BY <1>1
    <3> HIDE DEF D, R
    <3>3. Tells(order'[o], D(o)', R(o)')
      BY <1>6, <3>1, <3>2 DEF Tells
    <3> QED BY <3>3 DEF FollowsShipments, D, R
  <2> QED BY <1>6, <2>1, MilestoneFollows
<1>7. CASE Book(s) \/ EnterCustoms(s) \/ StartTransit(s) \/ Arrive(s) \/ Deliver(s)
  BY <1>6, <1>7 DEF Book, EnterCustoms, StartTransit, Arrive, Deliver, Departed, Readied
<1> QED BY <1>4, <1>5, <1>7, PlanningFollows DEF ShipmentStep

LEMMA ShippingInductive == IInv /\ ShippingInv /\ TypeOK' /\ [Next]_vars => ShippingInv'
<1> SUFFICES ASSUME IInv, ShippingInv, TypeOK', [Next]_vars PROVE ShippingInv'
  OBVIOUS
<1> USE DEF shippingVars
<1>1. CASE \E s \in Shipments : ShipmentStep(s)
  BY <1>1, ShipmentKeepsShipping
<1>2. CASE ~ \E s \in Shipments : ShipmentStep(s)
  <2>1. UNCHANGED <<shipment, load>>
    <3>1. ASSUME NEW o \in Orders, OrderStep(o) PROVE UNCHANGED <<shipment, load>>
      BY <3>1 DEF OrderStep, Create, Confirm, Complete, ApprovedFollowUp, CompleteTask,
         GenerateReceivables
    <3>2. ASSUME NEW p \in Payments, PaymentStep(p) PROVE UNCHANGED <<shipment, load>>
      BY <3>2 DEF PaymentStep, RecordPayment, Allocate, Reverse
    <3>3. ASSUME NEW s \in Shipments, NEW d \in Documents, DocumentStep(s, d)
          PROVE  UNCHANGED <<shipment, load>>
      BY <3>3
         DEF DocumentStep, CreateUpload, CreateVersion, StartUpload, CompleteUpload, ScanDocument, SetDocument
    <3>4. CASE RefreshStatuses \/ NextDay \/ UNCHANGED vars
      BY <3>4 DEF RefreshStatuses, NextDay, vars
    <3> QED BY <1>2, <3>1, <3>2, <3>3, <3>4 DEF Next
  <2> QED BY <1>2, <2>1, OfficeKeepsShipping DEF ShipmentStep
<1> QED BY <1>1, <1>2

LEMMA ShippingInvariant == Spec => []ShippingInv
<1>1. Init => ShippingInv
  <2> SUFFICES ASSUME Init PROVE ShippingInv
    OBVIOUS
  <2>1. \A l \in Lines : Carried(l, Shipments) <= Quantity[l]
    <3> SUFFICES ASSUME NEW l \in Lines PROVE Carried(l, Shipments) <= Quantity[l]
      OBVIOUS
    <3>1. \A s \in Shipments : Shares(load, l)[s] = 0
      BY DEF Init, Shares
    <3>2. Carried(l, Shipments) = 0
      BY <3>1, FiniteAssumption, SumZero, CarriedIs
    <3>3. Quantity[l] \in 1..MaxQuantity /\ MaxQuantity \in Nat
      BY OrderAssumption
    <3> QED BY <3>2, <3>3
  <2>2. \A o \in Orders : order[o] = "ABSENT" /\ ~HasShipments(o)
    BY DEF Init, HasShipments
  <2> QED BY <2>1, <2>2 DEF ShippingInv, OrderFollowsShipments
<1>2. IInv /\ IInv' /\ ShippingInv /\ [Next]_vars => ShippingInv'
  BY ShippingInductive DEF IInv
<1> QED BY <1>1, <1>2, Inductive, PTL DEF Spec

\* Shipments never plan more than was ordered, and no milestone of an order is
\* early or missed, however its lines are split over shipments
\* (refresh_shipping_progress, create, reverse).
THEOREM OrderFollows == Spec => []OrderFollowsShipments
<1>1. ShippingInv => OrderFollowsShipments
  BY DEF ShippingInv
<1> QED BY <1>1, ShippingInvariant, PTL

-----------------------------------------------------------------------------
(* What receipts pay and what receivables count as paid.                    *)

Rows(a, r) == [p \in Payments |-> a[p][r]]
Active(state) == {p \in Payments : state[p] = "ACTIVE"}

\* A receipt that is not recorded yet has no row.
ReceiptsInv ==
  /\ ReceiptsAddUp
  /\ \A p \in Payments, r \in Receivables : payment[p] = "ABSENT" => allocated[p][r] = 0

LEMMA ReceivablesFinite == IsFiniteSet(Receivables)
<1>1. IsFiniteSet({"DEPOSIT", "BALANCE"})
  <2>1. IsFiniteSet({} \cup {"DEPOSIT"})
    BY FS_EmptySet, FS_AddElement
  <2>2. IsFiniteSet(({} \cup {"DEPOSIT"}) \cup {"BALANCE"})
    BY <2>1, FS_AddElement
  <2>3. ({} \cup {"DEPOSIT"}) \cup {"BALANCE"} = {"DEPOSIT", "BALANCE"}
    OBVIOUS
  <2> QED BY <2>2, <2>3
<1> QED BY <1>1, FiniteAssumption, FS_Product DEF Receivables

LEMMA ReceiptsAre ==
  ASSUME TypeOK
  PROVE  ReceiptsAddUp <=>
           /\ \A p \in Payments : SumOver(allocated[p], Receivables) <= Received[p]
           /\ \A r \in Receivables : ledger[r] = SumOver(Rows(allocated, r), Active(payment))
<1>1. \A p \in Payments : SumFunction(allocated[p]) = SumOver(allocated[p], Receivables)
  <2>1. \A p \in Payments : DOMAIN allocated[p] = Receivables
    BY DEF TypeOK
  <2> QED BY <2>1, SumIs DEF SumFunction
<1> QED BY <1>1, SumIs DEF ReceiptsAddUp, Rows, Active

LEMMA ReceiptsAreNext ==
  ASSUME TypeOK',
         \A p \in Payments : SumOver(allocated'[p], Receivables) <= Received[p],
         \A r \in Receivables : ledger'[r] = SumOver(Rows(allocated', r), Active(payment'))
  PROVE  ReceiptsAddUp'
<1>1. \A p \in Payments : SumFunction(allocated'[p]) = SumOver(allocated'[p], Receivables)
  <2>1. \A p \in Payments : DOMAIN allocated'[p] = Receivables
    BY DEF TypeOK
  <2> QED BY <2>1, SumIs DEF SumFunction
<1>2. \A r \in Receivables :
        SumFunctionOnSet([p \in Payments |-> allocated'[p][r]], Active(payment'))
          = SumOver(Rows(allocated', r), Active(payment'))
  BY SumIs DEF Rows
<1> QED BY <1>1, <1>2 DEF ReceiptsAddUp, Active

\* The rows of the receipts are numbers.
LEMMA RowsAreTyped ==
  ASSUME NEW a \in [Payments -> [Receivables -> Nat]], NEW r \in Receivables
  PROVE  \A p \in Payments : Rows(a, r)[p] = a[p][r] /\ Rows(a, r)[p] \in Int
BY DEF Rows

\* allocate adds the same amounts to the receipt and to the ledger.
LEMMA AllocateAddsUp ==
  ASSUME TypeOK, TypeOK', ReceiptsInv, NEW p \in Payments, Allocate(p)
  PROVE  ReceiptsInv'
<1> USE DEF orderVars, moneyVars, shippingVars
<1>1. PICK share \in [Receivables -> 0..Received[p]] :
        /\ Affordable(p, share)
        /\ Settle({r \in Receivables : share[r] > 0},
                  [r \in Receivables |-> ledger[r] + share[r]], FALSE)
        /\ allocated' = [allocated EXCEPT ![p] =
                           [r \in Receivables |-> allocated[p][r] + share[r]]]
  BY DEF Allocate
<1>2. payment[p] = "ACTIVE" /\ payment' = payment /\ Received[p] \in Nat
  BY PaymentAssumption DEF Allocate
<1>3. \A r \in Receivables : share[r] \in Nat /\ ledger[r] \in Int
  BY <1>2 DEF TypeOK
<1>4. /\ allocated \in [Payments -> [Receivables -> Nat]]
      /\ allocated' \in [Payments -> [Receivables -> Nat]]
  BY DEF TypeOK
<1>5. /\ \A q \in Payments \ {p} : allocated'[q] = allocated[q]
      /\ allocated'[p] = [r \in Receivables |-> allocated[p][r] + share[r]]
  BY <1>1, <1>4
<1>6. SumOver(allocated'[p], Receivables) <= Received[p]
  <2>1. \A r \in Receivables : /\ allocated[p][r] \in Int /\ share[r] \in Int
                               /\ allocated'[p][r] \in Int
                               /\ allocated'[p][r] = allocated[p][r] + share[r]
    BY <1>3, <1>4, <1>5
  <2>2. SumOver(allocated'[p], Receivables)
          = SumOver(allocated[p], Receivables) + SumOver(share, Receivables)
    BY <2>1, ReceivablesFinite, SumPlus
  <2>3. DOMAIN allocated[p] = Receivables /\ DOMAIN share = Receivables
    BY <1>4
  <2> QED BY <1>1, <2>2, <2>3, SumIs DEF Affordable, SumFunction
<1>7. \A q \in Payments : SumOver(allocated'[q], Receivables) <= Received[q]
  BY <1>5, <1>6, ReceiptsAre DEF ReceiptsInv
<1>8. ASSUME NEW r \in Receivables
      PROVE  ledger'[r] = SumOver(Rows(allocated', r), Active(payment'))
  <2> DEFINE f == Rows(allocated, r)
             h == Rows(allocated', r)
             A == Active(payment)
  <2>1. IsFiniteSet(A) /\ p \in A /\ A \subseteq Payments
    BY <1>2, FiniteAssumption, FS_Subset DEF Active
  <2>2. /\ \A q \in A : f[q] \in Int /\ h[q] \in Int
        /\ \A q \in A : f[q] = allocated[q][r] /\ h[q] = allocated'[q][r]
    BY <1>4, <2>1, RowsAreTyped
  <2>3. (\A q \in A \ {p} : h[q] = f[q]) /\ h[p] = f[p] + share[r]
    BY <1>5, <2>1, <2>2
  <2>4. ledger[r] = SumOver(f, A)
    BY ReceiptsAre DEF ReceiptsInv
  <2>5. ledger'[r] = ledger[r] + share[r]
    <3>1. ledger'[r] = IF share[r] > 0 THEN ledger[r] + share[r] ELSE ledger[r]
      BY <1>1 DEF Settle
    <3> QED BY <1>3, <3>1
  <2> HIDE DEF f, h, A
  <2>6. SumOver(h, A) = SumOver(f, A) + h[p] - f[p]
    BY <2>1, <2>2, <2>3, SumChange
  <2>7. SumOver(f, A) \in Int
    BY <2>1, <2>2, SumInt
  <2>8. ledger'[r] = SumOver(h, A)
    BY <1>3, <2>1, <2>2, <2>3, <2>4, <2>5, <2>6, <2>7
  <2> QED BY <1>2, <2>8 DEF h, A
<1>9. ReceiptsAddUp'
  BY <1>7, <1>8, ReceiptsAreNext
<1>10. ASSUME NEW q \in Payments, NEW r \in Receivables, payment'[q] = "ABSENT"
       PROVE  allocated'[q][r] = 0
  BY <1>2, <1>5, <1>10 DEF ReceiptsInv
<1> QED BY <1>9, <1>10 DEF ReceiptsInv

\* reverse takes off the ledger all that the receipt had added.
LEMMA ReverseAddsUp ==
  ASSUME TypeOK, TypeOK', ReceiptsInv, NEW p \in Payments, Reverse(p)
  PROVE  ReceiptsInv'
<1>1. /\ payment[p] = "ACTIVE" /\ allocated' = allocated
      /\ payment' = [payment EXCEPT ![p] = "REVERSED"]
      /\ Settle({r \in Receivables : allocated[p][r] > 0},
                [r \in Receivables |-> ledger[r] - allocated[p][r]], TRUE)
  BY DEF Reverse
<1>2. Active(payment') = Active(payment) \ {p} /\ p \in Active(payment)
  BY <1>1 DEF Active, TypeOK
<1>3. allocated \in [Payments -> [Receivables -> Nat]]
  BY DEF TypeOK
<1>4. ASSUME NEW r \in Receivables
      PROVE  ledger'[r] = SumOver(Rows(allocated', r), Active(payment'))
  <2> DEFINE f == Rows(allocated, r)
             A == Active(payment)
  <2>1. IsFiniteSet(A) /\ A \subseteq Payments
    BY FiniteAssumption, FS_Subset DEF Active
  <2>2. (\A q \in A : f[q] \in Int) /\ f[p] = allocated[p][r] /\ allocated[p][r] \in Nat
    BY <1>2, <1>3, <2>1, RowsAreTyped
  <2>3. ledger[r] = SumOver(f, A)
    BY ReceiptsAre DEF ReceiptsInv
  <2>4. ledger'[r] = ledger[r] - allocated[p][r]
    <3>1. ledger'[r] = IF allocated[p][r] > 0 THEN ledger[r] - allocated[p][r] ELSE ledger[r]
      BY <1>1 DEF Settle
    <3>2. ledger[r] \in Int
      BY DEF TypeOK
    <3> QED BY <2>2, <3>1, <3>2
  <2>5. IsFiniteSet(A \ {p}) /\ p \in A
    BY <1>2, <2>1, FS_Subset
  <2> HIDE DEF f, A
  <2>6. SumOver(f, A) = f[p] + SumOver(f, A \ {p}) /\ SumOver(f, A \ {p}) \in Int
    BY <2>1, <2>2, <2>5, SumPick, SumInt
  <2>7. ledger'[r] = SumOver(f, A \ {p})
    BY <2>2, <2>3, <2>4, <2>6
  <2> QED BY <1>1, <1>2, <2>7 DEF f, A
<1>5. ReceiptsAddUp'
  BY <1>1, <1>4, ReceiptsAre, ReceiptsAreNext DEF ReceiptsInv
<1>6. \A q \in Payments : payment'[q] = "ABSENT" => payment[q] = "ABSENT"
  BY <1>1 DEF TypeOK
<1> QED BY <1>1, <1>5, <1>6 DEF ReceiptsInv

\* A new receipt pays nothing yet.
LEMMA RecordAddsUp ==
  ASSUME TypeOK, TypeOK', ReceiptsInv, NEW p \in Payments, RecordPayment(p)
  PROVE  ReceiptsInv'
<1>1. /\ payment[p] = "ABSENT" /\ payment' = [payment EXCEPT ![p] = "ACTIVE"]
      /\ UNCHANGED <<allocated, ledger>>
  BY DEF RecordPayment
<1>2. Active(payment') = Active(payment) \cup {p} /\ p \notin Active(payment)
  BY <1>1 DEF Active, TypeOK
<1>3. allocated \in [Payments -> [Receivables -> Nat]]
  BY DEF TypeOK
<1>4. ASSUME NEW r \in Receivables
      PROVE  ledger'[r] = SumOver(Rows(allocated', r), Active(payment'))
  <2> DEFINE f == Rows(allocated, r)
             A == Active(payment)
  <2>1. IsFiniteSet(A) /\ A \subseteq Payments
    BY FiniteAssumption, FS_Subset DEF Active
  <2>2. (\A q \in A : f[q] \in Int) /\ f[p] = 0
    BY <1>1, <1>3, <2>1, RowsAreTyped DEF ReceiptsInv
  <2>3. ledger[r] = SumOver(f, A)
    BY ReceiptsAre DEF ReceiptsInv
  <2>4. p \notin A
    BY <1>2
  <2> HIDE DEF f, A
  <2>5. SumOver(f, A \cup {p}) = 0 + SumOver(f, A) /\ SumOver(f, A) \in Int
    BY <2>1, <2>2, <2>4, SumGrow, SumInt
  <2>6. ledger[r] = SumOver(f, A \cup {p})
    BY <2>3, <2>5
  <2> QED BY <1>1, <1>2, <2>6 DEF f, A
<1>5. ReceiptsAddUp'
  BY <1>1, <1>4, ReceiptsAre, ReceiptsAreNext DEF ReceiptsInv
<1>6. \A q \in Payments : payment'[q] = "ABSENT" => payment[q] = "ABSENT"
  BY <1>1 DEF TypeOK
<1> QED BY <1>1, <1>5, <1>6 DEF ReceiptsInv

LEMMA ReceiptsInvariant == Spec => []ReceiptsInv
<1>1. Init => ReceiptsInv
  <2> SUFFICES ASSUME Init PROVE ReceiptsInv
    OBVIOUS
  <2>1. TypeOK
    BY OrderAssumption, BoundsAssumption
       DEF Init, TypeOK, OrderStatus, ReceivableStatus, PaymentStatus, ShipmentStatus,
           DocumentStatus, Days
  <2>2. \A p \in Payments : SumOver(allocated[p], Receivables) <= Received[p]
    <3> SUFFICES ASSUME NEW p \in Payments PROVE SumOver(allocated[p], Receivables) <= Received[p]
      OBVIOUS
    <3>1. \A r \in Receivables : allocated[p][r] = 0
      BY DEF Init
    <3>2. SumOver(allocated[p], Receivables) = 0
      BY <3>1, ReceivablesFinite, SumZero
    <3>3. Received[p] \in Nat
      BY PaymentAssumption
    <3> QED BY <3>2, <3>3
  <2>3. \A r \in Receivables : ledger[r] = SumOver(Rows(allocated, r), Active(payment))
    <3>1. Active(payment) = {} /\ \A r \in Receivables : ledger[r] = 0
      BY DEF Init, Active
    <3> QED BY <3>1, SumOfNone
  <2> QED BY <2>1, <2>2, <2>3, ReceiptsAre DEF ReceiptsInv, Init
<1>2. IInv /\ IInv' /\ ReceiptsInv /\ [Next]_vars => ReceiptsInv'
  <2> SUFFICES ASSUME IInv, IInv', ReceiptsInv, [Next]_vars PROVE ReceiptsInv'
    OBVIOUS
  <2> USE DEF orderVars, moneyVars, shippingVars
  <2>1. TypeOK /\ TypeOK'
    BY DEF IInv
  <2>2. ASSUME UNCHANGED <<ledger, payment, allocated>> PROVE ReceiptsInv'
    BY <2>2 DEF ReceiptsInv, ReceiptsAddUp
  <2>3. ASSUME NEW p \in Payments, PaymentStep(p) PROVE ReceiptsInv'
    BY <2>1, <2>3, AllocateAddsUp, ReverseAddsUp, RecordAddsUp DEF PaymentStep
  <2>4. ASSUME NEW o \in Orders, OrderStep(o) PROVE UNCHANGED <<ledger, payment, allocated>>
    BY <2>4 DEF OrderStep, Create, Confirm, Complete, ApprovedFollowUp, CompleteTask,
       GenerateReceivables
  <2>5. ASSUME NEW s \in Shipments, ShipmentStep(s) PROVE UNCHANGED <<ledger, payment, allocated>>
    BY <2>5 DEF ShipmentStep, CreateShipment, Book, Ready, EnterCustoms,
       Depart, StartTransit, Arrive, Deliver, Milestone
  <2>6. ASSUME NEW s \in Shipments, NEW d \in Documents, DocumentStep(s, d)
        PROVE  UNCHANGED <<ledger, payment, allocated>>
    BY <2>6
       DEF DocumentStep, CreateUpload, CreateVersion, StartUpload, CompleteUpload, ScanDocument, SetDocument
  <2>7. ASSUME RefreshStatuses \/ NextDay \/ UNCHANGED vars
        PROVE  UNCHANGED <<ledger, payment, allocated>>
    BY <2>7 DEF RefreshStatuses, NextDay, vars
  <2> QED BY <2>2, <2>3, <2>4, <2>5, <2>6, <2>7 DEF Next
<1> QED BY <1>1, <1>2, Inductive, PTL DEF Spec

\* Through any mix of partial allocations and reversals no receipt pays more
\* than its amount, and the ledger of a receivable is what the receipts that
\* still count pay of it (allocate, allocated_totals, reverse).
THEOREM ReceiptsSum == Spec => []ReceiptsAddUp
<1>1. ReceiptsInv => ReceiptsAddUp
  BY DEF ReceiptsInv
<1> QED BY <1>1, ReceiptsInvariant, PTL

-----------------------------------------------------------------------------
(* What a completed order has behind it.                                    *)

Settled(o) ==
  /\ \A s \in Shipments : o \in Parents(s) => shipment[s] = "DELIVERED"
  /\ ReceivablesCoverTotal(o)
  /\ o \in waived \/ Debts(o) = {}

\* The whole quantity is delivered, and no shipment plans more: none is left.
LEMMA DeliveredIsAll ==
  ASSUME TypeOK, ShippingInv, NEW o \in Orders, Delivered(o),
         NEW s \in Shipments, o \in Parents(s)
  PROVE  shipment[s] = "DELIVERED"
<1> SUFFICES ASSUME shipment[s] # "DELIVERED" PROVE FALSE
  OBVIOUS
<1>1. PICK l \in Lines : OrderOf[l] = o /\ load[s][l] > 0
  BY DEF Parents
<1> DEFINE f == Shares(load, l)
           S == {t \in Shipments : shipment[t] = "DELIVERED"}
<1>2. /\ load \in Loads /\ S \in SUBSET Shipments /\ S \cup {s} \in SUBSET Shipments /\ s \notin S
  BY LoadsAreTyped
<1>3. SumOver(f, S) = Quantity[l] /\ SumOver(f, Shipments) <= Quantity[l] /\ Quantity[l] \in Nat
  <2>1. Carried(l, S) = Quantity[l]
    BY <1>1 DEF Delivered
  <2>2. Carried(l, Shipments) <= Quantity[l]
    BY FollowsShipmentsIs DEF ShippingInv
  <2> QED BY <2>1, <2>2, CarriedIs, OrderAssumption
<1>4. /\ IsFiniteSet(Shipments) /\ IsFiniteSet(S) /\ SumOver(f, Shipments) \in Nat
      /\ \A t \in Shipments : f[t] \in Nat /\ f[t] \in Int
      /\ f[s] = load[s][l] /\ SumOver(f, S) \in Nat
  BY <1>2, SharesAreTyped
<1> HIDE DEF f, S
<1>5. SumOver(f, S \cup {s}) = f[s] + SumOver(f, S)
  BY <1>2, <1>4, SumGrow
<1>6. SumOver(f, S \cup {s}) <= SumOver(f, Shipments)
  BY <1>2, <1>4, SumSubset
<1> QED BY <1>1, <1>3, <1>4, <1>5, <1>6

\* Completed orders get no further shipment, and what is delivered stays so.
LEMMA DeliveredStays ==
  ASSUME TypeOK, [Next]_vars, NEW o \in Orders, Finalized(o), NEW s \in Shipments,
         o \in Parents(s)', o \in Parents(s) => shipment[s] = "DELIVERED"
  PROVE  shipment'[s] = "DELIVERED"
<1> USE DEF orderVars, moneyVars, shippingVars
<1>1. ASSUME UNCHANGED <<shipment, load>> PROVE shipment'[s] = "DELIVERED"
  BY <1>1 DEF Parents
<1>2. PICK l \in Lines : OrderOf[l] = o /\ load'[s][l] > 0
  BY DEF Parents
<1>3. ASSUME NEW t \in Shipments, CreateShipment(t) PROVE shipment'[s] = "DELIVERED"
  <2>1. PICK items \in [Lines -> 0..MaxQuantity] :
          /\ \A k \in Lines : items[k] > 0 => order[OrderOf[k]] \in {"EXECUTING", "READY_TO_SHIP"}
          /\ load' = [load EXCEPT ![t] = items]
    BY <1>3 DEF CreateShipment
  <2>2. s # t
    BY <1>2, <2>1 DEF Finalized, TypeOK
  <2>3. load'[s] = load[s] /\ shipment'[s] = shipment[s]
    BY <1>3, <2>1, <2>2 DEF CreateShipment, TypeOK
  <2>4. o \in Parents(s)
    BY <1>2, <2>3 DEF Parents
  <2> QED BY <2>3, <2>4
<1>4. ASSUME NEW t \in Shipments, NEW from \in ShipmentStatus \ {"DELIVERED"}, NEW to,
             Milestone(t, from, to)
      PROVE  shipment'[s] = "DELIVERED"
  <2>1. load' = load /\ shipment[t] = from /\ shipment' = [shipment EXCEPT ![t] = to]
    BY <1>4 DEF Milestone
  <2>2. o \in Parents(s)
    BY <1>2, <2>1 DEF Parents
  <2>3. s # t
    BY <1>4, <2>1, <2>2
  <2> QED BY <2>1, <2>2, <2>3 DEF TypeOK
<1>5. ASSUME NEW t \in Shipments, ShipmentStep(t) PROVE shipment'[s] = "DELIVERED"
  BY <1>3, <1>4, <1>5 DEF ShipmentStep, Book, Ready, EnterCustoms, Depart,
     StartTransit, Arrive, Deliver, ShipmentStatus
<1>6. ASSUME NEW q \in Orders, OrderStep(q) PROVE UNCHANGED <<shipment, load>>
  BY <1>6 DEF OrderStep, Create, Confirm, Complete, ApprovedFollowUp, CompleteTask,
     GenerateReceivables
<1>7. ASSUME NEW p \in Payments, PaymentStep(p) PROVE UNCHANGED <<shipment, load>>
  BY <1>7 DEF PaymentStep, RecordPayment, Allocate, Reverse
<1>8. ASSUME NEW t \in Shipments, NEW d \in Documents, DocumentStep(t, d)
      PROVE  UNCHANGED <<shipment, load>>
  BY <1>8
     DEF DocumentStep, CreateUpload, CreateVersion, StartUpload, CompleteUpload, ScanDocument, SetDocument
<1>9. ASSUME RefreshStatuses \/ NextDay \/ UNCHANGED vars PROVE UNCHANGED <<shipment, load>>
  BY <1>9 DEF RefreshStatuses, NextDay, vars
<1> QED BY <1>1, <1>5, <1>6, <1>7, <1>8, <1>9 DEF Next

\* The amounts of an order are fixed when it is created, and a waiver stays.
LEMMA TermsStay ==
  ASSUME TypeOK, [Next]_vars, NEW o \in Orders, order[o] # "ABSENT"
  PROVE  deposit'[o] = deposit[o] /\ waived \subseteq waived'
<1> USE DEF orderVars, moneyVars, shippingVars
<1> DEFINE Goal == deposit'[o] = deposit[o] /\ waived \subseteq waived'
<1>1. ASSUME NEW q \in Orders, OrderStep(q) PROVE Goal
  BY <1>1 DEF OrderStep, Create, Confirm, Complete, ApprovedFollowUp, CompleteTask,
     GenerateReceivables, TypeOK
<1>2. ASSUME NEW p \in Payments, PaymentStep(p) PROVE Goal
  BY <1>2 DEF PaymentStep, RecordPayment, Allocate, Reverse
<1>3. ASSUME NEW s \in Shipments, ShipmentStep(s) PROVE Goal
  BY <1>3 DEF ShipmentStep, CreateShipment, Book, Ready, EnterCustoms,
     Depart, StartTransit, Arrive, Deliver, Milestone
<1>4. ASSUME NEW s \in Shipments, NEW d \in Documents, DocumentStep(s, d) PROVE Goal
  BY <1>4
     DEF DocumentStep, CreateUpload, CreateVersion, StartUpload, CompleteUpload, ScanDocument, SetDocument
<1>5. ASSUME RefreshStatuses \/ NextDay \/ UNCHANGED vars PROVE Goal
  BY <1>5 DEF RefreshStatuses, NextDay, vars
<1> QED BY <1>1, <1>2, <1>3, <1>4, <1>5 DEF Next

\* The receivables of an order that has them all keep covering its total.
LEMMA CoverageStays ==
  ASSUME NEW o, ReceivablesCoverTotal(o), ReceivablesOf(o)' = ReceivablesOf(o),
         \A r \in ReceivablesOf(o) : Amount(r)' = Amount(r)
  PROVE  ReceivablesCoverTotal(o)'
<1> DEFINE f == [r \in Receivables |-> Amount(r)]
           h == [r \in Receivables |-> Amount(r)']
           S == ReceivablesOf(o)
<1>1. IsFiniteSet(S) /\ S \subseteq Receivables
  BY ReceivablesFinite, FS_Subset DEF ReceivablesOf
<1>2. \A r \in S : f[r] = h[r]
  BY <1>1
<1>3. SumOver(f, S) = Total[o]
  BY SumIs DEF ReceivablesCoverTotal
<1>4. SumFunctionOnSet(h, S) = SumOver(h, S)
  BY SumIs
<1>5. SumOver(f, S) = SumOver(h, S)
  <2> HIDE DEF f, h, S
  <2> QED BY <1>1, <1>2, SumSame
<1> QED BY <1>3, <1>4, <1>5 DEF ReceivablesCoverTotal

LEMMA CompletedStaysSettled ==
  ASSUME IInv, [Next]_vars, NEW o \in Orders, Finalized(o), Settled(o)
  PROVE  Settled(o)'
<1>1. TypeOK /\ ReceivablesFollowLedger /\ order[o] = "COMPLETED"
  BY DEF IInv, Finalized
<1>2. \A s \in Shipments : (o \in Parents(s))' => shipment'[s] = "DELIVERED"
  BY <1>1, DeliveredStays DEF Settled
<1>3. deposit'[o] = deposit[o] /\ waived \subseteq waived'
  BY <1>1, TermsStay
<1>4. ASSUME NEW r \in Receivables, r[1] = o PROVE Exists(r)' <=> Exists(r)
  <2>1. Exists(r) => Exists(r)'
    BY ReceivablesStay
  <2>2. Exists(r)' => Exists(r) \/ GenerateReceivables(o)
    BY <1>4, ReceivablesAreGenerated
  <2>3. ~GenerateReceivables(o)
    BY <1>1 DEF GenerateReceivables
  <2> QED BY <2>1, <2>2, <2>3
<1>5. ReceivablesOf(o)' = ReceivablesOf(o)
  BY <1>4 DEF ReceivablesOf
<1>6. \A r \in ReceivablesOf(o) : Amount(r)' = Amount(r)
  BY <1>3 DEF ReceivablesOf, Amount
<1>7. ReceivablesCoverTotal(o)'
  BY <1>5, <1>6, CoverageStays DEF Settled
<1>8. ASSUME NEW r \in Debts(o)' PROVE r \in Debts(o)
  <2>1. r \in ReceivablesOf(o) /\ ledger'[r] < Amount(r)'
    BY <1>5 DEF Debts
  <2>2. r \in Receivables /\ r[1] = o
    BY <2>1 DEF ReceivablesOf
  <2>3. ledger'[r] >= ledger[r]
    BY <2>2, LedgerGrows
  <2>4. ledger[r] \in Int /\ Amount(r) \in Int /\ Amount(r)' = Amount(r)
    BY <1>1, <1>6, <2>1, <2>2, AmountsAreNumbers DEF TypeOK
  <2>5. ledger'[r] \in Int
    BY <2>2, <1>1, TypeInductive DEF TypeOK
  <2> QED BY <2>1, <2>3, <2>4, <2>5 DEF Debts
<1>9. o \in waived' \/ Debts(o)' = {}
  BY <1>3, <1>8 DEF Settled
<1> QED BY <1>2, <1>7, <1>9 DEF Settled

\* complete: what it checks is what Settled says.
LEMMA CompletionSettles ==
  ASSUME TypeOK, ShippingInv, NEW o \in Orders, Complete(o) PROVE Settled(o)'
<1> USE DEF orderVars, moneyVars, shippingVars
<1>1. /\ Delivered(o) /\ ReceivablesCoverTotal(o)
      /\ waived' = IF Debts(o) # {} THEN waived \cup {o} ELSE waived
      /\ UNCHANGED <<deposit, moneyVars, shippingVars>>
  BY DEF Complete
<1>2. \A s \in Shipments : (o \in Parents(s))' => shipment'[s] = "DELIVERED"
  <2>1. \A s \in Shipments : Parents(s)' = Parents(s)
    BY <1>1 DEF Parents
  <2> QED BY <1>1, <2>1, DeliveredIsAll
<1>3. ReceivablesOf(o)' = ReceivablesOf(o) /\ \A r : Amount(r)' = Amount(r)
  BY <1>1 DEF ReceivablesOf, Exists, Amount
<1>4. ReceivablesCoverTotal(o)'
  BY <1>1, <1>3, CoverageStays
<1>5. Debts(o)' = Debts(o)
  BY <1>1, <1>3 DEF Debts
<1> QED BY <1>1, <1>2, <1>4, <1>5 DEF Settled

\* A completed order has no undelivered shipment, no open task and no debt that
\* was not waived, and stays so whatever receipts, shipments and tasks do
\* (complete, reverse, lock_open_order; IMPLEMENTATION_GUIDE 167).
THEOREM CompletedSettled == Spec => []CompletedIsSettled
<1> DEFINE SettledInv == \A o \in Orders : Finalized(o) => Settled(o)
<1>1. Init => SettledInv
  BY DEF Init, Finalized
<1>2. IInv /\ ShippingInv /\ SettledInv /\ [Next]_vars => SettledInv'
  <2> SUFFICES ASSUME IInv, ShippingInv, SettledInv, [Next]_vars,
                      NEW o \in Orders, Finalized(o)'
               PROVE  Settled(o)'
    OBVIOUS
  <2>1. CASE Finalized(o)
    BY <2>1, CompletedStaysSettled
  <2>2. CASE ~Finalized(o)
    <3>1. Complete(o)
      BY <2>2, OrderSteps DEF IInv, Finalized
    <3> QED BY <3>1, CompletionSettles DEF IInv
  <2> QED BY <2>1, <2>2
<1>3. IInv /\ SettledInv => CompletedIsSettled
  BY DEF IInv, Coupling, Settled, CompletedIsSettled
<1> QED BY <1>1, <1>2, <1>3, Inductive, ShippingInvariant, PTL DEF Spec

=============================================================================
