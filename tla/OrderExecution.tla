--------------------------- MODULE OrderExecution ---------------------------
(***************************************************************************)
(* A sales order from its creation to its completion: the order commands   *)
(* of apps/api/app/sales, the receivables and receipts of                  *)
(* apps/api/app/finance/services.py, the shipments of                      *)
(* apps/api/app/fulfillment/services.py, the shipping documents of         *)
(* apps/api/app/documents/services.py and the tasks of apps/api/app/work.  *)
(*                                                                         *)
(* Every command here is one transaction that locks the rows of its orders *)
(* before it reads them, so a command is one action.  A command that is    *)
(* refused, or repeated with its key, changes nothing and is not an action.*)
(***************************************************************************)
EXTENDS Integers, FiniteSets, Functions

CONSTANTS
  Orders,     \* accepted quotations, with the one order each can become
  Lines,      \* sales_order_items
  OrderOf,    \* the order of a line
  Quantity,   \* the ordered quantity of a line
  Total,      \* the total of an order, in its currency
  Customer,   \* of an order, its company and currency
  Payments,   \* receipts
  Received,   \* the amount of a receipt
  Payer,      \* of a receipt, its company and currency
  Shipments,
  Documents,  \* the documents a shipment can have
  Kind,       \* of a document, one of SHIPMENT_DEPARTURE_REQUIRED_DOCUMENTS
  LastDay,    \* bound: the days that pass
  MaxQuantity,  \* bound: the largest ordered quantity
  MaxTasks    \* bound: the open tasks of an order

ASSUME OrderAssumption ==
  /\ OrderOf \in [Lines -> Orders]
  /\ MaxQuantity \in Nat
  /\ Quantity \in [Lines -> 1..MaxQuantity]
  /\ Total \in [Orders -> Nat]
\* A quotation has at least one item (QuotationCreate.items, min_length=1).
ASSUME LinesAssumption == \A o \in Orders : \E l \in Lines : OrderOf[l] = o
ASSUME FiniteAssumption ==
  IsFiniteSet(Orders) /\ IsFiniteSet(Payments) /\ IsFiniteSet(Shipments)
ASSUME PaymentAssumption == Received \in [Payments -> Nat \ {0}]
ASSUME BoundsAssumption == LastDay \in Nat /\ MaxTasks \in Nat \ {0}

VARIABLES
  order,       \* sales_orders.status; "ABSENT" before the order is created
  deposit,     \* sales_orders.deposit_amount
  tasks,       \* per order, how many of its tasks are OPEN or IN_PROGRESS
  waived,      \* the orders completed under a financial waiver
  receivable,  \* receivables.status
  due,         \* receivables.due_date
  ledger,      \* allocated_totals: the signed sum of the rows of a receivable
  today,       \* the date in the organization's time zone
  payment,     \* payments.status
  allocated,   \* the ALLOCATION rows: what a receipt pays of a receivable
  shipment,    \* shipments.status
  load,        \* shipment_items: the quantity of each line in a shipment
  document     \* the status of the latest version of a shipping document

orderVars == <<order, deposit, tasks, waived>>
moneyVars == <<receivable, due, ledger, payment, allocated>>
shippingVars == <<shipment, load, document>>
vars == <<orderVars, moneyVars, shippingVars, today>>

Days == 0..LastDay
Receivables == Orders \X {"DEPOSIT", "BALANCE"}

OrderStatus == {"ABSENT", "DRAFT", "DEPOSIT_PENDING", "EXECUTING",
                "READY_TO_SHIP", "SHIPPED", "COMPLETED"}
ReceivableStatus == {"ABSENT", "PENDING", "DUE", "OVERDUE", "PARTIALLY_PAID", "PAID"}
PaymentStatus == {"ABSENT", "ACTIVE", "REVERSED"}
ShipmentStatus == {"ABSENT", "PLANNING", "BOOKED", "READY", "CUSTOMS",
                   "DEPARTED", "IN_TRANSIT", "ARRIVED", "DELIVERED"}
DocumentStatus == {"NONE", "PENDING_UPLOAD", "UPLOADED", "AVAILABLE"}

TypeOK ==
  /\ order \in [Orders -> OrderStatus]
  /\ deposit \in [Orders -> Nat]
  /\ tasks \in [Orders -> 0..MaxTasks]
  /\ waived \in SUBSET Orders
  /\ receivable \in [Receivables -> ReceivableStatus]
  /\ due \in [Receivables -> Days]
  /\ ledger \in [Receivables -> Int]
  /\ today \in Days
  /\ payment \in [Payments -> PaymentStatus]
  /\ allocated \in [Payments -> [Receivables -> Nat]]
  /\ shipment \in [Shipments -> ShipmentStatus]
  /\ load \in [Shipments -> [Lines -> 0..MaxQuantity]]
  /\ document \in [Shipments -> [Documents -> DocumentStatus]]

Init ==
  /\ order = [o \in Orders |-> "ABSENT"]
  /\ deposit = [o \in Orders |-> 0]
  /\ tasks = [o \in Orders |-> 0]
  /\ waived = {}
  /\ receivable = [r \in Receivables |-> "ABSENT"]
  /\ due = [r \in Receivables |-> 0]
  /\ ledger = [r \in Receivables |-> 0]
  /\ today = 0
  /\ payment = [p \in Payments |-> "ABSENT"]
  /\ allocated = [p \in Payments |-> [r \in Receivables |-> 0]]
  /\ shipment = [s \in Shipments |-> "ABSENT"]
  /\ load = [s \in Shipments |-> [l \in Lines |-> 0]]
  /\ document = [s \in Shipments |-> [d \in Documents |-> "NONE"]]

-----------------------------------------------------------------------------
(* SalesOrderCommandService: the order and its deposit.                    *)

\* The deposit rate of the request decides the deposit amount for good.
Create(o) ==
  /\ order[o] = "ABSENT"
  /\ order' = [order EXCEPT ![o] = "DRAFT"]
  /\ \E d \in 0..Total[o] : deposit' = [deposit EXCEPT ![o] = d]
  /\ UNCHANGED <<tasks, waived, moneyVars, shippingVars, today>>

\* confirm, which opens the procurement preparation task.
Confirm(o) ==
  /\ order[o] = "DRAFT" /\ tasks[o] < MaxTasks
  /\ order' = [order EXCEPT ![o] = IF deposit[o] > 0 THEN "DEPOSIT_PENDING"
                                                     ELSE "EXECUTING"]
  /\ tasks' = [tasks EXCEPT ![o] = @ + 1]
  /\ UNCHANGED <<deposit, waived, moneyVars, shippingVars, today>>

Finalized(o) == order[o] = "COMPLETED"

\* create_approved_follow_up: an approved AI suggestion becomes a task.
ApprovedFollowUp(o) ==
  /\ order[o] # "ABSENT" /\ ~Finalized(o)
  /\ tasks[o] < MaxTasks
  /\ tasks' = [tasks EXCEPT ![o] = @ + 1]
  /\ UNCHANGED <<order, deposit, waived, moneyVars, shippingVars, today>>

\* complete_order_task.
CompleteTask(o) ==
  /\ tasks[o] > 0
  /\ tasks' = [tasks EXCEPT ![o] = @ - 1]
  /\ UNCHANGED <<order, deposit, waived, moneyVars, shippingVars, today>>

-----------------------------------------------------------------------------
(* ReceivableCommandService: the two installments of an order.             *)

Amount(r) == IF r[2] = "DEPOSIT" THEN deposit[r[1]] ELSE Total[r[1]] - deposit[r[1]]
Exists(r) == receivable[r] # "ABSENT"
Unpaid(dueOn, day) ==
  IF dueOn < day THEN "OVERDUE" ELSE IF dueOn = day THEN "DUE" ELSE "PENDING"

\* status_for_receivable.
StatusFor(amount, paid, dueOn, day) ==
  IF paid >= amount THEN "PAID"
  ELSE IF paid > 0 THEN "PARTIALLY_PAID" ELSE Unpaid(dueOn, day)

\* generate_for_order.  A second call returns the rows or conflicts.
GenerateReceivables(o) ==
  /\ order[o] \notin {"ABSENT", "DRAFT", "COMPLETED"}
  /\ \A r \in Receivables : r[1] = o => ~Exists(r)
  /\ Total[o] > 0
  /\ \E dates \in [{"DEPOSIT", "BALANCE"} -> Days] :
       LET Made(r) == r[1] = o /\ Amount(r) > 0 IN
       /\ due' = [r \in Receivables |-> IF Made(r) THEN dates[r[2]] ELSE due[r]]
       /\ receivable' = [r \in Receivables |->
                           IF Made(r) THEN StatusFor(Amount(r), 0, dates[r[2]], today)
                                      ELSE receivable[r]]
  /\ UNCHANGED <<orderVars, ledger, payment, allocated, shippingVars, today>>

\* The rows refresh_statuses selects.
Stale(r) == \/ receivable[r] = "PENDING" /\ due[r] <= today
            \/ receivable[r] = "DUE" /\ due[r] < today

\* refresh_statuses; its limit of 500 rows may leave some for the next call.
RefreshStatuses ==
  \E R \in SUBSET {r \in Receivables : Stale(r)} :
    /\ R # {}
    /\ receivable' = [r \in Receivables |->
                        IF r \in R THEN StatusFor(Amount(r), ledger[r], due[r], today)
                                   ELSE receivable[r]]
    /\ UNCHANGED <<orderVars, due, ledger, payment, allocated, shippingVars, today>>

NextDay ==
  /\ today < LastDay
  /\ today' = today + 1
  /\ UNCHANGED <<orderVars, moneyVars, shippingVars>>

-----------------------------------------------------------------------------
(* PaymentCommandService: receipts, what they pay, and their reversal.     *)

\* create.
RecordPayment(p) ==
  /\ payment[p] = "ABSENT"
  /\ payment' = [payment EXCEPT ![p] = "ACTIVE"]
  /\ UNCHANGED <<orderVars, receivable, due, ledger, allocated, shippingVars, today>>

\* record_allocation: the order whose deposit is now settled, or not.
AfterAllocation(state, settled, reversed) ==
  IF settled /\ ~reversed /\ state = "DEPOSIT_PENDING" THEN "EXECUTING"
  ELSE IF ~settled /\ reversed /\ state = "EXECUTING" THEN "DEPOSIT_PENDING"
  ELSE state

\* What the next two commands do to the receivables R, given their new totals,
\* and to the orders whose deposit is among them.
Settle(R, total, reversed) ==
  LET Status(r) == StatusFor(Amount(r), total[r], due[r], today)
      Deposit(o) == <<o, "DEPOSIT">>
  IN /\ ledger' = [r \in Receivables |-> IF r \in R THEN total[r] ELSE ledger[r]]
     /\ receivable' = [r \in Receivables |-> IF r \in R THEN Status(r) ELSE receivable[r]]
     /\ order' = [o \in Orders |->
                    IF Deposit(o) \in R
                    THEN AfterAllocation(order[o], Status(Deposit(o)) = "PAID", reversed)
                    ELSE order[o]]

\* What earlier allocations and this request take of the receipt.
Affordable(p, share) ==
  SumFunction(allocated[p]) + SumFunction(share) <= Received[p]

\* Mutant: the balance of the receivable is not checked.
PayableUnchecked(p, r, amount) == Exists(r) /\ Customer[r[1]] = Payer[p]

Payable(p, r, amount) ==
  /\ Exists(r)
  /\ Customer[r[1]] = Payer[p]
  /\ ledger[r] + amount <= Amount(r)

\* allocate; share gives each receivable of the request a positive amount.
Allocate(p) ==
  /\ payment[p] = "ACTIVE"
  /\ \E share \in [Receivables -> 0..Received[p]] :
       LET R == {r \in Receivables : share[r] > 0} IN
       /\ R # {}
       /\ Affordable(p, share)
       /\ \A r \in R : Payable(p, r, share[r])
       /\ Settle(R, [r \in Receivables |-> ledger[r] + share[r]], FALSE)
       /\ allocated' = [allocated EXCEPT ![p] =
                          [r \in Receivables |-> allocated[p][r] + share[r]]]
  /\ UNCHANGED <<deposit, tasks, waived, due, payment, shippingVars, today>>

HasShipments(o) == \E s \in Shipments, l \in Lines : OrderOf[l] = o /\ load[s][l] > 0

\* Mutant: a deposit may be taken back after shipments were planned.
ReversibleAfterPlanning(R) == \A r \in R : ~Finalized(r[1])

\* Mutant: the receipts of a completed order may be reversed.
ReversibleFinalized(R) == \A r \in R : ~(r[2] = "DEPOSIT" /\ HasShipments(r[1]))

\* Completed orders, and deposits shipments were planned on, need a review.
Reversible(R) ==
  \A r \in R : ~Finalized(r[1]) /\ ~(r[2] = "DEPOSIT" /\ HasShipments(r[1]))

\* Mutant: the reversal takes back only one unit of every row.
ReversePartly(p) ==
  /\ payment[p] = "ACTIVE"
  /\ LET R == {r \in Receivables : allocated[p][r] > 0} IN
       /\ Reversible(R)
       /\ Settle(R, [r \in Receivables |-> ledger[r] - 1], TRUE)
  /\ payment' = [payment EXCEPT ![p] = "REVERSED"]
  /\ UNCHANGED <<deposit, tasks, waived, due, allocated, shippingVars, today>>

\* reverse: a reversal receipt with one REVERSAL row for each allocation.
Reverse(p) ==
  /\ payment[p] = "ACTIVE"
  /\ LET R == {r \in Receivables : allocated[p][r] > 0} IN
       /\ Reversible(R)
       /\ Settle(R, [r \in Receivables |-> ledger[r] - allocated[p][r]], TRUE)
  /\ payment' = [payment EXCEPT ![p] = "REVERSED"]
  /\ UNCHANGED <<deposit, tasks, waived, due, allocated, shippingVars, today>>

-----------------------------------------------------------------------------
(* ShipmentCommandService.                                                 *)

Parents(s) == {OrderOf[l] : l \in {k \in Lines : load[s][k] > 0}}

\* The quantity of a line in the shipments S.
Carried(l, S) == SumFunctionOnSet([s \in Shipments |-> load[s][l]], S)

\* Cumulative shipment quantity cannot exceed the sales order quantity.
Fits(l, quantity) == Carried(l, Shipments) + quantity <= Quantity[l]

\* create.
CreateShipment(s) ==
  /\ shipment[s] = "ABSENT"
  /\ \E items \in [Lines -> 0..MaxQuantity] :
       /\ \E l \in Lines : items[l] > 0
       /\ \A l \in Lines : items[l] > 0 =>
            order[OrderOf[l]] \in {"EXECUTING", "READY_TO_SHIP"} /\ Fits(l, items[l])
       /\ load' = [load EXCEPT ![s] = items]
  /\ shipment' = [shipment EXCEPT ![s] = "PLANNING"]
  /\ UNCHANGED <<document, orderVars, moneyVars, today>>

Departed == {"DEPARTED", "IN_TRANSIT", "ARRIVED", "DELIVERED"}
Readied == Departed \cup {"READY", "CUSTOMS"}

\* milestone_quantities: the whole order is in shipments of these statuses.
Covered(o, states, status) ==
  \A l \in Lines : OrderOf[l] = o =>
    Carried(l, {s \in Shipments : status[s] \in states}) >= Quantity[l]

\* missing_required_documents: of each kind, one document's latest version is there.
DocumentsComplete(s) ==
  \A d \in Documents : \E e \in Documents :
    Kind[e] = Kind[d] /\ document[s][e] = "AVAILABLE"

\* _transition with _validate_execution_sources.
Milestone(s, from, to) ==
  /\ shipment[s] = from
  /\ \A o \in Parents(s) : order[o] \in {"EXECUTING", "READY_TO_SHIP", "SHIPPED"}
  /\ shipment' = [shipment EXCEPT ![s] = to]
  /\ UNCHANGED <<load, document, deposit, tasks, waived, moneyVars, today>>

\* Mutant: the first shipment of an order stands for all of them.
RefreshProgressEarly(s, target, states, status) ==
  order' = [o \in Orders |->
              IF o \in Parents(s) /\ order[o] \in {"EXECUTING", "READY_TO_SHIP"}
              THEN target ELSE order[o]]

\* refresh_shipping_progress, with the new statuses of the shipments.
RefreshProgress(s, target, states, status) ==
  order' = [o \in Orders |->
              IF /\ o \in Parents(s)
                 /\ order[o] \in {"EXECUTING", "READY_TO_SHIP"}
                 /\ Covered(o, states, status)
              THEN target ELSE order[o]]

Book(s) == Milestone(s, "PLANNING", "BOOKED") /\ UNCHANGED order
Ready(s) ==
  /\ DocumentsComplete(s)
  /\ Milestone(s, "BOOKED", "READY")
  /\ RefreshProgress(s, "READY_TO_SHIP", Readied, [shipment EXCEPT ![s] = "READY"])
EnterCustoms(s) ==
  DocumentsComplete(s) /\ Milestone(s, "READY", "CUSTOMS") /\ UNCHANGED order
Depart(s) ==
  /\ DocumentsComplete(s)
  /\ Milestone(s, "CUSTOMS", "DEPARTED")
  /\ RefreshProgress(s, "SHIPPED", Departed, [shipment EXCEPT ![s] = "DEPARTED"])
StartTransit(s) == Milestone(s, "DEPARTED", "IN_TRANSIT") /\ UNCHANGED order
Arrive(s) == Milestone(s, "IN_TRANSIT", "ARRIVED") /\ UNCHANGED order
Deliver(s) == Milestone(s, "ARRIVED", "DELIVERED") /\ UNCHANGED order

-----------------------------------------------------------------------------
(* The documents of a shipment.  A shipment's row is locked and must not   *)
(* be DELIVERED while an upload is started or completed.                   *)

SetDocument(s, d, status) ==
  /\ document' = [document EXCEPT ![s][d] = status]
  /\ UNCHANGED <<shipment, load, orderVars, moneyVars, today>>

StartUpload(s, d) ==
  shipment[s] \notin {"ABSENT", "DELIVERED"} /\ SetDocument(s, d, "PENDING_UPLOAD")

\* create_upload: a document of its own, beside those there are of its kind.
CreateUpload(s, d) == document[s][d] = "NONE" /\ StartUpload(s, d)

\* create_version: the new version becomes the latest of its document at once.
CreateVersion(s, d) == document[s][d] # "NONE" /\ StartUpload(s, d)

\* complete: size and checksum of the stored object are the declared ones.
CompleteUpload(s, d) ==
  /\ document[s][d] = "PENDING_UPLOAD"
  /\ shipment[s] # "DELIVERED"
  /\ SetDocument(s, d, "UPLOADED")

\* mark_document_available, whatever has become of the shipment.
ScanDocument(s, d) ==
  document[s][d] = "UPLOADED" /\ SetDocument(s, d, "AVAILABLE")

-----------------------------------------------------------------------------
(* OrderCompletionService.complete.                                        *)

ReceivablesOf(o) == {r \in Receivables : r[1] = o /\ Exists(r)}
Debts(o) == {r \in ReceivablesOf(o) : ledger[r] < Amount(r)}
ReceivablesCoverTotal(o) ==
  SumFunctionOnSet([r \in Receivables |-> Amount(r)], ReceivablesOf(o)) = Total[o]

Delivered(o) ==
  \A l \in Lines : OrderOf[l] = o =>
    Carried(l, {s \in Shipments : shipment[s] = "DELIVERED"}) = Quantity[l]

\* Mutant: no receivables are no debts.
CompleteUncovered(o) ==
  /\ order[o] = "SHIPPED"
  /\ Delivered(o)
  /\ \A s \in Shipments : o \in Parents(s) => DocumentsComplete(s)
  /\ tasks[o] = 0
  /\ order' = [order EXCEPT ![o] = "COMPLETED"]
  /\ waived' = IF Debts(o) # {} THEN waived \cup {o} ELSE waived
  /\ UNCHANGED <<deposit, tasks, moneyVars, shippingVars, today>>

\* An order with debts is completed only with a manager's waiver.
Complete(o) ==
  /\ order[o] = "SHIPPED"
  /\ Delivered(o)
  /\ \A s \in Shipments : o \in Parents(s) => DocumentsComplete(s)
  /\ ReceivablesCoverTotal(o)
  /\ tasks[o] = 0
  /\ order' = [order EXCEPT ![o] = "COMPLETED"]
  /\ waived' = IF Debts(o) # {} THEN waived \cup {o} ELSE waived
  /\ UNCHANGED <<deposit, tasks, moneyVars, shippingVars, today>>

-----------------------------------------------------------------------------
OrderStep(o) ==
  \/ Create(o) \/ Confirm(o) \/ Complete(o)
  \/ ApprovedFollowUp(o) \/ CompleteTask(o) \/ GenerateReceivables(o)

PaymentStep(p) == RecordPayment(p) \/ Allocate(p) \/ Reverse(p)

ShipmentStep(s) ==
  \/ CreateShipment(s) \/ Book(s) \/ Ready(s) \/ EnterCustoms(s) \/ Depart(s)
  \/ StartTransit(s) \/ Arrive(s) \/ Deliver(s)

DocumentStep(s, d) ==
  \/ CreateUpload(s, d) \/ CreateVersion(s, d)
  \/ CompleteUpload(s, d) \/ ScanDocument(s, d)

Next ==
  \/ \E o \in Orders : OrderStep(o)
  \/ \E p \in Payments : PaymentStep(p)
  \/ \E s \in Shipments : ShipmentStep(s) \/ \E d \in Documents : DocumentStep(s, d)
  \/ RefreshStatuses \/ NextDay

Spec == Init /\ [][Next]_vars

\* Users finish the uploads they have started, and the worker scans the files.
UploadsFinish ==
  \A s \in Shipments, d \in Documents :
    WF_vars(CompleteUpload(s, d)) /\ WF_vars(ScanDocument(s, d))

UploadSpec == Spec /\ UploadsFinish

-----------------------------------------------------------------------------
(* Properties. *)

Executing == {"EXECUTING", "READY_TO_SHIP", "SHIPPED", "COMPLETED"}

\* An order executes if and only if its deposit is paid: receipts taken back in
\* any order never leave an executing or shipped order without its deposit, and
\* none waits for a deposit it has (record_allocation, reverse, create).
DepositGatesExecution ==
  \A o \in Orders : deposit[o] > 0 =>
    /\ order[o] \in Executing => receivable[<<o, "DEPOSIT">>] = "PAID"
    /\ order[o] = "DEPOSIT_PENDING" => receivable[<<o, "DEPOSIT">>] # "PAID"

\* No receipt pays more than its amount, and what a receivable counts as paid is
\* what the receipts that were not reversed pay of it, through any mix of partial
\* allocations and reversals (allocate, allocated_totals).
ReceiptsAddUp ==
  /\ \A p \in Payments : SumFunction(allocated[p]) <= Received[p]
  /\ \A r \in Receivables :
       ledger[r] = SumFunctionOnSet([p \in Payments |-> allocated[p][r]],
                                    {p \in Payments : payment[p] = "ACTIVE"})

\* No receivable is overpaid, its status says how far it is paid, and only a
\* date that has come makes it DUE or OVERDUE (allocate, refresh_statuses).
ReceivablesFollowLedger ==
  \A r \in Receivables :
    /\ ledger[r] > 0 => Exists(r)
    /\ Exists(r) =>
         /\ ledger[r] <= Amount(r)
         /\ receivable[r] = "PAID" <=> ledger[r] = Amount(r)
         /\ receivable[r] = "PARTIALLY_PAID" <=> 0 < ledger[r] /\ ledger[r] < Amount(r)
         /\ receivable[r] = "OVERDUE" => due[r] < today
         /\ receivable[r] = "DUE" => due[r] <= today

\* Shipments never plan more of a line than was ordered, and an order is
\* READY_TO_SHIP or SHIPPED exactly when its whole quantity is: no milestone is
\* early and none is missed (refresh_shipping_progress).
OrderFollowsShipments ==
  /\ \A l \in Lines : Carried(l, Shipments) <= Quantity[l]
  /\ \A o \in Orders :
       /\ order[o] \in {"SHIPPED", "COMPLETED"} => Covered(o, Departed, shipment)
       /\ order[o] = "READY_TO_SHIP" =>
            Covered(o, Readied, shipment) /\ ~Covered(o, Departed, shipment)
       /\ order[o] = "EXECUTING" => ~Covered(o, Readied, shipment)

\* A completed order has no undelivered shipment, no open task, and no debt that
\* was not waived when it completed (IMPLEMENTATION_GUIDE 167).
CompletedIsSettled ==
  \A o \in Orders : Finalized(o) =>
    /\ \A s \in Shipments : o \in Parents(s) => shipment[s] = "DELIVERED"
    /\ tasks[o] = 0
    /\ ReceivablesCoverTotal(o)
    /\ o \in waived \/ Debts(o) = {}

\* Nothing is taken back from a completed order: its receipts stay, later ones
\* only reduce its debt, and it gains no task (reverse, lock_open_order).
CompletedIsFrozen ==
  [][\A o \in Orders : Finalized(o) =>
       /\ order'[o] = "COMPLETED" /\ tasks'[o] = tasks[o]
       /\ \A r \in ReceivablesOf(o) : ledger'[r] >= ledger[r]]_vars

\* A delivered shipment comes to have the documents that the completion of its
\* order asks it to retain (OrderCompletionService.complete, require_target).
DeliveredRegainsDocuments ==
  \A s \in Shipments : shipment[s] = "DELIVERED" ~> DocumentsComplete(s)

=============================================================================
