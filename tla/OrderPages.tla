----------------------------- MODULE OrderPages -----------------------------
(***************************************************************************)
(* The page of a sales order with its purchases, receivables and receipts, *)
(* expenses, contracts and supplier settlements (apps/web/features/orders, *)
(* finance, contracts), and the handlers it calls (apps/api/app/sales,     *)
(* procurement, finance, work).                                            *)
(***************************************************************************)
EXTENDS PageShapes, TLC

\* What the queries mounted on the page of an order read.
OrderDetail ==
  Shows("sales-order",
        [contracts |-> {"contract"}, expenses |-> {"expense"}, payables |-> {"payable"}]
        @@ ("sales-order" :> {"order"}) @@ ("sales-orders" :> {"order"})
        @@ ("purchase-orders" :> {"purchase"})
        @@ ("purchase-activities" :> {"purchase activities"})
        @@ ("order-finance" :> {"receivable", "task"}) @@ ("customer-payments" :> {"payment"})
        @@ ("funding-estimate" :> {"receivable", "expense"})
        @@ ("expense-summary" :> {"expense"}) @@ ("supplier-payments" :> {"supplier payment"})
        @@ ("commercial-timeline" :> {"order activities"}),
        "DRAFT", {"COMPLETED"},
        {Move({"DEPOSIT_PENDING"}, "EXECUTING"), Move({"EXECUTING"}, "DEPOSIT_PENDING"),
         Move({"EXECUTING"}, "READY_TO_SHIP"), Move({"READY_TO_SHIP"}, "SHIPPED")})

OrderPage == [OrderDetail EXCEPT !.keyed = {"commercial-timeline"}]

-----------------------------------------------------------------------------
(* The order itself. *)

CreateOrderHandler == [Adds("orders", {"order.write"}, {"order"}) EXCEPT !.unique = "returns"]

ConfirmOrderHandler ==
  [Versioned(Handler("order", {"order.confirm"}, {"DRAFT"}, "DEPOSIT_PENDING")) EXCEPT
     !.settled = {"DEPOSIT_PENDING", "EXECUTING"}, !.writes = {"order", "order activities", "task"}]

CompleteOrderHandler ==
  [Versioned(Handler("order", {"order.complete"}, {"SHIPPED"}, "COMPLETED")) EXCEPT
     !.already = {"COMPLETED"}, !.writes = {"order", "order activities"}]

\* useRefreshOrders, without and with the order.
RefreshOrders == {"sales-orders", "purchase-orders", "purchase-activities"}
RefreshOrder == RefreshOrders \cup {"sales-order"}

CreateOrderPanel ==
  [Keyed(Form("orders", "create-order", {"order.write"}, Kept)) EXCEPT
     !.guard = "ref", !.after = "close", !.refreshes = RefreshOrders]

ConfirmOrderButton ==
  [Keyed(Form("order", "confirm-order", {"order.confirm"}, {"DRAFT"})) EXCEPT
     !.bare = TRUE, !.version = "shown", !.asIs = TRUE, !.refreshes = RefreshOrder]

OrderWorkspace == Lists("sales-orders", ("sales-orders" :> {"order"}))

-----------------------------------------------------------------------------
(* Purchases.  A confirmed one whose sales order is completed is "LATE".    *)

Cancellable == {"DRAFT", "APPROVED", "SENT", "CONFIRMED", "PARTIALLY_RECEIVED"}
Receivable == {"CONFIRMED", "PARTIALLY_RECEIVED", "LATE"}

PurchaseStep(permissions, from, to) ==
  [Versioned(Handler("purchase", permissions, from, to)) EXCEPT
     !.writes = {"purchase", "purchase activities"}]

Buying == {"procurement.write"}
Deciding == {"procurement.approve", "profit.read"}

CreatePurchaseHandler ==
  [Handler("order", {"procurement.write", "profit.read"}, {"DEPOSIT_PENDING", "EXECUTING"}, "same") EXCEPT
     !.bumps = FALSE, !.writes = {"purchase", "purchase activities"}]
ApprovePurchaseHandler == [PurchaseStep(Deciding, {"DRAFT"}, "APPROVED") EXCEPT !.settled = {"APPROVED"}]
SendPurchaseHandler == [PurchaseStep(Buying, {"APPROVED"}, "SENT") EXCEPT !.settled = {"SENT"}]
ConfirmPurchaseHandler == [PurchaseStep(Buying, {"SENT"}, "CONFIRMED") EXCEPT !.settled = {"CONFIRMED"}]
ReceivePartHandler == PurchaseStep(Buying, Receivable, "PARTIALLY_RECEIVED")
ReceiveRestHandler == PurchaseStep(Buying, Receivable, "RECEIVED")
ClosePurchaseHandler == PurchaseStep(Buying, {"RECEIVED"}, "CLOSED")
ChangePurchaseHandler == PurchaseStep(Deciding, Cancellable, "CANCELLED")

CreatePurchasePanel ==
  [Keyed(Form("order", "create-purchase", {"procurement.write", "profit.read"},
              {"DEPOSIT_PENDING", "EXECUTING"})) EXCEPT
     !.after = "close", !.refreshes = RefreshOrders]

PurchaseButton(command, permissions, offered) ==
  [Keyed(Form("purchase", command, permissions, offered)) EXCEPT
     !.bare = TRUE, !.version = "shown", !.asIs = TRUE, !.refreshes = RefreshOrders]

\* The supplier's confirmation is for the version the form was opened on.
PurchaseCard ==
  {PurchaseButton("approve-purchase", Deciding, {"DRAFT"}),
   PurchaseButton("send-purchase", Buying, {"APPROVED"}),
   [PurchaseButton("confirm-purchase", Buying, {"SENT"}) EXCEPT
      !.bare = FALSE, !.version = "opened", !.after = "close"]}

\* The editor is there for one version of the purchase.
ReceiptForm(command) ==
  [KeyedInState(Form("purchase", command, Buying, Receivable)) EXCEPT
     !.version = "shown", !.leaves = TRUE, !.after = "close", !.refreshes = RefreshOrders]

\* Its key is kept for the reason alone.
CloseForm ==
  [KeyedInState(Form("purchase", "close-purchase", Buying, {"RECEIVED"})) EXCEPT
     !.signs = FALSE, !.version = "shown", !.leaves = TRUE, !.after = "close",
     !.refreshes = RefreshOrders]

\* Filled when it is opened, it sends the version the page shows.
ChangeForm ==
  [KeyedInState(Form("purchase", "change-purchase", Deciding, Cancellable \cup {"LATE"})) EXCEPT
     !.version = "shown", !.fills = TRUE, !.after = "close", !.refreshes = RefreshOrders]

PurchaseReceiving == {ReceiptForm("receive-part"), ReceiptForm("receive-rest"), CloseForm}

PurchasePage ==
  About(OrderDetail, "purchase-orders", "DRAFT", {"CLOSED", "CANCELLED"},
        {Overtaken({"CONFIRMED", "PARTIALLY_RECEIVED"}, "LATE")})

-----------------------------------------------------------------------------
(* Receivables, receipts, tasks.  An order that is a draft, or has no       *)
(* receivables yet, or has them.                                            *)

GenerateHandler ==
  [Handler("receivables", {"receivable.write"}, {"NONE"}, "GENERATED") EXCEPT
     !.unique = "returns", !.writes = {"receivable", "order activities"}]
RecordReceiptHandler == Adds("payments", {"payment.record"}, {"payment"})
AllocateHandler ==
  Adds("payments", {"payment.allocate"}, {"payment", "receivable", "order", "order activities"})
ReverseHandler ==
  [Handler("payment", {"payment.reverse"}, {"ACTIVE"}, "REVERSED") EXCEPT
     !.already = {"REVERSED"},
     !.writes = {"payment", "receivable", "order", "order activities"}]
CompleteTaskHandler ==
  [Versioned(Handler("task", {"task.write"}, {"OPEN", "IN_PROGRESS"}, "DONE")) EXCEPT
     !.already = {"DONE"}, !.writes = {"task", "order activities"}]

\* useFinanceCommand.
RefreshFinance ==
  {"order-finance", "commercial-timeline", "funding-estimate", "customer-payments",
   "sales-order", "sales-orders"}

FinanceForm(page, command, permission, offered) ==
  [Form(page, command, {permission}, offered) EXCEPT !.refreshes = RefreshFinance]

Generate == FinanceForm("receivables", "generate", "receivable.write", {"DRAFT", "NONE"})

\* One key for the form, another after a success.
RecordReceipt ==
  [FinanceForm("payments", "record-receipt", "payment.record", Kept) EXCEPT
     !.key = "form", !.after = "renew"]
Allocate ==
  [FinanceForm("payments", "allocate", "payment.allocate", Kept) EXCEPT
     !.key = "form", !.after = "renew"]

ReverseReceipt ==
  [FinanceForm("payment", "reverse-receipt", "payment.reverse", {"ACTIVE"}) EXCEPT !.after = "close"]
ResolveTask ==
  [FinanceForm("task", "complete-task", "task.write", {"OPEN", "IN_PROGRESS"}) EXCEPT
     !.version = "shown", !.leaves = TRUE]

\* Offered whatever the status: the server checks it.
CompleteOrder ==
  [FinanceForm("order", "complete-order", "order.complete",
               {"DRAFT", "DEPOSIT_PENDING", "EXECUTING", "READY_TO_SHIP", "SHIPPED"}) EXCEPT !.version = "shown"]

ReceivablesPage ==
  About(OrderDetail, "order-finance", "DRAFT", {"GENERATED"}, {Overtaken({"DRAFT"}, "NONE")})
PaymentPage == About(OrderDetail, "customer-payments", "ACTIVE", {"ACTIVE", "REVERSED"}, {})
TaskPage == About(OrderDetail, "order-finance", "OPEN", {"DONE"}, {})

-----------------------------------------------------------------------------
(* Expenses. *)

RecordExpenseHandler == Adds("expenses", {"expense.write"}, {"expense", "order activities"})
ReverseExpenseHandler ==
  [Versioned(Handler("expense", {"expense.write"}, {"ACTIVE"}, "REVERSED")) EXCEPT
     !.bumps = FALSE, !.writes = {"expense", "order activities"}]

\* ExpenseForm, with nothing or with an expense to reverse.
ExpenseForm ==
  {[KeyedInState(f) EXCEPT
      !.holds = TRUE, !.after = "close",
      !.refreshes = {"expenses", "funding-estimate", "expense-summary", "order-finance"}]
     : f \in {Form("expenses", "record-expense", {"expense.write"}, Kept),
              Edits(Form("expense", "reverse-expense", {"expense.write"}, {"ACTIVE"}))}}

ExpensePage == About(OrderDetail, "expenses", "ACTIVE", {"ACTIVE", "REVERSED"}, {})

-----------------------------------------------------------------------------
(* Contracts of an order that is confirmed; "OVER" once it is completed.    *)

ContractStep(permission, from, to) ==
  [Handler("contract", {permission}, from, to) EXCEPT !.writes = {"contract", "order activities"}]

ContractHandler ==
  ("create-contract" :> ContractStep("contract.write", {"NONE", "VOIDED"}, "DRAFT"))
  @@ ("update-contract" :> Versioned(ContractStep("contract.write", {"DRAFT"}, "DRAFT")))
  @@ ("sign-contract" :> Versioned(ContractStep("contract.sign", {"DRAFT"}, "SIGNED")))
  @@ ("void-contract" :> Versioned(ContractStep("contract.write", {"DRAFT"}, "VOIDED")))

\* ContractForm, opened on nothing or on a draft.
ContractForm ==
  {[KeyedInState(f) EXCEPT !.holds = TRUE, !.after = "close",
                           !.refreshes = {"contracts", "order-finance"}]
     : f \in {Form("contract", "create-contract", {"contract.write"}, {"NONE", "VOIDED"}),
              Edits(Form("contract", "update-contract", {"contract.write"}, {"DRAFT"})),
              Edits(Form("contract", "sign-contract", {"contract.sign"}, {"DRAFT"})),
              Edits(Form("contract", "void-contract", {"contract.write"}, {"DRAFT"}))}}

ContractPage ==
  About(OrderDetail, "contracts", "NONE", {"SIGNED", "OVER"},
        {Overtaken({"NONE", "DRAFT", "SIGNED", "VOIDED"}, "OVER")})

-----------------------------------------------------------------------------
(* What is owed and paid to suppliers: a payable, a payment.                *)

Settling == {"payable", "supplier payment", "order activities"}

CreatePayableHandler == Adds("payables", {"payable.write"}, {"payable", "order activities"})
VoidPayableHandler ==
  [Versioned(Handler("payable", {"payable.write"}, {"OPEN"}, "VOIDED")) EXCEPT
     !.writes = {"payable", "order activities"}]
RecordPaymentHandler == Adds("payables", {"supplier_payment.record"}, {"supplier payment"})
AllocatePaymentHandler ==
  [Versioned(Handler("supplier-payment", {"supplier_payment.allocate"}, {"ACTIVE"}, "ACTIVE")) EXCEPT
     !.writes = Settling]
ReversePaymentHandler ==
  [Versioned(Handler("supplier-payment", {"supplier_payment.reverse"}, {"ACTIVE"}, "REVERSED")) EXCEPT
     !.bumps = FALSE, !.writes = Settling]

\* SupplierForm, opened on nothing, on a payable or on a payment.
SupplierForm ==
  {[KeyedInState(f) EXCEPT !.holds = TRUE, !.after = "close",
                           !.refreshes = {"payables", "supplier-payments", "order-finance"}]
     : f \in {Form("payables", "create-payable", {"payable.write"}, Kept),
              Form("payables", "record-payment", {"supplier_payment.record"}, Kept),
              Edits(Form("payable", "void-payable", {"payable.write"}, {"OPEN"})),
              Edits(Form("supplier-payment", "allocate-payment", {"supplier_payment.allocate"}, {"ACTIVE"})),
              Edits(Form("supplier-payment", "reverse-payment", {"supplier_payment.reverse"}, {"ACTIVE"}))}}

PayablePage == About(OrderDetail, "payables", "OPEN", {"PAID", "VOIDED"}, {Move({"OPEN"}, "PAID")})
SupplierPaymentPage == About(OrderDetail, "supplier-payments", "ACTIVE", {"ACTIVE", "REVERSED"}, {})

-----------------------------------------------------------------------------
OrderForms ==
  {CreateOrderPanel, ConfirmOrderButton, CreatePurchasePanel, ChangeForm, Generate, RecordReceipt,
   Allocate, ReverseReceipt, ResolveTask, CompleteOrder}
  \cup PurchaseCard \cup PurchaseReceiving \cup ExpenseForm \cup ContractForm \cup SupplierForm

OrderCommands ==
  [allocate |-> AllocateHandler, generate |-> GenerateHandler]
  @@ ("create-order" :> CreateOrderHandler) @@ ("confirm-order" :> ConfirmOrderHandler)
  @@ ("complete-order" :> CompleteOrderHandler)
  @@ ("create-purchase" :> CreatePurchaseHandler) @@ ("approve-purchase" :> ApprovePurchaseHandler)
  @@ ("send-purchase" :> SendPurchaseHandler) @@ ("confirm-purchase" :> ConfirmPurchaseHandler)
  @@ ("receive-part" :> ReceivePartHandler) @@ ("receive-rest" :> ReceiveRestHandler)
  @@ ("close-purchase" :> ClosePurchaseHandler) @@ ("change-purchase" :> ChangePurchaseHandler)
  @@ ("record-receipt" :> RecordReceiptHandler) @@ ("reverse-receipt" :> ReverseHandler)
  @@ ("complete-task" :> CompleteTaskHandler)
  @@ ("record-expense" :> RecordExpenseHandler) @@ ("reverse-expense" :> ReverseExpenseHandler)
  @@ ContractHandler
  @@ ("create-payable" :> CreatePayableHandler) @@ ("void-payable" :> VoidPayableHandler)
  @@ ("record-payment" :> RecordPaymentHandler) @@ ("allocate-payment" :> AllocatePaymentHandler)
  @@ ("reverse-payment" :> ReversePaymentHandler)

OrderPageTable ==
  [order |-> OrderPage, orders |-> OrderWorkspace, purchase |-> PurchasePage,
   receivables |-> ReceivablesPage, payment |-> PaymentPage, task |-> TaskPage,
   expense |-> ExpensePage, contract |-> ContractPage, payable |-> PayablePage,
   payments |-> About(OrderDetail, "customer-payments", "kept", Kept, {}),
   expenses |-> About(OrderDetail, "expenses", "kept", Kept, {}),
   payables |-> About(OrderDetail, "payables", "kept", Kept, {})]
  @@ ("supplier-payment" :> SupplierPaymentPage)
=============================================================================
