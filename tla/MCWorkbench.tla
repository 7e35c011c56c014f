----------------------------- MODULE MCWorkbench -----------------------------
(***************************************************************************)
(* Instances of Workbench for TLC: the forms, handlers and pages of the    *)
(* whole application.                                                      *)
(***************************************************************************)
EXTENDS Workbench, PartyPages, QuotationPages, OrderPages, FulfilmentPages, OfficePages

AllForms == PartyForms \cup QuotationForms \cup OrderForms \cup FulfilmentForms \cup OfficeForms

AllCommands ==
  PartyCommands @@ QuotationCommands @@ OrderCommands @@ FulfilmentCommands @@ OfficeCommands

AllPages ==
  PartyPageTable @@ QuotationPageTable @@ OrderPageTable @@ FulfilmentPageTable @@ OfficePageTable

\* The queries of the page that a success leaves as they were, until they are
\* next fetched.
LeftBehind ==
  [c \in DOMAIN AllCommands |->
     CASE c = "confirm-order" -> {"order-finance"}
       [] c \in {"record-expense", "reverse-expense", "create-payable", "void-payable",
                 "allocate-payment", "reverse-payment", "review-task"}
                \cup DOMAIN ContractHandler -> {"commercial-timeline"}
       [] OTHER -> {}]
=============================================================================
