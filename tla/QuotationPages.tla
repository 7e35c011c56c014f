--------------------------- MODULE QuotationPages ---------------------------
(***************************************************************************)
(* The page of quotations (apps/web/features/quotations) and the handlers  *)
(* it calls (apps/api/app/sales, catalog, inquiries).                      *)
(* A quotation that is approved in internal review is "APPROVED" here.     *)
(***************************************************************************)
EXTENDS PageShapes, TLC

Underway == {"DRAFT", "INTERNAL_REVIEW", "APPROVED", "SENT", "CUSTOMER_REVIEW"}
WithCustomer == {"SENT", "CUSTOMER_REVIEW"}
Over == {"REJECTED", "EXPIRED"}

QuotationData == {"quotation", "quotation activities"}

\* begin_state_command: the key, then the version and its counter.
QuotationStep(permission, from, to) ==
  [Versioned(Handler("quotation", {permission}, from, to)) EXCEPT !.writes = QuotationData]

SubmitHandler == QuotationStep("quotation.submit", {"DRAFT"}, "INTERNAL_REVIEW")
ApproveHandler ==
  [QuotationStep("quotation.approve", {"INTERNAL_REVIEW"}, "APPROVED") EXCEPT !.settled = {"APPROVED"}]
SendHandler == QuotationStep("quotation.send", {"APPROVED"}, "SENT")
AcceptHandler ==
  [QuotationStep("quotation.accept", WithCustomer, "ACCEPTED") EXCEPT !.settled = {"ACCEPTED"}]
RejectHandler == QuotationStep("quotation.accept", WithCustomer, "REJECTED")
ExpireHandler == QuotationStep("quotation.write", Underway, "EXPIRED")

\* The customer's review and a revision are told apart by the row alone.
ReviewHandler ==
  [QuotationStep("quotation.send", {"SENT"}, "CUSTOMER_REVIEW") EXCEPT !.checks = "edition"]

\* The current row is superseded, and a draft takes its place.
ReviseHandler ==
  [QuotationStep("quotation.write", Underway \cup Over, "DRAFT") EXCEPT
     !.checks = "edition", !.renews = TRUE]

\* One quotation for an inquiry.
CreateQuotationHandler ==
  [Adds("quotations", {"quotation.write"}, {"quotation", "inquiry"}) EXCEPT !.unique = "refuses"]
CreateInquiryHandler == Adds("quotations", {"inquiry.write"}, {"inquiry"})
CreateProductHandler ==
  [Adds("quotations", {"product.write", "profit.read"}, {"product"}) EXCEPT !.unique = "refuses"]

-----------------------------------------------------------------------------
commandPermissions ==
  [submit |-> "quotation.submit", approve |-> "quotation.approve", send |-> "quotation.send",
   accept |-> "quotation.accept", reject |-> "quotation.accept", expire |-> "quotation.write"]

commandOptions ==
  [submit |-> {"DRAFT"}, approve |-> {"INTERNAL_REVIEW"}, send |-> {"APPROVED"},
   accept |-> WithCustomer, reject |-> WithCustomer, expire |-> Underway]

\* useRefreshQuotation.
RefreshQuotation == {"quotations", "inquiries", "quotation"}

\* useQuotationCommand, and the buttons of the page.
QuotationButtons ==
  {[Keyed(Form("quotation", c, {commandPermissions[c]}, commandOptions[c])) EXCEPT
      !.bare = TRUE, !.version = "shown", !.asIs = TRUE, !.refreshes = RefreshQuotation]
     : c \in DOMAIN commandOptions}

\* The panel is filled from the quotation as it was when it was opened.
RevisionPanel ==
  [Edits(Keyed(Form("quotation", "revise", {"quotation.write"}, Underway \cup Over))) EXCEPT
     !.guard = "ref", !.after = "close", !.refreshes = RefreshQuotation]

ReviewForm ==
  [KeyedInState(Form("quotation", "customer-review", {"quotation.send"}, {"SENT"})) EXCEPT
     !.version = "shown", !.leaves = TRUE, !.refreshes = RefreshQuotation]

CreateQuotePanel ==
  [Keyed(Form("quotations", "create-quotation", {"quotation.write"}, Kept)) EXCEPT
     !.guard = "ref", !.after = "close", !.refreshes = {"quotations", "inquiries"}]

\* PreparationPanel: two forms, that stay and show a receipt.
ProductForm == Form("quotations", "create-product", {"product.write", "profit.read"}, Kept)
InquiryForm ==
  [Keyed(Form("quotations", "create-inquiry", {"inquiry.write"}, Kept)) EXCEPT
     !.guard = "ref", !.refreshes = {"inquiries"}]

QuotationLists == [quotations |-> {"quotation"}, inquiries |-> {"inquiry"}]
QuotationWorkspace == Lists("quotations", QuotationLists)

QuoteDetail ==
  [Shows("quotation",
         [quotations |-> {"quotation"}, quotation |-> {"quotation"}]
         @@ ("commercial-timeline" :> {"quotation activities"}),
         "DRAFT", {"ACCEPTED"}, {})
   EXCEPT !.keyed = {"commercial-timeline"}]

-----------------------------------------------------------------------------
QuotationForms ==
  QuotationButtons
  \cup {RevisionPanel, ReviewForm, CreateQuotePanel, ProductForm, InquiryForm}

QuotationCommands ==
  [submit |-> SubmitHandler, approve |-> ApproveHandler, send |-> SendHandler,
   accept |-> AcceptHandler, reject |-> RejectHandler, expire |-> ExpireHandler,
   revise |-> ReviseHandler]
  @@ ("customer-review" :> ReviewHandler) @@ ("create-quotation" :> CreateQuotationHandler)
  @@ ("create-inquiry" :> CreateInquiryHandler) @@ ("create-product" :> CreateProductHandler)

QuotationPageTable == [quotations |-> QuotationWorkspace, quotation |-> QuoteDetail]
=============================================================================
