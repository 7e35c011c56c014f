--------------------------- MODULE FulfilmentPages ---------------------------
(***************************************************************************)
(* The pages of shipments and of customs and refund cases, with their      *)
(* documents (apps/web/features/shipments, export, documents), and the     *)
(* handlers they call (apps/api/app/fulfillment, export, documents).       *)
(***************************************************************************)
EXTENDS PageShapes, TLC

-----------------------------------------------------------------------------
(* Shipments; "FINAL" once the order of one of its lines is completed.      *)

ShipmentStep(from, to) ==
  [Versioned(Handler("shipment", {"shipment.transition"}, {from}, to)) EXCEPT
     !.settled = {to}, !.writes = {"shipment", "order", "shipment activities"}]

ShipmentHandler ==
  [book |-> ShipmentStep("PLANNING", "BOOKED"), ready |-> ShipmentStep("BOOKED", "READY"),
   depart |-> ShipmentStep("CUSTOMS", "DEPARTED"), arrive |-> ShipmentStep("IN_TRANSIT", "ARRIVED"),
   deliver |-> ShipmentStep("ARRIVED", "DELIVERED")]
  @@ ("enter-customs" :> ShipmentStep("READY", "CUSTOMS"))
  @@ ("start-transit" :> ShipmentStep("DEPARTED", "IN_TRANSIT"))

CreateShipmentHandler == Adds("shipments", {"shipment.write"}, {"shipment"})

\* useRefreshShipment.
RefreshShipment == {"shipments", "shipment", "shipment-documents", "sales-orders"}

\* Per status, the next command.
nextCommands ==
  [BOOKED |-> "ready", READY |-> "enter-customs", CUSTOMS |-> "depart",
   DEPARTED |-> "start-transit", IN_TRANSIT |-> "arrive", ARRIVED |-> "deliver"]

CreateShipmentPanel ==
  [Keyed(Form("shipments", "create-shipment", {"shipment.write"}, Kept)) EXCEPT
     !.after = "close", !.refreshes = RefreshShipment]

\* useShipmentCommand: what a button or the booking form of the page sends.
ShipmentCommand(command, offered) ==
  [Keyed(Form("shipment", command, {"shipment.transition"}, {offered})) EXCEPT
     !.asIs = TRUE, !.refreshes = RefreshShipment]

\* The booking is for the version the form was mounted on, or filled again on.
ShipmentCommands ==
  {[ShipmentCommand(nextCommands[s], s) EXCEPT !.bare = TRUE, !.version = "shown"]
     : s \in DOMAIN nextCommands}
  \cup {Edits(ShipmentCommand("book", "PLANNING"))}

ShipmentDetail ==
  [Shows("shipment",
         [shipments |-> {"shipment"}, shipment |-> {"shipment"}]
         @@ ("shipment-documents" :> {"document"}) @@ ("sales-orders" :> {"order"})
         @@ ("commercial-timeline" :> {"shipment activities"}),
         "PLANNING", {"DELIVERED", "FINAL"},
         {Overtaken({"DEPARTED", "IN_TRANSIT", "ARRIVED"}, "FINAL")})
   EXCEPT !.keyed = {"commercial-timeline"}]

ShipmentWorkspace == Lists("shipments", [shipments |-> {"shipment"}])

-----------------------------------------------------------------------------
(* Documents, of a record that is open or finalized ("SEALED").             *)

Filing == {"document.write"}

\* A request whose key is on file goes on with the upload it began.
CreateUploadHandler ==
  [Handler("document", Filing, {"OPEN"}, "same") EXCEPT !.bumps = FALSE, !.writes = {"document"}]
CreateVersionHandler ==
  [Versioned(Handler("document", Filing, {"OPEN"}, "same")) EXCEPT !.writes = {"document"}]

\* The upload of the latest version is completed; done before, it is answered.
ResumeUploadHandler ==
  [Handler("upload", Filing, {"PENDING_UPLOAD"}, "UPLOADED") EXCEPT
     !.already = {"UPLOADED", "SCANNING", "AVAILABLE"}, !.writes = {"document"}]

\* useUploadRetry: the key is kept for the file and what it is for, until the
\* upload is complete.
UploadForm(command) ==
  [Keyed(Form("document", command, Filing, {"OPEN"})) EXCEPT
     !.after = "renew", !.refreshes = RefreshShipment]

\* Replacing is for the version of the document the file was chosen for.
ShipmentDocuments ==
  {UploadForm("upload-document"), Edits([UploadForm("replace-document") EXCEPT !.after = "close"])}

ResumeUpload ==
  [Form("upload", "resume-upload", Filing, {"PENDING_UPLOAD"}) EXCEPT
     !.bare = TRUE, !.guard = "ref", !.refreshes = RefreshShipment]

DocumentViews == ("shipment-documents" :> {"document"})

DocumentPage ==
  Shows("shipment-documents", DocumentViews, "OPEN", {"OPEN", "SEALED"}, {Overtaken({"OPEN"}, "SEALED")})

UploadPage ==
  Shows("shipment-documents", DocumentViews, "PENDING_UPLOAD",
        {"AVAILABLE", "REJECTED", "SUPERSEDED", "SEALED"},
        {Move({"UPLOADED"}, "SCANNING"), Move({"SCANNING"}, "AVAILABLE"), Move({"SCANNING"}, "REJECTED"),
         Overtaken({"PENDING_UPLOAD"}, "SUPERSEDED"), Overtaken({"PENDING_UPLOAD"}, "SEALED")})

-----------------------------------------------------------------------------
(* Who may read one version of a document. *)

Reviewing == {"profit.read", "document.read"}

ReviewDocumentHandler ==
  [Versioned(Handler("file", Reviewing, Kept, "same")) EXCEPT !.writes = {"document"}]

\* The form is keyed by the version and the digest it shows.
DocumentReview ==
  [Keyed(Form("file", "review-document", Reviewing, Kept)) EXCEPT
     !.version = "shown", !.leaves = TRUE, !.refreshes = RefreshShipment \cup {"document-review"}]

VersionReview ==
  Lists("document-review", ("document-review" :> {"document"}) @@ DocumentViews)

-----------------------------------------------------------------------------
(* Customs declarations and refund cases.                                   *)

Exporting == {"export.write"}

CaseStep(page, from, to) ==
  [Versioned(Handler(page, Exporting, {from}, to)) EXCEPT !.writes = {"case", "case activities"}]

CUSTOMS_TRANSITIONS ==
  ("prepare-customs" :> CaseStep("customs", "DRAFT", "DOCUMENTS_PENDING"))
  @@ ("ready-customs" :> CaseStep("customs", "DOCUMENTS_PENDING", "READY"))
  @@ ("submit-customs" :> CaseStep("customs", "READY", "SUBMITTED"))
  @@ ("clear-customs" :> CaseStep("customs", "SUBMITTED", "CLEARED"))
  @@ ("reject-customs" :> CaseStep("customs", "SUBMITTED", "REJECTED"))

REFUND_TRANSITIONS ==
  ("prepare-refund" :> CaseStep("refund", "NOT_READY", "DOCUMENTS_PENDING"))
  @@ ("ready-refund" :> CaseStep("refund", "DOCUMENTS_PENDING", "READY"))
  @@ ("submit-refund" :> CaseStep("refund", "READY", "SUBMITTED"))
  @@ ("process-refund" :> CaseStep("refund", "SUBMITTED", "PROCESSING"))
  @@ ("receive-refund" :> CaseStep("refund", "PROCESSING", "REFUNDED"))
  @@ ("reject-refund" :> CaseStep("refund", "PROCESSING", "REJECTED"))

InProgress ==
  [customs |-> {"DRAFT", "DOCUMENTS_PENDING", "READY", "SUBMITTED"},
   refund |-> {"NOT_READY", "DOCUMENTS_PENDING", "READY", "SUBMITTED", "PROCESSING"}]

FollowUp == [customs |-> "follow-up-customs", refund |-> "follow-up-refund"]

FollowUpHandler(page) ==
  [Versioned(Handler(page, Exporting, InProgress[page], "same")) EXCEPT
     !.writes = {"case", "case activities"}]

\* One declaration for a shipment, one refund case for a declaration.
CreateCaseHandler == [Adds("cases", Exporting, {"case"}) EXCEPT !.unique = "refuses"]

\* useRefreshExport.
RefreshExport == {"export-cases", "export-case", "export-activities", "export-documents", "overview"}

\* Per command, the statuses the page has a button for it in.
nextActions ==
  ("prepare-customs" :> {"DRAFT"}) @@ ("ready-customs" :> {"DOCUMENTS_PENDING"})
  @@ ("submit-customs" :> {"READY"}) @@ ("clear-customs" :> {"SUBMITTED"})
  @@ ("reject-customs" :> {"SUBMITTED"})
  @@ ("prepare-refund" :> {"NOT_READY"}) @@ ("ready-refund" :> {"DOCUMENTS_PENDING"})
  @@ ("submit-refund" :> {"READY"}) @@ ("process-refund" :> {"SUBMITTED"})
  @@ ("receive-refund" :> {"PROCESSING"}) @@ ("reject-refund" :> {"PROCESSING"})

\* Without a key; once chosen, the form is there whatever the case comes to.
CommandForm ==
  {[Edits(Form(IF c \in DOMAIN CUSTOMS_TRANSITIONS THEN "customs" ELSE "refund", c, Exporting,
               nextActions[c])) EXCEPT
      !.holds = TRUE, !.after = "close", !.refreshes = RefreshExport] : c \in DOMAIN nextActions}

FollowUpForm ==
  {[Edits(Form(page, FollowUp[page], Exporting, InProgress[page])) EXCEPT
      !.leaves = TRUE, !.refreshes = RefreshExport] : page \in DOMAIN FollowUp}

\* Its one key is for whatever the form holds.
CreateCase ==
  [Form("cases", "create-case", Exporting, Kept) EXCEPT
     !.key = "form", !.after = "close", !.refreshes = RefreshExport]

CaseViews ==
  ("export-case" :> {"case"}) @@ ("export-activities" :> {"case activities"})
  @@ ("export-documents" :> {"document"})

CaseDetail ==
  [customs |-> Shows("export-case", CaseViews, "DRAFT", {"CLEARED", "REJECTED"}, {}),
   refund |-> Shows("export-case", CaseViews, "NOT_READY", {"REFUNDED", "REJECTED"}, {})]

CaseList == Lists("export-cases", ("export-cases" :> {"case"}))

-----------------------------------------------------------------------------
FulfilmentForms ==
  {CreateShipmentPanel, ResumeUpload, DocumentReview, CreateCase}
  \cup FollowUpForm \cup ShipmentCommands \cup ShipmentDocuments \cup CommandForm

FulfilmentCommands ==
  ShipmentHandler @@ ("create-shipment" :> CreateShipmentHandler)
  @@ ("upload-document" :> CreateUploadHandler) @@ ("replace-document" :> CreateVersionHandler)
  @@ ("resume-upload" :> ResumeUploadHandler) @@ ("review-document" :> ReviewDocumentHandler)
  @@ CUSTOMS_TRANSITIONS @@ REFUND_TRANSITIONS
  @@ [c \in {FollowUp[p] : p \in DOMAIN FollowUp} |->
        FollowUpHandler(CHOOSE p \in DOMAIN FollowUp : FollowUp[p] = c)]
  @@ ("create-case" :> CreateCaseHandler)

FulfilmentPageTable ==
  [shipment |-> ShipmentDetail, shipments |-> ShipmentWorkspace, document |-> DocumentPage,
   upload |-> UploadPage, file |-> VersionReview, cases |-> CaseList]
  @@ CaseDetail
=============================================================================
