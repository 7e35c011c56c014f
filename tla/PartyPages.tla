------------------------------ MODULE PartyPages ------------------------------
(***************************************************************************)
(* The pages of leads, opportunities, companies and products               *)
(* (apps/web/features/leads, opportunities, companies, catalog), and the   *)
(* handlers they call (apps/api/app/crm, companies, catalog).              *)
(***************************************************************************)
EXTENDS PageShapes, TLC

-----------------------------------------------------------------------------
(* Leads.  Neither the page nor the server knows a key or a version here. *)

LeadStep(from, to) ==
  [Handler("lead", {"lead.write"}, from, to) EXCEPT !.writes = {"lead", "lead activities"}]

LeadTransitions ==
  [qualify |-> LeadStep({"NEW"}, "QUALIFIED"),
   disqualify |-> LeadStep({"NEW"}, "DISQUALIFIED"),
   contact |-> LeadStep({"QUALIFIED", "NO_RESPONSE"}, "CONTACTED"),
   respond |-> LeadStep({"CONTACTED"}, "RESPONDED")]
  @@ ("no-response" :> LeadStep({"CONTACTED"}, "NO_RESPONSE"))

ConvertHandler ==
  [Handler("lead", {"lead.convert"}, {"RESPONDED"}, "CONVERTED") EXCEPT
     !.already = {"CONVERTED"}, !.writes = {"lead", "lead activities"}]

CreateLeadHandler == Adds("leads", {"lead.write"}, {"lead"})

\* Per command of the page, the statuses it has a button in.
commandMap ==
  [qualify |-> {"NEW"}, disqualify |-> {"NEW"}, contact |-> {"QUALIFIED", "NO_RESPONSE"},
   respond |-> {"CONTACTED"}]
  @@ ("no-response" :> {"CONTACTED"})

RefreshLead == {"leads", "lead"}

LeadButtons ==
  {[f EXCEPT !.bare = TRUE, !.refreshes = RefreshLead]
     : f \in {Form("lead", c, {"lead.write"}, commandMap[c]) : c \in DOMAIN commandMap}
             \cup {Form("lead", "convert", {"lead.convert"}, {"RESPONDED"})}}

CreateLeadPanel ==
  [Form("leads", "create-lead", {"lead.write"}, Kept) EXCEPT
     !.after = "close", !.refreshes = {"leads"}]

LeadWorkspace ==
  Shows("lead", [leads |-> {"lead"}, lead |-> {"lead", "lead activities"}], "NEW",
        {"DISQUALIFIED", "CONVERTED"}, {})

LeadList == Lists("leads", [leads |-> {"lead"}])

-----------------------------------------------------------------------------
(* Opportunities.  Inquiries and quotations move them on from elsewhere. *)

Unfinished == {"OPEN", "INQUIRY", "QUOTING", "NEGOTIATION"}

OpportunityStep(from, to) ==
  [Handler("opportunity", {"opportunity.write"}, from, to) EXCEPT
     !.checks = "version", !.writes = {"opportunity", "opportunity activities"}]

StartNegotiationHandler == OpportunityStep({"QUOTING"}, "NEGOTIATION")
MarkLostHandler == OpportunityStep(Unfinished, "LOST")

\* The form is keyed by the version, so that another version shown mounts
\* another form, with the command once chosen, until the opportunity is over.
OpportunityAction(command, offered) ==
  [KeyedInState(Form("opportunity", command, {"opportunity.write"}, offered)) EXCEPT
     !.version = "shown", !.leaves = TRUE, !.lasts = Unfinished, !.after = "close",
     !.refreshes = {"opportunity", "opportunities", "opportunity-history", "overview"}]

OpportunityButtons ==
  {OpportunityAction("start-negotiation", {"QUOTING"}),
   OpportunityAction("mark-lost", Unfinished)}

OpportunityDetail ==
  Shows("opportunity",
        ("opportunity" :> {"opportunity"}) @@ ("opportunity-history" :> {"opportunity activities"}),
        "OPEN", {"WON", "LOST"},
        {Move({"OPEN"}, "INQUIRY"), Move({"INQUIRY"}, "QUOTING"),
         Move({"QUOTING", "NEGOTIATION"}, "WON")})

-----------------------------------------------------------------------------
(* Companies and their contacts. *)

\* useArchiveCommand.
RefreshArchive == {"companies", "company", "contacts", "company-history"}

Archive == {"company.write"}

CreateCompanyHandler == [Adds("companies", Archive, {"company"}) EXCEPT !.unique = "refuses"]

UpdateCompanyHandler ==
  [Handler("company", Archive, Kept, "same") EXCEPT
     !.checks = "version", !.writes = {"company", "company activities"}]

AddRoleHandler ==
  [Adds("company", Archive, {"company", "company activities"}) EXCEPT !.unique = "returns"]

CreateContactHandler == Adds("company", Archive, {"contact", "company activities"})

UpdateContactHandler ==
  [Handler("contact", Archive, Kept, "same") EXCEPT
     !.checks = "version", !.writes = {"contact", "company activities"}]

\* CompanyForm, ContactForm: a new row, or the row as it was when it was opened.
ArchiveForm(page, command) ==
  [Form(page, command, Archive, Kept) EXCEPT
     !.key = "payload", !.after = "close", !.refreshes = RefreshArchive]
ArchiveEdit(page, command) ==
  [ArchiveForm(page, command) EXCEPT !.version = "opened", !.fills = TRUE]

CompanyForm == {ArchiveForm("companies", "create-company"), ArchiveEdit("company", "update-company")}
ContactForm == {ArchiveForm("company", "create-contact"), ArchiveEdit("contact", "update-contact")}

RoleForm == [Form("company", "add-role", Archive, Kept) EXCEPT !.refreshes = RefreshArchive]

CompanyList == Lists("companies", [companies |-> {"company"}])

CompanyViews ==
  [company |-> {"company"}, contacts |-> {"contact"}]
  @@ ("company-history" :> {"company activities"})

CompanyDetail == Lists("company", CompanyViews)
Contacts == Lists("contacts", CompanyViews)

-----------------------------------------------------------------------------
(* Products and their suppliers. *)

Sourcing == {"product_supplier.write", "profit.read"}

CreateLinkHandler ==
  [Adds("product", Sourcing, {"supplier link", "product activities"}) EXCEPT !.unique = "refuses"]

UpdateLinkHandler ==
  [Handler("product", Sourcing, Kept, "same") EXCEPT
     !.checks = "version", !.writes = {"supplier link", "product activities"}]

RefreshLinks == {"supplier-links", "supplier-history"}

LinkForm ==
  {[KeyedInState(f) EXCEPT !.after = "close", !.refreshes = RefreshLinks]
     : f \in {Form("product", "create-link", Sourcing, Kept),
              Edits(Form("product", "update-link", Sourcing, Kept))}}

ProductDetail ==
  Lists("supplier-links",
        ("catalog-product" :> {"product"}) @@ ("supplier-links" :> {"supplier link"})
        @@ ("supplier-history" :> {"product activities"}))

-----------------------------------------------------------------------------
PartyForms ==
  LeadButtons \cup {CreateLeadPanel} \cup OpportunityButtons \cup CompanyForm \cup ContactForm
  \cup {RoleForm} \cup LinkForm

PartyCommands ==
  LeadTransitions
  @@ ("convert" :> ConvertHandler) @@ ("create-lead" :> CreateLeadHandler)
  @@ ("start-negotiation" :> StartNegotiationHandler) @@ ("mark-lost" :> MarkLostHandler)
  @@ ("create-company" :> CreateCompanyHandler) @@ ("update-company" :> UpdateCompanyHandler)
  @@ ("add-role" :> AddRoleHandler) @@ ("create-contact" :> CreateContactHandler)
  @@ ("update-contact" :> UpdateContactHandler)
  @@ ("create-link" :> CreateLinkHandler) @@ ("update-link" :> UpdateLinkHandler)

PartyPageTable ==
  [leads |-> LeadList, lead |-> LeadWorkspace, opportunity |-> OpportunityDetail,
   companies |-> CompanyList, company |-> CompanyDetail, contact |-> Contacts,
   product |-> ProductDetail]
=============================================================================
