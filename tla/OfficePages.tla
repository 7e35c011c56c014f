----------------------------- MODULE OfficePages -----------------------------
(***************************************************************************)
(* The pages of the assistant and its approvals, of the review of texts,   *)
(* of failed events and of the organization (apps/web/features/ai,         *)
(* finance/work-review.tsx, platform, identity), and the handlers they     *)
(* call (apps/api/app/ai, work, platform, identity).                       *)
(***************************************************************************)
EXTENDS PageShapes, TLC

-----------------------------------------------------------------------------
(* Runs of the assistant.  A run that succeeded and was put up for approval *)
(* is "REQUESTED".                                                          *)

\* useAiCommand, useDisclosureCommand: everything of the assistant.
RefreshAi == {"ai-runs", "ai-run", "ai-calls", "ai-approvals", "ai-disclosures"}

AiViews ==
  ("ai-run" :> {"run", "disclosure"}) @@ ("ai-runs" :> {"run"}) @@ ("ai-approvals" :> {"approval"})
  @@ ("ai-disclosures" :> {"disclosure"})

CreateRunHandler == Adds("runs", {"ai.run"}, {"run"})

\* A run has one approval, whatever is asked after it is there.
RequestHandler ==
  [Versioned(Handler("run", {"ai.run", "task.write"}, {"SUCCEEDED"}, "REQUESTED")) EXCEPT
     !.bumps = FALSE, !.already = {"REQUESTED"}, !.writes = {"approval"}]

\* One disclosure of an output.
SubmitDisclosureHandler ==
  [Versioned(Handler("run", {"ai.run"}, {"SUCCEEDED", "REQUESTED"}, "same")) EXCEPT
     !.bumps = FALSE, !.unique = "refuses", !.writes = {"disclosure"}]

Judging == {"ai.approve", "task.write"}

ApprovalStep(to) ==
  [Versioned(Handler("approval", Judging, {"PENDING"}, to)) EXCEPT
     !.already = {to}, !.writes = {"approval"}]
ApproveTaskHandler == ApprovalStep("APPROVED")
RejectTaskHandler == ApprovalStep("REJECTED")

\* The form takes a new key with every change and with every success.
CreateRun ==
  [Form("runs", "create-run", {"ai.run"}, Kept) EXCEPT
     !.key = "form", !.rekeys = TRUE, !.after = "renew", !.refreshes = RefreshAi]

DecisionForm(page, command, needs, offered) ==
  [Form(page, command, needs, offered) EXCEPT !.version = "shown", !.refreshes = RefreshAi]

\* The run shown is the member's own, who had ai.run when it was started.
RequestForm ==
  DecisionForm("run", "request-approval", {"ai.run", "task.write"}, {"SUCCEEDED", "REQUESTED"})

\* Keyed by the version of the run; its one key is for it alone.
SubmitDisclosure ==
  [Form("run", "submit-disclosure", {"ai.run"}, {"SUCCEEDED", "REQUESTED"}) EXCEPT
     !.key = "form", !.bare = TRUE, !.version = "shown", !.guard = "ref", !.leaves = TRUE,
     !.asIs = TRUE, !.after = "close", !.refreshes = RefreshAi]

ApprovalCard ==
  {DecisionForm("approval", "approve-task", Judging, {"PENDING"}),
   DecisionForm("approval", "reject-task", Judging, {"PENDING"})}

RunDetail ==
  Shows("ai-run", AiViews, "PENDING", {"SUCCEEDED", "FAILED", "REQUESTED"},
        {Move({"PENDING"}, "RUNNING"), Move({"RUNNING"}, "SUCCEEDED"), Move({"RUNNING"}, "FAILED")})
ApprovalQueue == Shows("ai-approvals", AiViews, "PENDING", {"APPROVED", "REJECTED"}, {})
CopilotWorkspace == Lists("ai-runs", AiViews)

-----------------------------------------------------------------------------
(* The latest disclosure of a run: a revision is a row that takes its place.*)

Disclosed == {"PENDING", "APPROVED", "REJECTED"}

ChangeDisclosure(to) ==
  [Versioned(Handler("disclosure", {"ai.read", "profit.read"}, Disclosed, to)) EXCEPT
     !.writes = {"disclosure"}]
ReviseDisclosureHandler == [ChangeDisclosure("PENDING") EXCEPT !.renews = TRUE]
ReleaseDisclosureHandler == ChangeDisclosure("APPROVED")
WithholdDisclosureHandler == ChangeDisclosure("REJECTED")

\* A key per request; the recovery button sends the request with its key.
ReviewForms ==
  {[Form("disclosure", c, {"ai.read", "profit.read"}, Disclosed) EXCEPT
      !.key = "fresh", !.version = "shown", !.guard = "ref", !.leaves = TRUE, !.asIs = TRUE,
      !.refreshes = RefreshAi]
     : c \in {"revise-disclosure", "release-disclosure", "withhold-disclosure"}}

DisclosureQueue == Shows("ai-disclosures", AiViews, "PENDING", Disclosed, {})

-----------------------------------------------------------------------------
(* Who may read a text: of a task of an order, of an entry of a timeline.   *)

ReviewTextHandler(page, needs) ==
  [Versioned(Handler(page, needs, Kept, "same")) EXCEPT !.writes = {"text", "order activities"}]

Screening == {"profit.read", "order.read"}

TaskTextHandler == ReviewTextHandler("task-text", Screening \cup {"task.read"})
EntryTextHandler == ReviewTextHandler("entry-text", Screening)

\* Keyed by the version and the digest; what the surrounding list shows is
\* fetched again, and the text.
WorkTextReview ==
  {[Keyed(f) EXCEPT !.version = "shown", !.leaves = TRUE] :
     f \in {[Form("task-text", "review-task", Screening \cup {"task.read"}, Kept) EXCEPT
               !.refreshes = {"order-finance", "work-review"}],
            [Form("entry-text", "review-entry", Screening, Kept) EXCEPT
               !.refreshes = {"commercial-timeline", "work-review"}]}}

TextViews ==
  ("work-review" :> {"text"}) @@ ("order-finance" :> {"text"})
  @@ ("commercial-timeline" :> {"text", "order activities"})

ReviewSession ==
  ("task-text" :> Lists("work-review", TextViews))
  @@ ("entry-text" :> Lists("work-review",
        [v \in {"work-review", "commercial-timeline"} |-> TextViews[v]]))

-----------------------------------------------------------------------------
(* Events that were given up. *)

ReplayHandler ==
  [Versioned(Handler("event", {"outbox.replay"}, {"DEAD"}, "PENDING")) EXCEPT !.writes = {"event"}]

ReplayForm ==
  [Form("event", "replay", {"outbox.replay"}, {"DEAD"}) EXCEPT
     !.version = "shown", !.leaves = TRUE, !.after = "close", !.refreshes = {"dead-events"}]

EventList ==
  Shows("dead-events", ("dead-events" :> {"event"}), "DEAD", {"PUBLISHED"},
        {Move({"PENDING"}, "DEAD"), Move({"PENDING"}, "PUBLISHED")})

-----------------------------------------------------------------------------
(* The organization and its members. *)

Managing == {"member.manage"}
MemberStatuses == {"ACTIVE", "DISABLED"}

UpdateOrganizationHandler ==
  [Versioned(Handler("organization", {"organization.manage"}, Kept, "same")) EXCEPT
     !.writes = {"organization"}]
AddMemberHandler == [Adds("members", Managing, {"member"}) EXCEPT !.unique = "refuses"]

MemberStep(from, to) == [Versioned(Handler("member", Managing, from, to)) EXCEPT !.writes = {"member"}]
ChangeMemberHandler ==
  ("change-role" :> MemberStep(MemberStatuses, "same"))
  @@ ("disable" :> MemberStep({"ACTIVE"}, "DISABLED"))
  @@ ("reactivate" :> MemberStep({"DISABLED"}, "ACTIVE"))

\* useIdentityWrite.
RefreshMembers == {"member-context", "organization-settings", "organization-members"}

\* The form is for the record as it was when it was chosen, and its key is kept
\* for that and what is entered.
IdentityForm ==
  {[KeyedInState(f) EXCEPT !.holds = TRUE, !.after = "close", !.refreshes = RefreshMembers,
                           !.needs = {"organization.manage", "member.manage"}]
     : f \in {Edits(Form("organization", "update-organization", {}, Kept)),
              Form("members", "add-member", {}, Kept),
              Edits(Form("member", "change-role", {}, MemberStatuses)),
              Edits(Form("member", "disable", {}, {"ACTIVE"})),
              Edits(Form("member", "reactivate", {}, {"DISABLED"}))}}

MemberViews ==
  ("member-context" :> {"member", "organization"}) @@ ("organization-settings" :> {"organization"})
  @@ ("organization-members" :> {"member"})

Administration ==
  [organization |-> Lists("organization-settings", MemberViews),
   members |-> Lists("organization-members", MemberViews),
   member |-> Shows("organization-members", MemberViews, "ACTIVE", MemberStatuses, {})]

-----------------------------------------------------------------------------
OfficeForms ==
  {CreateRun, RequestForm, SubmitDisclosure, ReplayForm}
  \cup ApprovalCard \cup ReviewForms \cup WorkTextReview \cup IdentityForm

OfficeCommands ==
  [replay |-> ReplayHandler]
  @@ ChangeMemberHandler
  @@ ("create-run" :> CreateRunHandler) @@ ("request-approval" :> RequestHandler)
  @@ ("submit-disclosure" :> SubmitDisclosureHandler)
  @@ ("approve-task" :> ApproveTaskHandler) @@ ("reject-task" :> RejectTaskHandler)
  @@ ("revise-disclosure" :> ReviseDisclosureHandler)
  @@ ("release-disclosure" :> ReleaseDisclosureHandler)
  @@ ("withhold-disclosure" :> WithholdDisclosureHandler)
  @@ ("review-task" :> TaskTextHandler) @@ ("review-entry" :> EntryTextHandler)
  @@ ("update-organization" :> UpdateOrganizationHandler) @@ ("add-member" :> AddMemberHandler)

OfficePageTable ==
  [run |-> RunDetail, runs |-> CopilotWorkspace, approval |-> ApprovalQueue,
   disclosure |-> DisclosureQueue, event |-> EventList]
  @@ ReviewSession @@ Administration
=============================================================================
