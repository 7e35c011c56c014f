------------------------------ MODULE Workbench ------------------------------
(***************************************************************************)
(* One browser tab of apps/web at work: a page that shows a record, one of *)
(* its forms, the requests the form sends, the server that answers them,   *)
(* and everybody else who works on the same record.  Answers may be lost,  *)
(* the person may press twice, edit, close, open again and retry.          *)
(*                                                                         *)
(* What a form does is a record of Forms, one per component; what the      *)
(* server does is a record of Commands, one per handler; what a page       *)
(* shows is a record of Pages.  The modules of the features give them.     *)
(***************************************************************************)
EXTENDS Integers, Sequences, FiniteSets

CONSTANTS
  Forms,        \* the forms of the application
  Commands,     \* per command, what its handler does
  Pages,        \* per page, what is mounted on it and how its record moves
  Unprotected,  \* the commands nothing keeps from being done again
  Hasty,        \* the commands a press before the page is drawn again does again
  Sticky,       \* the commands whose form may keep a key the server has for something else
  Outdated,     \* the commands whose form may have been filled from an older version
  Unvetted,     \* the commands whose form leaves it to the server to say whether it may be done
  Lagging,      \* per command, the queries its page leaves as they were
  Contents,     \* bound: what a person may enter in a form
  MaxVersion,   \* bound: the versions a record goes through
  MaxSends,     \* bound: the requests a tab sends
  MaxTurns      \* bound: the times a form is opened or starts afresh

VARIABLES
  doing,       \* the command the person is at
  record,      \* the record on the server
  shown,       \* the record as the page shows it
  panel,       \* the form on the page
  requests,    \* what the tab has sent, and what became of it
  effects,     \* what the server did for this tab
  behind,      \* the queries on the page that do not show all of it
  refetching   \* the queries being fetched again

vars == <<doing, record, shown, panel, requests, effects, behind, refetching>>

FormFor == [c \in {f.command : f \in Forms} |-> CHOOSE f \in Forms : f.command = c]

form == FormFor[doing]
Command == Commands[doing]
Page == Pages[form.page]

HandlersOf == [p \in DOMAIN Pages |-> {c \in DOMAIN Commands : Commands[c].page = p}]
FormsOf == [p \in DOMAIN Pages |-> {f \in Forms : f.page = p}]

Mounted == DOMAIN Page.views

Good == {"done", "replayed", "already"}
Bad == {"denied", "conflict", "stale", "exists", "refused", "invalid", "lost"}
Stages == {"sent", "served", "refreshing", "over"}

Nothing == <<>>
NoRecord == [status |-> "none", version |-> 0, edition |-> 0]

TypeOK ==
  /\ doing \in DOMAIN FormFor
  /\ record.version \in 1..MaxVersion
  /\ shown.version \in 1..record.version
  /\ panel.turn \in 0..MaxTurns
  /\ panel.open \in BOOLEAN /\ panel.held \in BOOLEAN /\ panel.drawn \in BOOLEAN
  /\ panel.content \in Contents
  /\ panel.key \in 0..Len(requests) /\ panel.read.key \in Nat
  /\ Len(requests) \in 0..MaxSends
  /\ \A i \in DOMAIN requests :
       /\ requests[i].stage \in Stages
       /\ requests[i].verdict \in Good \cup Bad \cup {"none"}
  /\ behind \subseteq Mounted
  /\ refetching \subseteq Mounted

InFlight == {i \in DOMAIN requests : requests[i].stage # "over"}
Pending == \E i \in InFlight : requests[i].turn = panel.turn

\* Bound: a tab that has sent all it may is followed until all is answered.
MaySend == Len(requests) < MaxSends
Followed == MaySend \/ InFlight # {}

-----------------------------------------------------------------------------
(* What the tables keep to, form by form and page by page.  The theorems     *)
(* rest on this and on nothing else about the tables.                        *)

HandlerOf(f) == Commands[f.command]

FormType ==
  [page : STRING, command : STRING, needs : SUBSET STRING, offered : SUBSET STRING,
   key : {"payload", "form", "fresh", "none"}, keeps : {"ref", "state"}, bare : BOOLEAN,
   rekeys : BOOLEAN, signs : BOOLEAN, version : {"opened", "shown", "none"}, fills : BOOLEAN,
   guard : {"ref", "drawn"}, leaves : BOOLEAN, lasts : SUBSET STRING, holds : BOOLEAN,
   asIs : BOOLEAN, after : {"close", "renew", "stay"}, refreshes : SUBSET STRING]

HandlerType ==
  [page : STRING, needs : SUBSET STRING, from : SUBSET STRING, to : STRING,
   checks : {"version", "edition", "no"}, bumps : BOOLEAN, renews : BOOLEAN,
   already : SUBSET STRING, settled : SUBSET STRING, unique : {"no", "refuses", "returns"},
   writes : SUBSET STRING]

MoveType == [from : SUBSET STRING, to : STRING, bumps : BOOLEAN]

ASSUME BoundsAssumption ==
  /\ Contents # {}
  /\ MaxVersion \in Nat \ {0} /\ MaxSends \in Nat /\ MaxTurns \in Nat

\* A form is of a page and sends a command of that page.  Another row in the place
\* of the record is a change of it.
ASSUME TablesAssumption ==
  /\ Forms \subseteq FormType
  /\ \A f \in Forms :
       /\ f.page \in DOMAIN Pages /\ f.command \in DOMAIN Commands
       /\ HandlerOf(f).page = f.page
  /\ \A c \in DOMAIN Commands :
       Commands[c] \in HandlerType /\ (Commands[c].renews => Commands[c].bumps)
  /\ \A p \in DOMAIN Pages :
       /\ Pages[p].main \in DOMAIN Pages[p].views
       /\ Pages[p].start \in STRING /\ Pages[p].moves \subseteq MoveType
       /\ \A m \in Pages[p].moves : m.to # "same"

\* Whatever a form that is opened sends names the same version.
NamesOneVersion(f) ==
  f.version \in {"none", "opened"} \/ (f.version = "shown" /\ f.leaves)

\* The key is kept for one content, and for one version.
ASSUME KeysAssumption ==
  \A f \in Forms :
    f.command \notin Sticky /\ f.key \in {"payload", "form"} =>
      /\ f.key = "payload" \/ f.bare \/ f.rekeys
      /\ (f.key = "payload" /\ f.signs) \/ NamesOneVersion(f)

\* Where the server looks at the version, the form names the one it was opened on,
\* or the one it shows and is filled from nothing older.
ASSUME VersionsAssumption ==
  \A f \in Forms :
    HandlerOf(f).checks # "no" /\ f.command \notin Outdated =>
      f.version = "opened" \/ (f.version = "shown" /\ (f.fills => f.leaves))

\* The page asks for the permissions and the statuses the handler does.
ASSUME OffersAssumption ==
  \A f \in Forms :
    f.command \notin Unvetted =>
      LET h == HandlerOf(f) IN
      /\ h.needs \subseteq f.needs
      /\ f.offered \cup f.lasts \subseteq h.from \cup h.already \cup h.settled

\* What the handler writes, the hook fetches again; a query of another version is
\* another query.
ASSUME RefreshesAssumption ==
  \A f \in Forms :
    LET p == Pages[f.page] IN
    \A v \in DOMAIN p.views :
      p.views[v] \cap HandlerOf(f).writes # {} =>
        \/ v \in f.refreshes \cup Lagging[f.command]
        \/ /\ v \in p.keyed /\ p.main \in f.refreshes
           /\ HandlerOf(f).bumps

\* In status s of page p nothing is left to do, or somebody can do it.
HasAWayOn(p, s) ==
  \/ s \in Pages[p].rest
  \/ \E m \in Pages[p].moves : s \in m.from
  \/ \E f \in FormsOf[p] :
       /\ s \in f.offered \cap HandlerOf(f).from
       /\ HandlerOf(f).to \notin {"same", s}
       /\ HandlerOf(f).needs \subseteq f.needs

ASSUME WaysAssumption ==
  \A f \in Forms :
    /\ \A s \in f.offered \cup {Pages[f.page].start} : HasAWayOn(f.page, s)
    /\ \A c \in HandlersOf[f.page] : Commands[c].to # "same" => HasAWayOn(f.page, Commands[c].to)
    /\ \A m \in Pages[f.page].moves : HasAWayOn(f.page, m.to)

\* No step of page p leads out of the statuses S, or none that keeps the version
\* of the record, or its row.
ClosedUnder(S, p, kept) ==
  /\ \A c \in HandlersOf[p] :
       LET h == Commands[c] IN
       h.to # "same" /\ h.from \cap S # {} =>
         h.to \in S \/ (kept = "version" /\ h.bumps) \/ (kept = "row" /\ h.renews)
  /\ \A m \in Pages[p].moves :
       m.from \cap S # {} => m.to \in S \/ (kept = "version" /\ m.bumps)

\* What keeps the command of a form from being done again.
StatusesOf(p) == UNION {{Commands[c].to} \cup Commands[c].from : c \in HandlersOf[p]}
                 \cup UNION {{m.to} \cup m.from : m \in Pages[p].moves}
LeadsAway(f, kept) ==
  \E S \in SUBSET StatusesOf(f.page) :
    /\ HandlerOf(f).to \in S \ {"same"}
    /\ S \cap HandlerOf(f).from = {}
    /\ ClosedUnder(S, f.page, kept)

ByContent(f) == HandlerOf(f).unique # "no"
ByKeyOnceDrawn(f) ==
  /\ f.key \in {"payload", "form"}
  /\ NamesOneVersion(f) \/ f.key = "form" \/ ~f.signs
ByKey(f) == ByKeyOnceDrawn(f) /\ f.keeps = "ref"
ByVersion(f) ==
  /\ NamesOneVersion(f) /\ f.version # "none"
  /\ \/ HandlerOf(f).checks = "version" /\ HandlerOf(f).bumps
     \/ HandlerOf(f).checks = "edition" /\ HandlerOf(f).renews
ByStatus(f) == LeadsAway(f, "nothing")
ByVersionAndStatus(f) ==
  /\ f.version = "shown" /\ ~f.fills
  /\ HandlerOf(f).checks = "version" /\ HandlerOf(f).bumps
  /\ LeadsAway(f, "version")
ByRowAndStatus(f) ==
  /\ NamesOneVersion(f) /\ f.version # "none"
  /\ HandlerOf(f).checks = "edition"
  /\ LeadsAway(f, "row")

ASSUME ProtectionAssumption ==
  \A f \in Forms :
    f.command \notin Unprotected =>
      \/ ByContent(f) \/ ByKey(f) \/ ByVersion(f)
      \/ ByStatus(f) \/ ByVersionAndStatus(f) \/ ByRowAndStatus(f)
      \/ f.command \in Hasty /\ ByKeyOnceDrawn(f)

-----------------------------------------------------------------------------
(* The record on the server. *)

\* Mutated: the row that is superseded stays in the foreground.
AfterSuperseding(c, r) ==
  [status |-> CASE c.renews -> "SUPERSEDED"
                [] c.to = "same" -> r.status
                [] OTHER -> c.to,
   version |-> IF c.bumps THEN r.version + 1 ELSE r.version,
   edition |-> IF c.renews THEN r.version + 1 ELSE r.edition]

\* What the handler of command c leaves of a record: a row of a higher version,
\* or another row that takes its place.
After(c, r) ==
  [status |-> IF c.to = "same" THEN r.status ELSE c.to,
   version |-> IF c.bumps THEN r.version + 1 ELSE r.version,
   edition |-> IF c.renews THEN r.version + 1 ELSE r.edition]

\* What the command's request names of a record, to be told apart by.
Stamp(r) == IF Command.checks = "edition" THEN r.edition ELSE r.version

\* A request under a key that is on file is answered from the file, or refused
\* when it asks for something else; then come the version and the status.
OnFile(r) == {e \in effects : r.key # 0 /\ e.key = r.key}
Repeated(r) == Command.unique # "no" /\ \E e \in effects : e.content = r.content
Same(e, r) == e.content = r.content /\ e.base = r.base

\* Mutated: what the key was used for is not looked at.
FileByKey(r) == "replayed"

\* The answer to a request under a key on file.
FromFile(r) == IF \A e \in OnFile(r) : Same(e, r) THEN "replayed" ELSE "conflict"

Verdict(r) ==
  IF ~(Command.needs \subseteq form.needs) THEN "denied"
  ELSE IF OnFile(r) # {} THEN FromFile(r)
  ELSE IF record.status \in Command.already THEN "already"
  ELSE IF Repeated(r) THEN IF Command.unique = "returns" THEN "already" ELSE "exists"
  ELSE IF Command.checks # "no" /\ r.base # Stamp(record) THEN "stale"
  ELSE IF record.status \in Command.settled THEN "already"
  ELSE IF record.status \notin Command.from THEN "refused"
  ELSE "done"

\* The queries whose data the command changes.
Touched == {v \in Mounted : Page.views[v] \cap Command.writes # {}}

\* The server takes a request up.  It may refuse any request for its content.
Serve(i) ==
  LET r == requests[i] IN
  /\ r.stage = "sent"
  /\ record.version < MaxVersion
  /\ \E v \in {Verdict(r), IF Verdict(r) = "done" THEN "invalid" ELSE Verdict(r)} :
       /\ requests' = [requests EXCEPT ![i].stage = "served", ![i].verdict = v,
                                       ![i].seen = NoRecord, ![i].current = (r.seen = record)]
       /\ IF v = "done"
          THEN /\ record' = After(Command, record)
               /\ effects' = effects \cup
                    {[key |-> r.key, turn |-> r.turn, content |-> r.content, base |-> r.base,
                      saw |-> r.saw, by |-> i]}
               /\ behind' = behind \cup Touched
          ELSE UNCHANGED <<record, effects, behind>>
  /\ UNCHANGED <<doing, shown, panel, refetching>>

\* Somebody else, or another part of the system, acts on the record.
OthersAct ==
  /\ Followed
  /\ record.version < MaxVersion
  /\ \/ \E name \in HandlersOf[form.page] :
          /\ record.status \in Commands[name].from
          /\ Commands[name].bumps \/ Commands[name].to # "same"
          /\ record' = After(Commands[name], record)
     \/ \E m \in Page.moves :
          /\ record.status \in m.from
          /\ record' = [record EXCEPT !.status = m.to,
                                      !.version = IF m.bumps THEN record.version + 1 ELSE @]
  /\ UNCHANGED <<doing, shown, panel, requests, effects, behind, refetching>>

-----------------------------------------------------------------------------
(* The page and its form. *)

Visible == shown.status \in form.offered

\* Mutated: an open form stays, whatever status the page shows.
RemainsAnyway(r) == TRUE

\* A form may go on being there in more statuses than it is offered in.
Remains(r) == r.status \in form.offered \cup form.lasts

Closed == [open |-> FALSE, turn |-> 0, saw |-> NoRecord, content |-> CHOOSE c \in Contents : TRUE,
           key |-> 0, signed |-> Nothing, read |-> [key |-> 0, signed |-> Nothing],
           held |-> FALSE, drawn |-> FALSE]

\* The key panel p keeps, and what it is for.
KeptIn(p) == [key |-> p.key, signed |-> p.signed]

\* Panel p on a page that is drawn again.
Redrawn(p) == IF form.keeps = "state" THEN [p EXCEPT !.read = KeptIn(p)] ELSE p

\* A form goes when the page shows a status it is not offered in, unless it
\* holds on; its recovery button stays.  Both go when the form is tied to what it
\* was opened on and the page shows another version.
Leaves(new) == form.leaves /\ Stamp(new) # Stamp(panel.saw)
Hides(new) == ~form.holds /\ ~Remains(new)

\* A form that lasts is mounted anew for the version the page shows.
Remounted(new) ==
  IF panel.open /\ new.status \in form.lasts /\ panel.turn < MaxTurns
  THEN [Closed EXCEPT !.open = TRUE, !.turn = panel.turn + 1, !.saw = new]
  ELSE [Closed EXCEPT !.turn = panel.turn]

\* A query keyed by the version of the record is another one for another version.
Show(new, fetched) ==
  /\ shown' = new
  /\ behind' = behind \ (fetched \cup IF new.version # shown.version THEN Page.keyed ELSE {})
  /\ panel' =
       IF Leaves(new) \/ (Hides(new) /\ ~form.asIs) THEN Remounted(new)
       ELSE IF Hides(new) THEN [panel EXCEPT !.open = FALSE]
       ELSE panel

\* The person reloads the page's record, or a poll does.
Reload ==
  /\ Followed
  /\ shown # record
  /\ Show(record, {Page.main})
  /\ UNCHANGED <<doing, record, requests, effects, refetching>>

\* A form is mounted: its values come from the record as shown, and it has no
\* key, no pending request of its own and nothing held.
Open ==
  /\ MaySend
  /\ ~panel.open /\ Visible
  /\ panel.turn < MaxTurns
  /\ panel' = [Closed EXCEPT !.open = TRUE, !.turn = panel.turn + 1, !.saw = shown]
  /\ UNCHANGED <<doing, record, shown, requests, effects, behind, refetching>>

\* Bound: to open and leave a form before anything is sent does not matter.
Leave ==
  /\ panel.open
  /\ requests # <<>> /\ Followed
  /\ panel' = [Closed EXCEPT !.turn = panel.turn]
  /\ UNCHANGED <<doing, record, shown, requests, effects, behind, refetching>>

\* A form that takes a new key with every change starts afresh with it.
\* Bound: what the first request holds does not matter.
Edit ==
  /\ MaySend
  /\ panel.open /\ ~Pending /\ ~form.bare
  /\ requests # <<>>
  /\ form.rekeys => panel.turn < MaxTurns
  /\ \E c \in Contents \ {panel.content} :
       panel' = Redrawn(IF form.rekeys
                        THEN [panel EXCEPT !.content = c, !.turn = @ + 1, !.signed = Nothing]
                        ELSE [panel EXCEPT !.content = c])
  /\ UNCHANGED <<doing, record, shown, requests, effects, behind, refetching>>

\* Mutated: every form names the version the page shows when it is sent.
BaseAsShown == IF form.version = "none" THEN 0 ELSE Stamp(shown)

\* The version a request names.
Base ==
  CASE form.version = "opened" -> Stamp(panel.saw)
    [] form.version = "shown" -> Stamp(shown)
    [] OTHER -> 0

\* The version of the record that what is sent was decided on.
Saw == IF form.fills THEN Stamp(panel.saw) ELSE Stamp(shown)

\* Mutated: what is entered is left out of what the key is kept for.
SignatureOfVersion(content, base) == <<0, base>>

\* What the form remembers its key for; a key of the form itself is kept for
\* whatever the form holds.
Signature(content, base) ==
  CASE form.key = "form" -> <<0, 0>>
    [] form.key = "payload" /\ ~form.signs -> <<content, 0>>
    [] OTHER -> <<content, base>>

Fresh == Len(requests) + 1

\* The key the submit handler finds, and what it is for: what a ref holds, or what
\* the state was when the page was last drawn.
Remembered == IF form.keeps = "state" THEN panel.read ELSE KeptIn(panel)

\* Mutated: every request is given a key of its own.
KeyPerRequest(content, base) == IF form.key = "none" THEN 0 ELSE Fresh

\* The key that is remembered, when it is for what is sent.
KeyFor(content, base) ==
  IF form.key = "none" THEN 0
  ELSE IF form.key # "fresh" /\ Remembered.signed = Signature(content, base) THEN Remembered.key
  ELSE Fresh

Send(r) ==
  /\ MaySend
  /\ requests' = Append(requests,
       [r EXCEPT !.stage = "sent", !.verdict = "none", !.current = FALSE, !.again = Pending])
  /\ panel' = [panel EXCEPT !.key = r.key, !.signed = Signature(r.content, r.base),
                            !.held = (form.guard = "ref"), !.drawn = FALSE]

\* A second press is stopped by a ref set at once, or by the button that is
\* disabled when the page has been drawn again.
Free ==
  /\ form.guard = "ref" => ~panel.held
  /\ form.guard = "drawn" => ~(Pending /\ panel.drawn)

Submit ==
  /\ panel.open /\ (form.holds \/ Remains(shown)) /\ Free
  /\ Send([key |-> KeyFor(panel.content, Base), turn |-> panel.turn, content |-> panel.content,
           base |-> Base, saw |-> Saw, seen |-> IF form.holds THEN panel.saw ELSE shown,
           current |-> FALSE, again |-> Pending, stage |-> "sent", verdict |-> "none"])
  /\ UNCHANGED <<doing, record, shown, effects, behind, refetching>>

\* The recovery button: the last request once more, as it was, while the form
\* that sent it, or the place it had, is still on the page.
Retry ==
  /\ form.asIs
  /\ requests # <<>>
  /\ LET r == requests[Len(requests)] IN
       /\ r.stage = "over" /\ r.verdict \in Bad
       /\ r.turn = panel.turn /\ panel.signed # Nothing
       /\ Send(r)
  /\ UNCHANGED <<doing, record, shown, effects, behind, refetching>>

\* The page is drawn again, its buttons disabled, its handlers made anew.
Draw ==
  /\ form.guard = "drawn"
  /\ panel.open /\ Pending /\ ~panel.drawn
  /\ panel' = Redrawn([panel EXCEPT !.drawn = TRUE])
  /\ UNCHANGED <<doing, record, shown, requests, effects, behind, refetching>>

-----------------------------------------------------------------------------
(* Answers. *)

Release(i) ==
  IF requests[i].turn = panel.turn
  THEN Redrawn([panel EXCEPT !.held = FALSE, !.drawn = FALSE]) ELSE panel

\* An error is shown; the form stays as it is.
Fail(i) ==
  /\ requests[i].stage = "served" /\ requests[i].verdict \in Bad
  /\ requests' = [requests EXCEPT ![i].stage = "over", ![i].current = FALSE]
  /\ panel' = Release(i)
  /\ UNCHANGED <<doing, record, shown, effects, behind, refetching>>

\* A request never arrives, or its answer does not: an error as any other.
Lose(i) ==
  /\ requests[i].stage \in {"sent", "served"}
  /\ requests' = [requests EXCEPT ![i].stage = "over", ![i].verdict = "lost",
                                     ![i].seen = NoRecord, ![i].current = FALSE]
  /\ panel' = Release(i)
  /\ UNCHANGED <<doing, record, shown, effects, behind, refetching>>

\* Mutated: the record is fetched again, and nothing else that changed with it.
RefreshMain(i) ==
  /\ requests[i].stage = "served" /\ requests[i].verdict \in Good
  /\ requests' = [requests EXCEPT ![i].stage = "refreshing", ![i].current = FALSE]
  /\ refetching' = refetching \cup {Page.main}
  /\ UNCHANGED <<doing, record, shown, panel, effects, behind>>

\* onSuccess of the hook: the named queries are fetched again.
Refresh(i) ==
  /\ requests[i].stage = "served" /\ requests[i].verdict \in Good
  /\ requests' = [requests EXCEPT ![i].stage = "refreshing", ![i].current = FALSE]
  /\ refetching' = refetching \cup (form.refreshes \cap Mounted)
  /\ UNCHANGED <<doing, record, shown, panel, effects, behind>>

Land ==
  /\ refetching # {}
  /\ refetching' = {}
  /\ IF Page.main \in refetching
     THEN Show(record, refetching)
     ELSE behind' = behind \ refetching /\ UNCHANGED <<shown, panel>>
  /\ UNCHANGED <<doing, record, requests, effects>>

\* Success is shown when the queries are there, and the form closes or starts
\* afresh.
Report(i) ==
  /\ requests[i].stage = "refreshing"
  /\ refetching = {}
  /\ requests' = [requests EXCEPT ![i].stage = "over"]
  /\ panel' =
       IF ~(panel.open /\ requests[i].turn = panel.turn) THEN panel
       ELSE IF form.after = "close" \/ panel.turn = MaxTurns THEN [Closed EXCEPT !.turn = panel.turn]
       ELSE Redrawn([Release(i) EXCEPT
              !.turn = panel.turn + 1,
              !.signed = IF form.after = "renew" THEN Nothing ELSE panel.signed])
  /\ UNCHANGED <<doing, record, shown, effects, behind, refetching>>

-----------------------------------------------------------------------------
\* The person comes to a page that offers the form, or to a new record.
Init ==
  /\ doing \in DOMAIN FormFor
  /\ record \in [status : form.offered \cup {Page.start}, version : {1}, edition : {1}]
  /\ shown = record
  /\ panel = Closed
  /\ requests = <<>>
  /\ effects = {}
  /\ behind = {}
  /\ refetching = {}

Next ==
  \/ OthersAct \/ Reload \/ Open \/ Leave \/ Edit \/ Submit \/ Retry \/ Draw \/ Land
  \/ \E i \in DOMAIN requests : Serve(i) \/ Lose(i) \/ Fail(i) \/ Refresh(i) \/ Report(i)

Spec == Init /\ [][Next]_vars

-----------------------------------------------------------------------------
(* Properties. *)

\* However often a person presses, retries or sends the same thing again after
\* an answer was lost, it is done once, unless something else was sent or somebody
\* else's work came to be seen in between; the forms of Unprotected are those the
\* code gives nothing to tell a repetition by, and those of Hasty repeat what is
\* pressed again while the one before is under way.
DoneOnce ==
  doing \notin Unprotected =>
    \A d, e \in effects :
      d.turn = e.turn /\ d.by < e.by =>
        \/ e.saw > d.saw + 1
        \/ \E i \in d.by..e.by : requests[i].content # d.content
        \/ doing \in Hasty /\ \E i \in (d.by + 1)..e.by : requests[i].again

\* A success that is reported is of what was sent: the server did just that, on
\* the version the request names, or had it on file.
SuccessIsOfWhatWasSent ==
  \A i \in DOMAIN requests :
    requests[i].verdict \in {"done", "replayed"} =>
      \E e \in effects : e.content = requests[i].content /\ e.base = requests[i].base

\* Nobody is refused because a form keeps a key for something it has changed,
\* but for the forms of Sticky.
NobodyIsStuckOnAKey ==
  doing \notin Sticky => \A i \in DOMAIN requests : requests[i].verdict # "conflict"

\* What the server does under a version was decided on that version: the form
\* was filled from it, or the page showed it when it was sent.
DecidedOnWhatWasShown ==
  Command.checks # "no" /\ doing \notin Outdated => \A e \in effects : e.saw = e.base

\* A page that is up to date offers nothing the server refuses for the status of
\* the record or for want of a permission, but for what the form leaves to the
\* server to say.
OfferedIsAccepted ==
  doing \notin Unvetted =>
    \A i \in DOMAIN requests :
      requests[i].current => requests[i].verdict \notin {"refused", "denied"}

\* Once every request is answered with success, every query on the page shows
\* what was done, but for those in Lagging.
OwnWorkIsShown ==
  (\A i \in DOMAIN requests : requests[i].stage = "over" /\ requests[i].verdict \in Good)
    => behind \subseteq Lagging[doing]

\* No record gets stuck: its page offers a step the server takes, or another
\* part of the system moves it.
NothingIsStranded == HasAWayOn(form.page, record.status)
=============================================================================
