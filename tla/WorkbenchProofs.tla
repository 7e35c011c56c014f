--------------------------- MODULE WorkbenchProofs ---------------------------
(***************************************************************************)
(* What Workbench keeps for any forms, handlers and pages that agree with  *)
(* its assumptions, any contents, and any number of requests and turns.    *)
(***************************************************************************)
EXTENDS Workbench, SequenceTheorems, TLAPS

\* A status, or that of no record.
Status == STRING \cup {NoRecord.status}

Record == [status : Status, version : Nat, edition : Nat]

Signatures == (Contents \cup {0}) \X Nat

\* A key, and what it is for.
Key == [key : Nat, signed : {Nothing} \cup Signatures]

Panel ==
  [open : BOOLEAN, turn : 0..MaxTurns, saw : Record, content : Contents, key : Nat,
   signed : {Nothing} \cup Signatures, read : Key, held : BOOLEAN, drawn : BOOLEAN]

Request ==
  [key : Nat, turn : Nat, content : Contents, base : Nat, saw : Nat, seen : Record,
   current : BOOLEAN, again : BOOLEAN, stage : Stages, verdict : Good \cup Bad \cup {"none"}]

Effect == [key : Nat, turn : Nat, content : Contents, base : Nat, saw : Nat, by : Nat]

Typed ==
  /\ doing \in DOMAIN FormFor
  /\ record \in Record /\ shown \in Record
  /\ panel \in Panel
  /\ requests \in Seq(Request)
  /\ effects \subseteq Effect
  /\ behind \subseteq Mounted /\ refetching \subseteq Mounted

-----------------------------------------------------------------------------
(* The form at hand and its tables do not change. *)

LEMMA FormFacts ==
  ASSUME doing \in DOMAIN FormFor
  PROVE  /\ form \in Forms /\ form \in FormType /\ form.command = doing
         /\ Command = HandlerOf(form) /\ Command \in HandlerType
         /\ Command.renews => Command.bumps
         /\ doing \in HandlersOf[form.page]
         /\ form.page \in DOMAIN Pages /\ Page = Pages[form.page]
         /\ Page.main \in Mounted /\ Page.start \in STRING /\ Page.moves \subseteq MoveType
<1>1. PICK g \in Forms : g.command = doing
  BY DEF FormFor
<1>2. form \in Forms /\ form.command = doing
  BY <1>1 DEF form, FormFor
<1> QED
  BY <1>2, TablesAssumption DEF Command, HandlerOf, Page, Mounted, HandlersOf

Fixed ==
  /\ doing' = doing /\ form' = form /\ Command' = Command
  /\ Page' = Page /\ Mounted' = Mounted /\ Touched' = Touched

LEMMA Constant == [Next]_vars => Fixed
<1>1. [Next]_vars => doing' = doing
  BY DEF Next, vars, OthersAct, Reload, Open, Leave, Edit, Submit, Retry, Draw, Land, Serve, Lose,
         Fail, Refresh, Report
<1> QED
  BY <1>1 DEF Fixed, form, Command, Page, Mounted, Touched

LEMMA NoRecordType == NoRecord \in Record
BY DEF NoRecord, Record, Status

LEMMA ClosedType == Closed \in Panel
<1>1. (CHOOSE c \in Contents : TRUE) \in Contents
  BY BoundsAssumption
<1> QED
  BY <1>1, BoundsAssumption, NoRecordType DEF Closed, Panel, Key, Nothing

LEMMA StampType ==
  ASSUME NEW r \in Record
  PROVE  Stamp(r) \in Nat
BY DEF Stamp, Record

LEMMA SignatureType ==
  ASSUME NEW c \in Contents, NEW b \in Nat
  PROVE  Signature(c, b) \in Signatures /\ Signature(c, b) # Nothing
BY DEF Signature, Signatures, Nothing

LEMMA AfterType ==
  ASSUME NEW h \in HandlerType, NEW r \in Record
  PROVE  After(h, r) \in Record
BY DEF After, HandlerType, Record, Status

-----------------------------------------------------------------------------
(* What becomes of the requests. *)


\* Two requests that may differ in how far they have come.
Alike(q, r) ==
  /\ q.key = r.key /\ q.turn = r.turn /\ q.content = r.content
  /\ q.base = r.base /\ q.saw = r.saw

\* Request i comes on, and nothing else.
Advances(i) ==
  /\ requests' \in Seq(Request) /\ Len(requests') = Len(requests)
  /\ Alike(requests[i], requests'[i]) /\ requests'[i].again = requests[i].again
  /\ \A j \in DOMAIN requests \ {i} : requests'[j] = requests[j]

LEMMA Advance ==
  ASSUME requests \in Seq(Request), NEW i \in DOMAIN requests, NEW r \in Request,
         Alike(requests[i], r), r.again = requests[i].again, requests' = [requests EXCEPT ![i] = r]
  PROVE  Advances(i) /\ requests'[i] = r
<1>1. requests' \in Seq(Request) /\ Len(requests') = Len(requests)
  OBVIOUS
<1>2. requests'[i] = r /\ \A j \in DOMAIN requests \ {i} : requests'[j] = requests[j]
  OBVIOUS
<1> QED
  BY <1>1, <1>2 DEF Advances, Alike

Answered(i, s, v, n, c) ==
  requests' = [requests EXCEPT ![i].stage = s, ![i].verdict = v, ![i].seen = n, ![i].current = c]

\* Serve and Lose.
LEMMA AdvanceAnswered ==
  ASSUME requests \in Seq(Request), NEW i \in DOMAIN requests,
         NEW s \in Stages, NEW v \in Good \cup Bad \cup {"none"}, NEW n \in Record, NEW c \in BOOLEAN,
         Answered(i, s, v, n, c)
  PROVE  /\ Advances(i)
         /\ requests'[i].stage = s /\ requests'[i].verdict = v
         /\ requests'[i].seen = n /\ requests'[i].current = c
<1> DEFINE r == [requests[i] EXCEPT !.stage = s, !.verdict = v, !.seen = n, !.current = c]
<1>1. requests[i] \in Request
  OBVIOUS
<1>2. r \in Request /\ Alike(requests[i], r) /\ r.again = requests[i].again
  BY <1>1 DEF Request, Alike
<1>3. r.stage = s /\ r.verdict = v /\ r.seen = n /\ r.current = c
  BY <1>1 DEF Request
<1>4. requests' = [requests EXCEPT ![i] = r]
  BY DEF Answered
<1> QED
  BY <1>2, <1>3, <1>4, Advance

\* Fail and Refresh.
LEMMA AdvanceTaken ==
  ASSUME requests \in Seq(Request), NEW i \in DOMAIN requests, NEW s \in Stages,
         requests' = [requests EXCEPT ![i].stage = s, ![i].current = FALSE]
  PROVE  /\ Advances(i)
         /\ requests'[i].stage = s /\ requests'[i].verdict = requests[i].verdict
         /\ requests'[i].seen = requests[i].seen /\ requests'[i].current = FALSE
<1> DEFINE r == [requests[i] EXCEPT !.stage = s, !.current = FALSE]
<1>1. requests[i] \in Request
  OBVIOUS
<1>2. r \in Request /\ Alike(requests[i], r) /\ r.again = requests[i].again
  BY <1>1 DEF Request, Alike
<1>3. r.stage = s /\ r.verdict = requests[i].verdict /\ r.seen = requests[i].seen /\ r.current = FALSE
  BY <1>1 DEF Request
<1>4. requests' = [requests EXCEPT ![i] = r]
  OBVIOUS
<1> QED
  BY <1>2, <1>3, <1>4, Advance

\* Report.
LEMMA AdvanceOver ==
  ASSUME requests \in Seq(Request), NEW i \in DOMAIN requests, NEW s \in Stages,
         requests' = [requests EXCEPT ![i].stage = s]
  PROVE  /\ Advances(i)
         /\ requests'[i].stage = s /\ requests'[i].verdict = requests[i].verdict
         /\ requests'[i].seen = requests[i].seen /\ requests'[i].current = requests[i].current
<1> DEFINE r == [requests[i] EXCEPT !.stage = s]
<1>1. requests[i] \in Request
  OBVIOUS
<1>2. r \in Request /\ Alike(requests[i], r) /\ r.again = requests[i].again
  BY <1>1 DEF Request, Alike
<1>3. /\ r.stage = s /\ r.verdict = requests[i].verdict /\ r.seen = requests[i].seen
      /\ r.current = requests[i].current
  BY <1>1 DEF Request
<1>4. requests' = [requests EXCEPT ![i] = r]
  OBVIOUS
<1> QED
  BY <1>2, <1>3, <1>4, Advance

\* A request goes out as r, and nothing else.
Adds(r) ==
  /\ requests' \in Seq(Request) /\ Len(requests') = Fresh /\ Len(requests) < MaxSends
  /\ \A j \in DOMAIN requests : requests'[j] = requests[j]
  /\ Alike(r, requests'[Fresh]) /\ requests'[Fresh].seen = r.seen
  /\ requests'[Fresh].stage = "sent" /\ requests'[Fresh].verdict = "none"
  /\ requests'[Fresh].current = FALSE /\ requests'[Fresh].again = Pending

LEMMA Addition ==
  ASSUME requests \in Seq(Request), NEW r \in Request, Send(r)
  PROVE  Adds(r)
<1>1. PICK b \in BOOLEAN : b = Pending
  BY DEF Pending
<1> DEFINE q == [r EXCEPT !.stage = "sent", !.verdict = "none", !.current = FALSE, !.again = b]
<1>2. q \in Request /\ Alike(r, q) /\ q.seen = r.seen
  BY DEF Request, Alike, Stages
<1>3. q.stage = "sent" /\ q.verdict = "none" /\ q.current = FALSE /\ q.again = b
  BY DEF Request
<1>4. requests' = Append(requests, q) /\ Len(requests) < MaxSends
  BY <1>1 DEF Send, MaySend
<1> HIDE DEF q
<1>5. /\ requests' \in Seq(Request) /\ Len(requests') = Fresh /\ requests'[Fresh] = q
      /\ \A j \in DOMAIN requests : requests'[j] = requests[j]
  BY <1>2, <1>4 DEF Fresh
<1> QED
  BY <1>1, <1>2, <1>3, <1>4, <1>5 DEF Adds

\* What Submit sends.
Sent ==
  [key |-> KeyFor(panel.content, Base), turn |-> panel.turn, content |-> panel.content,
   base |-> Base, saw |-> Saw, seen |-> IF form.holds THEN panel.saw ELSE shown,
   current |-> FALSE, again |-> Pending, stage |-> "sent", verdict |-> "none"]

LEMMA RequestFacts ==
  ASSUME Typed, NEW i \in DOMAIN requests
  PROVE  /\ i \in Nat /\ requests[i] \in Request
         /\ requests[i].key \in Nat /\ requests[i].turn \in Nat /\ requests[i].content \in Contents
         /\ requests[i].base \in Nat /\ requests[i].saw \in Nat /\ requests[i].seen \in Record
         /\ requests[i].stage \in Stages /\ requests[i].verdict \in Good \cup Bad \cup {"none"}
<1>1. requests[i] \in Request /\ i \in Nat
  BY DEF Typed
<1> QED
  BY <1>1 DEF Request

LEMMA PanelFacts ==
  ASSUME Typed
  PROVE  /\ panel.open \in BOOLEAN /\ panel.turn \in 0..MaxTurns /\ panel.turn \in Nat
         /\ panel.saw \in Record /\ panel.content \in Contents /\ panel.key \in Nat
         /\ panel.signed \in {Nothing} \cup Signatures
         /\ panel.held \in BOOLEAN /\ panel.drawn \in BOOLEAN /\ panel.read \in Key
         /\ Remembered \in Key /\ Remembered.key \in Nat
<1>1. /\ panel.open \in BOOLEAN /\ panel.turn \in 0..MaxTurns /\ panel.turn \in Nat
      /\ panel.saw \in Record /\ panel.content \in Contents /\ panel.key \in Nat
      /\ panel.signed \in {Nothing} \cup Signatures
      /\ panel.held \in BOOLEAN /\ panel.drawn \in BOOLEAN /\ panel.read \in Key
  BY BoundsAssumption DEF Typed, Panel
<1>2. Remembered \in Key
  BY <1>1 DEF Remembered, KeptIn, Key
<1>3. Remembered.key \in Nat
  BY <1>2 DEF Key
<1> QED
  BY <1>1, <1>2, <1>3

LEMMA BaseType ==
  ASSUME Typed
  PROVE  Base \in Nat /\ Saw \in Nat
<1>1. Stamp(panel.saw) \in Nat /\ Stamp(shown) \in Nat
  BY PanelFacts, StampType DEF Typed
<1> QED
  BY <1>1 DEF Base, Saw

LEMMA KeyType ==
  ASSUME Typed, NEW c, NEW b
  PROVE  KeyFor(c, b) \in Nat
BY PanelFacts DEF Typed, KeyFor, Fresh

LEMMA SentType ==
  ASSUME Typed
  PROVE  Sent \in Request
<1>1. panel.saw \in Record /\ shown \in Record
  BY PanelFacts DEF Typed
<1>2. (IF form.holds THEN panel.saw ELSE shown) \in Record
  BY <1>1
<1>3. KeyFor(panel.content, Base) \in Nat
  BY KeyType
<1>4. PICK b \in BOOLEAN : b = Pending
  BY DEF Pending
<1> QED
  BY <1>2, <1>3, <1>4, PanelFacts, BaseType DEF Sent, Request, Stages

LEMMA SubmitAdds ==
  ASSUME Typed, Submit
  PROVE  Adds(Sent) /\ Send(Sent)
BY SentType, Addition DEF Submit, Sent, Typed

LEMMA RetryAdds ==
  ASSUME Typed, Retry
  PROVE  /\ Len(requests) \in DOMAIN requests /\ Adds(requests[Len(requests)])
         /\ Send(requests[Len(requests)]) /\ requests[Len(requests)] \in Request
<1>1. Len(requests) \in DOMAIN requests
  BY DEF Retry, Typed
<1>2. requests[Len(requests)] \in Request
  BY <1>1 DEF Typed
<1> QED
  BY <1>1, <1>2, Addition DEF Retry, Typed

LEMMA VerdictType ==
  ASSUME NEW r
  PROVE  Verdict(r) \in Good \cup Bad /\ Verdict(r) # "lost" /\ Verdict(r) # "invalid"
BY DEF Verdict, FromFile, Good, Bad

EffectOf(i) ==
  [key |-> requests[i].key, turn |-> requests[i].turn, content |-> requests[i].content,
   base |-> requests[i].base, saw |-> requests[i].saw, by |-> i]

\* The server does what request i asks for.
Done(i) ==
  /\ Verdict(requests[i]) = "done"
  /\ record' = After(Command, record)
  /\ effects' = effects \cup {EffectOf(i)}
  /\ behind' = behind \cup Touched

LEMMA EffectFacts ==
  ASSUME NEW i
  PROVE  /\ EffectOf(i).key = requests[i].key /\ EffectOf(i).turn = requests[i].turn
         /\ EffectOf(i).content = requests[i].content /\ EffectOf(i).base = requests[i].base
         /\ EffectOf(i).saw = requests[i].saw /\ EffectOf(i).by = i
BY DEF EffectOf

LEMMA ServeAdvances ==
  ASSUME Typed, NEW i \in DOMAIN requests, Serve(i)
  PROVE  /\ Advances(i)
         /\ requests[i].stage = "sent" /\ requests'[i].stage = "served"
         /\ requests'[i].verdict \in {Verdict(requests[i]), "invalid"}
         /\ requests'[i].current = (requests[i].seen = record)
         /\ requests'[i].seen = NoRecord
         /\ record.version < MaxVersion
         /\ IF requests'[i].verdict = "done" THEN Done(i)
            ELSE UNCHANGED <<record, effects, behind>>
<1>1. PICK v \in {Verdict(requests[i]), IF Verdict(requests[i]) = "done" THEN "invalid" ELSE Verdict(requests[i])} :
        /\ requests' = [requests EXCEPT ![i].stage = "served", ![i].verdict = v,
                                         ![i].seen = NoRecord, ![i].current = (requests[i].seen = record)]
        /\ IF v = "done"
           THEN /\ record' = After(Command, record)
                /\ effects' = effects \cup
                     {[key |-> requests[i].key, turn |-> requests[i].turn,
                       content |-> requests[i].content, base |-> requests[i].base,
                       saw |-> requests[i].saw, by |-> i]}
                /\ behind' = behind \cup Touched
           ELSE UNCHANGED <<record, effects, behind>>
  BY DEF Serve
<1>2. v \in Good \cup Bad \cup {"none"} /\ v \in {Verdict(requests[i]), "invalid"}
  BY <1>1, VerdictType DEF Bad
<1>3. "served" \in Stages
  BY DEF Stages
<1>4. requests \in Seq(Request)
  BY DEF Typed
<1>5. PICK c \in BOOLEAN : c = (requests[i].seen = record)
  OBVIOUS
<1>6. Answered(i, "served", v, NoRecord, c)
  BY <1>1, <1>5 DEF Answered
<1>7. /\ Advances(i)
      /\ requests'[i].stage = "served" /\ requests'[i].verdict = v
      /\ requests'[i].seen = NoRecord /\ requests'[i].current = c
  BY <1>6, <1>2, <1>3, <1>4, NoRecordType, AdvanceAnswered
<1>8. /\ Advances(i)
      /\ requests'[i].stage = "served" /\ requests'[i].verdict = v
      /\ requests'[i].seen = NoRecord /\ requests'[i].current = (requests[i].seen = record)
  BY <1>5, <1>7
<1>9. requests[i].stage = "sent" /\ record.version < MaxVersion
  BY DEF Serve
<1> QED
  BY <1>1, <1>2, <1>8, <1>9 DEF Done, EffectOf

LEMMA LoseAdvances ==
  ASSUME Typed, NEW i \in DOMAIN requests, Lose(i)
  PROVE  /\ Advances(i)
         /\ requests'[i].stage = "over" /\ requests'[i].verdict = "lost"
         /\ requests'[i].seen = NoRecord /\ requests'[i].current = FALSE
<1>1. "over" \in Stages /\ "lost" \in Good \cup Bad \cup {"none"}
  BY DEF Stages, Bad
<1> QED
  BY <1>1, NoRecordType, AdvanceAnswered DEF Lose, Typed, Answered

LEMMA FailAdvances ==
  ASSUME Typed, NEW i \in DOMAIN requests, Fail(i)
  PROVE  /\ Advances(i) /\ requests'[i].stage = "over"
         /\ requests'[i].verdict = requests[i].verdict /\ requests[i].verdict \in Bad
         /\ requests'[i].current = FALSE
BY AdvanceTaken DEF Fail, Typed, Stages

LEMMA RefreshAdvances ==
  ASSUME Typed, NEW i \in DOMAIN requests, Refresh(i)
  PROVE  /\ Advances(i) /\ requests[i].stage = "served" /\ requests'[i].stage = "refreshing"
         /\ requests'[i].verdict = requests[i].verdict /\ requests[i].verdict \in Good
         /\ requests'[i].current = FALSE
BY AdvanceTaken DEF Refresh, Typed, Stages

LEMMA ReportAdvances ==
  ASSUME Typed, NEW i \in DOMAIN requests, Report(i)
  PROVE  /\ Advances(i) /\ requests[i].stage = "refreshing" /\ requests'[i].stage = "over"
         /\ requests'[i].verdict = requests[i].verdict
         /\ requests'[i].seen = requests[i].seen /\ requests'[i].current = requests[i].current
BY AdvanceOver DEF Report, Typed, Stages

-----------------------------------------------------------------------------
(* What becomes of the form: it stays, goes, is mounted anew, starts afresh, *)
(* is edited, or sends a request.                                            *)

SentKept ==
  /\ requests' \in Seq(Request) /\ Len(requests') = Len(requests)
  /\ \A j \in DOMAIN requests :
       Alike(requests[j], requests'[j]) /\ requests'[j].again = requests[j].again

\* The handlers read the key as it is from now on; or that, or what they did.
ReadsAnew == form.keeps = "state" => panel'.read = KeptIn(panel')
ReadsOn == form.keeps = "state" => panel'.read \in {panel.read, KeptIn(panel')}

Stays ==
  /\ SentKept
  /\ panel'.turn = panel.turn /\ panel'.saw = panel.saw /\ panel'.content = panel.content
  /\ panel'.key = panel.key /\ panel'.signed = panel.signed /\ ReadsOn
  /\ panel'.open => panel.open
  /\ panel'.open => shown' = shown \/ (shown' = record /\ ~Leaves(record))

Gone ==
  /\ SentKept /\ ReadsAnew
  /\ panel'.turn = panel.turn /\ panel'.open = FALSE /\ panel'.signed = Nothing
  /\ panel'.key = 0 /\ panel'.content = Closed.content

Anew ==
  /\ SentKept /\ ReadsAnew
  /\ panel'.turn = panel.turn + 1 /\ panel'.saw = shown' /\ panel'.signed = Nothing
  /\ panel'.key = 0 /\ panel'.content = Closed.content
  /\ shown'.status \in form.offered \cup form.lasts

Afresh ==
  /\ SentKept /\ ReadsAnew
  /\ panel.open /\ shown' = shown
  /\ panel'.turn = panel.turn + 1 /\ panel'.saw = panel.saw /\ panel'.key = panel.key
  /\ panel'.content = panel.content \/ (~form.bare /\ panel'.signed = Nothing)
  /\ panel'.signed \in {panel.signed, Nothing}

Edited ==
  /\ SentKept /\ ReadsAnew
  /\ panel.open /\ panel'.open /\ shown' = shown /\ ~form.bare /\ ~form.rekeys
  /\ panel'.turn = panel.turn /\ panel'.saw = panel.saw /\ panel'.key = panel.key
  /\ panel'.signed = panel.signed

\* The form after it sent r.
Sends(r) ==
  /\ Adds(r)
  /\ panel'.open = panel.open /\ panel'.turn = panel.turn /\ panel'.saw = panel.saw
  /\ panel'.content = panel.content
  /\ panel'.key = r.key /\ panel'.signed = Signature(r.content, r.base)
  /\ panel'.read = panel.read
  /\ UNCHANGED <<record, shown, effects>>

LEMMA AdvancesKeep ==
  ASSUME NEW i \in DOMAIN requests, Advances(i)
  PROVE  SentKept
BY DEF Advances, SentKept, Alike

LEMMA UnchangedKeep ==
  ASSUME Typed, requests' = requests
  PROVE  SentKept
BY DEF Typed, SentKept, Alike

LEMMA ClosedFacts ==
  ASSUME NEW t \in 0..MaxTurns
  PROVE  LET p == [Closed EXCEPT !.turn = t]
         IN  /\ p \in Panel /\ p.turn = t /\ p.open = FALSE /\ p.signed = Nothing
             /\ p.content = Closed.content /\ p.key = 0 /\ p.read = [key |-> 0, signed |-> Nothing]
<1> DEFINE p == [Closed EXCEPT !.turn = t]
<1>1. p \in Panel
  BY ClosedType DEF Panel
<1>2. /\ p.turn = t /\ p.open = FALSE /\ p.signed = Nothing /\ p.content = Closed.content
      /\ p.key = 0 /\ p.read = [key |-> 0, signed |-> Nothing]
  BY DEF Closed
<1> QED
  BY <1>1, <1>2

LEMMA MountedFacts ==
  ASSUME NEW t \in 0..MaxTurns, NEW new \in Record
  PROVE  LET p == [Closed EXCEPT !.open = TRUE, !.turn = t, !.saw = new]
         IN  /\ p \in Panel /\ p.turn = t /\ p.open = TRUE /\ p.signed = Nothing
             /\ p.content = Closed.content /\ p.saw = new /\ p.key = 0 /\ p.read = [key |-> 0, signed |-> Nothing]
<1> DEFINE p == [Closed EXCEPT !.open = TRUE, !.turn = t, !.saw = new]
<1>1. p \in Panel
  BY ClosedType DEF Panel
<1>2. p.turn = t /\ p.open = TRUE /\ p.signed = Nothing
      /\ p.content = Closed.content /\ p.saw = new /\ p.key = 0 /\ p.read = [key |-> 0, signed |-> Nothing]
  BY DEF Closed
<1> QED
  BY <1>1, <1>2

LEMMA RedrawnFacts ==
  ASSUME NEW p \in Panel
  PROVE  /\ Redrawn(p) \in Panel
         /\ Redrawn(p).open = p.open /\ Redrawn(p).turn = p.turn /\ Redrawn(p).saw = p.saw
         /\ Redrawn(p).content = p.content /\ Redrawn(p).key = p.key /\ Redrawn(p).signed = p.signed
         /\ form.keeps = "state" => Redrawn(p).read = KeptIn(Redrawn(p))
<1>1. KeptIn(p) \in Key
  BY DEF KeptIn, Key, Panel
<1>2. CASE form.keeps = "state"
  <2>1. Redrawn(p) = [p EXCEPT !.read = KeptIn(p)]
    BY <1>2 DEF Redrawn
  <2> HIDE DEF Redrawn
  <2>2. /\ Redrawn(p) \in Panel
        /\ Redrawn(p).open = p.open /\ Redrawn(p).turn = p.turn /\ Redrawn(p).saw = p.saw
        /\ Redrawn(p).content = p.content /\ Redrawn(p).key = p.key /\ Redrawn(p).signed = p.signed
        /\ Redrawn(p).read = KeptIn(p)
    BY <1>1, <2>1 DEF Panel
  <2> QED
    BY <2>2 DEF KeptIn
<1>3. CASE form.keeps # "state"
  BY <1>3 DEF Redrawn
<1> QED
  BY <1>2, <1>3

LEMMA ShowPanel ==
  ASSUME Typed, NEW F, Show(record, F), requests' = requests
  PROVE  /\ panel' \in Panel /\ (Stays \/ Gone \/ Anew)
         /\ panel' = panel \/ ~panel'.open \/ Gone \/ Anew
<1> USE UnchangedKeep
<1>1. CASE panel' = panel /\ ~Leaves(record)
  <2>1. shown' = record
    BY DEF Show
  <2> QED
    BY <1>1, <2>1 DEF Stays, Typed, ReadsOn
<1>2. CASE panel' = [panel EXCEPT !.open = FALSE]
  <2>1. panel' \in Panel
    BY <1>2 DEF Typed, Panel
  <2>2. panel'.open = FALSE /\ panel'.turn = panel.turn /\ panel'.saw = panel.saw
        /\ panel'.content = panel.content /\ panel'.key = panel.key /\ panel'.signed = panel.signed
        /\ panel'.read = panel.read
    BY <1>2 DEF Typed, Panel
  <2> QED
    BY <2>1, <2>2 DEF Stays, ReadsOn
<1>3. CASE panel' = Remounted(record)
  <2>1. CASE panel.open /\ record.status \in form.lasts /\ panel.turn < MaxTurns
    <3>1. panel' = [Closed EXCEPT !.open = TRUE, !.turn = panel.turn + 1, !.saw = record]
      BY <1>3, <2>1 DEF Remounted
    <3>2. panel.turn + 1 \in 0..MaxTurns /\ record \in Record
      BY <2>1, PanelFacts, BoundsAssumption DEF Typed
    <3>3. shown' = record
      BY DEF Show
    <3> QED
      <4>1. /\ panel' \in Panel /\ panel'.turn = panel.turn + 1 /\ panel'.content = Closed.content
            /\ panel'.saw = shown' /\ panel'.key = 0 /\ panel'.signed = Nothing
        BY <3>1, <3>2, <3>3, MountedFacts
      <4>2. panel'.read = [key |-> 0, signed |-> Nothing]
        BY <3>1 DEF Closed
      <4>3. ReadsAnew
        BY <4>1, <4>2 DEF ReadsAnew, KeptIn
      <4> QED
        BY <2>1, <3>3, <4>1, <4>3 DEF Anew
  <2>2. CASE ~(panel.open /\ record.status \in form.lasts /\ panel.turn < MaxTurns)
    <3>1. panel' = [Closed EXCEPT !.turn = panel.turn]
      BY <1>3, <2>2 DEF Remounted
    <3> QED
      BY <3>1, PanelFacts, ClosedFacts DEF Gone, ReadsAnew, KeptIn
  <2> QED
    BY <2>1, <2>2
<1> QED
  BY <1>1, <1>2, <1>3 DEF Show

LEMMA ReleaseFacts ==
  ASSUME Typed, NEW i
  PROVE  /\ Release(i) \in Panel
         /\ Release(i).open = panel.open /\ Release(i).turn = panel.turn /\ Release(i).saw = panel.saw
         /\ Release(i).content = panel.content /\ Release(i).key = panel.key
         /\ Release(i).signed = panel.signed
         /\ form.keeps = "state" => Release(i).read \in {panel.read, KeptIn(Release(i))}
         /\ form.keeps = "state" /\ requests[i].turn = panel.turn =>
              Release(i).read = KeptIn(Release(i))
<1> DEFINE p == [panel EXCEPT !.held = FALSE, !.drawn = FALSE]
<1>1. CASE Release(i) = panel /\ requests[i].turn # panel.turn
  BY <1>1 DEF Typed
<1>2. CASE Release(i) = Redrawn(p)
  <2>1. panel \in Panel
    BY DEF Typed
  <2>2. /\ p \in Panel /\ p.open = panel.open /\ p.turn = panel.turn /\ p.saw = panel.saw
        /\ p.content = panel.content /\ p.key = panel.key /\ p.signed = panel.signed
    BY <2>1 DEF Panel
  <2> HIDE DEF p
  <2> QED
    BY <1>2, <2>2, RedrawnFacts
<1> QED
  BY <1>1, <1>2 DEF Release

LEMMA SendPanel ==
  ASSUME Typed, NEW r \in Request, Send(r)
  PROVE  /\ panel' \in Panel
         /\ panel'.open = panel.open /\ panel'.turn = panel.turn /\ panel'.saw = panel.saw
         /\ panel'.content = panel.content
         /\ panel'.key = r.key /\ panel'.signed = Signature(r.content, r.base)
         /\ panel'.read = panel.read
<1>1. Signature(r.content, r.base) \in Signatures /\ r.key \in Nat
  BY SignatureType DEF Request
<1>2. (form.guard = "ref") \in BOOLEAN /\ panel \in Panel
  BY DEF Typed
<1>3. panel' = [panel EXCEPT !.key = r.key, !.signed = Signature(r.content, r.base),
                            !.held = (form.guard = "ref"), !.drawn = FALSE]
  BY DEF Send
<1> QED
  BY <1>1, <1>2, <1>3 DEF Panel

LEMMA ReportPanel ==
  ASSUME Typed, NEW i \in DOMAIN requests, Report(i)
  PROVE  /\ panel' \in Panel /\ (Stays \/ Gone \/ Afresh)
         /\ \/ panel' = panel /\ (panel'.open => requests[i].turn # panel.turn)
            \/ Gone \/ Afresh
<1>1. SentKept /\ shown' = shown
  BY ReportAdvances, AdvancesKeep DEF Report
<1>2. CASE panel' = panel /\ (panel'.open => requests[i].turn # panel.turn)
  BY <1>1, <1>2 DEF Stays, Typed, ReadsOn
<1>3. CASE panel' = [Closed EXCEPT !.turn = panel.turn]
  BY <1>1, <1>3, PanelFacts, ClosedFacts DEF Gone, ReadsAnew, KeptIn
<1>4. CASE /\ panel' = Redrawn([Release(i) EXCEPT !.turn = panel.turn + 1,
                          !.signed = IF form.after = "renew" THEN Nothing ELSE panel.signed])
           /\ panel.open /\ panel.turn # MaxTurns
  <2>1. panel.turn + 1 \in 0..MaxTurns
    BY <1>4, PanelFacts, BoundsAssumption
  <2>2. PICK g \in {Nothing, panel.signed} : g = IF form.after = "renew" THEN Nothing ELSE panel.signed
    OBVIOUS
  <2>3. g \in {Nothing} \cup Signatures
    BY PanelFacts
  <2> DEFINE p == [Release(i) EXCEPT !.turn = panel.turn + 1, !.signed = g]
  <2>4. panel' = Redrawn(p)
    BY <1>4, <2>2
  <2>5. /\ p \in Panel
        /\ p.open = Release(i).open /\ p.turn = panel.turn + 1 /\ p.signed = g
        /\ p.saw = Release(i).saw /\ p.key = Release(i).key
        /\ p.content = Release(i).content
    BY <2>1, <2>3, ReleaseFacts DEF Panel
  <2>6. /\ p.open = panel.open /\ p.saw = panel.saw /\ p.key = panel.key
        /\ p.content = panel.content
    BY <2>5, ReleaseFacts
  <2> HIDE DEF p
  <2>7. /\ panel' \in Panel /\ panel'.turn = panel.turn + 1 /\ panel'.signed = g
        /\ panel'.saw = panel.saw /\ panel'.key = panel.key /\ panel'.content = panel.content
        /\ ReadsAnew
    BY <2>4, <2>5, <2>6, RedrawnFacts DEF ReadsAnew
  <2> QED
    BY <1>1, <1>4, <2>2, <2>7 DEF Afresh
<1>5. CASE ~(panel.open /\ requests[i].turn = panel.turn)
  BY <1>2, <1>5 DEF Report
<1>6. CASE panel.open /\ requests[i].turn = panel.turn
  <2>1. CASE form.after = "close" \/ panel.turn = MaxTurns
    BY <1>3, <1>6, <2>1 DEF Report
  <2>2. CASE ~(form.after = "close" \/ panel.turn = MaxTurns)
    BY <1>4, <1>6, <2>2 DEF Report
  <2> QED
    BY <2>1, <2>2
<1> QED
  BY <1>5, <1>6

LEMMA EditPanel ==
  ASSUME Typed, Edit
  PROVE  panel' \in Panel /\ (Edited \/ Afresh)
<1>1. SentKept /\ shown' = shown /\ panel.open /\ ~form.bare /\ panel \in Panel
  BY UnchangedKeep DEF Edit, Typed
<1>2. PICK c \in Contents :
        panel' = Redrawn(IF form.rekeys
                         THEN [panel EXCEPT !.content = c, !.turn = @ + 1, !.signed = Nothing]
                         ELSE [panel EXCEPT !.content = c])
  BY DEF Edit
<1>3. CASE form.rekeys
  <2>1. panel.turn + 1 \in 0..MaxTurns
    BY <1>3, PanelFacts, BoundsAssumption DEF Edit
  <2> DEFINE p == [panel EXCEPT !.content = c, !.turn = panel.turn + 1, !.signed = Nothing]
  <2>2. panel' = Redrawn(p)
    BY <1>2, <1>3
  <2>3. /\ p \in Panel /\ p.open = panel.open /\ p.turn = panel.turn + 1
        /\ p.signed = Nothing /\ p.saw = panel.saw /\ p.key = panel.key
    BY <1>1, <2>1 DEF Panel
  <2> HIDE DEF p
  <2> QED
    BY <1>1, <2>2, <2>3, RedrawnFacts DEF Afresh, ReadsAnew
<1>4. CASE ~form.rekeys
  <2> DEFINE p == [panel EXCEPT !.content = c]
  <2>1. panel' = Redrawn(p)
    BY <1>2, <1>4
  <2>2. /\ p \in Panel /\ p.open = panel.open /\ p.turn = panel.turn
        /\ p.signed = panel.signed /\ p.saw = panel.saw /\ p.key = panel.key
    BY <1>1 DEF Panel
  <2> HIDE DEF p
  <2> QED
    BY <1>1, <1>4, <2>1, <2>2, RedrawnFacts DEF Edited, ReadsAnew
<1> QED
  BY <1>3, <1>4

LEMMA DrawPanel ==
  ASSUME Typed, Draw
  PROVE  panel' \in Panel /\ Stays /\ ReadsAnew
<1> DEFINE p == [panel EXCEPT !.drawn = TRUE]
<1>1. panel' = Redrawn(p) /\ SentKept /\ shown' = shown /\ panel \in Panel
  BY UnchangedKeep DEF Draw, Typed
<1>2. /\ p \in Panel /\ p.open = panel.open /\ p.turn = panel.turn
      /\ p.signed = panel.signed /\ p.saw = panel.saw /\ p.key = panel.key
      /\ p.content = panel.content
  BY <1>1 DEF Panel
<1> HIDE DEF p
<1> QED
  BY <1>1, <1>2, RedrawnFacts DEF Stays, ReadsOn, ReadsAnew

\* What is pressed: the form's own button, or the recovery button.
Presses ==
  \/ Sends(Sent) /\ panel.open /\ (form.holds \/ Remains(shown))
  \/ /\ Len(requests) \in DOMAIN requests /\ Sends(requests[Len(requests)])
     /\ form.asIs /\ requests[Len(requests)].turn = panel.turn /\ panel.signed # Nothing
     /\ requests[Len(requests)].stage = "over"

LEMMA PanelSteps ==
  ASSUME Typed, [Next]_vars
  PROVE  panel' \in Panel /\ (Stays \/ Gone \/ Anew \/ Afresh \/ Edited \/ Presses)
<1>1. panel' = panel /\ shown' = shown /\ SentKept => panel' \in Panel /\ Stays
  BY DEF Stays, Typed, ReadsOn
<1>2. CASE OthersAct \/ UNCHANGED vars
  BY <1>1, <1>2, UnchangedKeep DEF OthersAct, vars
<1>3. CASE Reload
  BY <1>3, ShowPanel DEF Reload
<1>4. CASE Open
  <2>1. panel' = [Closed EXCEPT !.open = TRUE, !.turn = panel.turn + 1, !.saw = shown]
        /\ shown' = shown /\ shown.status \in form.offered /\ SentKept
    BY <1>4, UnchangedKeep DEF Open, Visible
  <2>2. panel.turn + 1 \in 0..MaxTurns /\ shown \in Record
    BY <1>4, PanelFacts, BoundsAssumption DEF Typed, Open
  <2> QED
    <3>1. /\ panel' \in Panel /\ panel'.turn = panel.turn + 1 /\ panel'.content = Closed.content
          /\ panel'.saw = shown' /\ panel'.key = 0 /\ panel'.signed = Nothing
      BY <2>1, <2>2, MountedFacts
    <3>2. panel'.read = [key |-> 0, signed |-> Nothing]
      BY <2>1 DEF Closed
    <3>3. ReadsAnew
      BY <3>1, <3>2 DEF ReadsAnew, KeptIn
    <3> QED
      BY <2>1, <3>1, <3>3 DEF Anew
<1>5. CASE Leave
  <2>1. panel' = [Closed EXCEPT !.turn = panel.turn] /\ SentKept
    BY <1>5, UnchangedKeep DEF Leave
  <2> QED
    BY <2>1, PanelFacts, ClosedFacts DEF Gone, ReadsAnew, KeptIn
<1>6. CASE Edit
  BY <1>6, EditPanel
<1>7. CASE Submit
  <2>1. Adds(Sent) /\ Send(Sent) /\ Sent \in Request
    BY <1>7, SubmitAdds, SentType
  <2>2. panel.open /\ (form.holds \/ Remains(shown)) /\ UNCHANGED <<record, shown, effects>>
    BY <1>7 DEF Submit
  <2> QED
    BY <2>1, <2>2, SendPanel DEF Sends, Presses
<1>8. CASE Retry
  <2>1. /\ Len(requests) \in DOMAIN requests /\ Adds(requests[Len(requests)])
        /\ Send(requests[Len(requests)]) /\ requests[Len(requests)] \in Request
    BY <1>8, RetryAdds
  <2>2. /\ form.asIs /\ requests[Len(requests)].turn = panel.turn /\ panel.signed # Nothing
        /\ requests[Len(requests)].stage = "over" /\ UNCHANGED <<record, shown, effects>>
    BY <1>8 DEF Retry
  <2> QED
    BY <2>1, <2>2, SendPanel DEF Sends, Presses
<1>9. CASE Draw
  BY <1>9, DrawPanel
<1>10. CASE Land
  <2>1. CASE Page.main \in refetching
    BY <1>10, <2>1, ShowPanel DEF Land
  <2>2. CASE Page.main \notin refetching
    BY <1>1, <1>10, <2>2, UnchangedKeep DEF Land
  <2> QED
    BY <2>1, <2>2
<1>11. ASSUME NEW i \in DOMAIN requests, Serve(i) \/ Lose(i) \/ Fail(i) \/ Refresh(i) \/ Report(i)
       PROVE  panel' \in Panel /\ (Stays \/ Gone \/ Anew \/ Afresh \/ Edited \/ Presses)
  <2>1. CASE Serve(i)
    BY <1>1, <2>1, ServeAdvances, AdvancesKeep DEF Serve
  <2>2. CASE Refresh(i)
    BY <1>1, <2>2, RefreshAdvances, AdvancesKeep DEF Refresh
  <2>3. CASE Lose(i)
    <3>1. SentKept /\ shown' = shown /\ panel' = Release(i)
      BY <2>3, LoseAdvances, AdvancesKeep DEF Lose
    <3> QED
      BY <3>1, ReleaseFacts DEF Stays, ReadsOn
  <2>4. CASE Fail(i)
    <3>1. SentKept /\ shown' = shown /\ panel' = Release(i)
      BY <2>4, FailAdvances, AdvancesKeep DEF Fail
    <3> QED
      BY <3>1, ReleaseFacts DEF Stays, ReadsOn
  <2>5. CASE Report(i)
    BY <2>5, ReportPanel
  <2> QED
    BY <1>11, <2>1, <2>2, <2>3, <2>4, <2>5
<1> QED
  BY <1>2, <1>3, <1>4, <1>5, <1>6, <1>7, <1>8, <1>9, <1>10, <1>11 DEF Next

\* What the form remembers is what it did, or what it keeps now.
LEMMA RememberedSteps ==
  ASSUME Typed, [Next]_vars
  PROVE  /\ Remembered' \in {Remembered, KeptIn(panel')}
         /\ Gone \/ Anew \/ Afresh \/ Edited => Remembered' = KeptIn(panel')
<1>1. form' = form
  BY Constant DEF Fixed
<1>2. Remembered' = IF form.keeps = "state" THEN panel'.read ELSE KeptIn(panel')
  BY <1>1 DEF Remembered, KeptIn
<1>3. ReadsOn \/ panel'.read = panel.read
  BY PanelSteps DEF Stays, Gone, Anew, Afresh, Edited, Presses, Sends, ReadsAnew, ReadsOn
<1>4. Remembered' \in {Remembered, KeptIn(panel')}
  BY <1>2, <1>3 DEF Remembered, ReadsOn
<1>5. Gone \/ Anew \/ Afresh \/ Edited => Remembered' = KeptIn(panel')
  BY <1>2 DEF Gone, Anew, Afresh, Edited, ReadsAnew
<1> QED
  BY <1>4, <1>5

-----------------------------------------------------------------------------
(* What becomes of the record, of what the server did and of what is shown.  *)

Served(i) ==
  /\ Advances(i) /\ Done(i)
  /\ requests[i].stage = "sent" /\ requests'[i].stage = "served" /\ requests'[i].verdict = "done"
  /\ record.version < MaxVersion
  /\ UNCHANGED <<shown, panel, refetching>>

LEMMA RecordSteps ==
  ASSUME Typed, [Next]_vars
  PROVE  \/ UNCHANGED <<record, effects>> /\ (shown' = shown \/ shown' = record)
         \/ OthersAct
         \/ \E i \in DOMAIN requests : Served(i)
<1>1. CASE UNCHANGED <<record, effects>> /\ (shown' = shown \/ shown' = record)
  BY <1>1
<1>2. ASSUME NEW i \in DOMAIN requests, Serve(i)
      PROVE  UNCHANGED <<record, effects, shown>> \/ Served(i)
  <2>1. UNCHANGED <<shown, panel, refetching>>
    BY <1>2 DEF Serve
  <2>2. CASE requests'[i].verdict = "done"
    <3>1. Verdict(requests[i]) = "done" /\ Done(i)
      BY <1>2, <2>2, ServeAdvances
    <3> QED
      BY <1>2, <2>1, <2>2, <3>1, ServeAdvances DEF Served
  <2>3. CASE requests'[i].verdict # "done"
    BY <1>2, <2>1, <2>3, ServeAdvances
  <2> QED
    BY <2>2, <2>3
<1>3. ASSUME NEW i \in DOMAIN requests, Lose(i) \/ Fail(i) \/ Refresh(i) \/ Report(i)
      PROVE  UNCHANGED <<record, effects, shown>>
  BY <1>3 DEF Lose, Fail, Refresh, Report
<1>4. Reload \/ Land => UNCHANGED <<record, effects>> /\ (shown' = shown \/ shown' = record)
  BY DEF Reload, Land, Show
<1>5. Open \/ Leave \/ Edit \/ Submit \/ Retry \/ Draw \/ UNCHANGED vars => UNCHANGED <<record, effects, shown>>
  BY DEF Open, Leave, Edit, Submit, Retry, Draw, vars
<1> QED
  BY <1>1, <1>2, <1>3, <1>4, <1>5 DEF Next

LEMMA OthersFacts ==
  ASSUME Typed, OthersAct
  PROVE  /\ record' \in Record /\ record.version < MaxVersion
         /\ UNCHANGED <<shown, panel, requests, effects, behind, refetching>>
         /\ \/ \E c \in HandlersOf[form.page] :
                 record.status \in Commands[c].from /\ record' = After(Commands[c], record)
            \/ \E m \in Page.moves :
                 /\ record.status \in m.from
                 /\ record' = [record EXCEPT !.status = m.to,
                                             !.version = IF m.bumps THEN record.version + 1 ELSE @]
<1>1. ASSUME NEW c \in HandlersOf[form.page]
      PROVE  After(Commands[c], record) \in Record
  <2>1. c \in DOMAIN Commands
    BY <1>1, FormFacts DEF HandlersOf, Typed
  <2> QED
    BY <2>1, TablesAssumption, AfterType DEF Typed
<1>2. ASSUME NEW m \in Page.moves
      PROVE  [record EXCEPT !.status = m.to, !.version = IF m.bumps THEN record.version + 1 ELSE @] \in Record
  <2>1. m \in MoveType /\ record \in Record
    BY FormFacts DEF Typed
  <2>2. m.to \in Status
    BY <2>1 DEF MoveType, Status
  <2>3. (IF m.bumps THEN record.version + 1 ELSE record.version) \in Nat
    BY <2>1 DEF Record
  <2>4. [record EXCEPT !.status = m.to, !.version = IF m.bumps THEN record.version + 1 ELSE @]
        = [record EXCEPT !.status = m.to,
                         !.version = IF m.bumps THEN record.version + 1 ELSE record.version]
    OBVIOUS
  <2> QED
    BY <2>1, <2>2, <2>3, <2>4 DEF Record
<1> QED
  BY <1>1, <1>2 DEF OthersAct

LEMMA RequestsType ==
  ASSUME Typed, [Next]_vars
  PROVE  requests' \in Seq(Request)
BY PanelSteps DEF Stays, Gone, Anew, Afresh, Edited, Presses, Sends, Adds, SentKept

LEMMA QueriesType ==
  ASSUME Typed, [Next]_vars
  PROVE  behind' \subseteq Mounted /\ refetching' \subseteq Mounted
<1>1. Touched \subseteq Mounted
  BY DEF Touched
<1>2. Reload \/ Land => behind' \subseteq behind /\ refetching' \subseteq refetching
  BY DEF Reload, Land, Show
<1>3. ASSUME NEW i \in DOMAIN requests, Serve(i)
      PROVE  behind' \subseteq behind \cup Touched /\ refetching' = refetching
  BY <1>3 DEF Serve
<1>4. ASSUME NEW i \in DOMAIN requests, Lose(i) \/ Fail(i) \/ Refresh(i) \/ Report(i)
      PROVE  behind' = behind /\ refetching' \subseteq refetching \cup Mounted
  BY <1>4 DEF Lose, Fail, Refresh, Report
<1>5. OthersAct \/ Open \/ Leave \/ Edit \/ Submit \/ Retry \/ Draw \/ UNCHANGED vars
        => UNCHANGED <<behind, refetching>>
  BY DEF OthersAct, Open, Leave, Edit, Submit, Retry, Draw, vars
<1> QED
  BY <1>1, <1>2, <1>3, <1>4, <1>5 DEF Next, Typed

LEMMA EffectType ==
  ASSUME Typed, NEW i \in DOMAIN requests, Done(i)
  PROVE  effects' \subseteq Effect
<1>1. requests[i] \in Request /\ i \in Nat
  BY DEF Typed
<1> QED
  BY <1>1 DEF Done, EffectOf, Request, Effect, Typed

LEMMA TypedStep ==
  ASSUME Typed, [Next]_vars
  PROVE  Typed'
<1>1. Fixed
  BY Constant
<1>2. record' \in Record /\ shown' \in Record /\ effects' \subseteq Effect
  <2>1. CASE UNCHANGED <<record, effects>> /\ (shown' = shown \/ shown' = record)
    BY <2>1 DEF Typed
  <2>2. CASE OthersAct
    BY <2>2, OthersFacts DEF Typed
  <2>3. ASSUME NEW i \in DOMAIN requests, Served(i)
        PROVE  record' \in Record /\ shown' \in Record /\ effects' \subseteq Effect
    <3>1. Done(i) /\ shown' = shown /\ record' = After(Command, record)
      BY <2>3 DEF Served, Done
    <3>2. Command \in HandlerType
      BY FormFacts DEF Typed
    <3> QED
      BY <3>1, <3>2, EffectType, AfterType DEF Typed
  <2> QED
    BY <2>1, <2>2, <2>3, RecordSteps
<1>3. panel' \in Panel /\ requests' \in Seq(Request)
  BY PanelSteps, RequestsType
<1> QED
  BY <1>1, <1>2, <1>3, QueriesType DEF Typed, Fixed

LEMMA TypedInit == Init => Typed
<1> SUFFICES ASSUME Init PROVE Typed
  OBVIOUS
<1>1. doing \in DOMAIN FormFor
  BY DEF Init
<1>2. record \in Record
  BY <1>1, FormFacts DEF Init, Record, Status, FormType
<1> QED
  BY <1>1, <1>2, ClosedType DEF Init, Typed

THEOREM SpecTyped == Spec => []Typed
<1>1. Typed /\ [Next]_vars => Typed'
  BY TypedStep
<1> QED
  BY <1>1, TypedInit, PTL DEF Spec

-----------------------------------------------------------------------------
(* Versions only grow, and so do the numbers of keys and turns. *)

Versions ==
  /\ record.version \in 1..MaxVersion /\ record.edition <= record.version
  /\ shown.version \in 1..record.version /\ shown.edition <= record.edition
  /\ panel.open => panel.saw.version <= shown.version /\ panel.saw.edition <= shown.edition

\* The record r may follow the record q.
Later(q, r) ==
  /\ r.version \in {q.version, q.version + 1}
  /\ r.edition = q.edition \/ (r.version = q.version + 1 /\ r.edition = r.version)

LEMMA AfterLater ==
  ASSUME NEW h \in HandlerType, h.renews => h.bumps, NEW r \in Record
  PROVE  /\ Later(r, After(h, r))
         /\ After(h, r).status = (IF h.to = "same" THEN r.status ELSE h.to)
         /\ h.bumps => After(h, r).version = r.version + 1
         /\ h.renews => After(h, r).edition = r.version + 1
BY DEF After, Later, HandlerType, Record

LEMMA RecordLater ==
  ASSUME Typed, [Next]_vars
  PROVE  record' = record \/ (record.version < MaxVersion /\ Later(record, record') /\ shown' = shown)
<1>1. CASE UNCHANGED <<record, effects>>
  BY <1>1
<1>2. CASE OthersAct
  <2>1. ASSUME NEW c \in HandlersOf[form.page], record' = After(Commands[c], record)
        PROVE  Later(record, record')
    <3>1. c \in DOMAIN Commands
      BY FormFacts DEF HandlersOf, Typed
    <3> QED
      BY <2>1, <3>1, TablesAssumption, AfterLater DEF Typed
  <2>2. ASSUME NEW m \in Page.moves,
               record' = [record EXCEPT !.status = m.to,
                                        !.version = IF m.bumps THEN record.version + 1 ELSE @]
        PROVE  Later(record, record')
    <3>1. record \in Record
      BY DEF Typed
    <3> QED
      BY <2>2, <3>1 DEF Later, Record
  <2> QED
    BY <1>2, <2>1, <2>2, OthersFacts
<1>3. ASSUME NEW i \in DOMAIN requests, Served(i)
      PROVE  Later(record, record') /\ record.version < MaxVersion /\ shown' = shown
  BY <1>3, FormFacts, AfterLater DEF Served, Done, Typed
<1> QED
  BY <1>1, <1>2, <1>3, RecordSteps, OthersFacts

LEMMA VersionsStep ==
  ASSUME Typed, Versions, [Next]_vars
  PROVE  Versions'
<1>1. /\ record \in Record /\ shown \in Record /\ panel.saw \in Record
      /\ record' \in Record /\ shown' \in Record /\ MaxVersion \in Nat
  BY TypedStep, PanelFacts, BoundsAssumption DEF Typed
<1>2. shown' = shown \/ shown' = record
  BY RecordSteps, OthersFacts DEF Served
<1>3. /\ record'.version \in 1..MaxVersion /\ record'.edition <= record'.version
      /\ record.version <= record'.version /\ record.edition <= record'.edition
  BY <1>1, RecordLater DEF Versions, Later, Record
<1>4. /\ shown'.version \in 1..record'.version /\ shown'.edition <= record'.edition
      /\ shown.version <= shown'.version /\ shown.edition <= shown'.edition
  BY <1>1, <1>2, <1>3 DEF Versions, Record
<1>5. panel'.open => panel'.saw = shown' \/ (panel.open /\ panel'.saw = panel.saw)
  BY PanelSteps DEF Stays, Gone, Anew, Afresh, Edited, Presses, Sends
<1>6. panel'.open => panel'.saw.version <= shown'.version /\ panel'.saw.edition <= shown'.edition
  BY <1>1, <1>4, <1>5 DEF Versions, Record
<1> QED
  BY <1>3, <1>4, <1>6 DEF Versions

LEMMA VersionsInit == Init => Versions
<1> SUFFICES ASSUME Init PROVE Versions
  OBVIOUS
<1>1. record.version = 1 /\ record.edition = 1 /\ shown = record /\ panel.open = FALSE
  BY DEF Init, Closed
<1> QED
  BY <1>1, BoundsAssumption DEF Versions

LEMMA StampOrder ==
  ASSUME NEW q \in Record, NEW r \in Record, q.version <= r.version, q.edition <= r.edition
  PROVE  Stamp(q) <= Stamp(r)
BY DEF Stamp, Record

Numbered ==
  /\ Len(requests) <= MaxSends /\ panel.key <= Len(requests) /\ Remembered.key <= Len(requests)
  /\ \A i \in DOMAIN requests : requests[i].key <= i /\ requests[i].turn <= panel.turn
  /\ \A i, j \in DOMAIN requests : i < j => requests[i].turn <= requests[j].turn

LEMMA KeyBound ==
  ASSUME Typed, Remembered.key <= Len(requests), NEW c, NEW b
  PROVE  KeyFor(c, b) <= Fresh
BY PanelFacts DEF Typed, KeyFor, Fresh

LEMMA NumberedStep ==
  ASSUME Typed, Numbered, [Next]_vars
  PROVE  Numbered'
<1>1. /\ requests \in Seq(Request) /\ Typed' /\ requests' \in Seq(Request)
      /\ panel.turn \in Nat /\ panel'.turn \in Nat /\ panel.key \in Nat /\ panel'.key \in Nat
      /\ MaxSends \in Nat
  BY TypedStep, RequestsType, PanelFacts, PanelSteps, BoundsAssumption DEF Typed, Panel
<1>2. \A i \in DOMAIN requests : requests[i].key \in Nat /\ requests[i].turn \in Nat
  BY RequestFacts
<1>3. Remembered'.key \in {Remembered.key, panel'.key} /\ Remembered.key \in Nat
  BY RememberedSteps, PanelFacts DEF KeptIn
<1>4. CASE SentKept /\ panel'.turn >= panel.turn /\ panel'.key \in {panel.key, 0}
  <2>1. DOMAIN requests' = DOMAIN requests
    BY <1>1, <1>4 DEF SentKept
  <2>2. /\ Len(requests') <= MaxSends /\ panel'.key <= Len(requests')
        /\ Remembered'.key <= Len(requests')
    BY <1>1, <1>3, <1>4 DEF Numbered, SentKept
  <2>3. \A i \in DOMAIN requests :
          requests'[i].key = requests[i].key /\ requests'[i].turn = requests[i].turn
    BY <1>4 DEF SentKept, Alike
  <2>4. \A i \in DOMAIN requests' : requests'[i].key <= i /\ requests'[i].turn <= panel'.turn
    BY <1>1, <1>2, <1>4, <2>1, <2>3 DEF Numbered
  <2>5. \A i, j \in DOMAIN requests' : i < j => requests'[i].turn <= requests'[j].turn
    BY <2>1, <2>3 DEF Numbered
  <2> QED
    BY <2>2, <2>4, <2>5 DEF Numbered
<1>5. ASSUME NEW r \in Request, Adds(r), panel'.turn = panel.turn, panel'.key = r.key, r.key <= Fresh,
             r.turn = panel.turn
      PROVE  Numbered'
  <2>1. DOMAIN requests' = DOMAIN requests \cup {Fresh} /\ Len(requests') = Fresh
    BY <1>1, <1>5 DEF Adds, Fresh
  <2>2. \A j \in DOMAIN requests : requests'[j] = requests[j] /\ j < Fresh /\ j \in Nat
    BY <1>1, <1>5 DEF Adds, Fresh
  <2>3. requests'[Fresh].key = r.key /\ requests'[Fresh].turn = r.turn /\ Fresh \in Nat
    BY <1>1, <1>5 DEF Adds, Alike, Fresh
  <2>4. Fresh <= MaxSends
    BY <1>1, <1>5 DEF Adds, Fresh
  <2> QED
    BY <1>3, <1>1, <1>2, <1>5, <2>1, <2>2, <2>3, <2>4 DEF Numbered, Fresh
<1>6. CASE Presses
  <2>1. CASE Sends(Sent)
    <3>1. Sent.key <= Fresh /\ Sent.turn = panel.turn
      BY KeyBound DEF Sent, Numbered
    <3> QED
      BY <1>5, <2>1, <3>1, SentType DEF Sends
  <2>2. CASE /\ Len(requests) \in DOMAIN requests /\ Sends(requests[Len(requests)])
             /\ requests[Len(requests)].turn = panel.turn
    <3>1. requests[Len(requests)] \in Request /\ requests[Len(requests)].key <= Fresh
      BY <1>1, <1>2, <2>2 DEF Numbered, Fresh
    <3> QED
      BY <1>5, <2>2, <3>1 DEF Sends
  <2> QED
    BY <1>6, <2>1, <2>2 DEF Presses
<1>7. Stays \/ Gone \/ Anew \/ Afresh \/ Edited
        => SentKept /\ panel'.turn >= panel.turn /\ panel'.key \in {panel.key, 0}
  BY <1>1 DEF Stays, Gone, Anew, Afresh, Edited
<1> QED
  BY <1>4, <1>6, <1>7, PanelSteps

LEMMA NumberedInit == Init => Numbered
BY BoundsAssumption DEF Init, Numbered, Closed, Remembered, KeptIn

Basic == Typed /\ Versions /\ Numbered

LEMMA SpecBasic == Spec => []Basic
<1>1. Init => Basic
  BY TypedInit, VersionsInit, NumberedInit DEF Basic
<1>2. Basic /\ [Next]_vars => Basic'
  BY TypedStep, VersionsStep, NumberedStep DEF Basic
<1> QED
  BY <1>1, <1>2, PTL DEF Spec

\* The type invariant: a page never shows more than there is, no key is of a
\* request to come, no bound is passed.
THEOREM TypeCorrect == Spec => []TypeOK
<1>1. ASSUME Basic PROVE TypeOK
  <2>1. \A i \in DOMAIN requests : requests[i] \in Request
    BY <1>1 DEF Basic, Typed
  <2>2. panel.read.key \in Nat
    BY <1>1, PanelFacts DEF Basic, Key
  <2>3. /\ panel.open \in BOOLEAN /\ panel.turn \in 0..MaxTurns /\ panel.content \in Contents
        /\ panel.held \in BOOLEAN /\ panel.drawn \in BOOLEAN /\ panel.key \in 0..Len(requests)
    BY <1>1, PanelFacts DEF Basic, Numbered, Typed
  <2>4. /\ doing \in DOMAIN FormFor /\ record.version \in 1..MaxVersion
        /\ shown.version \in 1..record.version /\ Len(requests) \in 0..MaxSends
        /\ behind \subseteq Mounted /\ refetching \subseteq Mounted
    BY <1>1, BoundsAssumption DEF Basic, Typed, Versions, Numbered
  <2>5. \A i \in DOMAIN requests :
          requests[i].stage \in Stages /\ requests[i].verdict \in Good \cup Bad \cup {"none"}
    BY <2>1 DEF Request
  <2> QED
    BY <2>2, <2>3, <2>4, <2>5 DEF TypeOK
<1> QED
  BY <1>1, SpecBasic, PTL

-----------------------------------------------------------------------------
(* Request by request. *)

Answering(i) == Serve(i) \/ Lose(i) \/ Fail(i) \/ Refresh(i) \/ Report(i)

LEMMA AnsweringAdvances ==
  ASSUME Typed, NEW i \in DOMAIN requests, Answering(i)
  PROVE  Advances(i)
BY ServeAdvances, LoseAdvances, FailAdvances, RefreshAdvances, ReportAdvances DEF Answering

LEMMA PressesAdd ==
  ASSUME Typed, Presses
  PROVE  \E r \in Request : Sends(r)
BY SentType, RequestFacts DEF Presses

LEMMA RequestSteps ==
  ASSUME Typed, [Next]_vars
  PROVE  \/ requests' = requests
         \/ \E r \in Request : Adds(r)
         \/ \E i \in DOMAIN requests : Answering(i)
<1>1. Submit \/ Retry => \E r \in Request : Adds(r)
  BY SubmitAdds, RetryAdds, SentType
<1>2. OthersAct \/ Reload \/ Open \/ Leave \/ Edit \/ Draw \/ Land \/ UNCHANGED vars => requests' = requests
  BY DEF OthersAct, Reload, Open, Leave, Edit, Draw, Land, vars
<1> QED
  BY <1>1, <1>2 DEF Next, Answering

LEMMA RequestStep ==
  ASSUME Typed, [Next]_vars, NEW i \in DOMAIN requests'
  PROVE  \/ /\ i = Fresh /\ i \notin DOMAIN requests
            /\ requests'[i].stage = "sent" /\ requests'[i].verdict = "none"
            /\ requests'[i].current = FALSE
         \/ i \in DOMAIN requests /\ requests'[i] = requests[i]
         \/ i \in DOMAIN requests /\ Answering(i)
<1>1. requests \in Seq(Request) /\ requests' \in Seq(Request)
  BY RequestsType DEF Typed
<1>2. ASSUME NEW r \in Request, Adds(r)
      PROVE  i = Fresh \/ i \in DOMAIN requests
  BY <1>1, <1>2 DEF Adds, Fresh
<1>3. ASSUME NEW j \in DOMAIN requests, Answering(j)
      PROVE  i \in DOMAIN requests /\ (i # j => requests'[i] = requests[i])
  <2>1. Advances(j)
    BY <1>3, AnsweringAdvances
  <2> QED
    BY <1>1, <2>1 DEF Advances
<1>4. Fresh \notin DOMAIN requests
  BY <1>1 DEF Fresh
<1> QED
  BY <1>2, <1>3, <1>4, RequestSteps DEF Adds

LEMMA EffectsGrow ==
  ASSUME Typed, [Next]_vars
  PROVE  effects \subseteq effects'
BY RecordSteps, OthersFacts DEF Served, Done

\* What was sent stays as it was sent.
LEMMA SentStays ==
  ASSUME Typed, [Next]_vars, NEW i \in DOMAIN requests
  PROVE  i \in DOMAIN requests' /\ Alike(requests[i], requests'[i])
<1>1. requests \in Seq(Request) /\ requests' \in Seq(Request)
  BY RequestsType DEF Typed
<1>2. ASSUME NEW r \in Request, Adds(r)
      PROVE  i \in DOMAIN requests' /\ requests'[i] = requests[i]
  BY <1>1, <1>2 DEF Adds, Fresh
<1>3. SentKept => i \in DOMAIN requests' /\ Alike(requests[i], requests'[i])
  BY <1>1 DEF SentKept
<1> QED
  BY <1>2, <1>3, RequestSteps, AnsweringAdvances, AdvancesKeep, UnchangedKeep DEF Alike

-----------------------------------------------------------------------------
(* A success is of what was sent. *)

LEMMA SuccessStep ==
  ASSUME Typed, SuccessIsOfWhatWasSent, [Next]_vars
  PROVE  SuccessIsOfWhatWasSent'
<1> SUFFICES ASSUME NEW i \in DOMAIN requests', requests'[i].verdict \in {"done", "replayed"}
             PROVE  \E e \in effects' : e.content = requests'[i].content /\ e.base = requests'[i].base
  BY DEF SuccessIsOfWhatWasSent
<1>1. CASE /\ i \in DOMAIN requests
           /\ requests'[i] = requests[i] \/ (Answering(i) /\ requests'[i].verdict = requests[i].verdict)
  <2>1. Alike(requests[i], requests'[i]) /\ requests[i].verdict \in {"done", "replayed"}
    BY <1>1, SentStays
  <2> QED
    BY <1>1, <2>1, EffectsGrow DEF SuccessIsOfWhatWasSent, Alike
<1>2. CASE i \in DOMAIN requests /\ Serve(i)
  <2>1. Alike(requests[i], requests'[i])
    BY <1>2, SentStays
  <2>2. CASE requests'[i].verdict = "done"
    <3>1. Done(i)
      BY <1>2, <2>2, ServeAdvances
    <3>2. EffectOf(i) \in effects'
      BY <3>1 DEF Done
    <3> QED
      BY <2>1, <3>2, EffectFacts DEF Alike
  <2>3. CASE requests'[i].verdict = "replayed"
    <3>1. Verdict(requests[i]) = "replayed"
      BY <1>2, <2>3, ServeAdvances
    <3>2. PICK e \in effects : Same(e, requests[i])
      BY <3>1 DEF Verdict, FromFile, OnFile
    <3> QED
      BY <2>1, <3>2, EffectsGrow DEF Same, Alike
  <2> QED
    BY <2>2, <2>3
<1>3. ASSUME i \in DOMAIN requests, Lose(i)
      PROVE  FALSE
  BY <1>3, LoseAdvances
<1>4. i \in DOMAIN requests /\ (Fail(i) \/ Refresh(i) \/ Report(i)) => requests'[i].verdict = requests[i].verdict
  BY FailAdvances, RefreshAdvances, ReportAdvances
<1> QED
  BY <1>1, <1>2, <1>3, <1>4, RequestStep DEF Answering

\* SuccessIsOfWhatWasSent: whatever answers are lost, repeated or come from the
\* file, a success is never reported for something the server did not do.
THEOREM SuccessIsTrue == Spec => []SuccessIsOfWhatWasSent
<1>1. Init => SuccessIsOfWhatWasSent
  BY DEF Init, SuccessIsOfWhatWasSent
<1>2. Basic /\ SuccessIsOfWhatWasSent /\ [Next]_vars => SuccessIsOfWhatWasSent'
  BY SuccessStep DEF Basic
<1> QED
  BY <1>1, <1>2, SpecBasic, PTL DEF Spec

-----------------------------------------------------------------------------
(* What the requests of one turn of a form have in common. *)

\* The version a form names that names one.
Held == IF form.version = "none" THEN 0 ELSE Stamp(panel.saw)

\* A form that leaves with its version is of the version that is shown.
LeavesInTime == panel.open /\ form.leaves => Stamp(panel.saw) = Stamp(shown)

\* Nothing is entered where there is nothing to enter.
BareStays ==
  form.bare =>
    /\ panel.content = Closed.content
    /\ \A i \in DOMAIN requests : requests[i].content = Closed.content

OfThisForm(i) ==
  /\ NamesOneVersion(form) => requests[i].base = Held
  /\ form.rekeys => requests[i].content = panel.content

OneTurn ==
  panel.open \/ panel.signed # Nothing =>
    \A i \in DOMAIN requests : requests[i].turn = panel.turn => OfThisForm(i)

Turns == LeavesInTime /\ BareStays /\ OneTurn

LEMMA StampStays ==
  ASSUME Fixed, NEW r
  PROVE  Stamp(r)' = IF Command.checks = "edition" THEN r'.edition ELSE r'.version
BY DEF Stamp, Fixed

LEMMA HeldStays ==
  ASSUME Fixed, panel'.saw = panel.saw
  PROVE  Held' = Held
BY DEF Held, Stamp, Fixed

LEMMA ClosedStays == Closed' = Closed
BY DEF Closed, NoRecord, Nothing

LEMMA BaseIsHeld ==
  ASSUME LeavesInTime, panel.open, form.version \in {"opened", "shown", "none"}, NamesOneVersion(form)
  PROVE  Base = Held
BY DEF Base, Held, NamesOneVersion, LeavesInTime

LEMMA LeavesStep ==
  ASSUME Typed, LeavesInTime, [Next]_vars
  PROVE  LeavesInTime'
<1> SUFFICES ASSUME panel'.open, form.leaves
             PROVE  Stamp(panel.saw)' = Stamp(shown)'
  BY Constant DEF LeavesInTime, Fixed
<1>1. Fixed
  BY Constant
<1>2. CASE Stays
  <2>1. panel.open /\ panel'.saw = panel.saw
    BY <1>2 DEF Stays
  <2>2. CASE shown' = shown
    BY <1>1, <2>1, <2>2 DEF LeavesInTime, Stamp, Fixed
  <2>3. CASE shown' = record /\ ~Leaves(record)
    BY <1>1, <2>1, <2>3 DEF Leaves, Stamp, Fixed
  <2> QED
    BY <1>2, <2>2, <2>3 DEF Stays
<1>3. CASE Anew
  BY <1>1, <1>3 DEF Anew, Stamp, Fixed
<1>4. CASE panel.open /\ panel'.saw = panel.saw /\ shown' = shown
  BY <1>1, <1>4 DEF LeavesInTime, Stamp, Fixed
<1>5. Afresh \/ Edited \/ Presses => panel.open /\ panel'.saw = panel.saw /\ shown' = shown
  BY DEF Afresh, Edited, Presses, Sends
<1> QED
  BY <1>2, <1>3, <1>4, <1>5, PanelSteps DEF Gone

LEMMA BareStep ==
  ASSUME Typed, BareStays, [Next]_vars
  PROVE  BareStays'
<1> SUFFICES ASSUME form.bare
             PROVE  /\ panel'.content = Closed.content
                    /\ \A i \in DOMAIN requests' : requests'[i].content = Closed.content
  BY Constant, ClosedStays DEF BareStays, Fixed
<1>1. requests \in Seq(Request) /\ requests' \in Seq(Request)
  BY RequestsType DEF Typed
<1>2. SentKept => \A i \in DOMAIN requests' : requests'[i].content = Closed.content
  BY <1>1 DEF SentKept, Alike, BareStays
<1>3. Stays \/ Gone \/ Anew \/ Afresh \/ Edited => SentKept /\ panel'.content = Closed.content
  BY DEF Stays, Gone, Anew, Afresh, Edited, BareStays
<1>4. ASSUME NEW r, Sends(r), r.content = Closed.content
      PROVE  /\ panel'.content = Closed.content
             /\ \A i \in DOMAIN requests' : requests'[i].content = Closed.content
  <2>1. \A i \in DOMAIN requests' : i \in DOMAIN requests \/ i = Fresh
    BY <1>1, <1>4 DEF Sends, Adds, Fresh
  <2> QED
    BY <1>4, <2>1 DEF Sends, Adds, Alike, BareStays
<1>5. Presses => \E r : Sends(r) /\ r.content = Closed.content
  BY DEF Presses, Sent, BareStays
<1> QED
  BY <1>2, <1>3, <1>4, <1>5, PanelSteps

LEMMA OneTurnStep ==
  ASSUME Basic, Turns, [Next]_vars
  PROVE  OneTurn'
<1> SUFFICES ASSUME panel'.open \/ panel'.signed # Nothing,
                    NEW i \in DOMAIN requests', requests'[i].turn = panel'.turn
             PROVE  OfThisForm(i)'
  BY DEF OneTurn, Nothing
<1>1. Typed /\ Fixed /\ requests \in Seq(Request) /\ requests' \in Seq(Request)
      /\ panel.turn \in Nat /\ panel'.turn \in Nat /\ form \in FormType
  BY Constant, RequestsType, PanelFacts, PanelSteps, BoundsAssumption, FormFacts DEF Basic, Typed, Panel
<1>2. ASSUME SentKept
      PROVE  /\ i \in DOMAIN requests /\ Alike(requests[i], requests'[i])
             /\ requests[i].turn <= panel.turn /\ requests[i].turn \in Nat
  BY <1>1, <1>2, RequestFacts DEF SentKept, Basic, Numbered
<1>3. ASSUME SentKept, panel'.turn = panel.turn, panel'.saw = panel.saw,
             form.rekeys => panel'.content = panel.content,
             panel.open \/ panel.signed # Nothing
      PROVE  OfThisForm(i)'
  <2>1. OfThisForm(i)
    BY <1>2, <1>3 DEF Turns, OneTurn, Alike
  <2> QED
    BY <1>1, <1>2, <1>3, <2>1, HeldStays DEF OfThisForm, Alike, Fixed
<1>4. CASE Stays
  BY <1>3, <1>4 DEF Stays
<1>5. CASE Edited
  BY <1>3, <1>5 DEF Edited
<1>6. CASE Anew \/ Afresh
  <2>1. SentKept /\ panel'.turn = panel.turn + 1
    BY <1>6 DEF Anew, Afresh
  <2> QED
    BY <1>1, <1>2, <2>1 DEF Alike
<1>7. ASSUME NEW r, Sends(r), panel.open \/ panel.signed # Nothing,
             NamesOneVersion(form) => r.base = Held, form.rekeys => r.content = panel.content
      PROVE  OfThisForm(i)'
  <2>1. Held' = Held /\ panel'.turn = panel.turn /\ panel'.content = panel.content
    BY <1>1, <1>7, HeldStays DEF Sends
  <2>2. CASE i \in DOMAIN requests
    <3>1. requests'[i] = requests[i]
      BY <1>7, <2>2 DEF Sends, Adds
    <3>2. OfThisForm(i)
      BY <1>7, <2>1, <2>2, <3>1 DEF Turns, OneTurn
    <3> QED
      BY <1>1, <2>1, <3>1, <3>2 DEF OfThisForm, Fixed
  <2>3. CASE i = Fresh
    BY <1>1, <1>7, <2>1, <2>3 DEF OfThisForm, Fixed, Sends, Adds, Alike
  <2> QED
    BY <1>1, <1>7, <2>2, <2>3 DEF Sends, Adds, Fresh
<1>8. CASE Presses
  <2>1. CASE Sends(Sent) /\ panel.open
    <3>1. NamesOneVersion(form) => Sent.base = Held
      BY <1>1, <2>1, BaseIsHeld DEF Sent, Turns, FormType
    <3>2. Sent.content = panel.content
      BY DEF Sent
    <3> QED
      BY <1>7, <2>1, <3>1, <3>2
  <2>2. CASE /\ Len(requests) \in DOMAIN requests /\ Sends(requests[Len(requests)])
             /\ requests[Len(requests)].turn = panel.turn /\ panel.signed # Nothing
    <3>1. OfThisForm(Len(requests))
      BY <2>2 DEF Turns, OneTurn
    <3> QED
      BY <1>7, <2>2, <3>1 DEF OfThisForm
  <2> QED
    BY <1>8, <2>1, <2>2 DEF Presses
<1> QED
  BY <1>4, <1>5, <1>6, <1>8, PanelSteps, <1>1 DEF Gone

LEMMA SpecTurns == Spec => []Turns
<1>1. Init => Turns
  BY DEF Init, Turns, LeavesInTime, BareStays, OneTurn, Closed
<1>2. Basic /\ Turns /\ [Next]_vars => Turns'
  BY LeavesStep, BareStep, OneTurnStep DEF Basic, Turns
<1> QED
  BY <1>1, <1>2, SpecBasic, PTL DEF Spec

-----------------------------------------------------------------------------
(* What the server did is of a request that was sent. *)

Recorded ==
  \A e \in effects :
    /\ e.by \in DOMAIN requests
    /\ e.key = requests[e.by].key /\ e.turn = requests[e.by].turn
    /\ e.content = requests[e.by].content
    /\ e.base = requests[e.by].base /\ e.saw = requests[e.by].saw

LEMMA RecordedStep ==
  ASSUME Typed, Recorded, [Next]_vars
  PROVE  Recorded'
<1>1. ASSUME NEW e \in effects
      PROVE  /\ e.by \in DOMAIN requests'
             /\ e.key = requests'[e.by].key /\ e.turn = requests'[e.by].turn
             /\ e.content = requests'[e.by].content
             /\ e.base = requests'[e.by].base /\ e.saw = requests'[e.by].saw
  BY SentStays DEF Recorded, Alike
<1>2. ASSUME NEW i \in DOMAIN requests, Served(i)
      PROVE  Recorded'
  <2>1. effects' = effects \cup {EffectOf(i)}
    BY <1>2 DEF Served, Done
  <2>2. i \in DOMAIN requests' /\ Alike(requests[i], requests'[i])
    BY SentStays
  <2> QED
    BY <1>1, <2>1, <2>2, EffectFacts DEF Recorded, Alike
<1>3. effects' = effects => Recorded'
  BY <1>1 DEF Recorded
<1> QED
  BY <1>2, <1>3, RecordSteps, OthersFacts

LEMMA SpecRecorded == Spec => []Recorded
<1>1. Init => Recorded
  BY DEF Init, Recorded
<1>2. Basic /\ Recorded /\ [Next]_vars => Recorded'
  BY RecordedStep DEF Basic
<1> QED
  BY <1>1, <1>2, SpecBasic, PTL DEF Spec

-----------------------------------------------------------------------------
(* A key is used for one thing. *)

\* The form keeps a key, if any, for one content and one version.
KeepsForOne ==
  form.key \in {"payload", "form"} =>
    /\ form.key = "payload" \/ form.bare \/ form.rekeys
    /\ (form.key = "payload" /\ form.signs) \/ NamesOneVersion(form)

OneThingPerKey ==
  \A i, j \in DOMAIN requests :
    requests[i].key = requests[j].key /\ requests[i].key # 0 =>
      requests[i].content = requests[j].content /\ requests[i].base = requests[j].base

\* The key a form has kept is that of what it remembers, and of what it is at.
KeptFor(m) ==
  m.signed # Nothing =>
    \A i \in DOMAIN requests :
      requests[i].key = m.key /\ m.key # 0 =>
        Signature(requests[i].content, requests[i].base) = m.signed /\ OfThisForm(i)

KeptKey == KeptFor(KeptIn(panel)) /\ KeptFor(Remembered)

Keys == KeepsForOne => OneThingPerKey /\ KeptKey

LEMMA OfThisFormStays ==
  ASSUME Fixed, NEW i, Alike(requests[i], requests'[i]), OfThisForm(i), panel'.saw = panel.saw,
         form.rekeys => panel'.content = panel.content
  PROVE  OfThisForm(i)'
BY HeldStays DEF OfThisForm, Fixed, Alike

\* The key of what is sent next is of nothing else.
LEMMA NextKey ==
  ASSUME Basic, Turns, Keys, KeepsForOne, panel.open,
         NEW i \in DOMAIN requests, requests[i].key = KeyFor(panel.content, Base), requests[i].key # 0
  PROVE  requests[i].content = panel.content /\ requests[i].base = Base /\ OfThisForm(i)
<1>1. Typed /\ form \in FormType /\ panel.content \in Contents /\ Base \in Nat
  BY PanelFacts, BaseType, FormFacts DEF Basic, Typed
<1>2. requests[i].key # Fresh
  BY <1>1, RequestFacts DEF Basic, Numbered, Typed, Fresh
<1>3. /\ form.key \in {"payload", "form"}
      /\ Remembered.signed = Signature(panel.content, Base) /\ requests[i].key = Remembered.key
  BY <1>1, <1>2 DEF KeyFor, FormType
<1>4. Signature(requests[i].content, requests[i].base) = Signature(panel.content, Base) /\ OfThisForm(i)
  BY <1>1, <1>3, SignatureType DEF Keys, KeptKey, KeptFor
<1>5. requests[i].content = panel.content
  <2>1. CASE form.key = "payload"
    BY <1>4, <2>1 DEF Signature
  <2>2. CASE form.bare
    BY <2>2 DEF Turns, BareStays
  <2>3. CASE form.rekeys
    BY <1>4, <2>3 DEF OfThisForm
  <2> QED
    BY <1>3, <2>1, <2>2, <2>3 DEF KeepsForOne
<1>6. requests[i].base = Base
  <2>1. CASE form.key = "payload" /\ form.signs
    BY <1>4, <2>1 DEF Signature
  <2>2. CASE NamesOneVersion(form)
    BY <1>1, <1>4, <2>2, BaseIsHeld DEF OfThisForm, Turns, FormType
  <2> QED
    BY <1>3, <2>1, <2>2 DEF KeepsForOne
<1> QED
  BY <1>4, <1>5, <1>6

LEMMA KeysSend ==
  ASSUME Basic, Turns, Keys, KeepsForOne, Fixed, NEW r \in Request, Sends(r),
         Remembered' \in {Remembered, KeptIn(panel')},
         Remembered.signed # Nothing /\ r.key = Remembered.key /\ r.key # 0 =>
           Signature(r.content, r.base) = Remembered.signed,
         \A i \in DOMAIN requests :
           requests[i].key = r.key /\ r.key # 0 =>
             requests[i].content = r.content /\ requests[i].base = r.base /\ OfThisForm(i),
         NamesOneVersion(form) => r.base = Held,
         form.rekeys => r.content = panel.content
  PROVE  OneThingPerKey' /\ KeptKey'
<1>1. requests \in Seq(Request) /\ requests' \in Seq(Request)
  BY DEF Basic, Typed, Sends, Adds
<1>2. \A i \in DOMAIN requests' :
        \/ i \in DOMAIN requests /\ requests'[i] = requests[i]
        \/ i = Fresh /\ Alike(r, requests'[i])
  BY <1>1 DEF Sends, Adds, Fresh
<1>3. OneThingPerKey'
  BY <1>2 DEF Keys, OneThingPerKey, Alike
<1>4. ASSUME NEW i \in DOMAIN requests', requests'[i].key = r.key, r.key # 0
      PROVE  Signature(requests[i].content, requests[i].base)' = Signature(r.content, r.base)
             /\ OfThisForm(i)'
  <2>1. requests'[i].content = r.content /\ requests'[i].base = r.base
    BY <1>2, <1>4 DEF Alike
  <2>2. Signature(requests[i].content, requests[i].base)' = Signature(r.content, r.base)
    BY <2>1 DEF Signature, Fixed
  <2>3. OfThisForm(i)'
    BY <2>1, HeldStays DEF OfThisForm, Fixed, Sends
  <2> QED
    BY <2>2, <2>3
<1>5. KeptFor(KeptIn(panel))'
  BY <1>4 DEF KeptFor, KeptIn, Sends
<1>6. ASSUME Remembered' = Remembered
      PROVE  KeptFor(Remembered)'
  <2> SUFFICES ASSUME Remembered.signed # Nothing, NEW i \in DOMAIN requests',
                      requests'[i].key = Remembered.key, Remembered.key # 0
               PROVE  Signature(requests[i].content, requests[i].base)' = Remembered.signed
                      /\ OfThisForm(i)'
    BY <1>6 DEF KeptFor, Nothing
  <2>1. CASE i \in DOMAIN requests /\ requests'[i] = requests[i]
    <3>1. Signature(requests[i].content, requests[i].base) = Remembered.signed /\ OfThisForm(i)
      BY <2>1 DEF Keys, KeptKey, KeptFor
    <3>2. Signature(requests[i].content, requests[i].base)' = Remembered.signed
      BY <2>1, <3>1 DEF Signature, Fixed
    <3>3. OfThisForm(i)'
      BY <2>1, <3>1, OfThisFormStays DEF Sends, Alike
    <3> QED
      BY <3>2, <3>3
  <2>2. CASE i = Fresh /\ Alike(r, requests'[i])
    BY <1>4, <2>2 DEF Alike
  <2> QED
    BY <1>2, <2>1, <2>2
<1>7. Remembered' = KeptIn(panel') => KeptFor(Remembered)'
  BY <1>5 DEF KeptFor, Nothing
<1> QED
  BY <1>3, <1>5, <1>6, <1>7 DEF KeptKey

LEMMA KeysStep ==
  ASSUME Basic, Turns, Keys, [Next]_vars
  PROVE  Keys'
<1>1. Fixed
  BY Constant
<1> SUFFICES ASSUME KeepsForOne PROVE OneThingPerKey' /\ KeptKey'
  BY <1>1 DEF Keys, KeepsForOne, Fixed
<1>2. /\ requests \in Seq(Request) /\ requests' \in Seq(Request) /\ Typed
      /\ OneThingPerKey /\ KeptKey
  BY RequestsType DEF Basic, Typed, Keys
<1>3. ASSUME SentKept
      PROVE  DOMAIN requests' = DOMAIN requests /\ OneThingPerKey'
  BY <1>2, <1>3 DEF SentKept, OneThingPerKey, Alike
<1>4. ASSUME SentKept, panel'.saw = panel.saw, NEW m, KeptFor(m), NEW n,
             n.key = m.key, n.signed \in {m.signed, Nothing},
             form.rekeys /\ n.signed # Nothing => panel'.content = panel.content,
             n.signed # Nothing, NEW i \in DOMAIN requests', requests'[i].key = n.key, n.key # 0
      PROVE  Signature(requests[i].content, requests[i].base)' = n.signed /\ OfThisForm(i)'
  <2>1. i \in DOMAIN requests /\ Alike(requests[i], requests'[i]) /\ n.signed = m.signed
    BY <1>3, <1>4 DEF SentKept
  <2>2. Signature(requests[i].content, requests[i].base) = m.signed /\ OfThisForm(i)
    BY <1>4, <2>1 DEF KeptFor, Alike
  <2>3. OfThisForm(i)'
    BY <1>1, <1>4, <2>1, <2>2, OfThisFormStays
  <2>4. Signature(requests[i].content, requests[i].base)' = n.signed
    BY <1>1, <2>1, <2>2 DEF Signature, Alike, Fixed
  <2> QED
    BY <2>3, <2>4
<1>5. /\ KeptFor(KeptIn(panel)) /\ KeptFor(Remembered)
      /\ Remembered' \in {Remembered, KeptIn(panel')}
  BY <1>2, RememberedSteps DEF KeptKey
<1>6. ASSUME SentKept, panel'.key = panel.key, panel'.signed \in {panel.signed, Nothing},
             panel'.saw = panel.saw,
             form.rekeys /\ panel'.signed # Nothing => panel'.content = panel.content
      PROVE  KeptFor(KeptIn(panel))'
  <2> DEFINE m == KeptIn(panel)
             n == KeptIn(panel')
  <2>1. /\ n.key = m.key /\ n.signed \in {m.signed, Nothing} /\ n.signed = panel'.signed
        /\ KeptFor(m) /\ KeptIn(panel)' = n
    BY <1>5, <1>6 DEF KeptIn
  <2> HIDE DEF m, n
  <2>2. ASSUME n.signed # Nothing, NEW i \in DOMAIN requests', requests'[i].key = n.key, n.key # 0
        PROVE  Signature(requests[i].content, requests[i].base)' = n.signed /\ OfThisForm(i)'
    BY <1>4, <1>6, <2>1, <2>2
  <2> QED
    BY <2>1, <2>2 DEF KeptFor, Nothing
<1>7. Stays \/ Afresh \/ Edited =>
        /\ SentKept /\ panel'.key = panel.key /\ panel'.signed \in {panel.signed, Nothing}
        /\ panel'.saw = panel.saw
        /\ form.rekeys /\ panel'.signed # Nothing => panel'.content = panel.content
  BY DEF Stays, Afresh, Edited
<1>8. Gone \/ Anew => SentKept /\ KeptFor(KeptIn(panel))'
  BY DEF Gone, Anew, KeptFor, KeptIn, Nothing
<1>9. ASSUME Stays \/ Afresh \/ Edited \/ Gone \/ Anew
       PROVE  KeptKey'
  <2>1. KeptFor(KeptIn(panel))'
    BY <1>7, <1>8, <1>6, <1>9
  <2>2. CASE Remembered' = KeptIn(panel')
    BY <2>1, <2>2 DEF KeptKey, KeptFor, Nothing
  <2>3. CASE Stays /\ Remembered' = Remembered
    <3> DEFINE m == Remembered
               n == Remembered'
    <3>1. n.key = m.key /\ n.signed \in {m.signed, Nothing} /\ KeptFor(m)
      BY <1>5, <2>3
    <3>2. SentKept /\ panel'.saw = panel.saw /\ panel'.content = panel.content
      BY <2>3 DEF Stays
    <3> HIDE DEF m, n
    <3>3. ASSUME n.signed # Nothing, NEW i \in DOMAIN requests', requests'[i].key = n.key, n.key # 0
          PROVE  Signature(requests[i].content, requests[i].base)' = n.signed /\ OfThisForm(i)'
      BY <1>4, <3>1, <3>2, <3>3
    <3> QED
      BY <2>1, <3>3 DEF KeptKey, KeptFor, Nothing, n
  <2> QED
    BY <1>5, <1>9, <2>2, <2>3, RememberedSteps DEF Basic
<1>10. CASE Presses
  <2>1. CASE Sends(Sent) /\ panel.open
    <3>1. /\ Sent \in Request /\ Sent.key = KeyFor(panel.content, Base)
          /\ Sent.content = panel.content /\ Sent.base = Base
      BY <1>2, SentType DEF Sent
    <3>2. NamesOneVersion(form) => Sent.base = Held
      BY <1>2, <2>1, <3>1, BaseIsHeld, FormFacts DEF Turns, FormType, Typed
    <3>3. \A i \in DOMAIN requests :
            requests[i].key = Sent.key /\ Sent.key # 0 =>
              requests[i].content = Sent.content /\ requests[i].base = Sent.base /\ OfThisForm(i)
      BY <2>1, <3>1, NextKey
    <3>4. Remembered.signed # Nothing /\ Sent.key = Remembered.key /\ Sent.key # 0 =>
            Signature(Sent.content, Sent.base) = Remembered.signed
      <4>1. Remembered.key # Fresh
        BY <1>2, PanelFacts DEF Basic, Numbered, Fresh, Typed
      <4> QED
        BY <3>1, <4>1 DEF KeyFor
    <3> QED
      BY <1>1, <1>5, <2>1, <3>1, <3>2, <3>3, <3>4, KeysSend
  <2>2. CASE /\ Len(requests) \in DOMAIN requests /\ Sends(requests[Len(requests)])
             /\ requests[Len(requests)].turn = panel.turn /\ panel.signed # Nothing
    <3> DEFINE r == requests[Len(requests)]
    <3>1. r \in Request /\ OfThisForm(Len(requests))
      BY <1>2, <2>2, RequestFacts DEF Turns, OneTurn
    <3>2. (NamesOneVersion(form) => r.base = Held) /\ (form.rekeys => r.content = panel.content)
      BY <3>1 DEF OfThisForm
    <3>3. \A i \in DOMAIN requests :
            requests[i].key = r.key /\ r.key # 0 =>
              requests[i].content = r.content /\ requests[i].base = r.base /\ OfThisForm(i)
      <4> SUFFICES ASSUME NEW i \in DOMAIN requests, requests[i].key = r.key, r.key # 0
                   PROVE  requests[i].content = r.content /\ requests[i].base = r.base /\ OfThisForm(i)
        OBVIOUS
      <4>1. requests[i].content = r.content /\ requests[i].base = r.base
        BY <1>2, <2>2 DEF OneThingPerKey
      <4> QED
        BY <3>2, <4>1 DEF OfThisForm
    <3>4. Remembered.signed # Nothing /\ r.key = Remembered.key /\ r.key # 0 =>
            Signature(r.content, r.base) = Remembered.signed
      BY <1>5, <2>2 DEF KeptFor
    <3> HIDE DEF r
    <3>5. Sends(r)
      BY <2>2 DEF r
    <3> QED
      BY <1>1, <1>5, <3>1, <3>2, <3>3, <3>5, <3>4, KeysSend
  <2> QED
    BY <1>10, <2>1, <2>2 DEF Presses
<1> QED
  BY <1>2, <1>3, <1>7, <1>8, <1>10, <1>9, PanelSteps

LEMMA SpecKeys == Spec => []Keys
<1>1. Init => Keys
  BY DEF Init, Keys, OneThingPerKey, KeptKey, KeptFor, KeptIn, Remembered, Closed
<1>2. Basic /\ Turns /\ Keys /\ [Next]_vars => Keys'
  BY KeysStep
<1> QED
  BY <1>1, <1>2, SpecBasic, SpecTurns, PTL DEF Spec

LEMMA NoConflictStep ==
  ASSUME Basic, Keys, Recorded, NobodyIsStuckOnAKey, [Next]_vars
  PROVE  NobodyIsStuckOnAKey'
<1>1. Typed
  BY DEF Basic
<1> SUFFICES ASSUME doing \notin Sticky, NEW i \in DOMAIN requests', requests'[i].verdict = "conflict"
             PROVE  FALSE
  BY <1>1, Constant DEF NobodyIsStuckOnAKey, Fixed
<1>2. KeepsForOne
  BY <1>1, KeysAssumption, FormFacts DEF KeepsForOne, Typed
<1>3. \A j \in DOMAIN requests : requests[j].verdict # "conflict"
  BY DEF NobodyIsStuckOnAKey
<1>4. CASE i \in DOMAIN requests /\ Serve(i)
  <2>1. Verdict(requests[i]) = "conflict"
    BY <1>1, <1>4, ServeAdvances
  <2>2. PICK e \in OnFile(requests[i]) : ~Same(e, requests[i])
    BY <2>1 DEF Verdict, FromFile
  <2>3. e \in effects /\ e.key = requests[i].key /\ requests[i].key # 0
    BY <2>2 DEF OnFile
  <2>4. /\ e.by \in DOMAIN requests /\ e.key = requests[e.by].key
        /\ e.content = requests[e.by].content /\ e.base = requests[e.by].base
    BY <2>3 DEF Recorded
  <2> QED
    BY <1>2, <1>4, <2>2, <2>3, <2>4 DEF Keys, OneThingPerKey, Same
<1>5. ASSUME i \in DOMAIN requests, Lose(i)
      PROVE  FALSE
  BY <1>1, <1>5, LoseAdvances
<1>6. i \in DOMAIN requests /\ (Fail(i) \/ Refresh(i) \/ Report(i)) => requests'[i].verdict = requests[i].verdict
  BY <1>1, FailAdvances, RefreshAdvances, ReportAdvances
<1> QED
  BY <1>1, <1>3, <1>4, <1>5, <1>6, RequestStep DEF Answering

\* NobodyIsStuckOnAKey: a form whose key is kept for what is entered and for one
\* version never uses it for anything else, however often it is edited, closed,
\* mounted anew and sent again.
THEOREM NobodyIsStuck == Spec => []NobodyIsStuckOnAKey
<1>1. Init => NobodyIsStuckOnAKey
  BY DEF Init, NobodyIsStuckOnAKey
<1> QED
  BY <1>1, NoConflictStep, SpecBasic, SpecKeys, SpecRecorded, PTL DEF Spec

-----------------------------------------------------------------------------
(* What the server does under a version was decided on that version. *)

\* A request names no later version than it was decided on, and none that is to
\* come.
NamesWhatItSaw ==
  Command.checks # "no" /\ doing \notin Outdated =>
    \A i \in DOMAIN requests :
      requests[i].base <= requests[i].saw /\ requests[i].saw <= Stamp(record)

LEMMA SentNames ==
  ASSUME Basic, Turns, Command.checks # "no", doing \notin Outdated, panel.open
  PROVE  Base <= Saw /\ Saw <= Stamp(record)
<1>1. /\ Typed /\ form \in FormType /\ shown \in Record /\ panel.saw \in Record /\ record \in Record
      /\ form.version = "opened" \/ (form.version = "shown" /\ (form.fills => form.leaves))
  BY FormFacts, PanelFacts, VersionsAssumption DEF Basic, Typed
<1>2. Stamp(panel.saw) <= Stamp(shown) /\ Stamp(shown) <= Stamp(record)
  BY <1>1, StampOrder DEF Basic, Versions, Record
<1>3. Stamp(panel.saw) \in Nat /\ Stamp(shown) \in Nat /\ Stamp(record) \in Nat
  BY <1>1, StampType
<1>4. form.leaves => Stamp(panel.saw) = Stamp(shown)
  BY DEF Turns, LeavesInTime
<1>5. CASE form.version = "opened"
  BY <1>2, <1>3, <1>5 DEF Base, Saw
<1>6. CASE form.version = "shown" /\ (form.fills => form.leaves)
  BY <1>2, <1>3, <1>4, <1>6 DEF Base, Saw
<1> QED
  BY <1>1, <1>5, <1>6

LEMMA NamesStep ==
  ASSUME Basic, Turns, NamesWhatItSaw, [Next]_vars
  PROVE  NamesWhatItSaw'
<1>1. Typed /\ Fixed
  BY Constant DEF Basic
<1> SUFFICES ASSUME Command.checks # "no", doing \notin Outdated, NEW i \in DOMAIN requests'
             PROVE  requests'[i].base <= requests'[i].saw /\ requests'[i].saw <= Stamp(record)'
  BY <1>1 DEF NamesWhatItSaw, Fixed
<1>2. record \in Record /\ record' \in Record
  BY <1>1, TypedStep DEF Typed
<1>3. Stamp(record) <= Stamp(record)' /\ Stamp(record) \in Nat /\ Stamp(record)' \in Nat
  <2>1. record.version <= record'.version /\ record.edition <= record'.edition
    BY <1>1, <1>2, RecordLater DEF Later, Record, Basic, Versions
  <2> QED
    BY <1>1, <1>2, <2>1 DEF Stamp, Record, Fixed
<1>4. ASSUME i \in DOMAIN requests, Alike(requests[i], requests'[i])
      PROVE  requests'[i].base <= requests'[i].saw /\ requests'[i].saw <= Stamp(record)'
  BY <1>1, <1>3, <1>4, RequestFacts DEF NamesWhatItSaw, Alike
<1>5. ASSUME NEW r \in Request, Sends(r), r.base <= r.saw, r.saw <= Stamp(record), i = Fresh
      PROVE  requests'[i].base <= requests'[i].saw /\ requests'[i].saw <= Stamp(record)'
  <2>1. Alike(r, requests'[i]) /\ r.saw \in Nat
    BY <1>5 DEF Sends, Adds, Request
  <2> QED
    BY <1>3, <1>5, <2>1 DEF Alike
<1>6. CASE i \in DOMAIN requests
  BY <1>1, <1>4, <1>6, SentStays
<1>7. CASE i \notin DOMAIN requests
  <2>1. Presses /\ i = Fresh
    <3>1. requests \in Seq(Request) /\ requests' \in Seq(Request)
      BY <1>1, RequestsType DEF Typed
    <3>2. ~SentKept
      BY <1>7, <3>1 DEF SentKept
    <3>3. Presses
      BY <1>1, <3>2, PanelSteps DEF Stays, Gone, Anew, Afresh, Edited
    <3> QED
      BY <1>1, <1>7, <3>3, RequestStep
  <2>2. CASE Sends(Sent) /\ panel.open
    <3>1. Sent.base <= Sent.saw /\ Sent.saw <= Stamp(record)
      BY <2>2, SentNames DEF Sent
    <3> QED
      BY <1>1, <1>5, <2>1, <2>2, <3>1, SentType
  <2>3. CASE Len(requests) \in DOMAIN requests /\ Sends(requests[Len(requests)])
    BY <1>1, <1>5, <2>1, <2>3, RequestFacts DEF NamesWhatItSaw
  <2> QED
    BY <2>1, <2>2, <2>3 DEF Presses
<1> QED
  BY <1>6, <1>7

LEMMA SpecNames == Spec => []NamesWhatItSaw
<1>1. Init => NamesWhatItSaw
  BY DEF Init, NamesWhatItSaw
<1>2. Basic /\ Turns /\ NamesWhatItSaw /\ [Next]_vars => NamesWhatItSaw'
  BY NamesStep
<1> QED
  BY <1>1, <1>2, SpecBasic, SpecTurns, PTL DEF Spec

\* What is done under a version is done on that version.
LEMMA DoneOnVersion ==
  ASSUME NEW r, Verdict(r) = "done"
  PROVE  /\ Command.checks # "no" => r.base = Stamp(record)
         /\ OnFile(r) = {} /\ ~Repeated(r) /\ record.status \in Command.from
BY DEF Verdict, FromFile

LEMMA DecidedStep ==
  ASSUME Basic, NamesWhatItSaw, DecidedOnWhatWasShown, [Next]_vars
  PROVE  DecidedOnWhatWasShown'
<1>1. Typed /\ Fixed
  BY Constant DEF Basic
<1> SUFFICES ASSUME Command.checks # "no", doing \notin Outdated, NEW e \in effects'
             PROVE  e.saw = e.base
  BY <1>1 DEF DecidedOnWhatWasShown, Fixed
<1>2. CASE e \in effects
  BY <1>2 DEF DecidedOnWhatWasShown
<1>3. ASSUME NEW i \in DOMAIN requests, Served(i), e = EffectOf(i)
      PROVE  e.saw = e.base
  <2>1. requests[i].base = Stamp(record)
    BY <1>3, DoneOnVersion DEF Served, Done
  <2>2. requests[i].base \in Nat /\ requests[i].saw \in Nat
    BY <1>1, RequestFacts
  <2>3. requests[i].base = requests[i].saw
    BY <2>1, <2>2 DEF NamesWhatItSaw
  <2> QED
    BY <1>3, <2>3, EffectFacts
<1> QED
  BY <1>1, <1>2, <1>3, RecordSteps, OthersFacts DEF Served, Done

\* DecidedOnWhatWasShown: no handler that looks at the version ever does what a
\* person decided on an older one.
THEOREM DecidedOnWhatIsDone == Spec => []DecidedOnWhatWasShown
<1>1. Init => DecidedOnWhatWasShown
  BY DEF Init, DecidedOnWhatWasShown
<1> QED
  BY <1>1, DecidedStep, SpecBasic, SpecNames, PTL DEF Spec

-----------------------------------------------------------------------------
(* What a page offers is accepted. *)

Offered(r) == r = NoRecord \/ r.status \in form.offered \cup form.lasts

Offers ==
  /\ panel.open /\ form.holds => Offered(panel.saw)
  /\ \A i \in DOMAIN requests : Offered(requests[i].seen)

LEMMA OffersStep ==
  ASSUME Typed, Offers, [Next]_vars
  PROVE  Offers'
<1>1. Fixed
  BY Constant
<1>2. \A r : Offered(r) => Offered(r)'
  BY <1>1 DEF Offered, Fixed
<1>3. (panel.open /\ form.holds => Offered(panel.saw))'
  <2> SUFFICES ASSUME panel'.open, form.holds
               PROVE  Offered(panel.saw)'
    BY <1>1 DEF Fixed
  <2>1. Stays \/ Afresh \/ Edited \/ Presses => panel.open /\ panel'.saw = panel.saw
    BY DEF Stays, Afresh, Edited, Presses, Sends
  <2>2. Anew => panel'.saw = shown' /\ Offered(shown')
    BY DEF Anew, Offered
  <2> QED
    BY <1>1, <2>1, <2>2, PanelSteps DEF Gone, Offers, Offered, Fixed
<1>4. ASSUME NEW i \in DOMAIN requests'
      PROVE  Offered(requests'[i].seen)
  <2>1. CASE i \in DOMAIN requests /\ (requests'[i] = requests[i] \/ requests'[i].seen = requests[i].seen)
    BY <2>1 DEF Offers
  <2>2. CASE i \in DOMAIN requests /\ requests'[i].seen = NoRecord
    BY <2>2 DEF Offered
  <2>3. CASE i = Fresh /\ i \notin DOMAIN requests
    <3>1. CASE Sends(Sent) /\ panel.open /\ (form.holds \/ Remains(shown))
      <4>1. requests'[i].seen = IF form.holds THEN panel.saw ELSE shown
        BY <2>3, <3>1 DEF Sends, Adds, Sent
      <4> QED
        BY <3>1, <4>1 DEF Offers, Offered, Remains
    <3>2. CASE Len(requests) \in DOMAIN requests /\ Sends(requests[Len(requests)])
      BY <2>3, <3>2 DEF Sends, Adds, Offers
    <3>3. CASE SentKept
      BY <2>3, <3>3 DEF SentKept, Typed
    <3> QED
      BY <3>1, <3>2, <3>3, PanelSteps DEF Stays, Gone, Anew, Afresh, Edited, Presses
  <2>4. ASSUME i \in DOMAIN requests, Fail(i) \/ Refresh(i)
        PROVE  requests'[i].seen = requests[i].seen
    BY <2>4, AdvanceTaken DEF Fail, Refresh, Typed, Stages
  <2>5. ASSUME i \in DOMAIN requests, Answering(i)
        PROVE  requests'[i].seen = NoRecord \/ requests'[i].seen = requests[i].seen
    BY <2>4, <2>5, ServeAdvances, LoseAdvances, ReportAdvances DEF Answering
  <2> QED
    BY <2>1, <2>2, <2>3, <2>5, RequestStep
<1> QED
  BY <1>2, <1>3, <1>4 DEF Offers

LEMMA SpecOffers == Spec => []Offers
<1>1. Init => Offers
  BY DEF Init, Offers, Closed
<1>2. Basic /\ Offers /\ [Next]_vars => Offers'
  BY OffersStep DEF Basic
<1> QED
  BY <1>1, <1>2, SpecBasic, PTL DEF Spec

LEMMA AcceptedStep ==
  ASSUME Basic, Offers, OfferedIsAccepted, [Next]_vars
  PROVE  OfferedIsAccepted'
<1>1. Typed /\ Fixed
  BY Constant DEF Basic
<1> SUFFICES ASSUME doing \notin Unvetted, NEW i \in DOMAIN requests', requests'[i].current
             PROVE  requests'[i].verdict \notin {"refused", "denied"}
  BY <1>1 DEF OfferedIsAccepted, Fixed
<1>2. CASE i \in DOMAIN requests /\ Serve(i)
  <2>1. requests[i].seen = record /\ requests'[i].verdict \in {Verdict(requests[i]), "invalid"}
    BY <1>1, <1>2, ServeAdvances
  <2>2. record # NoRecord
    BY DEF NoRecord, Basic, Versions
  <2>3. record.status \in form.offered \cup form.lasts
    BY <1>2, <2>1, <2>2 DEF Offers, Offered
  <2>4. /\ Command.needs \subseteq form.needs
        /\ record.status \in Command.from \cup Command.already \cup Command.settled
    BY <1>1, <2>3, OffersAssumption, FormFacts DEF Typed
  <2>5. Verdict(requests[i]) \notin {"refused", "denied"}
    BY <2>4 DEF Verdict, FromFile
  <2> QED
    BY <2>1, <2>5
<1>3. i \in DOMAIN requests /\ (Lose(i) \/ Fail(i) \/ Refresh(i)) => requests'[i].current = FALSE
  BY <1>1, LoseAdvances, FailAdvances, RefreshAdvances
<1>4. i \in DOMAIN requests /\ Report(i) =>
        requests'[i].verdict = requests[i].verdict /\ requests'[i].current = requests[i].current
  BY <1>1, ReportAdvances
<1> QED
  BY <1>1, <1>2, <1>3, <1>4, RequestStep DEF Answering, OfferedIsAccepted

\* OfferedIsAccepted: with a record that is as the page shows it, a button that is
\* there never meets a refusal for its status or its permission, whatever was
\* opened, kept open, mounted anew and sent again before.
THEOREM OffersAreAccepted == Spec => []OfferedIsAccepted
<1>1. Init => OfferedIsAccepted
  BY DEF Init, OfferedIsAccepted
<1> QED
  BY <1>1, AcceptedStep, SpecBasic, SpecOffers, PTL DEF Spec

-----------------------------------------------------------------------------
(* No record gets stuck. *)

LEMMA WaysStep ==
  ASSUME Typed, NothingIsStranded, [Next]_vars
  PROVE  NothingIsStranded'
<1>1. Fixed
  BY Constant
<1>2. /\ form \in Forms /\ Page = Pages[form.page] /\ doing \in HandlersOf[form.page]
      /\ Command = Commands[doing] /\ Command \in HandlerType /\ record \in Record
  BY FormFacts DEF Typed, Command
<1> SUFFICES HasAWayOn(form.page, record'.status)
  <2>1. HasAWayOn(form.page, record.status)' <=> HasAWayOn(form'.page, record'.status)
    BY DEF HasAWayOn, HandlerOf
  <2> QED
    BY <1>1, <2>1 DEF NothingIsStranded, Fixed
<1>3. CASE record' = record
  BY <1>3 DEF NothingIsStranded
<1>4. ASSUME NEW c \in HandlersOf[form.page], record' = After(Commands[c], record)
      PROVE  HasAWayOn(form.page, record'.status)
  <2>1. record'.status = IF Commands[c].to = "same" THEN record.status ELSE Commands[c].to
    BY <1>4 DEF After
  <2> QED
    BY <1>2, <1>4, <2>1, WaysAssumption DEF NothingIsStranded
<1>5. ASSUME NEW m \in Page.moves,
             record' = [record EXCEPT !.status = m.to,
                                      !.version = IF m.bumps THEN record.version + 1 ELSE @]
      PROVE  HasAWayOn(form.page, record'.status)
  <2>1. record'.status = m.to
    BY <1>2, <1>5 DEF Record
  <2> QED
    BY <1>2, <1>5, <2>1, WaysAssumption
<1>6. CASE OthersAct
  BY <1>4, <1>5, <1>6, OthersFacts
<1>7. ASSUME NEW i \in DOMAIN requests, Served(i)
      PROVE  HasAWayOn(form.page, record'.status)
  BY <1>2, <1>4, <1>7 DEF Served, Done
<1> QED
  BY <1>3, <1>6, <1>7, RecordSteps

\* NothingIsStranded: whoever acts on a record, in whatever order, its page offers
\* a way on from where that leaves it.
THEOREM NothingIsEverStranded == Spec => []NothingIsStranded
<1>1. Init => NothingIsStranded
  <2> SUFFICES ASSUME Init PROVE NothingIsStranded
    OBVIOUS
  <2>1. form \in Forms /\ Page = Pages[form.page]
    BY FormFacts DEF Init
  <2>2. record.status \in form.offered \cup {Page.start}
    BY DEF Init
  <2> QED
    BY <2>1, <2>2, WaysAssumption DEF NothingIsStranded
<1>2. Basic /\ NothingIsStranded /\ [Next]_vars => NothingIsStranded'
  BY WaysStep DEF Basic
<1> QED
  BY <1>1, <1>2, SpecBasic, PTL DEF Spec

-----------------------------------------------------------------------------
(* What a person did is shown. *)

\* A query keyed by the version is behind while the page shows an older one.
BehindInVersion ==
  Command.bumps => \A v \in behind \cap Page.keyed : shown.version < record.version

\* A query that is behind is being fetched, or is another one as soon as the record
\* is fetched.
UnderWay(v) ==
  \/ v \in refetching
  \/ v \in Page.keyed /\ Page.main \in refetching /\ Command.bumps

\* An answer that will have the queries fetched is there.
ToCome == \E i \in DOMAIN requests : requests[i].stage = "served" /\ requests[i].verdict = "done"

Failed == \E i \in DOMAIN requests : requests[i].verdict \in Bad

Covered(v) == v \in Lagging[doing] \/ UnderWay(v) \/ ToCome \/ Failed

\* Every query that is behind was changed by the command, and is left out by the
\* hook, under way, or waits for an answer, unless a request failed.  As long as a
\* query is fetched, the request that asked for it is not over.
WillShow ==
  /\ behind \subseteq Touched /\ BehindInVersion
  /\ \A v \in behind : Covered(v)
  /\ refetching # {} => \E i \in DOMAIN requests : requests[i].stage = "refreshing"
  /\ \A i \in DOMAIN requests : requests[i].stage = "sent" => requests[i].verdict = "none"

LEMMA BehindShow ==
  ASSUME Basic, BehindInVersion, Fixed, record' = record, NEW F, Show(record, F)
  PROVE  /\ BehindInVersion' /\ behind' \subseteq behind \ F
         /\ Command.bumps => behind' \cap Page.keyed = {}
<1>1. /\ shown' = record
      /\ behind' = behind \ (F \cup IF record.version # shown.version THEN Page.keyed ELSE {})
  BY DEF Show
<1>2. shown.version \in Nat /\ record.version \in Nat
  BY DEF Basic, Typed, Record
<1>3. ASSUME Command.bumps, NEW v \in behind' \cap Page.keyed
      PROVE  FALSE
  <2>1. v \in behind /\ v \in Page.keyed
    BY <1>1, <1>3
  <2>2. shown.version < record.version
    BY <1>3, <2>1 DEF BehindInVersion
  <2> QED
    BY <1>1, <1>2, <1>3, <2>2
<1> QED
  BY <1>1, <1>3 DEF BehindInVersion, Fixed

LEMMA BehindStep ==
  ASSUME Basic, BehindInVersion, [Next]_vars
  PROVE  BehindInVersion'
<1>1. Typed /\ Fixed /\ record \in Record /\ shown \in Record /\ record' \in Record
  BY Constant, TypedStep DEF Basic, Typed
<1>2. CASE Reload
  BY <1>1, <1>2, BehindShow DEF Reload
<1>3. CASE Land /\ Page.main \in refetching
  BY <1>1, <1>3, BehindShow DEF Land
<1>4. ASSUME NEW i \in DOMAIN requests, Served(i)
      PROVE  BehindInVersion'
  <2>1. Command.bumps => record'.version = record.version + 1
    BY <1>1, <1>4, FormFacts, AfterLater DEF Served, Done, Typed
  <2>2. shown'.version = shown.version /\ shown.version <= record.version
        /\ shown.version \in Nat /\ record.version \in Nat
    BY <1>1, <1>4 DEF Served, Basic, Versions, Record
  <2> QED
    BY <1>1, <2>1, <2>2 DEF BehindInVersion, Fixed
<1>5. CASE behind' \subseteq behind /\ shown' = shown
  <2>1. record.version <= record'.version /\ record.version \in Nat /\ record'.version \in Nat
        /\ shown.version \in Nat
    BY <1>1, RecordLater DEF Later, Record
  <2> QED
    BY <1>1, <1>5, <2>1 DEF BehindInVersion, Fixed
<1>6. OthersAct \/ Open \/ Leave \/ Edit \/ Submit \/ Retry \/ Draw \/ UNCHANGED vars
        => behind' \subseteq behind /\ shown' = shown
  BY DEF OthersAct, Open, Leave, Edit, Submit, Retry, Draw, vars
<1>7. Land /\ Page.main \notin refetching => behind' \subseteq behind /\ shown' = shown
  BY DEF Land
<1>8. ASSUME NEW i \in DOMAIN requests, Lose(i) \/ Fail(i) \/ Refresh(i) \/ Report(i)
      PROVE  behind' \subseteq behind /\ shown' = shown
  BY <1>8 DEF Lose, Fail, Refresh, Report
<1>9. ASSUME NEW i \in DOMAIN requests, Serve(i)
      PROVE  Served(i) \/ (behind' \subseteq behind /\ shown' = shown)
  <2>1. UNCHANGED <<shown, panel, refetching>>
    BY <1>9 DEF Serve
  <2>2. requests'[i].verdict = "done" => Verdict(requests[i]) = "done"
    BY <1>1, <1>9, ServeAdvances
  <2> QED
    BY <1>1, <1>9, <2>1, <2>2, ServeAdvances DEF Served, Done
<1> QED
  BY <1>2, <1>3, <1>4, <1>5, <1>6, <1>7, <1>8, <1>9 DEF Next

\* What the hook of the form fetches covers what the command changes.
LEMMA HookCovers ==
  ASSUME Typed, NEW v \in Touched
  PROVE  \/ v \in form.refreshes \/ v \in Lagging[doing]
         \/ v \in Page.keyed /\ Page.main \in form.refreshes /\ Command.bumps
<1>1. /\ form \in Forms /\ form.command = doing /\ Command = HandlerOf(form)
      /\ Page = Pages[form.page] /\ v \in DOMAIN Page.views
      /\ Page.views[v] \cap Command.writes # {}
  BY FormFacts DEF Typed, Touched, Mounted
<1> QED
  BY <1>1, RefreshesAssumption

LEMMA UnderWayStays ==
  ASSUME Fixed, refetching \subseteq refetching', NEW v, UnderWay(v)
  PROVE  UnderWay(v)'
BY DEF UnderWay, Fixed

\* As long as nothing is fetched and no answer is taken, what is covered stays so.
LEMMA CoveredStays ==
  ASSUME WillShow, Fixed, behind' \subseteq behind, refetching' = refetching,
         \A i \in DOMAIN requests :
           /\ i \in DOMAIN requests' /\ requests'[i].stage = requests[i].stage
           /\ requests'[i].verdict = requests[i].verdict
  PROVE  /\ behind' \subseteq Touched' /\ \A v \in behind' : Covered(v)'
         /\ refetching' # {} => \E i \in DOMAIN requests' : requests'[i].stage = "refreshing"
<1>1. (ToCome => ToCome') /\ (Failed => Failed')
  BY DEF ToCome, Failed
<1>2. ASSUME NEW v \in behind'
      PROVE  Covered(v)'
  <2>1. Covered(v)
    BY <1>2 DEF WillShow
  <2> QED
    BY <1>1, <2>1, UnderWayStays DEF Covered, Fixed
<1> QED
  BY <1>2 DEF WillShow, Fixed

\* The same when answer i is taken, which fetches what the hook names when it is a
\* success.
LEMMA CoveredTaken ==
  ASSUME Typed, WillShow, Fixed, NEW i \in DOMAIN requests, Advances(i),
         behind' = behind, refetching \subseteq refetching',
         requests'[i].verdict \in Bad \/
           (requests'[i].stage = "refreshing" /\ form.refreshes \cap Mounted \subseteq refetching')
  PROVE  \A v \in behind' : Covered(v)'
<1>1. i \in DOMAIN requests' /\ DOMAIN requests' = DOMAIN requests
  BY DEF Advances, Typed
<1>2. requests'[i].verdict \in Bad => Failed'
  BY <1>1 DEF Failed
<1>3. ASSUME NEW v \in behind', requests'[i].verdict \notin Bad
      PROVE  Covered(v)'
  <2>1. v \in Touched /\ v \in Mounted /\ Page.main \in Mounted
    BY <1>3, FormFacts DEF WillShow, Touched, Typed
  <2>2. form.refreshes \cap Mounted \subseteq refetching'
    BY <1>3
  <2> QED
    BY <2>1, <2>2, HookCovers DEF Covered, UnderWay, Fixed
<1> QED
  BY <1>2, <1>3 DEF Covered

LEMMA WillShowSending ==
  ASSUME Typed, WillShow, Fixed, NEW r, Adds(r), behind' = behind, refetching' = refetching,
         BehindInVersion'
  PROVE  WillShow'
<1>1. requests \in Seq(Request) /\ requests' \in Seq(Request)
  BY DEF Typed, Adds
<1>2. \A i \in DOMAIN requests : i \in DOMAIN requests' /\ requests'[i] = requests[i]
  BY <1>1 DEF Adds, Fresh
<1>3. \A i \in DOMAIN requests' : i \in DOMAIN requests \/ i = Fresh
  BY <1>1 DEF Adds, Fresh
<1>4. \A i \in DOMAIN requests' : requests'[i].stage = "sent" => requests'[i].verdict = "none"
  BY <1>2, <1>3 DEF Adds, WillShow
<1> QED
  BY <1>2, <1>4, CoveredStays DEF WillShow

LEMMA WillShowAnswering ==
  ASSUME Basic, WillShow, Fixed, NEW i \in DOMAIN requests, Answering(i), BehindInVersion'
  PROVE  WillShow'
<1>1. Typed /\ Advances(i)
  BY AnsweringAdvances DEF Basic
<1>2. DOMAIN requests' = DOMAIN requests /\ i \in DOMAIN requests'
  BY <1>1 DEF Advances, Typed
<1>3. \A j \in DOMAIN requests \ {i} : requests'[j] = requests[j]
  BY <1>1 DEF Advances
<1>4. Touched' = Touched /\ Page' = Page /\ Command' = Command /\ doing' = doing
  BY DEF Fixed
<1>5. /\ requests'[i].stage # "sent"
      /\ requests[i].stage = "refreshing" => refetching' = {}
  BY <1>1, ServeAdvances, LoseAdvances, FailAdvances, RefreshAdvances, ReportAdvances
     DEF Answering, Serve, Lose, Fail, Refresh, Report
<1>6. \A j \in DOMAIN requests' : requests'[j].stage = "sent" => requests'[j].verdict = "none"
  BY <1>2, <1>3, <1>5 DEF WillShow
<1>7. refetching' # {} => \E j \in DOMAIN requests' : requests'[j].stage = "refreshing"
  <2>1. CASE refetching' = refetching
    BY <1>2, <1>3, <1>5, <2>1 DEF WillShow
  <2>2. CASE Refresh(i)
    BY <1>1, <1>2, <2>2, RefreshAdvances
  <2>3. Serve(i) \/ Lose(i) \/ Fail(i) \/ Report(i) => refetching' = refetching
    BY DEF Serve, Lose, Fail, Report
  <2> QED
    BY <2>1, <2>2, <2>3 DEF Answering
<1>8. behind' \subseteq Touched' /\ \A v \in behind' : Covered(v)'
  <2>1. CASE Serve(i)
    <3>1. /\ requests[i].stage = "sent" /\ requests[i].verdict = "none"
          /\ requests'[i].stage = "served" /\ refetching' = refetching
      BY <1>1, <2>1, ServeAdvances DEF WillShow, Serve
    <3>2. CASE requests'[i].verdict = "done"
      <4>1. behind' = behind \cup Touched
        BY <1>1, <2>1, <3>2, ServeAdvances DEF Done
      <4>2. ToCome'
        BY <1>2, <3>1, <3>2 DEF ToCome
      <4> QED
        BY <1>4, <4>1, <4>2 DEF WillShow, Covered
    <3>3. CASE requests'[i].verdict # "done"
      <4>1. behind' = behind
        BY <1>1, <2>1, <3>3, ServeAdvances
      <4>2. (ToCome => ToCome') /\ (Failed => Failed')
        BY <1>2, <1>3, <3>1 DEF ToCome, Failed, Bad
      <4>3. ASSUME NEW v \in behind'
            PROVE  Covered(v)'
        <5>1. Covered(v)
          BY <4>1, <4>3 DEF WillShow
        <5> QED
          BY <3>1, <4>2, <5>1, UnderWayStays DEF Covered, Fixed
      <4> QED
        BY <1>4, <4>1, <4>3 DEF WillShow
    <3> QED
      BY <3>2, <3>3
  <2>2. CASE Report(i)
    <3>1. /\ requests[i].stage = "refreshing" /\ requests'[i].verdict = requests[i].verdict
          /\ behind' = behind /\ refetching' = refetching
      BY <1>1, <2>2, ReportAdvances DEF Report
    <3>2. (ToCome => ToCome') /\ (Failed => Failed')
      BY <1>2, <1>3, <3>1 DEF ToCome, Failed
    <3>3. ASSUME NEW v \in behind'
          PROVE  Covered(v)'
      <4>1. Covered(v)
        BY <3>1, <3>3 DEF WillShow
      <4> QED
        BY <3>1, <3>2, <4>1, UnderWayStays DEF Covered, Fixed
    <3> QED
      BY <1>4, <3>1, <3>3 DEF WillShow
  <2>3. CASE Lose(i) \/ Fail(i)
    <3>1. behind' = behind /\ refetching' = refetching /\ requests'[i].verdict \in Bad
      BY <1>1, <2>3, LoseAdvances, FailAdvances DEF Lose, Fail, Bad
    <3> QED
      BY <1>1, <1>4, <3>1, CoveredTaken DEF WillShow
  <2>4. CASE Refresh(i)
    <3>1. /\ behind' = behind /\ refetching' = refetching \cup (form.refreshes \cap Mounted)
          /\ requests'[i].stage = "refreshing"
      BY <1>1, <2>4, RefreshAdvances DEF Refresh
    <3> QED
      BY <1>1, <1>4, <3>1, CoveredTaken DEF WillShow
  <2> QED
    BY <2>1, <2>2, <2>3, <2>4 DEF Answering
<1> QED
  BY <1>6, <1>7, <1>8 DEF WillShow

\* What was under way is there.
LEMMA WillShowLand ==
  ASSUME Basic, WillShow, Fixed, Land
  PROVE  WillShow'
<1>1. requests' = requests /\ record' = record /\ refetching' = {} /\ BehindInVersion
      /\ (ToCome => ToCome') /\ (Failed => Failed')
  BY DEF Land, WillShow, ToCome, Failed
<1>2. BehindInVersion' /\ behind' \subseteq behind /\ \A v \in behind' : ~UnderWay(v)
  <2>1. CASE Page.main \in refetching
    <3>1. Show(record, refetching)
      BY <2>1 DEF Land
    <3>2. /\ BehindInVersion' /\ behind' \subseteq behind \ refetching
          /\ Command.bumps => behind' \cap Page.keyed = {}
      BY <1>1, <3>1, BehindShow
    <3> QED
      BY <3>2 DEF UnderWay
  <2>2. CASE Page.main \notin refetching
    BY <1>1, <2>2 DEF Land, UnderWay, BehindInVersion, Fixed
  <2> QED
    BY <2>1, <2>2
<1>3. \A v \in behind' : Covered(v)'
  BY <1>1, <1>2 DEF WillShow, Covered, Fixed
<1> QED
  BY <1>1, <1>2, <1>3 DEF WillShow, Fixed

LEMMA WillShowStep ==
  ASSUME Basic, WillShow, [Next]_vars
  PROVE  WillShow'
<1>1. Typed /\ Fixed /\ BehindInVersion'
  BY Constant, BehindStep DEF Basic, WillShow
<1>2. CASE Land
  BY <1>1, <1>2, WillShowLand
<1>3. ASSUME NEW i \in DOMAIN requests, Answering(i)
      PROVE  WillShow'
  BY <1>1, <1>3, WillShowAnswering
<1>4. ASSUME Submit \/ Retry
      PROVE  WillShow'
  <2>1. \E r : Adds(r)
    BY <1>1, <1>4, SubmitAdds, RetryAdds
  <2>2. behind' = behind /\ refetching' = refetching
    BY <1>4 DEF Submit, Retry
  <2> QED
    BY <1>1, <2>1, <2>2, WillShowSending
<1>5. CASE requests' = requests /\ behind' \subseteq behind /\ refetching' = refetching
  BY <1>1, <1>5, CoveredStays DEF WillShow
<1>6. OthersAct \/ Reload \/ Open \/ Leave \/ Edit \/ Draw \/ UNCHANGED vars
        => requests' = requests /\ behind' \subseteq behind /\ refetching' = refetching
  BY DEF OthersAct, Reload, Show, Open, Leave, Edit, Draw, vars
<1> QED
  BY <1>2, <1>3, <1>4, <1>5, <1>6 DEF Next, Answering

LEMMA SpecWillShow == Spec => []WillShow
<1>1. Init => WillShow
  BY DEF Init, WillShow, BehindInVersion
<1>2. Basic /\ WillShow /\ [Next]_vars => WillShow'
  BY WillShowStep
<1> QED
  BY <1>1, <1>2, SpecBasic, PTL DEF Spec

\* OwnWorkIsShown: in whatever order the answers come in and the queries are
\* fetched, when all is answered with success no query of the page is older than
\* what the person did, but for those the hook leaves out.
THEOREM OwnWorkIsSeen == Spec => []OwnWorkIsShown
<1>1. ASSUME WillShow PROVE OwnWorkIsShown
  <2> SUFFICES ASSUME \A i \in DOMAIN requests : requests[i].stage = "over" /\ requests[i].verdict \in Good,
                      NEW v \in behind
               PROVE  v \in Lagging[doing]
    BY DEF OwnWorkIsShown
  <2>1. ~Failed /\ ~ToCome
    BY DEF Failed, ToCome, Good, Bad
  <2>2. refetching = {}
    BY <1>1 DEF WillShow
  <2> QED
    BY <1>1, <2>1, <2>2 DEF WillShow, Covered, UnderWay
<1> QED
  BY <1>1, SpecWillShow, PTL
-----------------------------------------------------------------------------
(* What is done once: by its content, or under one key. *)

LEMMA EffectsStep ==
  ASSUME Typed, [Next]_vars
  PROVE  effects' = effects \/ \E i \in DOMAIN requests : Served(i)
BY RecordSteps, OthersFacts

LEMMA ServedFacts ==
  ASSUME Typed, NEW i \in DOMAIN requests, Served(i)
  PROVE  /\ effects' = effects \cup {EffectOf(i)} /\ record' = After(Command, record)
         /\ Verdict(requests[i]) = "done"
BY DEF Served, Done

\* What the handler knows by its content it does not do again.
ContentOnce ==
  Command.unique # "no" => \A d, e \in effects : d.content = e.content => d = e

\* What was done under a key is not done again under it.
KeyOnce == \A d, e \in effects : d.key = e.key /\ d.key # 0 => d = e

LEMMA OnceStep ==
  ASSUME Typed, ContentOnce, KeyOnce, [Next]_vars
  PROVE  ContentOnce' /\ KeyOnce'
<1>1. Fixed
  BY Constant
<1>2. CASE effects' = effects
  BY <1>1, <1>2 DEF ContentOnce, KeyOnce, Fixed
<1>3. ASSUME NEW i \in DOMAIN requests, Served(i)
      PROVE  ContentOnce' /\ KeyOnce'
  <2>1. effects' = effects \cup {EffectOf(i)}
    BY <1>3, ServedFacts
  <2>2. OnFile(requests[i]) = {} /\ ~Repeated(requests[i])
    BY <1>3, ServedFacts, DoneOnVersion
  <2>3. \A e \in effects : e.key = EffectOf(i).key => e.key = 0
    BY <2>2, EffectFacts DEF OnFile
  <2>4. Command.unique # "no" => \A e \in effects : e.content # EffectOf(i).content
    BY <2>2, EffectFacts DEF Repeated
  <2> HIDE DEF EffectOf
  <2> QED
    BY <1>1, <2>1, <2>3, <2>4 DEF ContentOnce, KeyOnce, Fixed
<1> QED
  BY <1>2, <1>3, EffectsStep

LEMMA SpecOnce == Spec => [](ContentOnce /\ KeyOnce)
<1>1. Init => ContentOnce /\ KeyOnce
  BY DEF Init, ContentOnce, KeyOnce
<1>2. Basic /\ ContentOnce /\ KeyOnce /\ [Next]_vars => ContentOnce' /\ KeyOnce'
  BY OnceStep DEF Basic
<1> QED
  BY <1>1, <1>2, SpecBasic, PTL DEF Spec

\* A form keeps its key for what is sent last in a turn, if that is sent again.
Keeps ==
  /\ form.key \in {"payload", "form"}
  /\ NamesOneVersion(form) \/ form.key = "form" \/ ~form.signs

LastKey ==
  Keeps =>
    /\ \A i \in DOMAIN requests : requests[i].key # 0
    /\ panel.signed # Nothing => panel.key # 0
    /\ Remembered.signed # Nothing => Remembered.key # 0
    /\ \A i \in DOMAIN requests :
         i = Len(requests) /\ requests[i].turn = panel.turn /\ (panel.open \/ panel.signed # Nothing) =>
           panel.key = requests[i].key /\ panel.signed = Signature(requests[i].content, requests[i].base)

\* The handlers of an open form find the key as it was set last, but while a request
\* is under way.
UpToDate == panel.open => Pending \/ Remembered = KeptIn(panel)

\* Requests of one turn with the same content all along have the same key, but for
\* what a form that keeps it in its state sends while the one before is under way.
KeyPerContent ==
  Keeps =>
    \A i, j \in DOMAIN requests :
      /\ i < j /\ requests[i].turn = requests[j].turn
      /\ \A k \in i..j : requests[k].content = requests[i].content
      /\ form.keeps = "ref" \/ \A k \in (i + 1)..j : ~requests[k].again
      => requests[i].key = requests[j].key

LEMMA UpToDateStep ==
  ASSUME Typed, UpToDate, [Next]_vars
  PROVE  UpToDate'
<1>1. Fixed /\ requests \in Seq(Request) /\ requests' \in Seq(Request)
  BY Constant, RequestsType DEF Typed
<1>2. ReadsAnew => UpToDate'
  BY <1>1 DEF UpToDate, ReadsAnew, Remembered, KeptIn, Fixed
<1>3. Gone \/ Anew \/ Afresh \/ Edited \/ ~panel'.open => UpToDate'
  BY <1>2 DEF UpToDate, Gone, Anew, Afresh, Edited
<1>4. ASSUME panel' = panel,
             \A i \in DOMAIN requests :
               /\ i \in DOMAIN requests' /\ requests'[i].turn = requests[i].turn
               /\ requests[i].stage # "over" /\ requests[i].turn = panel.turn =>
                    requests'[i].stage # "over"
      PROVE  UpToDate'
  <2>1. Pending => Pending'
    BY <1>4 DEF Pending, InFlight
  <2>2. Remembered' = Remembered
    BY <1>1, <1>4 DEF Remembered, KeptIn, Fixed
  <2> QED
    BY <1>4, <2>1, <2>2 DEF UpToDate, KeptIn
<1>5. CASE panel' = panel /\ requests' = requests
  BY <1>4, <1>5
<1>6. ASSUME NEW r, Sends(r), r.turn = panel.turn
      PROVE  UpToDate'
  <2>1. Fresh \in DOMAIN requests' /\ requests'[Fresh].stage = "sent"
        /\ requests'[Fresh].turn = panel'.turn
    BY <1>1, <1>6 DEF Sends, Adds, Alike, Fresh
  <2>2. Pending'
    BY <2>1 DEF Pending, InFlight
  <2> QED
    BY <2>2 DEF UpToDate
<1>7. CASE Submit \/ Retry
  <2>1. Sent.turn = panel.turn
    BY DEF Sent
  <2> QED
    BY <1>3, <1>6, <1>7, <2>1, SubmitAdds, RetryAdds, SentType, SendPanel
       DEF Sends, Submit, Retry
<1>8. ASSUME NEW i \in DOMAIN requests, Advances(i), panel' = panel,
             requests'[i].stage # "over" \/ requests[i].turn # panel.turn
      PROVE  UpToDate'
  <2>1. \A j \in DOMAIN requests : j \in DOMAIN requests' /\ requests'[j].turn = requests[j].turn
    BY <1>1, <1>8 DEF Advances, Alike
  <2>2. \A j \in DOMAIN requests \ {i} : requests'[j] = requests[j]
    BY <1>8 DEF Advances
  <2> QED
    BY <1>4, <1>8, <2>1, <2>2
<1>9. ASSUME NEW i \in DOMAIN requests, Serve(i) \/ Lose(i) \/ Fail(i) \/ Refresh(i) \/ Report(i)
      PROVE  UpToDate'
  <2>1. CASE Serve(i) \/ Refresh(i)
    BY <1>8, <2>1, ServeAdvances, RefreshAdvances DEF Serve, Refresh
  <2>2. CASE Lose(i) \/ Fail(i)
    <3>1. panel' = Release(i) /\ Advances(i)
      BY <2>2, LoseAdvances, FailAdvances DEF Lose, Fail
    <3>2. CASE requests[i].turn = panel.turn
      BY <1>2, <3>1, <3>2, ReleaseFacts DEF ReadsAnew
    <3>3. CASE requests[i].turn # panel.turn
      BY <1>8, <3>1, <3>3 DEF Release
    <3> QED
      BY <3>2, <3>3
  <2>3. CASE Report(i)
    BY <1>3, <1>8, <2>3, ReportPanel, ReportAdvances
  <2> QED
    BY <1>9, <2>1, <2>2, <2>3
<1>10. CASE Reload \/ Land
  BY <1>3, <1>5, <1>10, ShowPanel DEF Reload, Land
<1>11. CASE Edit \/ Draw
  BY <1>2, <1>3, <1>11, EditPanel, DrawPanel
<1>12. CASE Open \/ Leave
  BY <1>2, <1>12 DEF Open, Leave, Closed, ReadsAnew, KeptIn
<1>13. CASE OthersAct \/ UNCHANGED vars
  BY <1>5, <1>13 DEF OthersAct, vars
<1> QED
  BY <1>7, <1>9, <1>10, <1>11, <1>12, <1>13 DEF Next

LEMMA SpecUpToDate == Spec => []UpToDate
<1>1. Init => UpToDate
  BY DEF Init, UpToDate, Closed
<1>2. Basic /\ UpToDate /\ [Next]_vars => UpToDate'
  BY UpToDateStep DEF Basic
<1> QED
  BY <1>1, <1>2, SpecBasic, PTL DEF Spec

\* The key of what is sent next is that of the same thing sent before.
LEMMA SameKeyNext ==
  ASSUME Basic, Turns, UpToDate, LastKey, Keeps, panel.open, requests # <<>>,
         form.keeps = "ref" \/ ~Pending, requests[Len(requests)].turn = panel.turn, requests[Len(requests)].content = panel.content
  PROVE  KeyFor(panel.content, Base) = requests[Len(requests)].key
<1> DEFINE n == Len(requests)
<1>1. n \in DOMAIN requests /\ Typed /\ form \in FormType
  BY FormFacts DEF Basic, Typed
<1>2. Remembered.key = panel.key /\ Remembered.signed = panel.signed
  BY DEF UpToDate, Remembered, KeptIn
<1>3. panel.key = requests[n].key /\ panel.signed = Signature(requests[n].content, requests[n].base)
  BY <1>1 DEF LastKey
<1>4. Signature(panel.content, Base) = Signature(requests[n].content, requests[n].base)
  <2>1. CASE form.key = "form" \/ ~form.signs
    BY <2>1 DEF Signature, Keeps
  <2>2. CASE NamesOneVersion(form)
    <3>1. OfThisForm(n)
      BY <1>1 DEF Turns, OneTurn
    <3>2. requests[n].base = Base
      BY <1>1, <2>2, <3>1, BaseIsHeld DEF OfThisForm, Turns, FormType
    <3> QED
      BY <3>2
  <2> QED
    BY <2>1, <2>2 DEF Keeps
<1> QED
  BY <1>3, <1>4, <1>2 DEF KeyFor, Keeps

LEMMA KeySends ==
  ASSUME Basic, LastKey, KeyPerContent, Keeps, Fixed, NEW r \in Request, Sends(r), r.key # 0,
         r.turn = panel.turn, Remembered' \in {Remembered, KeptIn(panel')},
         /\ requests # <<>> /\ requests[Len(requests)].turn = panel.turn
         /\ requests[Len(requests)].content = r.content
         /\ form.keeps = "ref" \/ ~Pending
         => r.key = requests[Len(requests)].key
  PROVE  LastKey' /\ KeyPerContent'
<1> DEFINE n == Len(requests)
<1>1. /\ requests \in Seq(Request) /\ requests' \in Seq(Request) /\ n \in Nat
      /\ \A i \in DOMAIN requests : requests[i].turn \in Nat /\ i \in Nat /\ i <= n
  BY RequestFacts DEF Basic, Typed, Sends, Adds
<1>2. /\ DOMAIN requests' = DOMAIN requests \cup {n + 1} /\ Len(requests') = n + 1
      /\ \A i \in DOMAIN requests : requests'[i] = requests[i]
      /\ Alike(r, requests'[n + 1])
  BY <1>1 DEF Sends, Adds, Fresh
<1>3. /\ requests'[n + 1].key = r.key /\ requests'[n + 1].turn = panel.turn
      /\ requests'[n + 1].content = r.content /\ requests'[n + 1].base = r.base
      /\ requests'[n + 1].again = Pending /\ form' = form
      /\ panel'.key = r.key /\ panel'.signed = Signature(r.content, r.base)
      /\ panel'.turn = panel.turn
  BY <1>2 DEF Alike, Sends, Adds, Fresh, Fixed
<1>4. LastKey'
  <2>1. \A i \in DOMAIN requests' : requests'[i].key # 0
    BY <1>2, <1>3 DEF LastKey
  <2>2. ASSUME NEW i \in DOMAIN requests', i = Len(requests')
        PROVE  panel'.key = requests'[i].key
               /\ panel'.signed = Signature(requests[i].content, requests[i].base)'
    <3>1. i = n + 1
      BY <1>2, <2>2
    <3> QED
      BY <1>2, <1>3, <3>1 DEF Signature, Fixed
  <2>3. Remembered'.signed # Nothing => Remembered'.key # 0
    BY <1>3 DEF LastKey, KeptIn
  <2> QED
    BY <1>3, <2>1, <2>2, <2>3 DEF LastKey
<1>5. ASSUME NEW i \in DOMAIN requests', NEW j \in DOMAIN requests', i < j,
             requests'[i].turn = requests'[j].turn,
             \A k \in i..j : requests'[k].content = requests'[i].content,
             form.keeps = "ref" \/ \A k \in (i + 1)..j : ~requests'[k].again
      PROVE  requests'[i].key = requests'[j].key
  <2>1. CASE j \in DOMAIN requests
    <3>1. /\ i \in DOMAIN requests /\ \A k \in i..j : k \in DOMAIN requests
          /\ \A k \in (i + 1)..j : k \in DOMAIN requests
      BY <1>1, <1>2, <1>5, <2>1
    <3>2. form.keeps = "ref" \/ \A k \in (i + 1)..j : ~requests[k].again
      BY <1>2, <1>5, <3>1
    <3> QED
      BY <1>2, <1>5, <2>1, <3>1, <3>2 DEF KeyPerContent
  <2>2. CASE j = n + 1
    <3>1. i \in DOMAIN requests /\ n \in DOMAIN requests /\ i <= n /\ n \in i..j /\ i \in Nat
      BY <1>1, <1>2, <1>5, <2>2
    <3>2. requests[i].turn = panel.turn /\ requests[n].turn \in Nat /\ panel.turn \in Nat
      BY <1>1, <1>2, <1>3, <1>5, <2>2, <3>1, PanelFacts DEF Basic
    <3>3. requests[n].turn = panel.turn
      BY <1>1, <3>1, <3>2 DEF Basic, Numbered
    <3>4. j \in i..j /\ \A k \in i..n : k \in i..j /\ k \in DOMAIN requests
      BY <1>1, <2>2, <3>1
    <3>5. requests[n].content = requests[i].content /\ r.content = requests[i].content
      BY <1>2, <1>3, <1>5, <2>2, <3>1, <3>4
    <3>6. form.keeps = "ref" \/ (~Pending /\ \A k \in (i + 1)..n : ~requests[k].again)
      <4>1. /\ n + 1 \in (i + 1)..j
            /\ \A k \in (i + 1)..n : k \in (i + 1)..j /\ k \in DOMAIN requests
        BY <1>1, <2>2, <3>1
      <4> QED
        BY <1>2, <1>3, <1>5, <4>1
    <3>7. r.key = requests[n].key
      BY <3>1, <3>3, <3>5, <3>6
    <3>8. requests[i].key = requests[n].key
      <4>1. \A k \in i..n : requests[k].content = requests[i].content
        BY <1>2, <1>5, <3>1, <3>4
      <4> QED
        BY <1>1, <3>1, <3>2, <3>3, <3>6, <4>1 DEF KeyPerContent
    <3> QED
      BY <1>2, <1>3, <2>2, <3>1, <3>7, <3>8
  <2> QED
    BY <1>2, <2>1, <2>2
<1> QED
  BY <1>3, <1>4, <1>5 DEF KeyPerContent

LEMMA KeyKept ==
  ASSUME Basic, LastKey, KeyPerContent, Keeps, Fixed, SentKept,
         Remembered' \in {Remembered, KeptIn(panel')},
         Stays \/ Gone \/ Anew \/ Afresh \/ Edited
  PROVE  LastKey' /\ KeyPerContent'
<1>1. /\ requests \in Seq(Request) /\ requests' \in Seq(Request) /\ Len(requests') = Len(requests)
      /\ DOMAIN requests' = DOMAIN requests
  BY DEF Basic, Typed, SentKept
<1>2. \A i \in DOMAIN requests :
        /\ i \in Nat /\ requests'[i].key = requests[i].key /\ requests'[i].turn = requests[i].turn
        /\ requests'[i].content = requests[i].content /\ requests'[i].base = requests[i].base
        /\ requests'[i].again = requests[i].again
        /\ requests[i].turn \in Nat /\ requests[i].turn <= panel.turn
  BY <1>1, RequestFacts DEF SentKept, Alike, Basic, Numbered
<1>3. KeyPerContent'
  <2> SUFFICES ASSUME NEW i \in DOMAIN requests', NEW j \in DOMAIN requests', i < j,
                      requests'[i].turn = requests'[j].turn,
                      \A k \in i..j : requests'[k].content = requests'[i].content,
                      form.keeps = "ref" \/ \A k \in (i + 1)..j : ~requests'[k].again
               PROVE  requests'[i].key = requests'[j].key
    BY DEF KeyPerContent, Fixed
  <2>1. /\ i \in DOMAIN requests /\ j \in DOMAIN requests
        /\ \A k \in i..j : k \in DOMAIN requests
        /\ \A k \in (i + 1)..j : k \in DOMAIN requests
    BY <1>1
  <2>2. form.keeps = "ref" \/ \A k \in (i + 1)..j : ~requests[k].again
    BY <1>2, <2>1
  <2>3. \A k \in i..j : requests[k].content = requests[i].content
    BY <1>2, <2>1
  <2>4. requests[i].turn = requests[j].turn
    BY <1>2, <2>1
  <2>5. requests[i].key = requests[j].key
    BY <2>1, <2>3, <2>4, <2>2 DEF KeyPerContent
  <2> QED
    BY <1>2, <2>1, <2>5
<1>4. \A i \in DOMAIN requests' : requests'[i].key # 0
  BY <1>1, <1>2 DEF LastKey
<1>5. panel'.signed # Nothing => panel'.key # 0
  BY DEF LastKey, Stays, Gone, Anew, Afresh, Edited
<1>6. Remembered'.signed # Nothing => Remembered'.key # 0
  BY <1>5 DEF LastKey, KeptIn
<1>7. ASSUME NEW i \in DOMAIN requests', i = Len(requests'), requests'[i].turn = panel'.turn,
             panel'.open \/ panel'.signed # Nothing
      PROVE  panel'.key = requests'[i].key
             /\ panel'.signed = Signature(requests[i].content, requests[i].base)'
  <2>1. CASE Stays \/ Edited
    <3>1. /\ panel'.key = panel.key /\ panel'.signed = panel.signed /\ panel'.turn = panel.turn
          /\ panel.open \/ panel.signed # Nothing
      BY <1>7, <2>1 DEF Stays, Edited
    <3>2. panel.key = requests[i].key /\ panel.signed = Signature(requests[i].content, requests[i].base)
      BY <1>1, <1>2, <1>7, <3>1 DEF LastKey
    <3> QED
      BY <1>1, <1>2, <3>1, <3>2 DEF Signature, Fixed
  <2>2. CASE Anew \/ Afresh
    <3>1. panel'.turn = panel.turn + 1 /\ panel.turn \in Nat
      BY <2>2, PanelFacts DEF Anew, Afresh, Basic
    <3> QED
      BY <1>1, <1>2, <1>7, <3>1
  <2>3. CASE Gone
    BY <1>7, <2>3 DEF Gone
  <2> QED
    BY <2>1, <2>2, <2>3
<1> QED
  BY <1>3, <1>4, <1>5, <1>7, <1>6 DEF LastKey, Nothing

LEMMA LastKeyStep ==
  ASSUME Basic, Turns, UpToDate, LastKey, KeyPerContent, [Next]_vars
  PROVE  LastKey' /\ KeyPerContent'
<1>1. /\ Typed /\ Fixed /\ form \in FormType
      /\ Remembered' \in {Remembered, KeptIn(panel')}
  BY Constant, FormFacts, RememberedSteps DEF Basic, Typed
<1> SUFFICES ASSUME Keeps PROVE LastKey' /\ KeyPerContent'
  BY <1>1 DEF LastKey, KeyPerContent, Keeps, Fixed
<1>2. Stays \/ Gone \/ Anew \/ Afresh \/ Edited => LastKey' /\ KeyPerContent'
  BY <1>1, KeyKept DEF Stays, Gone, Anew, Afresh, Edited
<1>3. CASE Presses
  <2>1. CASE Sends(Sent) /\ panel.open
    <3>1. /\ Sent \in Request /\ Sent.key = KeyFor(panel.content, Base)
          /\ Sent.content = panel.content /\ Sent.turn = panel.turn
      BY <1>1, SentType DEF Sent
    <3>2. KeyFor(panel.content, Base) # 0
      <4>1. Fresh # 0
        BY <1>1 DEF Fresh, Typed
      <4>2. Remembered.signed = Signature(panel.content, Base) => Remembered.key # 0
        BY <1>1, PanelFacts, BaseType, SignatureType DEF LastKey
      <4> QED
        BY <4>1, <4>2 DEF KeyFor, Keeps
    <3>3. /\ requests # <<>> /\ requests[Len(requests)].turn = panel.turn
          /\ requests[Len(requests)].content = Sent.content
          /\ form.keeps = "ref" \/ ~Pending
          => Sent.key = requests[Len(requests)].key
      BY <2>1, <3>1, SameKeyNext
    <3> QED
      BY <1>1, <2>1, <3>1, <3>2, <3>3, KeySends
  <2>2. CASE /\ Len(requests) \in DOMAIN requests /\ Sends(requests[Len(requests)])
             /\ requests[Len(requests)].turn = panel.turn
    <3>1. requests[Len(requests)] \in Request /\ requests[Len(requests)].key # 0
      BY <1>1, <2>2, RequestFacts DEF LastKey
    <3> QED
      BY <1>1, <2>2, <3>1, KeySends
  <2> QED
    BY <1>3, <2>1, <2>2 DEF Presses
<1> QED
  BY <1>1, <1>2, <1>3, PanelSteps

LEMMA SpecLastKey == Spec => [](LastKey /\ KeyPerContent)
<1>1. Init => LastKey /\ KeyPerContent
  BY DEF Init, LastKey, KeyPerContent, Closed, Remembered, KeptIn
<1>2. Basic /\ Turns /\ UpToDate /\ LastKey /\ KeyPerContent /\ [Next]_vars
        => LastKey' /\ KeyPerContent'
  BY LastKeyStep
<1> QED
  BY <1>1, <1>2, SpecBasic, SpecTurns, SpecUpToDate, PTL DEF Spec

-----------------------------------------------------------------------------
(* What is done once: under one version, or because the status leads away.   *)

\* What a form sends in one turn names one version.
OneBasePerTurn ==
  NamesOneVersion(form) =>
    \A i, j \in DOMAIN requests : requests[i].turn = requests[j].turn => requests[i].base = requests[j].base

LEMMA OneBaseStep ==
  ASSUME Basic, Turns, OneBasePerTurn, [Next]_vars
  PROVE  OneBasePerTurn'
<1>1. Typed /\ Fixed /\ form \in FormType /\ requests \in Seq(Request) /\ requests' \in Seq(Request)
  BY Constant, FormFacts, RequestsType DEF Basic, Typed
<1>2. NamesOneVersion(form)' <=> NamesOneVersion(form)
  BY <1>1 DEF NamesOneVersion, Fixed
<1> SUFFICES ASSUME NamesOneVersion(form), NEW i \in DOMAIN requests', NEW j \in DOMAIN requests',
                    requests'[i].turn = requests'[j].turn
             PROVE  requests'[i].base = requests'[j].base
  BY <1>2 DEF OneBasePerTurn
<1>3. CASE SentKept
  BY <1>1, <1>3 DEF SentKept, Alike, OneBasePerTurn
<1>4. ASSUME NEW r, Sends(r), r.turn = panel.turn, r.base = Held, panel.open \/ panel.signed # Nothing
      PROVE  requests'[i].base = requests'[j].base
  <2>1. \A k \in DOMAIN requests' :
          \/ k \in DOMAIN requests /\ requests'[k] = requests[k]
          \/ requests'[k].turn = panel.turn /\ requests'[k].base = Held
    <3>1. \A k \in DOMAIN requests' : k \in DOMAIN requests \/ k = Fresh
      BY <1>1, <1>4 DEF Sends, Adds, Fresh
    <3> QED
      BY <1>4, <3>1 DEF Sends, Adds, Alike
  <2>2. \A k \in DOMAIN requests : requests[k].turn = panel.turn => requests[k].base = Held
    BY <1>4 DEF Turns, OneTurn, OfThisForm
  <2> QED
    BY <2>1, <2>2 DEF OneBasePerTurn
<1>5. CASE Presses
  <2>1. CASE Sends(Sent) /\ panel.open
    <3>1. Sent.base = Held /\ Sent.turn = panel.turn
      BY <1>1, <2>1, BaseIsHeld DEF Sent, Turns, FormType
    <3> QED
      BY <1>4, <2>1, <3>1
  <2>2. CASE /\ Len(requests) \in DOMAIN requests /\ Sends(requests[Len(requests)])
             /\ requests[Len(requests)].turn = panel.turn /\ panel.signed # Nothing
    <3>1. requests[Len(requests)].base = Held
      BY <2>2 DEF Turns, OneTurn, OfThisForm
    <3> QED
      BY <1>4, <2>2, <3>1
  <2> QED
    BY <1>5, <2>1, <2>2 DEF Presses
<1> QED
  BY <1>1, <1>3, <1>5, PanelSteps DEF Stays, Gone, Anew, Afresh, Edited

LEMMA SpecOneBase == Spec => []OneBasePerTurn
<1>1. Init => OneBasePerTurn
  BY DEF Init, OneBasePerTurn
<1>2. Basic /\ Turns /\ OneBasePerTurn /\ [Next]_vars => OneBasePerTurn'
  BY OneBaseStep
<1> QED
  BY <1>1, <1>2, SpecBasic, SpecTurns, PTL DEF Spec

\* What the handler looks at grows with what it does.
StampGrows ==
  \/ Command.checks = "version" /\ Command.bumps
  \/ Command.checks = "edition" /\ Command.renews

LEMMA StampNeverFalls ==
  ASSUME Basic, Fixed, [Next]_vars
  PROVE  /\ Stamp(record) \in Nat /\ Stamp(record)' \in Nat /\ Stamp(record) <= Stamp(record)'
         /\ record.version \in Nat /\ record'.version \in Nat /\ record.version <= record'.version
<1>1. Typed /\ record \in Record /\ record' \in Record
  BY TypedStep DEF Basic, Typed
<1>2. record.version <= record'.version /\ record.edition <= record'.edition
  BY <1>1, RecordLater DEF Later, Record, Basic, Versions
<1> QED
  BY <1>1, <1>2 DEF Stamp, Record, Fixed

LEMMA DoneGrows ==
  ASSUME Basic, Fixed, StampGrows, NEW i \in DOMAIN requests, Served(i)
  PROVE  requests[i].base = Stamp(record) /\ Stamp(record) < Stamp(record)'
<1>1. Typed /\ record \in Record /\ record' = After(Command, record)
  BY ServedFacts DEF Basic, Typed
<1>2. requests[i].base = Stamp(record)
  BY <1>1, ServedFacts, DoneOnVersion DEF StampGrows
<1>3. /\ Command.bumps => record'.version = record.version + 1
      /\ Command.renews => record'.edition = record.version + 1
  BY <1>1, FormFacts, AfterLater DEF Typed
<1>4. record.edition <= record.version
  BY DEF Basic, Versions
<1> QED
  BY <1>1, <1>2, <1>3, <1>4 DEF StampGrows, Stamp, Record, Fixed

\* What was done on a version is not done on it again.
VersionOnce ==
  StampGrows =>
    /\ \A e \in effects : e.base < Stamp(record)
    /\ \A d, e \in effects : d.base = e.base => d = e

LEMMA VersionOnceStep ==
  ASSUME Basic, VersionOnce, [Next]_vars
  PROVE  VersionOnce'
<1>1. Typed /\ Fixed
  BY Constant DEF Basic
<1> SUFFICES ASSUME StampGrows
             PROVE  /\ \A e \in effects' : e.base < Stamp(record)'
                    /\ \A d, e \in effects' : d.base = e.base => d = e
  BY <1>1 DEF VersionOnce, StampGrows, Fixed
<1>2. /\ Stamp(record) \in Nat /\ Stamp(record)' \in Nat /\ Stamp(record) <= Stamp(record)'
      /\ \A e \in effects : e.base \in Nat
  BY <1>1, StampNeverFalls DEF Typed, Effect
<1>3. CASE effects' = effects
  BY <1>2, <1>3 DEF VersionOnce
<1>4. ASSUME NEW i \in DOMAIN requests, Served(i)
      PROVE  /\ \A e \in effects' : e.base < Stamp(record)'
             /\ \A d, e \in effects' : d.base = e.base => d = e
  <2>1. effects' = effects \cup {EffectOf(i)}
    BY <1>1, <1>4, ServedFacts
  <2>2. EffectOf(i).base = Stamp(record) /\ Stamp(record) < Stamp(record)'
    BY <1>1, <1>4, DoneGrows, EffectFacts
  <2> HIDE DEF EffectOf
  <2> QED
    BY <1>2, <2>1, <2>2 DEF VersionOnce
<1> QED
  BY <1>1, <1>3, <1>4, EffectsStep

LEMMA SpecVersionOnce == Spec => []VersionOnce
<1>1. Init => VersionOnce
  BY DEF Init, VersionOnce
<1>2. Basic /\ VersionOnce /\ [Next]_vars => VersionOnce'
  BY VersionOnceStep
<1> QED
  BY <1>1, <1>2, SpecBasic, PTL DEF Spec

\* Once the command is done the record is in one of the statuses S, from none of
\* which it is done; it leaves them in no step, or in none that keeps the version or
\* the row.
Leads(S, kept) ==
  /\ Command.to \in S \ {"same"}
  /\ S \cap Command.from = {}
  /\ ClosedUnder(S, form.page, kept)

LEMMA LeadsStays ==
  ASSUME Fixed, NEW S, NEW kept
  PROVE  Leads(S, kept)' <=> Leads(S, kept)
BY DEF Leads, ClosedUnder, Fixed

LEMMA LeadsSomewhere ==
  ASSUME Typed, NEW kept, LeadsAway(form, kept)
  PROVE  \E S : Leads(S, kept)
BY FormFacts DEF Typed, LeadsAway, Leads

LEMMA LeadsOn ==
  ASSUME Basic, NEW S, NEW kept, Leads(S, kept), OthersAct, record.status \in S,
         kept = "version" => record'.version = record.version,
         kept = "row" => record'.edition = record.edition
  PROVE  record'.status \in S
<1>1. /\ form \in Forms /\ form.page \in DOMAIN Pages /\ Page = Pages[form.page] /\ record \in Record
      /\ record.version \in Nat /\ record.edition \in Nat /\ record.edition <= record.version
  BY FormFacts DEF Basic, Typed, Versions, Record
<1>2. ASSUME NEW c \in HandlersOf[form.page], record.status \in Commands[c].from,
             record' = After(Commands[c], record)
      PROVE  record'.status \in S
  <2>1. c \in DOMAIN Commands
    BY <1>1, <1>2 DEF HandlersOf
  <2>2. /\ record'.status = (IF Commands[c].to = "same" THEN record.status ELSE Commands[c].to)
        /\ Commands[c].bumps => record'.version = record.version + 1
        /\ Commands[c].renews => record'.edition = record.version + 1
    BY <1>1, <1>2, <2>1, TablesAssumption, AfterLater
  <2>3. ~(kept = "version" /\ Commands[c].bumps) /\ ~(kept = "row" /\ Commands[c].renews)
    BY <1>1, <2>2
  <2>4. Commands[c].to # "same" => Commands[c].to \in S
    BY <1>2, <2>3 DEF Leads, ClosedUnder
  <2> QED
    BY <2>2, <2>4
<1>3. ASSUME NEW m \in Page.moves, record.status \in m.from,
             record' = [record EXCEPT !.status = m.to,
                                      !.version = IF m.bumps THEN record.version + 1 ELSE @]
      PROVE  record'.status \in S
  <2>1. record'.status = m.to /\ (m.bumps => record'.version = record.version + 1)
    BY <1>1, <1>3 DEF Record
  <2>2. ~(kept = "version" /\ m.bumps) /\ m.to # "same"
    BY <1>1, <2>1, TablesAssumption
  <2>3. m.to \in S
    BY <1>1, <1>3, <2>2 DEF Leads, ClosedUnder
  <2> QED
    BY <2>1, <2>3
<1> QED
  BY <1>2, <1>3, OthersFacts DEF Basic

LEMMA LeadsDone ==
  ASSUME Typed, NEW S, NEW kept, Leads(S, kept), NEW i \in DOMAIN requests, Served(i)
  PROVE  record.status \notin S /\ record'.status \in S
<1>1. record.status \in Command.from
  BY ServedFacts, DoneOnVersion
<1>2. record'.status = Command.to
  BY ServedFacts, FormFacts, AfterLater DEF Leads, Typed
<1> QED
  BY <1>1, <1>2 DEF Leads

\* What leads to where it is not done is done once.
StatusOnce ==
  \A S : Leads(S, "nothing") => effects = {} \/ (record.status \in S /\ \A d, e \in effects : d = e)

LEMMA StatusOnceStep ==
  ASSUME Basic, StatusOnce, [Next]_vars
  PROVE  StatusOnce'
<1>1. Typed /\ Fixed
  BY Constant DEF Basic
<1> SUFFICES ASSUME NEW S, Leads(S, "nothing"), effects' # {}
             PROVE  record'.status \in S /\ \A d, e \in effects' : d = e
  <2>1. \A T : Leads(T, "nothing")' <=> Leads(T, "nothing")
    BY <1>1, LeadsStays
  <2> QED
    BY <2>1 DEF StatusOnce
<1>2. CASE UNCHANGED <<record, effects>>
  BY <1>2 DEF StatusOnce
<1>3. CASE OthersAct
  <2>1. effects' = effects
    BY <1>1, <1>3, OthersFacts
  <2> QED
    BY <1>3, <2>1, LeadsOn DEF StatusOnce
<1>4. ASSUME NEW i \in DOMAIN requests, Served(i)
      PROVE  record'.status \in S /\ \A d, e \in effects' : d = e
  <2>1. record.status \notin S /\ record'.status \in S
    BY <1>1, <1>4, LeadsDone
  <2>2. effects' = {EffectOf(i)}
    BY <1>1, <1>4, <2>1, ServedFacts DEF StatusOnce
  <2> QED
    BY <2>1, <2>2
<1> QED
  BY <1>1, <1>2, <1>3, <1>4, RecordSteps

LEMMA SpecStatusOnce == Spec => []StatusOnce
<1>1. Init => StatusOnce
  BY DEF Init, StatusOnce
<1>2. Basic /\ StatusOnce /\ [Next]_vars => StatusOnce'
  BY StatusOnceStep
<1> QED
  BY <1>1, <1>2, SpecBasic, PTL DEF Spec

\* A form that names the version it shows was decided on that one; what is sent
\* later was decided on no older one.
NamesTheShown == form.version = "shown" /\ ~form.fills

SawGrows ==
  NamesTheShown =>
    /\ \A i \in DOMAIN requests : requests[i].saw = requests[i].base /\ requests[i].saw <= Stamp(shown)
    /\ \A i, j \in DOMAIN requests : i < j => requests[i].saw <= requests[j].saw

LEMMA SawGrowsStep ==
  ASSUME Basic, SawGrows, [Next]_vars
  PROVE  SawGrows'
<1>1. /\ Typed /\ Fixed /\ requests \in Seq(Request) /\ requests' \in Seq(Request)
      /\ shown \in Record /\ shown' \in Record /\ record \in Record
      /\ \A i \in DOMAIN requests : requests[i].saw \in Nat
  BY Constant, RequestsType, RequestFacts, TypedStep DEF Basic, Typed
<1>2. Stamp(shown) \in Nat /\ Stamp(shown)' \in Nat /\ Stamp(shown) <= Stamp(shown)'
  <2>1. shown' = shown \/ shown' = record
    BY <1>1, RecordSteps, OthersFacts DEF Served
  <2>2. shown.version <= shown'.version /\ shown.edition <= shown'.edition
    BY <1>1, <2>1 DEF Basic, Versions, Record
  <2> QED
    BY <1>1, <2>2 DEF Stamp, Record, Fixed
<1> SUFFICES ASSUME NamesTheShown
             PROVE  /\ \A i \in DOMAIN requests' :
                         requests'[i].saw = requests'[i].base /\ requests'[i].saw <= Stamp(shown)'
                    /\ \A i, j \in DOMAIN requests' : i < j => requests'[i].saw <= requests'[j].saw
  BY <1>1 DEF SawGrows, NamesTheShown, Fixed
<1>3. CASE SentKept
  <2>1. /\ DOMAIN requests' = DOMAIN requests
        /\ \A i \in DOMAIN requests :
             requests'[i].saw = requests[i].saw /\ requests'[i].base = requests[i].base
    BY <1>1, <1>3 DEF SentKept, Alike
  <2> QED
    BY <1>1, <1>2, <2>1 DEF SawGrows
<1>4. ASSUME NEW r \in Request, Sends(r), r.saw = r.base, r.saw <= Stamp(shown),
             \A i \in DOMAIN requests : requests[i].saw <= r.saw
      PROVE  /\ \A i \in DOMAIN requests' :
                  requests'[i].saw = requests'[i].base /\ requests'[i].saw <= Stamp(shown)'
             /\ \A i, j \in DOMAIN requests' : i < j => requests'[i].saw <= requests'[j].saw
  <2>1. /\ DOMAIN requests' = DOMAIN requests \cup {Fresh} /\ Fresh \in Nat
        /\ \A i \in DOMAIN requests : requests'[i] = requests[i] /\ i \in Nat /\ i < Fresh
        /\ requests'[Fresh].saw = r.saw /\ requests'[Fresh].base = r.base
    BY <1>1, <1>4 DEF Sends, Adds, Alike, Fresh
  <2>2. r.saw \in Nat
    BY DEF Request
  <2> QED
    BY <1>1, <1>2, <1>4, <2>1, <2>2 DEF SawGrows
<1>5. CASE Presses
  <2>1. CASE Sends(Sent)
    <3>1. Sent.saw = Stamp(shown) /\ Sent.base = Stamp(shown)
      BY DEF Sent, Saw, Base, NamesTheShown
    <3> QED
      BY <1>1, <1>2, <1>4, <2>1, <3>1, SentType DEF SawGrows
  <2>2. CASE Len(requests) \in DOMAIN requests /\ Sends(requests[Len(requests)])
    <3>1. \A i \in DOMAIN requests : requests[i].saw <= requests[Len(requests)].saw
      BY <1>1, <2>2 DEF SawGrows
    <3> QED
      BY <1>1, <1>4, <2>2, <3>1, RequestFacts DEF SawGrows
  <2> QED
    BY <1>5, <2>1, <2>2 DEF Presses
<1> QED
  BY <1>1, <1>3, <1>5, PanelSteps DEF Stays, Gone, Anew, Afresh, Edited

LEMMA SpecSawGrows == Spec => []SawGrows
<1>1. Init => SawGrows
  BY DEF Init, SawGrows
<1>2. Basic /\ SawGrows /\ [Next]_vars => SawGrows'
  BY SawGrowsStep
<1> QED
  BY <1>1, <1>2, SpecBasic, PTL DEF Spec

\* Where only a step to another version leads back to where the command is done, it
\* is not done on a version and on the next.
StampIsVersion == Command.checks = "version" /\ Command.bumps

TwoApart ==
  \A S : StampIsVersion /\ Leads(S, "version") =>
    /\ \A e \in effects :
         e.base < record.version /\ (record.version = e.base + 1 => record.status \in S)
    /\ \A d, e \in effects : d = e \/ d.base > e.base + 1 \/ e.base > d.base + 1

LEMMA TwoApartStep ==
  ASSUME Basic, TwoApart, [Next]_vars
  PROVE  TwoApart'
<1>1. Typed /\ Fixed
  BY Constant DEF Basic
<1> SUFFICES ASSUME NEW S, StampIsVersion, Leads(S, "version")
             PROVE  /\ \A e \in effects' :
                         /\ e.base < record'.version
                         /\ record'.version = e.base + 1 => record'.status \in S
                    /\ \A d, e \in effects' : d = e \/ d.base > e.base + 1 \/ e.base > d.base + 1
  <2>1. \A T : Leads(T, "version")' <=> Leads(T, "version")
    BY <1>1, LeadsStays
  <2> QED
    BY <1>1, <2>1 DEF TwoApart, StampIsVersion, Fixed
<1>2. /\ record.version \in Nat /\ record'.version \in Nat /\ record.version <= record'.version
      /\ \A e \in effects : e.base \in Nat
  BY <1>1, StampNeverFalls DEF Typed, Effect
<1>3. /\ \A e \in effects :
           e.base < record.version /\ (record.version = e.base + 1 => record.status \in S)
      /\ \A d, e \in effects : d = e \/ d.base > e.base + 1 \/ e.base > d.base + 1
  BY DEF TwoApart
<1>4. CASE UNCHANGED <<record, effects>>
  BY <1>3, <1>4
<1>5. CASE OthersAct
  <2>1. effects' = effects
    BY <1>1, <1>5, OthersFacts
  <2>2. ASSUME NEW e \in effects, record'.version = e.base + 1
        PROVE  record'.status \in S
    <3>1. record'.version = record.version /\ record.status \in S
      BY <1>2, <1>3, <2>2
    <3> QED
      BY <1>1, <1>5, <3>1, LeadsOn
  <2> QED
    BY <1>2, <1>3, <2>1, <2>2
<1>6. ASSUME NEW i \in DOMAIN requests, Served(i)
      PROVE  /\ \A e \in effects' :
                  /\ e.base < record'.version
                  /\ record'.version = e.base + 1 => record'.status \in S
             /\ \A d, e \in effects' : d = e \/ d.base > e.base + 1 \/ e.base > d.base + 1
  <2>1. effects' = effects \cup {EffectOf(i)} /\ record' = After(Command, record)
    BY <1>1, <1>6, ServedFacts
  <2>2. EffectOf(i).base = record.version
    BY <1>1, <1>6, ServedFacts, DoneOnVersion, EffectFacts DEF StampIsVersion, Stamp
  <2>3. record.status \notin S /\ record'.status \in S
    BY <1>1, <1>6, LeadsDone
  <2>4. record'.version = record.version + 1
    BY <1>1, <2>1, FormFacts, AfterLater DEF StampIsVersion, Typed
  <2>5. \A e \in effects : record.version > e.base + 1
    BY <1>2, <1>3, <2>3
  <2> HIDE DEF EffectOf
  <2> QED
    BY <1>2, <1>3, <2>1, <2>2, <2>3, <2>4, <2>5
<1> QED
  BY <1>1, <1>4, <1>5, <1>6, RecordSteps

LEMMA SpecTwoApart == Spec => []TwoApart
<1>1. Init => TwoApart
  BY DEF Init, TwoApart
<1>2. Basic /\ TwoApart /\ [Next]_vars => TwoApart'
  BY TwoApartStep
<1> QED
  BY <1>1, <1>2, SpecBasic, PTL DEF Spec

\* Where only another row leads back to where the command is done, it is done once
\* on a row.
RowOnce ==
  \A S : Command.checks = "edition" /\ Leads(S, "row") =>
    /\ \A e \in effects :
         e.base <= record.edition /\ (record.edition = e.base => record.status \in S)
    /\ \A d, e \in effects : d = e \/ d.base # e.base

LEMMA RowOnceStep ==
  ASSUME Basic, RowOnce, [Next]_vars
  PROVE  RowOnce'
<1>1. Typed /\ Fixed
  BY Constant DEF Basic
<1> SUFFICES ASSUME NEW S, Command.checks = "edition", Leads(S, "row")
             PROVE  /\ \A e \in effects' :
                         /\ e.base <= record'.edition
                         /\ record'.edition = e.base => record'.status \in S
                    /\ \A d, e \in effects' : d = e \/ d.base # e.base
  <2>1. \A T : Leads(T, "row")' <=> Leads(T, "row")
    BY <1>1, LeadsStays
  <2> QED
    BY <1>1, <2>1 DEF RowOnce, Fixed
<1>2. /\ record.edition \in Nat /\ record'.edition \in Nat /\ record.edition <= record'.edition
      /\ \A e \in effects : e.base \in Nat
  BY <1>1, StampNeverFalls DEF Typed, Effect, Stamp, Fixed
<1>3. /\ \A e \in effects :
           e.base <= record.edition /\ (record.edition = e.base => record.status \in S)
      /\ \A d, e \in effects : d = e \/ d.base # e.base
  BY DEF RowOnce
<1>4. CASE UNCHANGED <<record, effects>>
  BY <1>3, <1>4
<1>5. CASE OthersAct
  <2>1. effects' = effects
    BY <1>1, <1>5, OthersFacts
  <2>2. ASSUME NEW e \in effects, record'.edition = e.base
        PROVE  record'.status \in S
    <3>1. record'.edition = record.edition /\ record.status \in S
      BY <1>2, <1>3, <2>2
    <3> QED
      BY <1>1, <1>5, <3>1, LeadsOn
  <2> QED
    BY <1>2, <1>3, <2>1, <2>2
<1>6. ASSUME NEW i \in DOMAIN requests, Served(i)
      PROVE  /\ \A e \in effects' :
                  /\ e.base <= record'.edition
                  /\ record'.edition = e.base => record'.status \in S
             /\ \A d, e \in effects' : d = e \/ d.base # e.base
  <2>1. effects' = effects \cup {EffectOf(i)}
    BY <1>1, <1>6, ServedFacts
  <2>2. EffectOf(i).base = record.edition
    BY <1>1, <1>6, ServedFacts, DoneOnVersion, EffectFacts DEF Stamp
  <2>3. record.status \notin S /\ record'.status \in S
    BY <1>1, <1>6, LeadsDone
  <2>4. \A e \in effects : e.base < record.edition
    BY <1>2, <1>3, <2>3
  <2> HIDE DEF EffectOf
  <2> QED
    BY <1>2, <1>3, <2>1, <2>2, <2>3, <2>4
<1> QED
  BY <1>1, <1>4, <1>5, <1>6, RecordSteps

LEMMA SpecRowOnce == Spec => []RowOnce
<1>1. Init => RowOnce
  BY DEF Init, RowOnce
<1>2. Basic /\ RowOnce /\ [Next]_vars => RowOnce'
  BY RowOnceStep
<1> QED
  BY <1>1, <1>2, SpecBasic, PTL DEF Spec

Once ==
  /\ Basic /\ Recorded /\ ContentOnce /\ KeyOnce /\ LastKey /\ KeyPerContent
  /\ OneBasePerTurn /\ VersionOnce /\ StatusOnce /\ SawGrows /\ TwoApart /\ RowOnce

\* Each protection is enough; that of a key kept in the state, for what is not
\* pressed again before the page is drawn again.
LEMMA ProtectedOnce ==
  ASSUME Once, NEW d \in effects, NEW e \in effects, d.turn = e.turn, d.by < e.by,
         \/ ByContent(form) \/ ByKey(form) \/ ByVersion(form) \/ ByStatus(form)
         \/ ByVersionAndStatus(form) \/ ByRowAndStatus(form)
         \/ ByKeyOnceDrawn(form) /\ \A i \in (d.by + 1)..e.by : ~requests[i].again
  PROVE  e.saw > d.saw + 1 \/ \E i \in d.by..e.by : requests[i].content # d.content
<1>1. /\ Typed /\ Command = HandlerOf(form) /\ form \in FormType
      /\ d.by \in DOMAIN requests /\ e.by \in DOMAIN requests /\ d.by \in Nat /\ e.by \in Nat
      /\ d.base \in Nat /\ e.base \in Nat /\ d.saw \in Nat /\ e.saw \in Nat
  BY FormFacts DEF Once, Basic, Typed, Effect, Recorded
<1>2. /\ d.key = requests[d.by].key /\ e.key = requests[e.by].key
      /\ d.turn = requests[d.by].turn /\ e.turn = requests[e.by].turn
      /\ d.content = requests[d.by].content /\ e.content = requests[e.by].content
      /\ d.base = requests[d.by].base /\ e.base = requests[e.by].base
      /\ d.saw = requests[d.by].saw /\ e.saw = requests[e.by].saw
  BY DEF Once, Recorded
<1>3. d # e /\ e.by \in d.by..e.by
  BY <1>1
<1>4. CASE ByContent(form)
  BY <1>1, <1>2, <1>3, <1>4 DEF ByContent, Once, ContentOnce
<1>5. CASE /\ ByKeyOnceDrawn(form)
           /\ form.keeps = "ref" \/ \A i \in (d.by + 1)..e.by : ~requests[i].again
  <2> SUFFICES ASSUME \A i \in d.by..e.by : requests[i].content = d.content
               PROVE  FALSE
    OBVIOUS
  <2>1. Keeps
    BY <1>5 DEF ByKeyOnceDrawn, Keeps
  <2>2. d.key = e.key
    BY <1>1, <1>2, <1>5, <2>1 DEF Once, KeyPerContent
  <2>3. d.key # 0
    BY <1>1, <1>2, <2>1 DEF Once, LastKey
  <2> QED
    BY <1>3, <2>2, <2>3 DEF Once, KeyOnce
<1>6. CASE ByVersion(form)
  <2>1. NamesOneVersion(form) /\ StampGrows
    BY <1>1, <1>6 DEF ByVersion, StampGrows
  <2>2. d.base = e.base
    BY <1>1, <1>2, <2>1 DEF Once, OneBasePerTurn
  <2> QED
    BY <1>3, <2>1, <2>2 DEF Once, VersionOnce
<1>7. CASE ByStatus(form)
  <2>1. PICK S : Leads(S, "nothing")
    BY <1>1, <1>7, LeadsSomewhere DEF ByStatus
  <2> QED
    BY <1>3, <2>1 DEF Once, StatusOnce
<1>8. CASE ByVersionAndStatus(form)
  <2>1. PICK S : Leads(S, "version")
    BY <1>1, <1>8, LeadsSomewhere DEF ByVersionAndStatus
  <2>2. StampIsVersion /\ NamesTheShown
    BY <1>1, <1>8 DEF ByVersionAndStatus, StampIsVersion, NamesTheShown
  <2>3. d.base > e.base + 1 \/ e.base > d.base + 1
    BY <1>3, <2>1, <2>2 DEF Once, TwoApart
  <2>4. d.saw <= e.saw /\ d.saw = d.base /\ e.saw = e.base
    BY <1>1, <1>2, <2>2 DEF Once, SawGrows
  <2> QED
    BY <1>1, <2>3, <2>4
<1>9. CASE ByRowAndStatus(form)
  <2>1. PICK S : Leads(S, "row")
    BY <1>1, <1>9, LeadsSomewhere DEF ByRowAndStatus
  <2>2. NamesOneVersion(form) /\ Command.checks = "edition"
    BY <1>1, <1>9 DEF ByRowAndStatus
  <2>3. d.base = e.base
    BY <1>1, <1>2, <2>2 DEF Once, OneBasePerTurn
  <2> QED
    BY <1>3, <2>1, <2>2, <2>3 DEF Once, RowOnce
<1> QED
  BY <1>4, <1>5, <1>6, <1>7, <1>8, <1>9 DEF ByKey

\* DoneOnce: whatever is lost, pressed twice, retried, closed and opened again, and
\* whatever others do in between, what is sent again in one turn of a form is done
\* once, if the form has one of the protections; a key kept in the state protects
\* what is not pressed again before the page is drawn again.
THEOREM DoneOnlyOnce == Spec => []DoneOnce
<1>1. ASSUME Once PROVE DoneOnce
  <2> SUFFICES ASSUME doing \notin Unprotected, NEW d \in effects, NEW e \in effects,
                      d.turn = e.turn, d.by < e.by
               PROVE  \/ e.saw > d.saw + 1 \/ \E i \in d.by..e.by : requests[i].content # d.content
                      \/ doing \in Hasty /\ \E i \in (d.by + 1)..e.by : requests[i].again
    BY DEF DoneOnce
  <2>1. form \in Forms /\ form.command = doing
    BY <1>1, FormFacts DEF Once, Basic, Typed
  <2>2. \/ ByContent(form) \/ ByKey(form) \/ ByVersion(form) \/ ByStatus(form)
        \/ ByVersionAndStatus(form) \/ ByRowAndStatus(form)
        \/ doing \in Hasty /\ ByKeyOnceDrawn(form)
    BY <2>1, ProtectionAssumption
  <2> QED
    BY <1>1, <2>2, ProtectedOnce
<1>2. Spec => []Once
  BY SpecBasic, SpecRecorded, SpecOnce, SpecLastKey, SpecOneBase, SpecVersionOnce, SpecStatusOnce,
     SpecSawGrows, SpecTwoApart, SpecRowOnce, PTL DEF Once
<1> QED
  BY <1>1, <1>2, PTL
=============================================================================
