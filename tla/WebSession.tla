------------------------------ MODULE WebSession ------------------------------
(***************************************************************************)
(* Several tabs of one browser, one session (apps/web/components and       *)
(* apps/web/features/overview/session.ts).                                 *)
(*                                                                         *)
(* The session is a cookie, replaced whenever somebody signs in; every     *)
(* sign-in also sets a marker, that the server tells the pages.  The       *)
(* tabs share the storage of the browser, which holds the organization     *)
(* chosen and the marker of the session last verified; a change of it      *)
(* reaches the other tabs as an event, later.  A tab verifies the session  *)
(* when it is loaded, gets the focus, hears of another marker and every    *)
(* minute; what it has fetched belongs to the scope it was fetched in.     *)
(*                                                                         *)
(* External: what React, its query client and the browser do of themselves *)
(* (a tab is drawn again when its state changes, a request in flight is    *)
(* forgotten with the query client that sent it, an event goes to the      *)
(* other tabs).  The bearer token of isolated tests is left out.           *)
(***************************************************************************)
EXTENDS Integers, Sequences, FiniteSets

CONSTANTS
  Tabs,
  Users,
  Orgs,
  Member,      \* per user, the organizations it is an active member of
  NoOrg,       \* no organization is chosen
  MaxLogins,   \* bound: how often somebody signs in
  MaxEvents    \* bound: what people do, and how often something fails

ASSUME SessionAssumption ==
  /\ NoOrg \notin Orgs
  /\ Member \in [Users -> SUBSET Orgs]
  /\ MaxLogins \in Nat \ {0}
  /\ MaxEvents \in Nat

VARIABLES
  owner,    \* who signed in, per marker
  cookie,   \* the marker of the session the browser has, 0 when it has none
  stored,   \* the storage of the browser: an organization and a marker
  tab,      \* the state of each tab
  unread,   \* per tab, the keys whose change it has yet to hear of
  events    \* what has happened so far, against MaxEvents

vars == <<owner, cookie, stored, tab, unread, events>>

Keys == {"organization", "marker"}
Markers == 0..MaxLogins
Stores == [organization : Orgs \cup {NoOrg}, marker : Markers]

\* What a tab has fetched: for which organization, under which session.
Items == [organization : Orgs \cup {NoOrg}, mark : Markers]

TabStates ==
  [loaded : BOOLEAN, checking : BOOLEAN, session : Markers,
   attempt : {"none", "asked", "answered"}, answer : Markers,
   heard : Stores, open : BOOLEAN, data : SUBSET Items, asked : SUBSET Items]

TypeOK ==
  /\ owner \in Seq(Users) /\ Len(owner) <= MaxLogins
  /\ cookie \in {0, Len(owner)}
  /\ stored \in Stores /\ stored.marker <= Len(owner)
  /\ tab \in [Tabs -> TabStates]
  /\ unread \in [Tabs -> SUBSET Keys]
  /\ events \in 0..MaxEvents

-----------------------------------------------------------------------------
Happens == events < MaxEvents /\ events' = events + 1

OrganizationsOf(m) == IF m = 0 THEN {} ELSE Member[owner[m]]

\* The condition under which the gate lets its children be drawn.
authorizedSpace(t, store) ==
  /\ ~t.checking
  /\ t.session # 0
  /\ t.session = store.marker
  /\ store.organization \in OrganizationsOf(t.session)

\* Mutated: another session is not another scope.
snapshotOfOrganization(store) == [store EXCEPT !.marker = 0]

\* What a scope is told apart by; each change of it is a generation of its own.
snapshot(store) == store

\* The gate alone is drawn: it looks at the storage, and what it lets through is
\* still that of the scope last heard of.
Gated(t, store) ==
  LET open == authorizedSpace(t, store)
      same == open /\ t.open
  IN [t EXCEPT !.open = open,
               !.data = IF same THEN @ ELSE {}, !.asked = IF same THEN @ ELSE {}]

\* A tab hears of a change and is drawn: it keeps its query client only if the gate
\* stays open on the same scope.
Drawn(t, store) ==
  LET open == authorizedSpace(t, store)
      same == open /\ t.open /\ snapshot(store) = snapshot(t.heard)
  IN [t EXCEPT !.heard = store, !.open = open,
               !.data = IF same THEN @ ELSE {}, !.asked = IF same THEN @ ELSE {}]

Away ==
  [loaded |-> FALSE, checking |-> TRUE, session |-> 0, attempt |-> "none", answer |-> 0,
   heard |-> [organization |-> NoOrg, marker |-> 0], open |-> FALSE, data |-> {}, asked |-> {}]

\* localStorage.setItem or removeItem in tab t: the others get an event if it
\* changes anything.
Store(t, key, value) ==
  /\ stored' = [stored EXCEPT ![key] = value]
  /\ unread' = [u \in Tabs |-> IF u # t /\ tab[u].loaded /\ stored[key] # value
                               THEN unread[u] \cup {key} ELSE unread[u]]

\* Assumed: a person clicks only after the tabs have heard of the click before.
Settled == \A t \in Tabs : unread[t] = {}

-----------------------------------------------------------------------------
(* People. *)

\* The tab goes to another site, to the sign-in page, or is closed.
Depart(t) ==
  /\ tab[t].loaded
  /\ Happens
  /\ tab' = [tab EXCEPT ![t] = Away]
  /\ unread' = [unread EXCEPT ![t] = {}]
  /\ UNCHANGED <<owner, cookie, stored>>

\* The callback of the sign-in, that sets the cookies.
SignIn(t, user) ==
  /\ ~tab[t].loaded
  /\ Len(owner) < MaxLogins
  /\ owner' = Append(owner, user)
  /\ cookie' = Len(owner) + 1
  /\ UNCHANGED <<stored, tab, unread, events>>

\* The button of the gate, when a session is there but no organization.
SignOut(t) ==
  /\ tab[t].loaded /\ ~tab[t].checking /\ ~tab[t].open /\ tab[t].session # 0
  /\ Happens
  /\ cookie' = 0
  /\ tab' = [tab EXCEPT ![t] = Away]
  /\ unread' = [unread EXCEPT ![t] = {}]
  /\ UNCHANGED <<owner, stored>>

SessionEnds ==
  /\ cookie # 0
  /\ Happens
  /\ cookie' = 0
  /\ UNCHANGED <<owner, stored, tab, unread>>

\* A page is loaded: the session is verified before anything is shown.
Load(t) ==
  /\ ~tab[t].loaded
  /\ tab' = [tab EXCEPT ![t] = [Away EXCEPT !.loaded = TRUE, !.attempt = "asked", !.heard = stored]]
  /\ UNCHANGED <<owner, cookie, stored, unread, events>>

\* OrganizationChoice.
Choose(t, organization) ==
  /\ tab[t].loaded /\ ~tab[t].checking /\ ~tab[t].open
  /\ organization \in OrganizationsOf(tab[t].session)
  /\ Settled /\ Happens
  /\ Store(t, "organization", organization)
  /\ tab' = [tab EXCEPT ![t] = Drawn(tab[t], stored')]
  /\ UNCHANGED <<owner, cookie>>

\* disconnectSession: to choose another organization.
Disconnect(t) ==
  /\ tab[t].open
  /\ Settled /\ Happens
  /\ Store(t, "organization", NoOrg)
  /\ tab' = [tab EXCEPT ![t] = Drawn(tab[t], stored')]
  /\ UNCHANGED <<owner, cookie>>

-----------------------------------------------------------------------------
(* The gate verifies the session; a later attempt makes it forget an earlier. *)

Refreshed(t) == [t EXCEPT !.attempt = "asked", !.answer = 0]

Focus(t) ==
  /\ tab[t].loaded
  /\ Happens
  /\ tab' = [tab EXCEPT ![t] = Gated(Refreshed(tab[t]), stored)]
  /\ UNCHANGED <<owner, cookie, stored, unread>>

\* Mutated: once the gate is open the session is not verified any more.
TimerUntilOpen(t) ==
  /\ tab[t].loaded /\ tab[t].attempt = "none" /\ ~tab[t].open
  /\ tab' = [tab EXCEPT ![t] = Gated(Refreshed(tab[t]), stored)]
  /\ UNCHANGED <<owner, cookie, stored, unread, events>>

\* Every minute: by then the attempt before has been answered or has failed.
Timer(t) ==
  /\ tab[t].loaded /\ tab[t].attempt = "none"
  /\ tab' = [tab EXCEPT ![t] = Gated(Refreshed(tab[t]), stored)]
  /\ UNCHANGED <<owner, cookie, stored, unread, events>>

\* The event of a change in another tab.
Hear(t, key) ==
  /\ key \in unread[t]
  /\ unread' = [unread EXCEPT ![t] = @ \ {key}]
  /\ tab' = [tab EXCEPT ![t] = Drawn(IF key = "marker" THEN Refreshed(tab[t]) ELSE tab[t],
                                          stored)]
  /\ UNCHANGED <<owner, cookie, stored, events>>

\* The route of the session: whose cookie is it, and of which organizations is
\* that user a member.
Answer(t) ==
  /\ tab[t].attempt = "asked"
  /\ tab' = [tab EXCEPT ![t].attempt = "answered", ![t].answer = cookie]
  /\ UNCHANGED <<owner, cookie, stored, unread, events>>

Fail(t) ==
  /\ tab[t].attempt = "asked"
  /\ Happens
  /\ tab' = [tab EXCEPT ![t].attempt = "answered", ![t].answer = 0]
  /\ UNCHANGED <<owner, cookie, stored, unread>>

\* The marker of the session is stored, or removed when there is none.
Verified(t) ==
  /\ tab[t].attempt = "answered"
  /\ Store(t, "marker", tab[t].answer)
  /\ tab' = [tab EXCEPT ![t] =
       Drawn([tab[t] EXCEPT !.session = tab[t].answer, !.checking = FALSE,
                            !.attempt = "none", !.answer = 0], stored')]
  /\ UNCHANGED <<owner, cookie, events>>

-----------------------------------------------------------------------------
(* Queries: the organization is that of the storage when the request is made, *)
(* the user that of the cookie when it is served.                            *)

\* Bound: one query, asked for once in a query client.
Fetch(t) ==
  /\ tab[t].open /\ tab[t].asked = {} /\ tab[t].data = {}
  /\ tab' = [tab EXCEPT ![t].asked = {[organization |-> stored.organization, mark |-> 0]}]
  /\ UNCHANGED <<owner, cookie, stored, unread, events>>

\* proxy: without a session, or for somebody else's organization, there is an
\* error.
Serve(t) ==
  \E r \in tab[t].asked :
    /\ r.mark = 0
    /\ tab' = [tab EXCEPT ![t].asked =
                 IF r.organization \in OrganizationsOf(cookie)
                 THEN {[r EXCEPT !.mark = cookie]} ELSE {}]
    /\ UNCHANGED <<owner, cookie, stored, unread, events>>

Fetched(t) ==
  \E r \in tab[t].asked :
    /\ r.mark # 0
    /\ tab' = [tab EXCEPT ![t].asked = {}, ![t].data = {r}]
    /\ UNCHANGED <<owner, cookie, stored, unread, events>>

-----------------------------------------------------------------------------
\* A browser with what an earlier session left in its storage.
Init ==
  /\ \E user \in Users : owner = <<user>>
  /\ cookie = 1
  /\ stored \in {r \in Stores : r.marker = 1 \/ r = [organization |-> NoOrg, marker |-> 0]}
  /\ tab = [t \in Tabs |-> Away]
  /\ unread = [t \in Tabs |-> {}]
  /\ events = 0

Next ==
  \/ SessionEnds
  \/ \E t \in Tabs :
       \/ Depart(t) \/ SignOut(t) \/ Load(t) \/ Disconnect(t) \/ Focus(t) \/ Timer(t)
       \/ Answer(t) \/ Fail(t) \/ Verified(t) \/ Fetch(t) \/ Serve(t) \/ Fetched(t)
       \/ \E user \in Users : SignIn(t, user)
       \/ \E organization \in Orgs : Choose(t, organization)
       \/ \E key \in Keys : Hear(t, key)

\* The browser delivers events, the server answers, the timer ticks.
Fairness ==
  \A t \in Tabs :
    /\ WF_vars(Timer(t)) /\ WF_vars(Answer(t)) /\ WF_vars(Verified(t))
    /\ \A key \in Keys : WF_vars(Hear(t, key))

Spec == Init /\ [][Next]_vars
FairSpec == Spec /\ Fairness

-----------------------------------------------------------------------------
\* A tab that has heard of the browser's session holds nothing that was fetched
\* under another one, a tab that knows of none holds nothing, and a tab that has
\* heard of the organization chosen nothing of another organization, whatever was
\* in flight when they changed (snapshot, AuthGate).
DataIsOfTheSession ==
  \A t \in Tabs :
    \A d \in tab[t].data :
      /\ tab[t].session # 0
      /\ cookie # 0 /\ tab[t].heard.marker = cookie => d.mark = cookie
      /\ tab[t].heard.organization = stored.organization => d.organization = stored.organization

\* In the end every tab knows the session the browser has, and shows nothing
\* if it has none.
SessionsConverge ==
  <>[](\A t \in Tabs : tab[t].loaded =>
         tab[t].session = cookie /\ stored.marker = cookie /\ (tab[t].open => cookie # 0))
=============================================================================
