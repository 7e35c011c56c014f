--------------------------- MODULE WebSessionProofs ---------------------------
(***************************************************************************)
(* That a tab holds nothing of a session or an organization it has heard   *)
(* the end of, for any number of tabs, users, organizations and sign-ins.  *)
(*                                                                         *)
(* A marker only ever grows, so that what was fetched in a scope was       *)
(* fetched under its marker or a later one, and under the browser's own    *)
(* if that is still the scope's.  A tab whose organization is not the one  *)
(* stored has an event to come, and the next click waits for it.           *)
(***************************************************************************)
EXTENDS WebSession, TLAPS

\* What a tab is due to the storage, the sign-ins so far and its events.
Tidy(t, store, n, waiting) ==
  /\ t \in TabStates
  /\ t.answer <= n
  /\ t.heard.marker <= n
  /\ t.attempt # "none" \/ waiting # {} => t.loaded
  /\ t.open => t.loaded /\ t.session # 0
  /\ ~t.open => t.data = {} /\ t.asked = {}
  /\ t.loaded /\ t.heard.organization # store.organization => "organization" \in waiting
  /\ \A r \in t.data : r.mark # 0
  /\ \A r \in t.data \cup t.asked :
       /\ r.mark # 0 => t.heard.marker <= r.mark /\ r.mark <= n
       /\ r.organization # t.heard.organization => t.heard.organization # store.organization

Tidiness == \A t \in Tabs : Tidy(tab[t], stored, Len(owner), unread[t])

IInv == TypeOK /\ Tidiness

-----------------------------------------------------------------------------
\* A tab that is drawn has heard of everything.
LEMMA DrawnIsTidy ==
  ASSUME NEW t \in TabStates, NEW store \in Stores, NEW n \in Nat, NEW waiting,
         t.loaded, t.answer <= n, store.marker <= n, n <= MaxLogins,
         \A r \in t.data : r.mark # 0,
         \A r \in t.data \cup t.asked :
           /\ r.mark # 0 => t.heard.marker <= r.mark /\ r.mark <= n
           /\ r.organization # t.heard.organization => t.heard.organization # store.organization
  PROVE  Tidy(Drawn(t, store), store, n, waiting)
<1> DEFINE d == Drawn(t, store)
<1> DEFINE same == authorizedSpace(t, store) /\ t.open /\ store = t.heard
<1>1. authorizedSpace(t, store) \in BOOLEAN
  BY DEF authorizedSpace
<1>2. d = [t EXCEPT !.heard = store, !.open = authorizedSpace(t, store),
                    !.data = IF same THEN t.data ELSE {}, !.asked = IF same THEN t.asked ELSE {}]
  BY DEF Drawn, snapshot
<1>3. /\ d \in TabStates
      /\ d.heard = store /\ d.open = authorizedSpace(t, store)
      /\ d.loaded = t.loaded /\ d.answer = t.answer /\ d.session = t.session
      /\ d.data = (IF same THEN t.data ELSE {}) /\ d.asked = (IF same THEN t.asked ELSE {})
  <2> HIDE DEF d, same
  <2> QED  BY <1>1, <1>2 DEF TabStates
<1>4. d.open => d.session # 0
  BY <1>3 DEF authorizedSpace
<1>5. \A r \in d.data \cup d.asked : r \in t.data \cup t.asked /\ t.heard = store /\ d.open
  BY <1>3
<1>6. \A r \in d.data : r.mark # 0
  BY <1>3
<1>7. \A r \in d.data \cup d.asked :
        /\ r.mark # 0 => d.heard.marker <= r.mark /\ r.mark <= n
        /\ r.organization # d.heard.organization => d.heard.organization # store.organization
  BY <1>3, <1>5
<1>8. ~d.open => d.data = {} /\ d.asked = {}
  BY <1>5
<1>9. Tidy(d, store, n, waiting)
  <2> HIDE DEF d
  <2> QED  BY <1>3, <1>4, <1>6, <1>7, <1>8 DEF Tidy
<1> QED  BY <1>9

\* A tab that has heard of the same, and holds the same.
LEMMA AlikeIsTidy ==
  ASSUME NEW t, NEW u \in TabStates, NEW store, NEW n \in Nat, NEW waiting,
         Tidy(t, store, n, waiting), t.loaded, u.loaded, u.answer <= n,
         u.open = t.open, u.session = t.session, u.heard = t.heard, u.data = t.data, u.asked = t.asked
  PROVE  Tidy(u, store, n, waiting)
<1>1. \A r \in u.data : r.mark # 0
  BY DEF Tidy
<1>2. \A r \in u.data \cup u.asked :
        /\ r.mark # 0 => u.heard.marker <= r.mark /\ r.mark <= n
        /\ r.organization # u.heard.organization => u.heard.organization # store.organization
  BY DEF Tidy
<1> QED  BY <1>1, <1>2 DEF Tidy

\* A tab of which the gate alone is drawn keeps to what it has heard of.
LEMMA GatedIsTidy ==
  ASSUME NEW t, NEW store \in Stores, NEW n \in Nat, NEW waiting, t.loaded,
         Tidy(t, store, n, waiting)
  PROVE  Tidy(Gated(t, store), store, n, waiting)
<1> DEFINE g == Gated(t, store)
<1> DEFINE same == authorizedSpace(t, store) /\ t.open
<1>1. authorizedSpace(t, store) \in BOOLEAN /\ t \in TabStates
  BY DEF authorizedSpace, Tidy
<1>2. g = [t EXCEPT !.open = authorizedSpace(t, store),
                    !.data = IF same THEN t.data ELSE {}, !.asked = IF same THEN t.asked ELSE {}]
  BY DEF Gated
<1>3. /\ g \in TabStates
      /\ g.heard = t.heard /\ g.open = authorizedSpace(t, store) /\ g.session = t.session
      /\ g.loaded = t.loaded /\ g.answer = t.answer
      /\ g.data = (IF same THEN t.data ELSE {}) /\ g.asked = (IF same THEN t.asked ELSE {})
  <2> HIDE DEF g, same
  <2> QED  BY <1>1, <1>2 DEF TabStates
<1>4. g.open => g.session # 0
  BY <1>3 DEF authorizedSpace
<1>5. (\A r \in g.data : r \in t.data) /\ (\A r \in g.asked : r \in t.asked)
  BY <1>3
<1>6. ~g.open => g.data = {} /\ g.asked = {}
  BY <1>3
<1>7. /\ \A r \in g.data : r.mark # 0
      /\ \A r \in g.data \cup g.asked :
           /\ r.mark # 0 => t.heard.marker <= r.mark /\ r.mark <= n
           /\ r.organization # t.heard.organization => t.heard.organization # store.organization
  <2> HIDE DEF g
  <2> QED  BY <1>5 DEF Tidy
<1>8. Tidy(g, store, n, waiting)
  <2> HIDE DEF g, same
  <2> QED  BY <1>3, <1>4, <1>6, <1>7 DEF Tidy
<1> QED  BY <1>8

\* Every user, organization and tab being what it is, the first state is tidy.
LEMMA InitTidy == Init => IInv
<1> SUFFICES ASSUME Init PROVE IInv
  OBVIOUS
<1>1. Len(owner) = 1 /\ owner \in Seq(Users)
  BY DEF Init
<1>2. Away \in TabStates /\ Away.answer = 0 /\ Away.heard.marker = 0 /\ ~Away.open /\ ~Away.loaded
        /\ Away.data = {} /\ Away.asked = {} /\ Away.attempt = "none"
  BY SessionAssumption DEF Away, TabStates, Stores, Markers, Items
<1>3. TypeOK
  BY <1>1, <1>2, SessionAssumption DEF Init, TypeOK, Keys
<1>4. Tidiness
  BY <1>1, <1>2 DEF Init, Tidiness, Tidy
<1> QED  BY <1>3, <1>4 DEF IInv
-----------------------------------------------------------------------------
\* A step of one tab that leaves the storage and the sign-ins as they are.
LEMMA OwnStep ==
  ASSUME IInv, NEW t \in Tabs, NEW next, Tidy(next, stored, Len(owner), unread'[t]),
         tab' = [tab EXCEPT ![t] = next], owner' = owner, stored' = stored,
         cookie' \in {0, Len(owner)}, events' \in 0..MaxEvents,
         unread' \in [Tabs -> SUBSET Keys], \A u \in Tabs \ {t} : unread'[u] = unread[u]
  PROVE  IInv'
<1>1. next \in TabStates
  BY DEF Tidy
<1>2. TypeOK'
  BY <1>1 DEF IInv, TypeOK
<1>3. ASSUME NEW u \in Tabs PROVE Tidy(tab'[u], stored, Len(owner), unread'[u])
  <2>1. CASE u = t
    BY <2>1 DEF IInv, TypeOK
  <2>2. CASE u # t
    BY <2>2 DEF IInv, TypeOK, Tidiness
  <2> QED  BY <2>1, <2>2
<1>4. Tidiness'
  <2> SUFFICES ASSUME NEW u \in Tabs PROVE Tidy(tab[u], stored, Len(owner), unread[u])'
    BY DEF Tidiness
  <2> QED  BY <1>3 DEF Tidy
<1> QED  BY <1>2, <1>4 DEF IInv

\* A tab that stores something and is drawn: the others keep what they have, and
\* the event tells them if they are left with another organization.
LEMMA StoreStep ==
  ASSUME IInv, NEW t \in Tabs, NEW key \in Keys, NEW value, Store(t, key, value),
         NEW now \in TabStates, tab' = [tab EXCEPT ![t] = Drawn(now, stored')],
         now.loaded, now.answer <= Len(owner), now.heard = tab[t].heard, now.data = tab[t].data,
         now.asked = tab[t].asked, stored' \in Stores, stored'.marker <= Len(owner),
         key = "organization" => Settled /\ tab[t].loaded,
         owner' = owner, cookie' = cookie, events' \in 0..MaxEvents
  PROVE  IInv'
<1>0. /\ Tidy(tab[t], stored, Len(owner), unread[t])
      /\ stored \in Stores /\ Len(owner) \in Nat /\ Len(owner) <= MaxLogins
  BY DEF IInv, TypeOK, Tidiness
<1>1. stored' = [stored EXCEPT ![key] = value]
  BY DEF Store
<1>2. unread' \in [Tabs -> SUBSET Keys]
  BY DEF Store, IInv, TypeOK
<1>3. \A u \in Tabs : unread[u] \subseteq unread'[u]
  BY DEF Store, IInv, TypeOK
<1>4. key = "marker" => stored'.organization = stored.organization
  BY <1>0, <1>1 DEF Stores
<1>5. Settled => \A u \in Tabs : tab[u].loaded => tab[u].heard.organization = stored.organization
  BY DEF Settled, IInv, Tidiness, Tidy
<1>6. \A r \in now.data \cup now.asked :
        r.organization # now.heard.organization => now.heard.organization # stored'.organization
  <2>1. CASE key = "marker"
    BY <2>1, <1>0, <1>4 DEF Tidy
  <2>2. CASE key = "organization"
    BY <2>2, <1>0, <1>5 DEF Tidy
  <2> QED  BY <2>1, <2>2 DEF Keys
<1>7. Tidy(Drawn(now, stored'), stored', Len(owner), unread'[t])
  <2>1. /\ \A r \in now.data : r.mark # 0
        /\ \A r \in now.data \cup now.asked :
             r.mark # 0 => now.heard.marker <= r.mark /\ r.mark <= Len(owner)
    BY <1>0 DEF Tidy
  <2> QED  BY <2>1, <1>0, <1>6, DrawnIsTidy
<1>8. ASSUME NEW u \in Tabs, u # t PROVE Tidy(tab[u], stored', Len(owner), unread'[u])
  <2>0. Tidy(tab[u], stored, Len(owner), unread[u])
    BY DEF IInv, Tidiness
  <2>1. unread'[u] # {} => tab[u].loaded
    BY <2>0, <1>8 DEF Store, Tidy
  <2>2. CASE key = "marker"
    BY <2>0, <2>1, <2>2, <1>3, <1>4 DEF Tidy
  <2>3. CASE key = "organization"
    <3>1. tab[u].loaded => tab[u].heard.organization = stored.organization
      BY <2>3, <1>5
    <3>2. tab[u].loaded /\ stored.organization # value => "organization" \in unread'[u]
      BY <2>3, <1>8 DEF Store
    <3>3. stored'.organization = value
      BY <2>3, <1>0, <1>1 DEF Stores
    <3>4. tab[u].loaded \/ (tab[u].data = {} /\ tab[u].asked = {})
      BY <2>0 DEF Tidy, TabStates
    <3> QED  BY <2>0, <3>1, <3>2, <3>3, <3>4, <2>1 DEF Tidy
  <2> QED  BY <2>2, <2>3 DEF Keys
<1>9. Drawn(now, stored') \in TabStates
  BY <1>7 DEF Tidy
<1>10. ASSUME NEW u \in Tabs PROVE Tidy(tab'[u], stored', Len(owner), unread'[u])
  <2>1. CASE u = t
    BY <2>1, <1>7, <1>9 DEF IInv, TypeOK
  <2>2. CASE u # t
    BY <2>2, <1>8, <1>9 DEF IInv, TypeOK
  <2> QED  BY <2>1, <2>2
<1>11. TypeOK'
  BY <1>2, <1>9 DEF IInv, TypeOK
<1>12. Tidiness'
  BY <1>10 DEF Tidiness, Tidy
<1> QED  BY <1>11, <1>12 DEF IInv

-----------------------------------------------------------------------------
LEMMA NextTidy == IInv /\ [Next]_vars => IInv'
<1> SUFFICES ASSUME IInv, [Next]_vars PROVE IInv'
  OBVIOUS
<1>0. /\ 0 \in Markers /\ Markers \subseteq Nat /\ MaxEvents \in Nat
      /\ TypeOK /\ Len(owner) \in Nat /\ Len(owner) \in Markers /\ Len(owner) <= MaxLogins
      /\ stored \in Stores /\ stored.marker \in Nat /\ stored.marker <= Len(owner)
      /\ cookie \in {0, Len(owner)} /\ events \in 0..MaxEvents
      /\ tab \in [Tabs -> TabStates] /\ unread \in [Tabs -> SUBSET Keys]
  BY SessionAssumption DEF IInv, TypeOK, Markers, Stores
<1>1. /\ \A t \in Tabs : tab[t] \in TabStates /\ unread[t] \subseteq Keys
      /\ \A t \in Tabs : Tidy(tab[t], stored, Len(owner), unread[t])
  BY <1>0 DEF IInv, Tidiness
<1>2. Away \in TabStates /\ \A w : w = {} => Tidy(Away, stored, Len(owner), w)
  <2>1. Away \in TabStates
    BY <1>0 DEF Away, TabStates, Stores, Items
  <2>2. /\ Away.answer = 0 /\ Away.heard.marker = 0 /\ ~Away.open /\ ~Away.loaded
        /\ Away.data = {} /\ Away.asked = {} /\ Away.attempt = "none"
    BY DEF Away
  <2> QED  BY <2>1, <2>2, <1>0 DEF Tidy
<1>3. ASSUME NEW t \in Tabs, tab[t].loaded
      PROVE  /\ Tidy(Gated(Refreshed(tab[t]), stored), stored, Len(owner), unread[t])
             /\ \A w : Tidy(Drawn(Refreshed(tab[t]), stored), stored, Len(owner), w)
  <2> DEFINE now == [tab[t] EXCEPT !.attempt = "asked", !.answer = 0]
  <2>1. /\ now \in TabStates /\ now.loaded /\ now.answer = 0 /\ now.data = tab[t].data
        /\ now.asked = tab[t].asked /\ now.heard = tab[t].heard
    BY <1>0, <1>1, <1>3 DEF TabStates
  <2>2. /\ \A r \in now.data : r.mark # 0
        /\ \A r \in now.data \cup now.asked :
             /\ r.mark # 0 => now.heard.marker <= r.mark /\ r.mark <= Len(owner)
             /\ r.organization # now.heard.organization => now.heard.organization # stored.organization
    BY <2>1, <1>1 DEF Tidy
  <2>3. ASSUME NEW w PROVE Tidy(Drawn(now, stored), stored, Len(owner), w)
    <3> HIDE DEF now
    <3> QED  BY <2>1, <2>2, <1>0, DrawnIsTidy
  <2>4. Tidy(now, stored, Len(owner), unread[t])
    <3>1. now.open = tab[t].open /\ now.session = tab[t].session
      BY <1>1 DEF TabStates
    <3>2. Tidy(tab[t], stored, Len(owner), unread[t]) /\ Len(owner) \in Nat
      BY <1>0, <1>1
    <3>3. now.answer <= Len(owner)
      BY <2>1, <3>2
    <3> HIDE DEF now
    <3> QED  BY <2>1, <3>1, <3>2, <3>3, <1>3, AlikeIsTidy
  <2>5. Tidy(Gated(now, stored), stored, Len(owner), unread[t])
    <3> HIDE DEF now
    <3> QED  BY <2>1, <2>4, <1>0, GatedIsTidy
  <2> QED  BY <2>3, <2>5 DEF Refreshed
<1>4. CASE SessionEnds
  BY <1>0, <1>1, <1>4 DEF SessionEnds, Happens, IInv, TypeOK, Tidiness
<1>5. ASSUME NEW t \in Tabs, Depart(t) \/ SignOut(t) PROVE IInv'
  <2>1. /\ tab' = [tab EXCEPT ![t] = Away] /\ unread' = [unread EXCEPT ![t] = {}]
        /\ owner' = owner /\ stored' = stored /\ cookie' \in {0, Len(owner)} /\ events' \in 0..MaxEvents
    BY <1>0, <1>5 DEF Depart, SignOut, Happens
  <2>2. /\ unread' \in [Tabs -> SUBSET Keys] /\ unread'[t] = {}
        /\ \A u \in Tabs \ {t} : unread'[u] = unread[u]
    BY <2>1, <1>0
  <2>3. Tidy(Away, stored, Len(owner), unread'[t])
    BY <2>2, <1>2
  <2> QED  BY <2>1, <2>2, <2>3, OwnStep
<1>7. ASSUME NEW t \in Tabs, NEW user \in Users, SignIn(t, user) PROVE IInv'
  <2>1. /\ owner' \in Seq(Users) /\ Len(owner') = Len(owner) + 1 /\ cookie' = Len(owner')
        /\ UNCHANGED <<stored, tab, unread, events>> /\ Len(owner) < MaxLogins
    BY <1>0, <1>7 DEF SignIn, TypeOK
  <2>2. TypeOK'
    BY <2>1, <1>0, SessionAssumption DEF TypeOK
  <2>3. ASSUME NEW u \in Tabs PROVE Tidy(tab[u], stored, Len(owner'), unread[u])
    <3>1. /\ tab[u].answer \in Nat /\ tab[u].heard.marker \in Nat
          /\ \A r \in tab[u].data \cup tab[u].asked : r.mark \in Nat
      BY <1>0, <1>1 DEF TabStates, Stores, Items
    <3> QED  BY <2>1, <3>1, <1>0, <1>1 DEF Tidy
  <2>4. Tidiness'
    BY <2>1, <2>3 DEF Tidiness, Tidy
  <2> QED  BY <2>2, <2>4 DEF IInv
<1>8. ASSUME NEW t \in Tabs, Load(t) PROVE IInv'
  <2> DEFINE next == [Away EXCEPT !.loaded = TRUE, !.attempt = "asked", !.heard = stored]
  <2>1. /\ next \in TabStates /\ next.answer = 0 /\ next.heard = stored /\ ~next.open /\ next.loaded
        /\ next.data = {} /\ next.asked = {}
    BY <1>0 DEF Away, TabStates
  <2>2. /\ tab' = [tab EXCEPT ![t] = next] /\ owner' = owner /\ stored' = stored
        /\ cookie' \in {0, Len(owner)} /\ events' \in 0..MaxEvents /\ unread' = unread
        /\ unread' \in [Tabs -> SUBSET Keys]
    BY <1>0, <1>8 DEF Load
  <2> HIDE DEF next
  <2>3. Tidy(next, stored, Len(owner), unread'[t])
    BY <2>1, <1>0 DEF Tidy
  <2> QED  BY <2>2, <2>3, OwnStep
<1>9. ASSUME NEW t \in Tabs, NEW organization \in Orgs \cup {NoOrg}, tab[t].loaded, Settled, Happens,
             Store(t, "organization", organization),
             tab' = [tab EXCEPT ![t] = Drawn(tab[t], stored')], UNCHANGED <<owner, cookie>>
      PROVE  IInv'
  <2>1. stored' \in Stores /\ stored'.marker = stored.marker
    BY <1>0, <1>9 DEF Store, Stores
  <2>2. tab[t].answer <= Len(owner)
    BY <1>1 DEF Tidy
  <2>3. events' \in 0..MaxEvents
    BY <1>0, <1>9 DEF Happens
  <2> QED  BY <2>1, <2>2, <2>3, <1>0, <1>1, <1>9, StoreStep DEF Keys
<1>10. ASSUME NEW t \in Tabs, NEW organization \in Orgs, Choose(t, organization) PROVE IInv'
  BY <1>9, <1>10 DEF Choose
<1>11. ASSUME NEW t \in Tabs, Disconnect(t) PROVE IInv'
  BY <1>1, <1>9, <1>11 DEF Disconnect, Tidy
<1>12. ASSUME NEW t \in Tabs, Focus(t) \/ Timer(t) PROVE IInv'
  BY <1>0, <1>3, <1>12, OwnStep DEF Focus, Timer, Happens
<1>13. ASSUME NEW t \in Tabs, NEW key \in Keys, Hear(t, key) PROVE IInv'
  <2>1. /\ tab[t].loaded /\ unread' = [unread EXCEPT ![t] = @ \ {key}]
        /\ owner' = owner /\ stored' = stored /\ cookie' \in {0, Len(owner)} /\ events' \in 0..MaxEvents
    BY <1>0, <1>1, <1>13 DEF Hear, Tidy
  <2>2. unread' \in [Tabs -> SUBSET Keys] /\ \A u \in Tabs \ {t} : unread'[u] = unread[u]
    BY <2>1, <1>0
  <2>3. CASE key = "marker"
    <3>1. Tidy(Drawn(Refreshed(tab[t]), stored), stored, Len(owner), unread'[t])
      BY <2>1, <1>3
    <3> QED  BY <3>1, <2>1, <2>2, <2>3, <1>13, OwnStep DEF Hear
  <2>4. CASE key # "marker"
    <3>1. Tidy(Drawn(tab[t], stored), stored, Len(owner), unread'[t])
      BY <2>1, <1>0, <1>1, DrawnIsTidy DEF Tidy
    <3> QED  BY <3>1, <2>1, <2>2, <2>4, <1>13, OwnStep DEF Hear
  <2> QED  BY <2>3, <2>4
<1>14. ASSUME NEW t \in Tabs, NEW next \in TabStates, tab[t].loaded, next.answer <= Len(owner), next.loaded,
              next.open = tab[t].open, next.session = tab[t].session,
              next.heard = tab[t].heard, next.data = tab[t].data, next.asked = tab[t].asked,
              tab' = [tab EXCEPT ![t] = next], events' \in 0..MaxEvents,
              UNCHANGED <<owner, cookie, stored, unread>>
       PROVE  IInv'
  <2>1. Tidy(next, stored, Len(owner), unread'[t])
    BY <1>1, <1>14 DEF Tidy
  <2> QED  BY <2>1, <1>0, <1>14, OwnStep
<1>15. ASSUME NEW t \in Tabs, Answer(t) \/ Fail(t) PROVE IInv'
  <2>1. PICK a \in {0, cookie} : tab' = [tab EXCEPT ![t].attempt = "answered", ![t].answer = a]
    BY <1>15 DEF Answer, Fail
  <2> DEFINE next == [tab[t] EXCEPT !.attempt = "answered", !.answer = a]
  <2>2. tab[t].loaded /\ a \in Markers /\ a <= Len(owner)
    BY <1>0, <1>1, <1>15 DEF Answer, Fail, Tidy
  <2>3. /\ next \in TabStates /\ next.answer = a /\ next.loaded /\ next.open = tab[t].open
        /\ next.session = tab[t].session /\ next.heard = tab[t].heard /\ next.data = tab[t].data /\ next.asked = tab[t].asked
    BY <2>2, <1>1 DEF TabStates
  <2>4. tab' = [tab EXCEPT ![t] = next]
    BY <2>1, <1>0
  <2>5. events' \in 0..MaxEvents /\ UNCHANGED <<owner, cookie, stored, unread>>
    BY <1>0, <1>15 DEF Answer, Fail, Happens
  <2> HIDE DEF next
  <2> QED  BY <2>2, <2>3, <2>4, <2>5, <1>14
<1>16. ASSUME NEW t \in Tabs, Verified(t) PROVE IInv'
  <2> DEFINE now == [tab[t] EXCEPT !.session = tab[t].answer, !.checking = FALSE,
                                   !.attempt = "none", !.answer = 0]
  <2>1. /\ now \in TabStates /\ now.answer = 0 /\ now.loaded /\ now.heard = tab[t].heard
        /\ now.data = tab[t].data /\ now.asked = tab[t].asked
    BY <1>0, <1>1, <1>16 DEF Verified, Tidy, TabStates
  <2>2. stored' \in Stores /\ stored'.marker <= Len(owner)
    BY <1>0, <1>1, <1>16 DEF Verified, Store, Tidy, TabStates, Stores
  <2>3. tab' = [tab EXCEPT ![t] = Drawn(now, stored')] /\ Store(t, "marker", tab[t].answer)
        /\ owner' = owner /\ cookie' = cookie /\ events' \in 0..MaxEvents
    BY <1>0, <1>16 DEF Verified
  <2> HIDE DEF now
  <2>4. now.answer <= Len(owner) /\ "marker" \in Keys /\ "marker" # "organization"
    BY <2>1, <1>0 DEF Keys
  <2> QED  BY <2>1, <2>2, <2>3, <2>4, StoreStep
<1>17. ASSUME NEW t \in Tabs, NEW next \in TabStates, tab[t].open, next.open = tab[t].open,
              next.loaded = tab[t].loaded, next.answer = tab[t].answer, next.heard = tab[t].heard,
              next.session = tab[t].session,
              tab' = [tab EXCEPT ![t] = next],
              UNCHANGED <<owner, cookie, stored, unread, events>>,
              \A r \in next.data : r.mark # 0,
              \A r \in next.data \cup next.asked :
                /\ r.mark # 0 => tab[t].heard.marker <= r.mark /\ r.mark <= Len(owner)
                /\ r.organization # tab[t].heard.organization
                     => tab[t].heard.organization # stored.organization
       PROVE  IInv'
  <2>1. Tidy(next, stored, Len(owner), unread[t])
    BY <1>1, <1>17 DEF Tidy
  <2> QED  BY <2>1, <1>0, <1>17, OwnStep
<1>18. ASSUME NEW t \in Tabs, Fetch(t) PROVE IInv'
  <2> DEFINE r == [organization |-> stored.organization, mark |-> 0]
             next == [tab[t] EXCEPT !.asked = {r}]
  <2>1. r \in Items /\ r.mark = 0 /\ r.organization = stored.organization
    BY <1>0 DEF Items, Stores
  <2>2. tab[t].open /\ tab[t].data = {} /\ tab' = [tab EXCEPT ![t] = next]
    BY <1>0, <1>18 DEF Fetch
  <2>3. /\ next \in TabStates /\ next.open = tab[t].open /\ next.loaded = tab[t].loaded
        /\ next.answer = tab[t].answer /\ next.session = tab[t].session
        /\ next.heard = tab[t].heard /\ next.data = tab[t].data
        /\ next.asked = {r}
    <3> HIDE DEF r
    <3> QED  BY <2>1, <1>1 DEF TabStates
  <2>4. UNCHANGED <<owner, cookie, stored, unread, events>>
    BY <1>18 DEF Fetch
  <2> HIDE DEF r, next
  <2> QED  BY <2>1, <2>2, <2>3, <2>4, <1>17
<1>19. ASSUME NEW t \in Tabs, Serve(t) PROVE IInv'
  <2>1. PICK r \in tab[t].asked :
          /\ r.mark = 0
          /\ tab' = [tab EXCEPT ![t].asked =
                       IF r.organization \in OrganizationsOf(cookie) THEN {[r EXCEPT !.mark = cookie]} ELSE {}]
    BY <1>19 DEF Serve
  <2>2. tab[t].open /\ r \in Items
    BY <1>1 DEF Tidy, TabStates
  <2> DEFINE s == [r EXCEPT !.mark = cookie]
             asked == IF r.organization \in OrganizationsOf(cookie) THEN {s} ELSE {}
             next == [tab[t] EXCEPT !.asked = asked]
  <2>3. /\ s \in Items /\ s.mark = cookie /\ s.organization = r.organization
        /\ r.organization \in OrganizationsOf(cookie) => cookie = Len(owner)
    BY <2>2, <1>0 DEF Items, OrganizationsOf
  <2>4. tab' = [tab EXCEPT ![t] = next]
    BY <2>1, <1>0
  <2>5. UNCHANGED <<owner, cookie, stored, unread, events>>
    BY <1>19 DEF Serve
  <2> HIDE DEF s
  <2>6. asked \in SUBSET Items
    BY <2>3
  <2>7. \A q \in asked : q = s /\ cookie = Len(owner)
    BY <2>3
  <2> HIDE DEF asked
  <2>8. /\ next \in TabStates /\ next.open = tab[t].open /\ next.loaded = tab[t].loaded
        /\ next.answer = tab[t].answer /\ next.session = tab[t].session
        /\ next.heard = tab[t].heard /\ next.data = tab[t].data
        /\ next.asked = asked
    BY <2>6, <1>1 DEF TabStates
  <2> HIDE DEF next
  <2>9. /\ \A q \in next.data : q.mark # 0
        /\ \A q \in next.data \cup next.asked :
             /\ q.mark # 0 => tab[t].heard.marker <= q.mark /\ q.mark <= Len(owner)
             /\ q.organization # tab[t].heard.organization
                  => tab[t].heard.organization # stored.organization
    BY <2>3, <2>7, <2>8, <1>0, <1>1 DEF Tidy
  <2> QED  BY <2>2, <2>4, <2>5, <2>8, <2>9, <1>17
<1>20. ASSUME NEW t \in Tabs, Fetched(t) PROVE IInv'
  <2>1. PICK r \in tab[t].asked : r.mark # 0 /\ tab' = [tab EXCEPT ![t].asked = {}, ![t].data = {r}]
    BY <1>20 DEF Fetched
  <2> DEFINE next == [tab[t] EXCEPT !.asked = {}, !.data = {r}]
  <2>2. tab[t].open /\ r \in Items
    BY <1>1 DEF Tidy, TabStates
  <2>3. /\ tab[t].heard.marker <= r.mark /\ r.mark <= Len(owner)
        /\ r.organization # tab[t].heard.organization => tab[t].heard.organization # stored.organization
    BY <2>1, <1>1 DEF Tidy
  <2>4. tab' = [tab EXCEPT ![t] = next] /\ UNCHANGED <<owner, cookie, stored, unread, events>>
    BY <2>1, <1>0, <1>20 DEF Fetched
  <2>5. /\ next \in TabStates /\ next.open = tab[t].open /\ next.loaded = tab[t].loaded
        /\ next.answer = tab[t].answer /\ next.session = tab[t].session
        /\ next.heard = tab[t].heard /\ next.data = {r}
        /\ next.asked = {}
    BY <2>2, <1>1 DEF TabStates
  <2> HIDE DEF next
  <2>6. r.mark # 0
    BY <2>1
  <2>7. /\ \A q \in next.data : q.mark # 0
        /\ \A q \in next.data \cup next.asked :
             /\ q.mark # 0 => tab[t].heard.marker <= q.mark /\ q.mark <= Len(owner)
             /\ q.organization # tab[t].heard.organization
                  => tab[t].heard.organization # stored.organization
    BY <2>3, <2>5, <2>6
  <2> QED  BY <2>2, <2>4, <2>5, <2>7, <1>17
<1>21. CASE UNCHANGED vars
  BY <1>21 DEF vars, IInv, TypeOK, Tidiness, Tidy
<1> QED
  BY <1>4, <1>5, <1>7, <1>8, <1>10, <1>11, <1>12, <1>13, <1>15, <1>16, <1>18, <1>19, <1>20, <1>21
  DEF Next

\* The storage, the tabs and what they have fetched are of the shapes they are
\* meant to be, and the browser's session is none or the last one signed in to.
THEOREM TypeCorrect == Spec => []TypeOK
<1>1. Spec => []IInv
  BY InitTidy, NextTidy, PTL DEF Spec
<1> QED  BY <1>1, PTL DEF IInv

\* Whatever was in flight when somebody signed in or another organization was
\* chosen, a tab that has heard of it shows nothing of the one before.
THEOREM DataOfTheSession == Spec => []DataIsOfTheSession
<1>1. Spec => []IInv
  BY InitTidy, NextTidy, PTL DEF Spec
<1>2. IInv => DataIsOfTheSession
  <2> SUFFICES ASSUME IInv, NEW t \in Tabs, NEW d \in tab[t].data
               PROVE  /\ tab[t].session # 0
                      /\ cookie # 0 /\ tab[t].heard.marker = cookie => d.mark = cookie
                      /\ tab[t].heard.organization = stored.organization
                           => d.organization = stored.organization
    BY DEF DataIsOfTheSession
  <2>1. Tidy(tab[t], stored, Len(owner), unread[t]) /\ cookie \in {0, Len(owner)} /\ d \in Items
    BY DEF IInv, Tidiness, TypeOK, Tidy, TabStates
  <2>2. /\ tab[t].session # 0 /\ tab[t].heard.marker <= d.mark /\ d.mark <= Len(owner)
        /\ d.organization # tab[t].heard.organization => tab[t].heard.organization # stored.organization
    BY <2>1 DEF Tidy
  <2>3. cookie # 0 /\ tab[t].heard.marker = cookie => d.mark = cookie
    BY <2>1, <2>2, SessionAssumption DEF IInv, TypeOK, Items, Markers
  <2> QED  BY <2>2, <2>3
<1> QED  BY <1>1, <1>2, PTL
=============================================================================
