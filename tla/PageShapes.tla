------------------------------ MODULE PageShapes ------------------------------
(***************************************************************************)
(* The shapes of the tables Workbench reads.  The modules of the features  *)
(* say with EXCEPT in what a form or a handler differs from the plain one. *)
(***************************************************************************)

\* A form of a page: the command it sends, the permissions the page asks for
\* before it offers it, and the statuses it is offered in.
\*   key        "payload": kept while what is sent is the same; "form": one per
\*              form, whatever it holds; "fresh": one per request; "none"
\*   keeps      the key is kept in a "ref", or in the "state" of the component, which
\*              the submit handler reads as it was when the page was last drawn
\*   bare       there is nothing to enter
\*   rekeys     every change of a field takes a new key
\*   signs      the payload the key is kept for holds the version
\*   version    the request names the version the form was "opened" on, the one
\*              "shown" when it is sent, or "none"
\*   fills      the form starts from the values of the record
\*   guard      a second press is stopped by a "ref", or by the button once it
\*              is "drawn" disabled
\*   leaves     the form goes when the page shows another version
\*   lasts      the statuses in which the form, once open, is there though it is
\*              not offered
\*   holds      the form stays, once open, whatever status the page shows
\*   asIs       after an error a button sends the last request again as it was
\*   after      success makes the form "close", "renew" its key, or "stay"
\*   refreshes  the queries fetched again on success
Form(page, command, needs, offered) ==
  [page |-> page, command |-> command, needs |-> needs, offered |-> offered,
   key |-> "none", keeps |-> "ref", bare |-> FALSE, rekeys |-> FALSE, signs |-> TRUE,
   version |-> "none", fills |-> FALSE, guard |-> "drawn", leaves |-> FALSE, lasts |-> {},
   holds |-> FALSE, asIs |-> FALSE, after |-> "stay", refreshes |-> {}]

\* A handler of the server: the permissions it requires, the statuses it takes
\* the record from and the one it leaves.  The order in which it refuses on the
\* version and on the status makes no difference here.
\*   checks     it compares the "version" the request names, only which row it is
\*              about ("edition"), or "no" version
\*   bumps      it changes the record itself
\*   renews     it puts another row in the place of the record
\*   already    the statuses in which it answers without doing anything, before it
\*              looks at the version; settled: after
\*   unique     a content done before "refuses" or "returns", or is done again
\*   writes     the data it changes
Handler(page, needs, from, to) ==
  [page |-> page, needs |-> needs, from |-> from, to |-> to, checks |-> "no",
   bumps |-> TRUE, renews |-> FALSE, already |-> {}, settled |-> {}, unique |-> "no", writes |-> {}]

\* A record without a life cycle, or a list that new records are added to.
Kept == {"kept"}
Adds(page, needs, writes) == [Handler(page, needs, Kept, "same") EXCEPT !.bumps = FALSE, !.writes = writes]

\* A page: the query that shows its record, what each query mounted on it
\* reads, the status a record begins in, the statuses in which nothing is left
\* to do, and the moves other parts of the system make.  A query of "keyed" is
\* asked for by the version of the record.
Shows(main, views, start, rest, moves) ==
  [main |-> main, views |-> views, keyed |-> {}, start |-> start, rest |-> rest, moves |-> moves]
Lists(main, views) == Shows(main, views, "kept", Kept, {})

Move(from, to) == [from |-> from, to |-> to, bumps |-> TRUE]

\* A move of another record this one depends on.
Overtaken(from, to) == [Move(from, to) EXCEPT !.bumps = FALSE]

\* A handler that looks at the version the request names.
Versioned(handler) == [handler EXCEPT !.checks = "version"]

\* A form that keeps a key for what is sent (useRetryKey and its likes).
Keyed(form) == [form EXCEPT !.key = "payload"]

\* The same with useState.
KeyedInState(form) == [Keyed(form) EXCEPT !.keeps = "state"]

\* A form filled from the record, that sends the version it was filled from.
Edits(form) == [form EXCEPT !.version = "opened", !.fills = TRUE]

\* The same pages with another record in the foreground.
About(page, main, start, rest, moves) == Shows(main, page.views, start, rest, moves)
=============================================================================
