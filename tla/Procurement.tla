----------------------------- MODULE Procurement -----------------------------
(***************************************************************************)
(* PurchaseOrderCommandService of apps/api/app/procurement/services.py     *)
(* while its commands run against each other.  A command is one READ       *)
(* COMMITTED transaction: it takes the rows it locks one after the other,  *)
(* reads each when it has it, counts what the sales lines have left one    *)
(* statement per line, and writes at its commit from what it has read.     *)
(* Other transactions commit in between.                                   *)
(*                                                                         *)
(* The commands' keys and document numbers are those of OrderCreation.     *)
(***************************************************************************)
EXTENDS PurchaseBook

CONSTANT Sessions  \* bound: the transactions that run at once

VARIABLES
  request,  \* the command a session runs, None when it runs none
  locks,    \* the rows it has locked: its sales order, its purchase
  state,    \* the sales order's status, as it was read
  row,      \* the purchase, as it was read
  counted   \* per line, the committed quantity as it was counted

sessionVars == <<request, locks, state, row, counted>>
vars == <<bookVars, sessionVars>>

Kinds == Decisions \cup {"create", "cancel", "amend", "receive", "close"}

\* seen: the purchase on the client's page, whose version the request names.
Requests == [kind : Kinds, purchase : Purchases \cup {None}, lines : [Lines -> Nat],
             seen : Rows]

Idle(a) == request[a] = None
Kind(a) == request[a].kind
Purchase(a) == request[a].purchase
Wanted(a) == request[a].lines

Uncounted == [l \in Lines |-> None]

TypeOKConcurrent ==
  /\ TypeOK
  /\ request \in [Sessions -> Requests \cup {None}]
  /\ locks \in [Sessions -> SUBSET {"sales", "purchase"}]
  /\ state \in [Sessions -> SalesStatus \cup {None}]
  /\ row \in [Sessions -> Rows]
  /\ counted \in [Sessions -> [Lines -> Nat \cup {None}]]
  /\ \A a \in Sessions :
       IF Idle(a) THEN locks[a] = {}
       ELSE /\ Kind(a) = "create" <=> Purchase(a) = None
            /\ "purchase" \in locks[a] => "sales" \in locks[a] \/ Kind(a) \in {"receive", "close"}

InitConcurrent ==
  /\ Init
  /\ request = [a \in Sessions |-> None]
  /\ locks = [a \in Sessions |-> {}]
  /\ state = [a \in Sessions |-> None]
  /\ row = [a \in Sessions |-> Blank]
  /\ counted = [a \in Sessions |-> Uncounted]

-----------------------------------------------------------------------------
(* Requests. *)

\* Bound: nobody asks for a draft when there are no more purchases.
Left == \E n \in Purchases : ~Exists(n)

Send(a, kind, p, lines) ==
  /\ Idle(a)
  /\ kind \in {"create", "amend"} => Left
  /\ request' = [request EXCEPT ![a] =
       [kind |-> kind, purchase |-> p, lines |-> lines,
        seen |-> IF p = None THEN Blank ELSE purchases[p]]]
  /\ UNCHANGED <<bookVars, locks, state, row, counted>>

\* A client asks for what the purchase on its page permits; anything else is
\* refused, or is for a version that no longer is.
Ask(a) ==
  \/ \E lines \in RequestedLines : Send(a, "create", None, lines)
  \/ \E p \in Purchases :
       \/ \E d \in Decisions : MayDecide(sales, purchases[p], d) /\ Send(a, d, p, NoLines)
       \/ MayCancel(sales, purchases[p]) /\ Send(a, "cancel", p, NoLines)
       \/ MayClose(purchases[p]) /\ Send(a, "close", p, NoLines)
       \/ \E lines \in RequestedLines :
            \/ MayReceive(purchases[p], lines) /\ Send(a, "receive", p, lines)
            \/ MayCancel(sales, purchases[p]) /\ Send(a, "amend", p, lines)

-----------------------------------------------------------------------------
(* Locks, held until the transaction ends.                                 *)

\* Mutant: a cancellation or replacement locks its purchase only.
LocksPurchaseOnly(kind) ==
  CASE kind = "create" -> {"sales"}
    [] kind \in {"receive", "close", "cancel", "amend"} -> {"purchase"}
    [] OTHER -> {"sales", "purchase"}

\* Mutant: decisions lock their purchase only (before ADR-024).
DecisionsLockPurchaseOnly(kind) ==
  CASE kind = "create" -> {"sales"}
    [] kind \in {"receive", "close"} \cup Decisions -> {"purchase"}
    [] OTHER -> {"sales", "purchase"}

\* Receipts and closings leave the sales order alone.
Locks(kind) ==
  CASE kind = "create" -> {"sales"}
    [] kind \in {"receive", "close"} -> {"purchase"}
    [] OTHER -> {"sales", "purchase"}

\* Mutant: decisions lock the purchase first.
FirstReversed(kind, lock) ==
  IF kind \in Decisions THEN IF lock = "sales" THEN {"purchase"} ELSE {}
  ELSE IF lock = "purchase" THEN Locks(kind) \ {"purchase"} ELSE {}

\* What a command locks before a lock: the sales order comes first.
First(kind, lock) == IF lock = "purchase" THEN Locks(kind) \ {"purchase"} ELSE {}

\* Mutant: SELECT without FOR UPDATE.
PurchaseUnlocked(p) == TRUE

SalesFree == \A b \in Sessions : "sales" \notin locks[b]
PurchaseFree(p) ==
  \A b \in Sessions : "purchase" \in locks[b] => Purchase(b) # p

MayLock(a, lock) ==
  /\ ~Idle(a)
  /\ lock \in Locks(Kind(a)) \ locks[a]
  /\ First(Kind(a), lock) \subseteq locks[a]

LockSales(a) ==
  /\ MayLock(a, "sales")
  /\ SalesFree
  /\ locks' = [locks EXCEPT ![a] = @ \cup {"sales"}]
  /\ state' = [state EXCEPT ![a] = sales]
  /\ UNCHANGED <<bookVars, request, row, counted>>

LockPurchase(a) ==
  /\ MayLock(a, "purchase")
  /\ PurchaseFree(Purchase(a))
  /\ locks' = [locks EXCEPT ![a] = @ \cup {"purchase"}]
  /\ row' = [row EXCEPT ![a] = purchases[Purchase(a)]]
  /\ UNCHANGED <<bookVars, request, state, counted>>

Locked(a) == ~Idle(a) /\ locks[a] = Locks(Kind(a))

-----------------------------------------------------------------------------
(* Checks and counts under the locks.                                      *)

\* _check_version, on the row that was read.
VersionSeen(a) == row[a].version = request[a].seen.version

Allowed(a) ==
  CASE Kind(a) = "create" -> MayDraft(state[a])
    [] Kind(a) \in Decisions -> VersionSeen(a) /\ MayDecide(state[a], row[a], Kind(a))
    [] Kind(a) = "cancel" -> VersionSeen(a) /\ MayCancel(state[a], row[a])
    [] Kind(a) = "amend" ->
         VersionSeen(a) /\ MayCancel(state[a], row[a]) /\ MayDraft(state[a])
    [] Kind(a) = "receive" -> VersionSeen(a) /\ MayReceive(row[a], Wanted(a))
    [] Kind(a) = "close" -> VersionSeen(a) /\ MayClose(row[a])

\* What a session's statements see: the book, and its own cancellation.
View(a) ==
  IF Kind(a) = "amend" THEN [purchases EXCEPT ![Purchase(a)] = Cancelled(row[a])]
  ELSE purchases

Drafts(a) == Kind(a) \in {"create", "amend"}
Counts(a) == {l \in Lines : Drafts(a) /\ Wanted(a)[l] > 0}

Count(a, l) ==
  /\ Locked(a) /\ Allowed(a)
  /\ l \in Counts(a) /\ counted[a][l] = None
  /\ counted' = [counted EXCEPT ![a][l] = Committed(View(a), l)]
  /\ UNCHANGED <<bookVars, request, locks, state, row>>

Exceeds(a, l) == counted[a][l] # None /\ ~(counted[a][l] + Wanted(a)[l] <= Ordered[l])
Enough(a) == \A l \in Counts(a) : counted[a][l] # None /\ ~Exceeds(a, l)

-----------------------------------------------------------------------------
(* The end of a transaction.                                               *)

Release(a) ==
  /\ request' = [request EXCEPT ![a] = None]
  /\ locks' = [locks EXCEPT ![a] = {}]
  /\ state' = [state EXCEPT ![a] = None]
  /\ row' = [row EXCEPT ![a] = Blank]
  /\ counted' = [counted EXCEPT ![a] = Uncounted]

\* The version that was read is the version written over: else StaleDataError.
Current(a) == purchases[Purchase(a)].version = row[a].version

MayCommit(a) == Locked(a) /\ Allowed(a) /\ Enough(a)

CommitCreate(a) ==
  /\ MayCommit(a) /\ Kind(a) = "create"
  /\ \E n \in Purchases : ~Exists(n) /\ Put(n, Draft(Wanted(a), None))
  /\ Release(a)

CommitAmend(a) ==
  /\ MayCommit(a) /\ Kind(a) = "amend" /\ Current(a)
  /\ \E n \in Purchases :
       /\ ~Exists(n)
       /\ purchases' = [View(a) EXCEPT ![n] = Draft(Wanted(a), Purchase(a))]
  /\ UNCHANGED sales
  /\ Release(a)

\* The row that a command on one purchase writes.
Written(a) ==
  CASE Kind(a) \in Decisions -> Decided(row[a], Kind(a))
    [] Kind(a) = "cancel" -> Cancelled(row[a])
    [] Kind(a) = "receive" -> Received(row[a], Wanted(a))
    [] Kind(a) = "close" -> Closed(row[a])

CommitRow(a) ==
  /\ MayCommit(a) /\ ~Drafts(a) /\ Current(a)
  /\ Put(Purchase(a), Written(a))
  /\ Release(a)

\* A check fails: the command is answered with an error and rolled back.
Refuse(a) ==
  /\ Locked(a)
  /\ \/ ~Allowed(a)
     \/ \E l \in Counts(a) : Exceeds(a, l)
     \/ Kind(a) # "create" /\ ~Current(a)
     \/ Drafts(a) /\ ~Left  \* the bound on purchases
  /\ Release(a)
  /\ UNCHANGED bookVars

\* The API process dies or the connection is lost.
Rollback(a) == ~Idle(a) /\ Release(a) /\ UNCHANGED bookVars

Run(a) ==
  \/ (\E l \in Lines : Count(a, l))
  \/ CommitCreate(a) \/ CommitAmend(a) \/ CommitRow(a) \/ Refuse(a)

NextConcurrent ==
  \/ Advance /\ SalesFree /\ UNCHANGED sessionVars
  \/ \E a \in Sessions : Ask(a) \/ LockSales(a) \/ LockPurchase(a) \/ Run(a) \/ Rollback(a)

SpecConcurrent == InitConcurrent /\ [][NextConcurrent]_vars

-----------------------------------------------------------------------------
(* Properties. *)

\* The locks are enough: the sales order's status, the purchase and the committed
\* quantities that a transaction has read are still so when it writes, though
\* receipts and closings of other purchases commit without the sales order's lock.
ReadsStayTrue ==
  \A a \in Sessions :
    /\ "sales" \in locks[a] => state[a] = sales
    /\ "purchase" \in locks[a] => row[a] = purchases[Purchase(a)]
    /\ \A l \in Lines : counted[a][l] # None => counted[a][l] = Committed(View(a), l)

\* A version tells the whole row: a command that is about to be committed finds the
\* purchase exactly as its sender saw it, status, lines and receipts (ADR-024).
DecidedAsSeen ==
  \A a \in Sessions :
    MayCommit(a) /\ Kind(a) # "create" => purchases[Purchase(a)] = request[a].seen

\* Concurrent commands do what commands one after the other would.
ImplementsPurchaseBook == Spec

\* Commands that wait for each other's rows never wait in a circle, whatever rows
\* they are for: the database has none of them to kill (_begin_decision, _change).
WaitsFor(a, b) ==
  \/ MayLock(a, "sales") /\ "sales" \in locks[b]
  \/ MayLock(a, "purchase") /\ "purchase" \in locks[b] /\ Purchase(a) = Purchase(b)
NobodyWaitsInACircle ==
  \A S \in SUBSET Sessions : S # {} => \E a \in S : \A b \in S : ~WaitsFor(a, b)

=============================================================================
