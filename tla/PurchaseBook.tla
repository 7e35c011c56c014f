---------------------------- MODULE PurchaseBook -----------------------------
(***************************************************************************)
(* The purchase orders of one sales order as apps/api/app/procurement      *)
(* promises to keep them: each command of PurchaseOrderCommandService as   *)
(* one step on the book, without its locks.  Procurement runs the same     *)
(* commands concurrently.                                                  *)
(*                                                                         *)
(* Supplier, prices, references and dates are left out: no command decides *)
(* on them.  A command that is refused, or answered from its key's receipt,*)
(* changes nothing and is no step.                                         *)
(***************************************************************************)
EXTENDS Naturals, FiniteSets, Functions

CONSTANTS
  Lines,        \* sales_order_items of the sales order
  Ordered,      \* the ordered quantity of a line
  Purchases,    \* purchase_orders; bound: how many are ever created
  MaxQuantity,  \* bound: the largest quantity that a request names
  None

ASSUME PurchaseAssumption ==
  /\ Ordered \in [Lines -> Nat]
  /\ MaxQuantity \in Nat
  /\ None \notin Purchases
  /\ IsFiniteSet(Purchases)

VARIABLES
  sales,     \* sales_orders.status
  purchases  \* purchase_orders with their purchase_order_items

bookVars == <<sales, purchases>>

\* EXECUTING stands for DEPOSIT_PENDING too, SHIPPED for READY_TO_SHIP too:
\* procurement does not tell them apart.
SalesStatus == {"DRAFT", "EXECUTING", "SHIPPED", "COMPLETED"}
PurchaseStatus == {"ABSENT", "DRAFT", "APPROVED", "SENT", "CONFIRMED",
                   "PARTIALLY_RECEIVED", "RECEIVED", "CLOSED", "CANCELLED"}

\* A line that a purchase does not have is one of quantity zero.
Rows == [status : PurchaseStatus, version : Nat,
         quantity : [Lines -> Nat], received : [Lines -> Nat],
         replaces : Purchases \cup {None}]

NoLines == [l \in Lines |-> 0]
Blank == [status |-> "ABSENT", version |-> 0, quantity |-> NoLines,
          received |-> NoLines, replaces |-> None]
RequestedLines == [Lines -> 0..MaxQuantity] \ {NoLines}

TypeOK ==
  /\ sales \in SalesStatus
  /\ purchases \in [Purchases -> Rows]
  /\ \A p \in Purchases, l \in Lines :
       purchases[p].received[l] <= purchases[p].quantity[l]

Init == sales = "DRAFT" /\ purchases = [p \in Purchases |-> Blank]

Exists(p) == purchases[p].status # "ABSENT"

-----------------------------------------------------------------------------
(* What a sales line has left.                                             *)

\* Mutant: a cancelled purchase no longer counts what was received of it.
ContributionUnlessCancelled(row, l) ==
  IF row.status = "CANCELLED" THEN 0 ELSE row.quantity[l]

\* A cancelled purchase keeps what was received of it.
Contribution(row, l) ==
  IF row.status = "CANCELLED" THEN row.received[l] ELSE row.quantity[l]

\* _committed_quantity.
Committed(view, l) ==
  FoldFunction(+, 0, [p \in Purchases |-> Contribution(view[p], l)])

Fits(view, lines) ==
  \A l \in Lines : lines[l] > 0 => Committed(view, l) + lines[l] <= Ordered[l]

-----------------------------------------------------------------------------
(* The conditions and effects of the commands on a sales order and a row.  *)

MayDraft(state) == state = "EXECUTING"
Draft(lines, old) ==
  [status |-> "DRAFT", version |-> 1, quantity |-> lines, received |-> NoLines,
   replaces |-> old]

Decisions == {"approve", "send", "confirm"}
Source == [approve |-> "DRAFT", send |-> "APPROVED", confirm |-> "SENT"]
Target == [approve |-> "APPROVED", send |-> "SENT", confirm |-> "CONFIRMED"]

MayDecide(state, row, d) == state # "COMPLETED" /\ row.status = Source[d]

\* Mutant: the mapper does not count the version of a row.
DecidedUncounted(row, d) == [row EXCEPT !.status = Target[d]]

\* The mapper's version_id_col counts the version.
Decided(row, d) == [row EXCEPT !.status = Target[d], !.version = @ + 1]

Open == {"DRAFT", "APPROVED", "SENT", "CONFIRMED", "PARTIALLY_RECEIVED"}

\* Mutant: a purchase can be cancelled twice.
MayCancelAgain(state, row) ==
  /\ state # "COMPLETED"
  /\ row.status \in Open \cup {"CANCELLED"}
  /\ \E l \in Lines : row.received[l] < row.quantity[l]

\* The supplier's reference, asked for once it was sent, is taken as given.
MayCancel(state, row) ==
  /\ state # "COMPLETED"
  /\ row.status \in Open
  /\ \E l \in Lines : row.received[l] < row.quantity[l]
Cancelled(row) == [row EXCEPT !.status = "CANCELLED", !.version = @ + 1]

\* Mutant: the status is checked by the page only.
MayReceiveStill(row, lines) ==
  \A l \in Lines : row.received[l] + lines[l] <= row.quantity[l]

MayReceive(row, lines) ==
  /\ row.status \in {"CONFIRMED", "PARTIALLY_RECEIVED"}
  /\ \A l \in Lines : row.received[l] + lines[l] <= row.quantity[l]

\* Mutant: only the lines of the receipt are looked at.
ReceivedIfThese(row, lines) ==
  LET now == [l \in Lines |-> row.received[l] + lines[l]] IN
  [row EXCEPT !.received = now, !.version = @ + 1,
              !.status = IF \A l \in Lines : lines[l] > 0 => now[l] = row.quantity[l]
                         THEN "RECEIVED" ELSE "PARTIALLY_RECEIVED"]

Received(row, lines) ==
  LET now == [l \in Lines |-> row.received[l] + lines[l]] IN
  [row EXCEPT !.received = now, !.version = @ + 1,
              !.status = IF now = row.quantity THEN "RECEIVED" ELSE "PARTIALLY_RECEIVED"]

MayClose(row) == row.status = "RECEIVED" /\ row.received = row.quantity
Closed(row) == [row EXCEPT !.status = "CLOSED", !.version = @ + 1]

-----------------------------------------------------------------------------
(* The commands on the book.                                               *)

Put(p, row) == purchases' = [purchases EXCEPT ![p] = row] /\ UNCHANGED sales

\* Payments, shipments and completion move the sales order on (OrderExecution).
Advance ==
  /\ \E step \in {<<"DRAFT", "EXECUTING">>, <<"EXECUTING", "SHIPPED">>,
                  <<"SHIPPED", "COMPLETED">>} :
       sales = step[1] /\ sales' = step[2]
  /\ UNCHANGED purchases

Create(n, lines) ==
  /\ MayDraft(sales) /\ ~Exists(n)
  /\ Fits(purchases, lines)
  /\ Put(n, Draft(lines, None))

Decide(p, d) == MayDecide(sales, purchases[p], d) /\ Put(p, Decided(purchases[p], d))

Cancel(p) == MayCancel(sales, purchases[p]) /\ Put(p, Cancelled(purchases[p]))

\* The replacement is measured against what the cancellation leaves.
Amend(p, n, lines) ==
  LET freed == [purchases EXCEPT ![p] = Cancelled(purchases[p])] IN
  /\ MayCancel(sales, purchases[p])
  /\ MayDraft(sales) /\ ~Exists(n)
  /\ Fits(freed, lines)
  /\ purchases' = [freed EXCEPT ![n] = Draft(lines, p)]
  /\ UNCHANGED sales

Receive(p, lines) ==
  MayReceive(purchases[p], lines) /\ Put(p, Received(purchases[p], lines))

Close(p) == MayClose(purchases[p]) /\ Put(p, Closed(purchases[p]))

Next ==
  \/ Advance
  \/ \E n \in Purchases, lines \in RequestedLines : Create(n, lines)
  \/ \E p \in Purchases :
       \/ \E d \in Decisions : Decide(p, d)
       \/ Cancel(p)
       \/ Close(p)
       \/ \E lines \in RequestedLines : Receive(p, lines)
       \/ \E n \in Purchases, lines \in RequestedLines : Amend(p, n, lines)

Spec == Init /\ [][Next]_bookVars

-----------------------------------------------------------------------------
(* Properties. *)

\* The goods that arrived for a sales line and those still to arrive are never more
\* than it orders, through every sequence of purchases, receipts in part,
\* cancellations and replacements (create, _committed_quantity).
CommittedWithinOrdered ==
  LET Expected(p, l) == IF purchases[p].status = "CANCELLED" THEN 0
                        ELSE purchases[p].quantity[l] - purchases[p].received[l]
  IN  \A l \in Lines :
        FoldFunction(+, 0, [p \in Purchases |-> purchases[p].received[l] + Expected(p, l)])
          <= Ordered[l]

\* The status of a purchase says what was received of it: nothing until it is
\* confirmed, some but not all while it is partly received, all of it afterwards,
\* and never all of it when its rest was cancelled (receive, cancel, close).
StatusTellsReceipts ==
  \A p \in Purchases :
    LET row == purchases[p] IN
    /\ row.status \in {"DRAFT", "APPROVED", "SENT", "CONFIRMED"} =>
         row.received = NoLines /\ row.quantity # NoLines
    /\ row.status = "PARTIALLY_RECEIVED" => row.received \notin {NoLines, row.quantity}
    /\ row.status \in {"RECEIVED", "CLOSED"} =>
         row.received = row.quantity /\ row.quantity # NoLines
    /\ row.status = "CANCELLED" => row.received # row.quantity

\* A purchase is replaced once at most, and only by the command that cancels it: a
\* replacement and its original never commit the same goods twice (amend, ADR-013).
ReplacedOnce ==
  \A n \in Purchases :
    LET old == purchases[n].replaces IN
    old # None =>
      /\ old # n
      /\ purchases[old].status = "CANCELLED"
      /\ \A m \in Purchases : purchases[m].replaces = old => m = n

\* A purchase that is cancelled or closed never changes again, quantities ordered
\* never change and quantities received never shrink: whatever is in flight when a
\* supplier's commitment ends does not reach it (ADR-013).
HistoryKept ==
  [][\A p \in Purchases : Exists(p) =>
       /\ purchases[p].status \in {"CANCELLED", "CLOSED"} => purchases'[p] = purchases[p]
       /\ purchases'[p].quantity = purchases[p].quantity
       /\ \A l \in Lines : purchases'[p].received[l] >= purchases[p].received[l]]_bookVars

\* Once the sales order is completed nothing is committed, decided or cancelled any
\* more; only goods still arrive and purchases are closed (ADR-024).
FinalizedKeepsCommitments ==
  [][sales = "COMPLETED" => \A p \in Purchases :
       purchases'[p].status # purchases[p].status =>
         purchases'[p].status \in {"PARTIALLY_RECEIVED", "RECEIVED", "CLOSED"}]_bookVars

=============================================================================
