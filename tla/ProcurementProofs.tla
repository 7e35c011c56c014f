--------------------------- MODULE ProcurementProofs ---------------------------
(***************************************************************************)
(* First, what PurchaseBook keeps for any sales order and any number of    *)
(* purchases.  Then: Procurement implements PurchaseBook for any number of *)
(* transactions, purchases and lines.  The argument of the second part:    *)
(* what a transaction has read under its locks nobody else writes, and     *)
(* what it has counted only those could change that hold the sales order.  *)
(***************************************************************************)
EXTENDS Procurement, FiniteSums

-----------------------------------------------------------------------------
(* The purchases of one sales order, one command at a time. *)

Bounded(r) == \A l \in Lines : r.received[l] <= r.quantity[l]

Tells(r) ==
  /\ r.status \in {"DRAFT", "APPROVED", "SENT", "CONFIRMED"} =>
       r.received = NoLines /\ r.quantity # NoLines
  /\ r.status = "PARTIALLY_RECEIVED" => r.received \notin {NoLines, r.quantity}
  /\ r.status \in {"RECEIVED", "CLOSED"} => r.received = r.quantity /\ r.quantity # NoLines
  /\ r.status = "CANCELLED" => r.received # r.quantity

Good(r) == r \in Rows /\ Bounded(r) /\ Tells(r)

\* The row r may follow the row q in a step that neither drafts nor replaces.
Follows(q, r) ==
  /\ Good(r)
  /\ q.status \notin {"ABSENT", "CANCELLED", "CLOSED"}
  /\ r.status # "ABSENT"
  /\ r.quantity = q.quantity /\ r.replaces = q.replaces
  /\ \A l \in Lines : r.received[l] >= q.received[l]

LEMMA NoLinesType == NoLines \in [Lines -> Nat]
BY DEF NoLines

\* The version counts on and the status and receipts may change: it stays a row.
LEMMA RowStatus ==
  ASSUME NEW r \in Rows, NEW s \in PurchaseStatus
  PROVE [r EXCEPT !.status = s, !.version = @ + 1] \in Rows
<1>1. r.version + 1 \in Nat
  BY DEF Rows
<1>2. QED
  BY <1>1 DEF Rows

LEMMA RowReceived ==
  ASSUME NEW r \in Rows, NEW s \in PurchaseStatus, NEW f \in [Lines -> Nat]
  PROVE [r EXCEPT !.received = f, !.version = @ + 1, !.status = s] \in Rows
<1>1. r.version + 1 \in Nat
  BY DEF Rows
<1>2. QED
  BY <1>1 DEF Rows

\* Requested lines are quantities, of which one at least is positive.
LEMMA RequestedType ==
  ASSUME NEW lines \in RequestedLines
  PROVE lines \in [Lines -> Nat] /\ lines # NoLines /\ \E l \in Lines : lines[l] > 0
<1>1. lines \in [Lines -> 0..MaxQuantity] /\ lines # NoLines
  BY DEF RequestedLines
<1>2. lines \in [Lines -> Nat]
  BY <1>1, PurchaseAssumption
<1>3. \E l \in Lines : lines[l] # 0
  BY <1>1 DEF NoLines
<1>4. QED
  BY <1>1, <1>2, <1>3

\* A draft orders something and has received nothing.
LEMMA DraftGood ==
  ASSUME NEW lines \in RequestedLines, NEW old \in Purchases \cup {None}
  PROVE Good(Draft(lines, old))
<1>1. lines \in [Lines -> Nat] /\ lines # NoLines
  BY RequestedType
<1>2. Draft(lines, old) \in Rows
  BY <1>1, NoLinesType DEF Draft, Rows, PurchaseStatus
<1>3. Bounded(Draft(lines, old))
  BY <1>1 DEF Draft, Bounded, NoLines
<1>4. Tells(Draft(lines, old))
  BY <1>1 DEF Draft, Tells
<1>5. QED
  BY <1>2, <1>3, <1>4 DEF Good

LEMMA DecidedFollows ==
  ASSUME NEW r, Good(r), NEW s, NEW d \in Decisions, MayDecide(s, r, d)
  PROVE Follows(r, Decided(r, d))
<1>1. r \in Rows /\ Bounded(r) /\ Tells(r)
  BY DEF Good
<1>2. r.status \in {"DRAFT", "APPROVED", "SENT"}
  BY DEF MayDecide, Decisions, Source
<1>3. Target[d] \in {"APPROVED", "SENT", "CONFIRMED"}
  BY DEF Decisions, Target
<1>4. Decided(r, d) \in Rows
  <2>1. Target[d] \in PurchaseStatus
    BY <1>3 DEF PurchaseStatus
  <2>2. QED
    BY <1>1, <2>1, RowStatus DEF Decided
<1>5. /\ Decided(r, d).status = Target[d]
      /\ Decided(r, d).quantity = r.quantity
      /\ Decided(r, d).received = r.received
      /\ Decided(r, d).replaces = r.replaces
  BY <1>1 DEF Decided, Rows
<1>6. Bounded(Decided(r, d)) /\ Tells(Decided(r, d))
  BY <1>1, <1>2, <1>3, <1>5 DEF Bounded, Tells
<1>7. \A l \in Lines : r.received[l] \in Nat
  BY <1>1 DEF Rows
<1>8. QED
  BY <1>2, <1>3, <1>4, <1>5, <1>6, <1>7 DEF Follows, Good

LEMMA CancelledFollows ==
  ASSUME NEW r, Good(r), NEW s, MayCancel(s, r)
  PROVE Follows(r, Cancelled(r)) /\ Cancelled(r).status = "CANCELLED"
<1>1. r \in Rows /\ Bounded(r) /\ Tells(r)
  BY DEF Good
<1>2. r.status \in Open /\ r.received # r.quantity
  <2>1. PICK l \in Lines : r.received[l] < r.quantity[l]
    BY DEF MayCancel
  <2>2. r.received[l] \in Nat /\ r.quantity[l] \in Nat
    BY <1>1 DEF Rows
  <2>3. r.received[l] # r.quantity[l]
    BY <2>1, <2>2
  <2>4. QED
    BY <2>3 DEF MayCancel
<1>3. Cancelled(r) \in Rows
  <2>1. "CANCELLED" \in PurchaseStatus
    BY DEF PurchaseStatus
  <2>2. QED
    BY <1>1, <2>1, RowStatus DEF Cancelled
<1>4. /\ Cancelled(r).status = "CANCELLED"
      /\ Cancelled(r).quantity = r.quantity
      /\ Cancelled(r).received = r.received
      /\ Cancelled(r).replaces = r.replaces
  BY <1>1 DEF Cancelled, Rows
<1>5. Bounded(Cancelled(r)) /\ Tells(Cancelled(r))
  BY <1>1, <1>2, <1>4 DEF Bounded, Tells
<1>6. \A l \in Lines : r.received[l] \in Nat
  BY <1>1 DEF Rows
<1>7. QED
  BY <1>2, <1>3, <1>4, <1>5, <1>6 DEF Follows, Good, Open

LEMMA ReceivedFollows ==
  ASSUME NEW r, Good(r), NEW lines \in RequestedLines, MayReceive(r, lines)
  PROVE Follows(r, Received(r, lines))
<1> DEFINE now == [l \in Lines |-> r.received[l] + lines[l]]
<1>1. r \in Rows /\ Bounded(r) /\ Tells(r)
  BY DEF Good
<1>2. /\ r.received \in [Lines -> Nat] /\ r.quantity \in [Lines -> Nat]
      /\ r.status \in {"CONFIRMED", "PARTIALLY_RECEIVED"}
  BY <1>1 DEF Rows, MayReceive
<1>3. lines \in [Lines -> Nat] /\ \E l \in Lines : lines[l] > 0
  BY RequestedType
<1>4. now \in [Lines -> Nat]
  BY <1>2, <1>3
<1>5. \A l \in Lines : now[l] >= r.received[l] /\ now[l] <= r.quantity[l]
  BY <1>2, <1>3 DEF MayReceive
<1>6. now # NoLines
  <2>1. PICK l \in Lines : lines[l] > 0
    BY <1>3
  <2>2. now[l] > 0
    BY <2>1, <1>2, <1>3
  <2>3. QED
    BY <2>2 DEF NoLines
<1>7. /\ Received(r, lines).received = now
      /\ Received(r, lines).quantity = r.quantity
      /\ Received(r, lines).replaces = r.replaces
      /\ Received(r, lines).version = r.version + 1
      /\ Received(r, lines).status =
           IF now = r.quantity THEN "RECEIVED" ELSE "PARTIALLY_RECEIVED"
  BY <1>1 DEF Received, Rows
<1>8. Received(r, lines) \in Rows
  <2>1. (IF now = r.quantity THEN "RECEIVED" ELSE "PARTIALLY_RECEIVED") \in PurchaseStatus
    BY DEF PurchaseStatus
  <2>2. QED
    BY <1>1, <1>4, <2>1, RowReceived DEF Received
<1>9. Bounded(Received(r, lines))
  BY <1>5, <1>7 DEF Bounded
<1>10. Tells(Received(r, lines))
  <2>1. CASE now = r.quantity
    BY <2>1, <1>6, <1>7 DEF Tells
  <2>2. CASE now # r.quantity
    BY <2>2, <1>6, <1>7 DEF Tells
  <2>3. QED
    BY <2>1, <2>2
<1>11. Received(r, lines).status \in {"RECEIVED", "PARTIALLY_RECEIVED"}
  BY <1>7
<1>12. QED
  BY <1>2, <1>5, <1>7, <1>8, <1>9, <1>10, <1>11 DEF Follows, Good

LEMMA ClosedFollows ==
  ASSUME NEW r, Good(r), MayClose(r)
  PROVE Follows(r, Closed(r))
<1>1. r \in Rows /\ Bounded(r) /\ Tells(r)
  BY DEF Good
<1>2. Closed(r) \in Rows
  <2>1. "CLOSED" \in PurchaseStatus
    BY DEF PurchaseStatus
  <2>2. QED
    BY <1>1, <2>1, RowStatus DEF Closed
<1>3. /\ Closed(r).status = "CLOSED"
      /\ Closed(r).quantity = r.quantity
      /\ Closed(r).received = r.received
      /\ Closed(r).replaces = r.replaces
  BY <1>1 DEF Closed, Rows
<1>4. r.status = "RECEIVED"
  BY DEF MayClose
<1>5. Bounded(Closed(r)) /\ Tells(Closed(r))
  BY <1>1, <1>3, <1>4 DEF Bounded, Tells
<1>6. \A l \in Lines : r.received[l] \in Nat
  BY <1>1 DEF Rows
<1>7. QED
  BY <1>2, <1>3, <1>4, <1>5, <1>6 DEF Follows, Good

-----------------------------------------------------------------------------
(* Steps: every one changes a row that follows, or drafts a new one.       *)

IInv ==
  /\ TypeOK
  /\ StatusTellsReceipts
  /\ ReplacedOnce

\* The three kinds of steps on the rows.
Kept == UNCHANGED purchases
Moved(p) == \E r : Follows(purchases[p], r) /\ purchases' = [purchases EXCEPT ![p] = r]
Drafted(n) ==
  \E lines \in RequestedLines :
    /\ ~Exists(n) /\ Fits(purchases, lines)
    /\ purchases' = [purchases EXCEPT ![n] = Draft(lines, None)]
Replaced(p, n) ==
  \E lines \in RequestedLines :
    /\ MayCancel(sales, purchases[p]) /\ ~Exists(n)
    /\ Fits([purchases EXCEPT ![p] = Cancelled(purchases[p])], lines)
    /\ purchases' = [[purchases EXCEPT ![p] = Cancelled(purchases[p])]
                       EXCEPT ![n] = Draft(lines, p)]

LEMMA GoodRows == IInv => \A p \in Purchases : Good(purchases[p])
<1> SUFFICES ASSUME IInv, NEW p \in Purchases PROVE Good(purchases[p])
  OBVIOUS
<1>1. purchases[p] \in Rows /\ Bounded(purchases[p])
  BY DEF IInv, TypeOK, Bounded
<1>2. Tells(purchases[p])
  BY DEF IInv, StatusTellsReceipts, Tells
<1>3. QED
  BY <1>1, <1>2 DEF Good

LEMMA Steps ==
  ASSUME IInv, [Next]_bookVars
  PROVE /\ sales' \in SalesStatus
        /\ \/ Kept
           \/ \E p \in Purchases : Moved(p)
           \/ \E n \in Purchases : Drafted(n)
           \/ \E p, n \in Purchases : Replaced(p, n)
<1>0. sales \in SalesStatus
  BY DEF IInv, TypeOK
<1>1. CASE Advance
  BY <1>1 DEF Advance, SalesStatus, Kept
<1>2. ASSUME NEW n \in Purchases, NEW lines \in RequestedLines, Create(n, lines)
      PROVE Drafted(n) /\ sales' = sales
  BY <1>2 DEF Create, Put, Drafted
<1>3. ASSUME NEW p \in Purchases, NEW d \in Decisions, Decide(p, d)
      PROVE Moved(p) /\ sales' = sales
  <2>1. Follows(purchases[p], Decided(purchases[p], d))
    BY <1>3, GoodRows, DecidedFollows DEF Decide
  <2>2. QED
    BY <1>3, <2>1 DEF Decide, Put, Moved
<1>4. ASSUME NEW p \in Purchases, Cancel(p)
      PROVE Moved(p) /\ sales' = sales
  <2>1. Follows(purchases[p], Cancelled(purchases[p]))
    BY <1>4, GoodRows, CancelledFollows DEF Cancel
  <2>2. QED
    BY <1>4, <2>1 DEF Cancel, Put, Moved
<1>5. ASSUME NEW p \in Purchases, Close(p)
      PROVE Moved(p) /\ sales' = sales
  <2>1. Follows(purchases[p], Closed(purchases[p]))
    BY <1>5, GoodRows, ClosedFollows DEF Close
  <2>2. QED
    BY <1>5, <2>1 DEF Close, Put, Moved
<1>6. ASSUME NEW p \in Purchases, NEW lines \in RequestedLines, Receive(p, lines)
      PROVE Moved(p) /\ sales' = sales
  <2>1. Follows(purchases[p], Received(purchases[p], lines))
    BY <1>6, GoodRows, ReceivedFollows DEF Receive
  <2>2. QED
    BY <1>6, <2>1 DEF Receive, Put, Moved
<1>7. ASSUME NEW p \in Purchases, NEW n \in Purchases, NEW lines \in RequestedLines,
             Amend(p, n, lines)
      PROVE Replaced(p, n) /\ sales' = sales
  BY <1>7 DEF Amend, Replaced
<1>8. CASE UNCHANGED bookVars
  BY <1>0, <1>8 DEF bookVars, Kept
<1>9. QED
  BY <1>0, <1>1, <1>2, <1>3, <1>4, <1>5, <1>6, <1>7, <1>8 DEF Next

\* Rows that are good make TypeOK and StatusTellsReceipts.
LEMMA GoodSuffices ==
  ASSUME purchases' = [p \in Purchases |-> purchases'[p]],
         \A p \in Purchases : Good(purchases'[p]), sales' \in SalesStatus
  PROVE TypeOK' /\ StatusTellsReceipts'
<1>1. purchases' \in [Purchases -> Rows]
  BY DEF Good
<1>2. TypeOK'
  BY <1>1 DEF TypeOK, Good, Bounded
<1>3. StatusTellsReceipts'
  BY DEF StatusTellsReceipts, Good, Tells
<1>4. QED
  BY <1>2, <1>3

LEMMA KeptStep ==
  ASSUME IInv, Kept, sales' \in SalesStatus
  PROVE IInv'
BY DEF IInv, Kept, TypeOK, StatusTellsReceipts, ReplacedOnce

LEMMA MovedStep ==
  ASSUME IInv, NEW p \in Purchases, Moved(p), sales' \in SalesStatus
  PROVE IInv'
<1>1. PICK r : Follows(purchases[p], r) /\ purchases' = [purchases EXCEPT ![p] = r]
  BY DEF Moved
<1>2. purchases \in [Purchases -> Rows]
  BY DEF IInv, TypeOK
<1>3. \A q \in Purchases : Good(purchases'[q])
  BY <1>1, <1>2, GoodRows DEF Follows
<1>4. purchases' = [q \in Purchases |-> purchases'[q]]
  BY <1>1, <1>2
<1>5. TypeOK' /\ StatusTellsReceipts'
  BY <1>3, <1>4, GoodSuffices
<1>6. \A q \in Purchases : purchases'[q].replaces = purchases[q].replaces
  BY <1>1, <1>2 DEF Follows
<1>7. \A q \in Purchases : purchases[q].status = "CANCELLED" =>
                             purchases'[q].status = "CANCELLED"
  BY <1>1, <1>2 DEF Follows
<1>8. \A q \in Purchases : purchases[q].replaces \in Purchases \cup {None}
  BY <1>2 DEF Rows
<1>9. ReplacedOnce'
  BY <1>6, <1>7, <1>8 DEF IInv, ReplacedOnce
<1>10. QED
  BY <1>5, <1>9 DEF IInv

LEMMA DraftedStep ==
  ASSUME IInv, NEW n \in Purchases, Drafted(n), sales' \in SalesStatus
  PROVE IInv'
<1>1. PICK lines \in RequestedLines :
        ~Exists(n) /\ purchases' = [purchases EXCEPT ![n] = Draft(lines, None)]
  BY DEF Drafted
<1>2. purchases \in [Purchases -> Rows]
  BY DEF IInv, TypeOK
<1>3. Good(Draft(lines, None)) /\ Draft(lines, None).replaces = None
  BY DraftGood DEF Draft
<1>4. \A q \in Purchases : Good(purchases'[q])
  BY <1>1, <1>2, <1>3, GoodRows
<1>5. purchases' = [q \in Purchases |-> purchases'[q]]
  BY <1>1, <1>2
<1>6. TypeOK' /\ StatusTellsReceipts'
  BY <1>4, <1>5, GoodSuffices
<1>7. \A q \in Purchases : purchases'[q].replaces # None =>
        q # n /\ purchases'[q].replaces = purchases[q].replaces
  BY <1>1, <1>2, <1>3
<1>8. \A q \in Purchases : purchases[q].status = "CANCELLED" =>
                             purchases'[q].status = "CANCELLED"
  BY <1>1, <1>2 DEF Exists
<1>9. \A q \in Purchases : purchases[q].replaces \in Purchases \cup {None}
  BY <1>2 DEF Rows
<1>10. ReplacedOnce'
  BY <1>7, <1>8, <1>9 DEF IInv, ReplacedOnce
<1>11. QED
  BY <1>6, <1>10 DEF IInv

LEMMA ReplacedStep ==
  ASSUME IInv, NEW p \in Purchases, NEW n \in Purchases, Replaced(p, n),
         sales' \in SalesStatus
  PROVE IInv'
<1>1. PICK lines \in RequestedLines :
        /\ MayCancel(sales, purchases[p]) /\ ~Exists(n)
        /\ purchases' = [[purchases EXCEPT ![p] = Cancelled(purchases[p])]
                           EXCEPT ![n] = Draft(lines, p)]
  BY DEF Replaced
<1>2. purchases \in [Purchases -> Rows]
  BY DEF IInv, TypeOK
<1>3. Good(Draft(lines, p)) /\ Draft(lines, p).replaces = p
  BY DraftGood DEF Draft
<1>4. /\ Follows(purchases[p], Cancelled(purchases[p]))
      /\ Cancelled(purchases[p]).status = "CANCELLED"
  BY <1>1, GoodRows, CancelledFollows
<1>5. p # n
  BY <1>1, <1>4 DEF Exists, Follows
<1>6. /\ purchases'[p] = Cancelled(purchases[p])
      /\ purchases'[n] = Draft(lines, p)
      /\ \A q \in Purchases \ {p, n} : purchases'[q] = purchases[q]
  BY <1>1, <1>2, <1>5
<1>7. \A q \in Purchases : Good(purchases'[q])
  BY <1>3, <1>4, <1>6, GoodRows DEF Follows
<1>8. purchases' = [q \in Purchases |-> purchases'[q]]
  BY <1>1, <1>2
<1>9. TypeOK' /\ StatusTellsReceipts'
  BY <1>7, <1>8, GoodSuffices
<1>10. \A q \in Purchases : purchases[q].replaces \in Purchases \cup {None}
  BY <1>2 DEF Rows
<1>11. \A q \in Purchases : purchases[q].replaces # p
  BY <1>4, PurchaseAssumption DEF IInv, ReplacedOnce, Follows
<1>12. \A q \in Purchases \ {n} : purchases'[q].replaces = purchases[q].replaces
  BY <1>4, <1>6 DEF Follows
<1>13. \A q \in Purchases : purchases[q].status = "CANCELLED" =>
                              purchases'[q].status = "CANCELLED"
  BY <1>1, <1>4, <1>6 DEF Exists
<1>14. ASSUME NEW m \in Purchases, purchases'[m].replaces # None
       PROVE LET old == purchases'[m].replaces IN
             /\ old # m
             /\ purchases'[old].status = "CANCELLED"
             /\ \A k \in Purchases : purchases'[k].replaces = old => k = m
  <2>1. CASE m = n
    BY <2>1, <1>3, <1>4, <1>5, <1>6, <1>11, <1>12
  <2>2. CASE m # n
    <3> DEFINE old == purchases[m].replaces
    <3>1. old \in Purchases /\ old # p /\ purchases'[m].replaces = old
      BY <2>2, <1>10, <1>11, <1>12, <1>14
    <3>2. /\ old # m
          /\ purchases[old].status = "CANCELLED"
          /\ \A k \in Purchases : purchases[k].replaces = old => k = m
      BY <3>1, PurchaseAssumption DEF IInv, ReplacedOnce
    <3>3. purchases'[old].status = "CANCELLED"
      BY <3>1, <3>2, <1>13
    <3>4. \A k \in Purchases : purchases'[k].replaces = old => k = m
      BY <3>1, <3>2, <1>3, <1>6, <1>12
    <3>5. QED
      BY <3>1, <3>2, <3>3, <3>4
  <2>3. QED
    BY <2>1, <2>2
<1>15. ReplacedOnce'
  BY <1>14 DEF ReplacedOnce
<1>16. QED
  BY <1>9, <1>15 DEF IInv

LEMMA InitIInv == Init => IInv
<1> SUFFICES ASSUME Init PROVE IInv
  OBVIOUS
<1>1. Blank \in Rows
  BY NoLinesType DEF Blank, Rows, PurchaseStatus
<1>2. \A l \in Lines : Blank.received[l] <= Blank.quantity[l]
  BY DEF Blank, NoLines
<1>3. TypeOK
  BY <1>1, <1>2 DEF Init, TypeOK, SalesStatus
<1>4. StatusTellsReceipts
  BY DEF Init, StatusTellsReceipts, Blank
<1>5. ReplacedOnce
  BY DEF Init, ReplacedOnce, Blank
<1>6. QED
  BY <1>3, <1>4, <1>5 DEF IInv

LEMMA NextIInv == IInv /\ [Next]_bookVars => IInv'
BY Steps, KeptStep, MovedStep, DraftedStep, ReplacedStep

LEMMA SpecIInv == Spec => []IInv
BY InitIInv, NextIInv, PTL DEF Spec

\* The columns keep their types, and no line receives more than was bought of it.
THEOREM TypeCorrect == Spec => []TypeOK
BY SpecIInv, PTL DEF IInv

\* The status of a purchase tells what was received of it.
THEOREM StatusCorrect == Spec => []StatusTellsReceipts
BY SpecIInv, PTL DEF IInv

\* A purchase has one replacement at most, and only once it is cancelled.
THEOREM ReplacedOnceCorrect == Spec => []ReplacedOnce
BY SpecIInv, PTL DEF IInv

-----------------------------------------------------------------------------
(* What a sales line has left.                                             *)

Contributions(view, l) == [p \in Purchases |-> Contribution(view[p], l)]

\* The same as CommittedWithinOrdered, by what the commands count.
NotOvercommitted == \A l \in Lines : SumOver(Contributions(purchases, l), Purchases) <= Ordered[l]

LEMMA CommittedIs ==
  ASSUME NEW view, NEW l PROVE Committed(view, l) = SumOver(Contributions(view, l), Purchases)
BY DEF Committed, Contributions, SumOver, FoldFunction

LEMMA ContributionNat ==
  ASSUME NEW r \in Rows, NEW l \in Lines PROVE Contribution(r, l) \in Nat
BY DEF Contribution, Rows

LEMMA ContributionsNat ==
  ASSUME NEW view, \A p \in Purchases : view[p] \in Rows, NEW l \in Lines
  PROVE  /\ \A p \in Purchases : Contributions(view, l)[p] \in Nat
         /\ IsFiniteSet(Purchases)
         /\ SumOver(Contributions(view, l), Purchases) \in Nat
<1>1. \A p \in Purchases : Contributions(view, l)[p] \in Nat
  BY ContributionNat DEF Contributions
<1> QED BY <1>1, SumNat, PurchaseAssumption

\* A row that follows another counts no more than it did.
LEMMA FollowsCountsLess ==
  ASSUME NEW q \in Rows, NEW r, Follows(q, r), NEW l \in Lines
  PROVE  Contribution(r, l) <= Contribution(q, l)
<1>1. r \in Rows /\ r.received[l] <= r.quantity[l] /\ r.quantity = q.quantity
  BY DEF Follows, Good, Bounded
<1>2. r.received[l] \in Nat /\ r.quantity[l] \in Nat
  BY <1>1 DEF Rows
<1>3. Contribution(q, l) = q.quantity[l]
  BY DEF Follows, Contribution
<1> QED BY <1>1, <1>2, <1>3 DEF Contribution

LEMMA MovedCountsLess ==
  ASSUME NEW view, NEW next, NEW p \in Purchases,
         \A q \in Purchases : view[q] \in Rows,
         Follows(view[p], next[p]),
         \A q \in Purchases \ {p} : next[q] = view[q], NEW l \in Lines
  PROVE  /\ \A q \in Purchases : next[q] \in Rows
         /\ SumOver(Contributions(next, l), Purchases)
              <= SumOver(Contributions(view, l), Purchases)
<1>1. \A q \in Purchases : next[q] \in Rows
  BY DEF Follows, Good
<1>2. ASSUME NEW q \in Purchases
      PROVE  Contributions(next, l)[q] <= Contributions(view, l)[q]
  <2>1. Contribution(next[q], l) \in Nat /\ Contribution(view[q], l) \in Nat
    BY <1>1, ContributionNat
  <2>2. Contribution(next[q], l) <= Contribution(view[q], l)
    BY <2>1, FollowsCountsLess
  <2> QED BY <2>2 DEF Contributions
<1>3. \A q \in Purchases :
        Contributions(next, l)[q] \in Int /\ Contributions(view, l)[q] \in Int
  BY <1>1, ContributionsNat
<1> QED BY <1>1, <1>2, <1>3, SumMonotone, PurchaseAssumption

LEMMA DraftedCounts ==
  ASSUME NEW view, NEW next, NEW n \in Purchases,
         \A q \in Purchases : view[q] \in Rows,
         NEW lines \in RequestedLines, NEW old \in Purchases \cup {None},
         next[n] = Draft(lines, old),
         \A q \in Purchases \ {n} : next[q] = view[q], NEW l \in Lines
  PROVE  SumOver(Contributions(next, l), Purchases)
           <= SumOver(Contributions(view, l), Purchases) + lines[l]
<1>1. lines \in [Lines -> Nat] /\ next[n] \in Rows
  BY RequestedType, DraftGood DEF Good
<1>2. \A q \in Purchases : next[q] \in Rows
  BY <1>1
<1>3. Contributions(next, l)[n] = lines[l]
  BY DEF Contributions, Contribution, Draft
<1>4. \A q \in Purchases \ {n} : Contributions(next, l)[q] = Contributions(view, l)[q]
  BY DEF Contributions
<1>5. /\ \A q \in Purchases :
           Contributions(next, l)[q] \in Nat /\ Contributions(view, l)[q] \in Nat
      /\ IsFiniteSet(Purchases)
      /\ SumOver(Contributions(view, l), Purchases) \in Nat
  BY <1>2, ContributionsNat
<1>6. SumOver(Contributions(next, l), Purchases)
        = SumOver(Contributions(view, l), Purchases)
            + (Contributions(next, l)[n] - Contributions(view, l)[n])
  BY <1>4, <1>5, SumChange
<1>7. Contributions(view, l)[n] \in Nat /\ lines[l] \in Nat
  BY <1>1, <1>5
<1> QED BY <1>3, <1>5, <1>6, <1>7

LEMMA NextNotOvercommitted == IInv /\ NotOvercommitted /\ [Next]_bookVars => NotOvercommitted'
<1> SUFFICES ASSUME IInv, NotOvercommitted, [Next]_bookVars, NEW l \in Lines
             PROVE SumOver(Contributions(purchases, l)', Purchases) <= Ordered[l]
  BY DEF NotOvercommitted
<1>1. purchases \in [Purchases -> Rows] /\ Ordered[l] \in Nat
  BY PurchaseAssumption DEF IInv, TypeOK
<1>2. /\ SumOver(Contributions(purchases, l), Purchases) <= Ordered[l]
      /\ SumOver(Contributions(purchases, l), Purchases) \in Nat
  BY <1>1, ContributionsNat DEF NotOvercommitted
<1>3. Contributions(purchases, l)' = Contributions(purchases', l)
  BY DEF Contributions, Contribution
<1>4. CASE Kept
  BY <1>2, <1>3, <1>4 DEF Kept
<1>5. ASSUME NEW p \in Purchases, Moved(p)
      PROVE  SumOver(Contributions(purchases', l), Purchases) <= Ordered[l]
  <2>1. /\ Follows(purchases[p], purchases'[p])
        /\ \A q \in Purchases \ {p} : purchases'[q] = purchases[q]
    BY <1>1, <1>5 DEF Moved
  <2>2. /\ \A q \in Purchases : purchases'[q] \in Rows
        /\ SumOver(Contributions(purchases', l), Purchases)
             <= SumOver(Contributions(purchases, l), Purchases)
    BY <1>1, <2>1, MovedCountsLess
  <2>3. SumOver(Contributions(purchases', l), Purchases) \in Nat
    BY <2>2, ContributionsNat
  <2> QED BY <1>1, <1>2, <2>2, <2>3
<1>6. ASSUME NEW n \in Purchases, Drafted(n)
      PROVE  SumOver(Contributions(purchases', l), Purchases) <= Ordered[l]
  <2>1. PICK lines \in RequestedLines :
          /\ Fits(purchases, lines)
          /\ purchases' = [purchases EXCEPT ![n] = Draft(lines, None)]
    BY <1>6 DEF Drafted
  <2>2. /\ purchases'[n] = Draft(lines, None)
        /\ \A q \in Purchases \ {n} : purchases'[q] = purchases[q]
    BY <1>1, <2>1
  <2>3. SumOver(Contributions(purchases', l), Purchases)
          <= SumOver(Contributions(purchases, l), Purchases) + lines[l]
    BY <1>1, <2>2, DraftedCounts
  <2>4. lines[l] > 0 => SumOver(Contributions(purchases, l), Purchases) + lines[l] <= Ordered[l]
    BY <2>1, CommittedIs DEF Fits
  <2>5. \A q \in Purchases : purchases'[q] \in Rows
    BY <1>1, <2>2, DraftGood DEF Good
  <2>6. SumOver(Contributions(purchases', l), Purchases) \in Nat /\ lines[l] \in Nat
    BY <2>5, ContributionsNat, RequestedType
  <2> QED BY <1>1, <1>2, <2>3, <2>4, <2>6
<1>7. ASSUME NEW p \in Purchases, NEW n \in Purchases, Replaced(p, n)
      PROVE  SumOver(Contributions(purchases', l), Purchases) <= Ordered[l]
  <2> DEFINE freed == [purchases EXCEPT ![p] = Cancelled(purchases[p])]
  <2>1. PICK lines \in RequestedLines :
          /\ MayCancel(sales, purchases[p])
          /\ Fits(freed, lines)
          /\ purchases' = [freed EXCEPT ![n] = Draft(lines, p)]
    BY <1>7 DEF Replaced
  <2>2. /\ Follows(purchases[p], freed[p])
        /\ \A q \in Purchases \ {p} : freed[q] = purchases[q]
    BY <1>1, <2>1, GoodRows, CancelledFollows
  <2>3. /\ \A q \in Purchases : freed[q] \in Rows
        /\ SumOver(Contributions(freed, l), Purchases)
             <= SumOver(Contributions(purchases, l), Purchases)
    BY <1>1, <2>2, MovedCountsLess
  <2>4. SumOver(Contributions(freed, l), Purchases) \in Nat
    BY <2>3, ContributionsNat
  <2>5. /\ purchases'[n] = Draft(lines, p)
        /\ \A q \in Purchases \ {n} : purchases'[q] = freed[q]
    BY <1>1, <2>1
  <2>6. lines[l] > 0 => SumOver(Contributions(freed, l), Purchases) + lines[l] <= Ordered[l]
    BY <2>1, CommittedIs DEF Fits
  <2>7. \A q \in Purchases : purchases'[q] \in Rows
    BY <2>3, <2>5, DraftGood DEF Good
  <2>8. SumOver(Contributions(purchases', l), Purchases) \in Nat /\ lines[l] \in Nat
    BY <2>7, ContributionsNat, RequestedType
  <2> HIDE DEF freed
  <2>9. SumOver(Contributions(purchases', l), Purchases)
          <= SumOver(Contributions(freed, l), Purchases) + lines[l]
    BY <2>3, <2>5, DraftedCounts
  <2> QED BY <1>1, <1>2, <2>3, <2>4, <2>6, <2>8, <2>9
<1> QED BY <1>3, <1>4, <1>5, <1>6, <1>7, Steps

LEMMA InitNotOvercommitted == Init => NotOvercommitted
<1> SUFFICES ASSUME Init, NEW l \in Lines
             PROVE SumOver(Contributions(purchases, l), Purchases) <= Ordered[l]
  BY DEF NotOvercommitted
<1>1. \A p \in Purchases : Contributions(purchases, l)[p] = 0
  BY DEF Init, Contributions, Contribution, Blank, NoLines
<1>2. SumOver(Contributions(purchases, l), Purchases) = 0
  BY <1>1, SumZero, PurchaseAssumption
<1> QED BY <1>2, PurchaseAssumption

\* What the commands count is what arrived and what is still to arrive.
LEMMA CommittedIsExpected == IInv /\ NotOvercommitted => CommittedWithinOrdered
<1> SUFFICES ASSUME IInv, NotOvercommitted, NEW l \in Lines
             PROVE FoldFunction(+, 0, [p \in Purchases |->
                     purchases[p].received[l]
                       + IF purchases[p].status = "CANCELLED" THEN 0
                         ELSE purchases[p].quantity[l] - purchases[p].received[l]])
                   <= Ordered[l]
  BY DEF CommittedWithinOrdered
<1> DEFINE goods == [p \in Purchases |->
                      purchases[p].received[l]
                        + IF purchases[p].status = "CANCELLED" THEN 0
                          ELSE purchases[p].quantity[l] - purchases[p].received[l]]
<1>1. ASSUME NEW p \in Purchases PROVE goods[p] = Contributions(purchases, l)[p]
  <2>1. purchases[p].received[l] \in Nat /\ purchases[p].quantity[l] \in Nat
    BY DEF IInv, TypeOK, Rows
  <2> QED BY <2>1 DEF Contributions, Contribution
<1>2. SumOver(goods, Purchases) = SumOver(Contributions(purchases, l), Purchases)
  <2> HIDE DEF goods
  <2> QED BY <1>1, SumSame, PurchaseAssumption
<1>3. FoldFunction(+, 0, goods) = SumOver(goods, Purchases)
  BY DEF SumOver, FoldFunction
<1> QED BY <1>2, <1>3 DEF NotOvercommitted

\* The goods that arrived for a sales line and those still to arrive are never more than
\* it orders, for any number of lines and purchases.
THEOREM CommittedCorrect == Spec => []CommittedWithinOrdered
BY SpecIInv, InitNotOvercommitted, NextNotOvercommitted, CommittedIsExpected, PTL DEF Spec

-----------------------------------------------------------------------------
(* History. *)

\* What HistoryKept asks of one step.
StepKeeps ==
  \A p \in Purchases : Exists(p) =>
    /\ purchases[p].status \in {"CANCELLED", "CLOSED"} => purchases'[p] = purchases[p]
    /\ purchases'[p].quantity = purchases[p].quantity
    /\ \A l \in Lines : purchases'[p].received[l] >= purchases[p].received[l]

LEMMA NextKeeps == IInv /\ [Next]_bookVars => StepKeeps
<1> SUFFICES ASSUME IInv, [Next]_bookVars, NEW q \in Purchases, Exists(q)
             PROVE /\ purchases[q].status \in {"CANCELLED", "CLOSED"} =>
                         purchases'[q] = purchases[q]
                   /\ purchases'[q].quantity = purchases[q].quantity
                   /\ \A l \in Lines : purchases'[q].received[l] >= purchases[q].received[l]
  BY DEF StepKeeps
<1>1. purchases \in [Purchases -> Rows]
  BY DEF IInv, TypeOK
<1>2. \A l \in Lines : purchases[q].received[l] \in Nat
  BY <1>1 DEF Rows
<1>3. CASE purchases'[q] = purchases[q]
  BY <1>2, <1>3
<1>4. CASE Follows(purchases[q], purchases'[q])
  BY <1>4 DEF Follows
<1>5. CASE Kept
  BY <1>3, <1>5 DEF Kept
<1>6. ASSUME NEW p \in Purchases, Moved(p)
      PROVE purchases'[q] = purchases[q] \/ Follows(purchases[q], purchases'[q])
  BY <1>1, <1>6 DEF Moved
<1>7. ASSUME NEW n \in Purchases, Drafted(n)
      PROVE purchases'[q] = purchases[q]
  BY <1>1, <1>7 DEF Drafted, Exists
<1>8. ASSUME NEW p \in Purchases, NEW n \in Purchases, Replaced(p, n)
      PROVE purchases'[q] = purchases[q] \/ Follows(purchases[q], purchases'[q])
  <2>1. Follows(purchases[p], Cancelled(purchases[p]))
    BY <1>8, GoodRows, CancelledFollows DEF Replaced
  <2>2. q # n
    BY <1>8 DEF Replaced, Exists
  <2>3. purchases'[q] = IF q = p THEN Cancelled(purchases[p]) ELSE purchases[q]
    BY <1>1, <1>8, <2>2 DEF Replaced
  <2>4. QED
    BY <2>1, <2>3
<1>9. QED
  BY <1>3, <1>4, <1>5, <1>6, <1>7, <1>8, Steps

\* Purchases that have ended stay as they are and receipts are never taken back.
THEOREM HistoryCorrect == Spec => HistoryKept
<1>1. IInv /\ [Next]_bookVars => [StepKeeps]_bookVars
  BY NextKeeps
<1>2. QED
  BY <1>1, SpecIInv, PTL DEF Spec, HistoryKept, StepKeeps

\* What FinalizedKeepsCommitments asks of one step.
StepFinal ==
  sales = "COMPLETED" => \A p \in Purchases :
    purchases'[p].status # purchases[p].status =>
      purchases'[p].status \in {"PARTIALLY_RECEIVED", "RECEIVED", "CLOSED"}

LEMMA NextFinal == IInv /\ [Next]_bookVars => StepFinal
<1> SUFFICES ASSUME IInv, [Next]_bookVars, sales = "COMPLETED", NEW q \in Purchases
             PROVE purchases'[q].status # purchases[q].status =>
                     purchases'[q].status \in {"PARTIALLY_RECEIVED", "RECEIVED", "CLOSED"}
  BY DEF StepFinal
<1>1. purchases \in [Purchases -> Rows]
  BY DEF IInv, TypeOK
<1>2. CASE UNCHANGED bookVars
  BY <1>2 DEF bookVars
<1>3. CASE Advance
  BY <1>3 DEF Advance
<1>4. ASSUME NEW p \in Purchases, NEW lines \in RequestedLines, Receive(p, lines)
      PROVE purchases'[q] = purchases[q]
            \/ purchases'[q].status \in {"PARTIALLY_RECEIVED", "RECEIVED"}
  <2>1. Received(purchases[p], lines).status \in {"PARTIALLY_RECEIVED", "RECEIVED"}
    BY <1>1 DEF Received, Rows
  <2>2. QED
    BY <1>1, <1>4, <2>1 DEF Receive, Put
<1>5. ASSUME NEW p \in Purchases, Close(p)
      PROVE purchases'[q] = purchases[q] \/ purchases'[q].status = "CLOSED"
  <2>1. Closed(purchases[p]).status = "CLOSED"
    BY <1>1 DEF Closed, Rows
  <2>2. QED
    BY <1>1, <1>5, <2>1 DEF Close, Put
<1>6. QED
  BY <1>2, <1>3, <1>4, <1>5
     DEF Next, Create, Decide, Cancel, Amend, MayDraft, MayDecide, MayCancel

\* A completed sales order gets no new commitment, decision or cancellation.
THEOREM FinalCorrect == Spec => FinalizedKeepsCommitments
<1>1. IInv /\ [Next]_bookVars => [StepFinal]_bookVars
  BY NextFinal
<1>2. QED
  BY <1>1, SpecIInv, PTL DEF Spec, FinalizedKeepsCommitments, StepFinal

-----------------------------------------------------------------------------
(* The transactions. *)

Functional ==
  /\ request = [a \in Sessions |-> request[a]]
  /\ locks = [a \in Sessions |-> locks[a]]
  /\ state = [a \in Sessions |-> state[a]]
  /\ row = [a \in Sessions |-> row[a]]
  /\ counted = [a \in Sessions |-> counted[a]]
  /\ \A a \in Sessions : counted[a] = [l \in Lines |-> counted[a][l]]

\* A row is locked by one transaction.
Exclusive ==
  \A a, b \in Sessions :
    /\ "sales" \in locks[a] /\ "sales" \in locks[b] => a = b
    /\ "purchase" \in locks[a] /\ "purchase" \in locks[b] /\ Purchase(a) = Purchase(b) => a = b

\* A request that the routers let through, and the locks it may have by now.
Wellformed(a) ==
  /\ Idle(a) => locks[a] = {} /\ counted[a] = Uncounted
  /\ ~Idle(a) =>
       /\ Kind(a) \in Kinds
       /\ Kind(a) # "create" => Purchase(a) \in Purchases /\ Exists(Purchase(a))
       /\ Kind(a) \in {"create", "amend", "receive"} => Wanted(a) \in RequestedLines
       /\ locks[a] \subseteq Locks(Kind(a))
       /\ "purchase" \in locks[a] => locks[a] = Locks(Kind(a))

ReadsTrue(a) ==
  /\ "sales" \in locks[a] => state[a] = sales
  /\ "purchase" \in locks[a] => row[a] = purchases[Purchase(a)]
  /\ \A l \in Lines : counted[a][l] # None => counted[a][l] = Committed(View(a), l)

\* Lines are counted under all the locks, once the command is allowed.
CountedUnderLocks(a) ==
  \A l \in Lines : counted[a][l] # None => Locked(a) /\ Drafts(a) /\ Allowed(a)

\* The version that a request names still tells the row its sender saw.
VersionTells(a) ==
  ~Idle(a) /\ Kind(a) # "create" =>
    LET seen == request[a].seen
        now == purchases[Purchase(a)]
    IN  seen.version \in Nat /\ (seen = now \/ seen.version < now.version)

Ok(a) == Wellformed(a) /\ ReadsTrue(a) /\ CountedUnderLocks(a) /\ VersionTells(a)

CInv ==
  /\ IInv
  /\ Functional
  /\ Exclusive
  /\ \A a \in Sessions : Ok(a)

-----------------------------------------------------------------------------
(* Locks and counts. *)

LEMMA LocksOf ==
  ASSUME NEW kind \in Kinds
  PROVE /\ Locks(kind) \subseteq {"sales", "purchase"}
        /\ "sales" \in Locks(kind) \/ kind \in {"receive", "close"}
        /\ "purchase" \in Locks(kind) <=> kind # "create"
        /\ kind \in {"receive", "close"} => Locks(kind) = {"purchase"}
BY DEF Locks, Kinds, Decisions

\* Equal contributions make equal sums.
LEMMA SameCommitted ==
  ASSUME NEW f, NEW g, NEW l \in Lines,
         \A p \in Purchases : Contribution(f[p], l) = Contribution(g[p], l)
  PROVE Committed(f, l) = Committed(g, l)
<1>1. [p \in Purchases |-> Contribution(f[p], l)] = [p \in Purchases |-> Contribution(g[p], l)]
  OBVIOUS
<1>2. QED
  BY <1>1 DEF Committed

\* A transaction that holds all it locks has read what is still so.
LEMMA LockedReads ==
  ASSUME CInv, NEW a \in Sessions, Locked(a)
  PROVE /\ Kind(a) \in Kinds
        /\ Kind(a) \notin {"receive", "close"} => state[a] = sales
        /\ Kind(a) # "create" => /\ Purchase(a) \in Purchases
                                 /\ Exists(Purchase(a))
                                 /\ row[a] = purchases[Purchase(a)]
<1>1. Ok(a) /\ ~Idle(a) /\ locks[a] = Locks(Kind(a))
  BY DEF CInv, Locked
<1>2. Kind(a) \in Kinds
  BY <1>1 DEF Ok, Wellformed
<1>3. QED
  BY <1>1, <1>2, LocksOf DEF Ok, Wellformed, ReadsTrue

\* What was counted leaves room for what is wanted.
LEMMA EnoughFits ==
  ASSUME CInv, NEW a \in Sessions, MayCommit(a), Drafts(a)
  PROVE Fits(View(a), Wanted(a))
<1> SUFFICES ASSUME NEW l \in Lines, Wanted(a)[l] > 0
             PROVE Committed(View(a), l) + Wanted(a)[l] <= Ordered[l]
  BY DEF Fits
<1>1. counted[a][l] # None /\ ~Exceeds(a, l)
  BY DEF MayCommit, Enough, Counts
<1>2. counted[a][l] = Committed(View(a), l)
  BY <1>1 DEF CInv, Ok, ReadsTrue
<1>3. QED
  BY <1>1, <1>2 DEF Exceeds

-----------------------------------------------------------------------------
(* Every step is a step of the book or leaves it alone.                    *)

LEMMA CreateRefines ==
  ASSUME CInv, NEW a \in Sessions, CommitCreate(a)
  PROVE \E n \in Purchases : Create(n, Wanted(a)) /\ Wanted(a) \in RequestedLines
<1>1. MayCommit(a) /\ Kind(a) = "create" /\ Locked(a) /\ Allowed(a)
  BY DEF CommitCreate, MayCommit
<1>2. MayDraft(sales)
  BY <1>1, LockedReads DEF Allowed, Decisions
<1>3. Fits(purchases, Wanted(a))
  BY <1>1, EnoughFits DEF View, Drafts
<1>4. Wanted(a) \in RequestedLines
  BY <1>1 DEF CInv, Ok, Wellformed, Locked
<1>5. QED
  BY <1>2, <1>3, <1>4 DEF CommitCreate, Create

LEMMA AmendRefines ==
  ASSUME CInv, NEW a \in Sessions, CommitAmend(a)
  PROVE /\ Purchase(a) \in Purchases
        /\ \E n \in Purchases :
             Amend(Purchase(a), n, Wanted(a)) /\ Wanted(a) \in RequestedLines
<1>1. MayCommit(a) /\ Kind(a) = "amend" /\ Locked(a) /\ Allowed(a)
  BY DEF CommitAmend, MayCommit
<1>2. state[a] = sales /\ Purchase(a) \in Purchases /\ row[a] = purchases[Purchase(a)]
  BY <1>1, LockedReads
<1>3. MayCancel(sales, purchases[Purchase(a)]) /\ MayDraft(sales)
  BY <1>1, <1>2 DEF Allowed, Decisions
<1>4. View(a) = [purchases EXCEPT ![Purchase(a)] = Cancelled(purchases[Purchase(a)])]
  BY <1>1, <1>2 DEF View
<1>5. Fits(View(a), Wanted(a))
  BY <1>1, EnoughFits DEF Drafts
<1>6. Wanted(a) \in RequestedLines
  BY <1>1 DEF CInv, Ok, Wellformed, Locked
<1>7. QED
  BY <1>2, <1>3, <1>4, <1>5, <1>6 DEF CommitAmend, Amend

\* A command on one purchase is one of the book's on that purchase.
RowStep(a) ==
  \/ Kind(a) \in Decisions /\ Decide(Purchase(a), Kind(a))
  \/ Kind(a) = "cancel" /\ Cancel(Purchase(a))
  \/ Kind(a) = "receive" /\ Receive(Purchase(a), Wanted(a))
  \/ Kind(a) = "close" /\ Close(Purchase(a))

LEMMA RowRefines ==
  ASSUME CInv, NEW a \in Sessions, CommitRow(a)
  PROVE RowStep(a) /\ Purchase(a) \in Purchases
<1>1. /\ Locked(a) /\ Allowed(a) /\ ~Drafts(a)
      /\ Put(Purchase(a), Written(a))
  BY DEF CommitRow, MayCommit
<1>2. /\ Kind(a) \in Kinds /\ Kind(a) # "create"
      /\ Purchase(a) \in Purchases /\ row[a] = purchases[Purchase(a)]
  BY <1>1, LockedReads DEF Drafts
<1>3. CASE Kind(a) \in Decisions
  <2>1. state[a] = sales
    BY <1>1, <1>3, LockedReads DEF Decisions
  <2>2. MayDecide(state[a], row[a], Kind(a)) /\ Written(a) = Decided(row[a], Kind(a))
    BY <1>1, <1>3 DEF Allowed, Written, Decisions
  <2>3. QED
    BY <1>1, <1>2, <1>3, <2>1, <2>2 DEF RowStep, Decide
<1>4. CASE Kind(a) = "cancel"
  <2>1. state[a] = sales
    BY <1>1, <1>4, LockedReads
  <2>2. MayCancel(state[a], row[a]) /\ Written(a) = Cancelled(row[a])
    BY <1>1, <1>4 DEF Allowed, Written, Decisions
  <2>3. QED
    BY <1>1, <1>2, <1>4, <2>1, <2>2 DEF RowStep, Cancel
<1>5. CASE Kind(a) = "receive"
  <2>1. MayReceive(row[a], Wanted(a)) /\ Written(a) = Received(row[a], Wanted(a))
    BY <1>1, <1>5 DEF Allowed, Written, Decisions
  <2>2. QED
    BY <1>1, <1>2, <1>5, <2>1 DEF RowStep, Receive
<1>6. CASE Kind(a) = "close"
  <2>1. MayClose(row[a]) /\ Written(a) = Closed(row[a])
    BY <1>1, <1>6 DEF Allowed, Written, Decisions
  <2>2. QED
    BY <1>1, <1>2, <1>6, <2>1 DEF RowStep, Close
<1>7. QED
  BY <1>1, <1>2, <1>3, <1>4, <1>5, <1>6 DEF Kinds, Drafts

LEMMA Refines == CInv /\ [NextConcurrent]_vars => [Next]_bookVars
<1> SUFFICES ASSUME CInv, [NextConcurrent]_vars PROVE [Next]_bookVars
  OBVIOUS
<1>1. ASSUME NEW a \in Sessions, CommitCreate(a) PROVE Next
  BY <1>1, CreateRefines DEF Next
<1>2. ASSUME NEW a \in Sessions, CommitAmend(a) PROVE Next
  BY <1>2, AmendRefines DEF Next
<1>3. ASSUME NEW a \in Sessions, CommitRow(a) PROVE Next
  <2>1. RowStep(a) /\ Purchase(a) \in Purchases
    BY <1>3, RowRefines
  <2>2. Kind(a) = "receive" => Wanted(a) \in RequestedLines
    BY <1>3 DEF CInv, Ok, Wellformed, CommitRow, MayCommit, Locked
  <2>3. QED
    BY <2>1, <2>2 DEF RowStep, Next
<1>4. ASSUME NEW a \in Sessions,
             Ask(a) \/ LockSales(a) \/ LockPurchase(a) \/ Refuse(a) \/ Rollback(a)
               \/ \E l \in Lines : Count(a, l)
      PROVE UNCHANGED bookVars
  BY <1>4 DEF Ask, Send, LockSales, LockPurchase, Refuse, Rollback, Count, bookVars
<1>5. CASE UNCHANGED vars
  BY <1>5 DEF vars, bookVars
<1>6. QED
  BY <1>1, <1>2, <1>3, <1>4, <1>5 DEF NextConcurrent, Run, Next

-----------------------------------------------------------------------------
(* What a session keeps while others step.                                 *)

Untouched(b) ==
  /\ request'[b] = request[b] /\ locks'[b] = locks[b]
  /\ state'[b] = state[b] /\ row'[b] = row[b] /\ counted'[b] = counted[b]

\* What others may do to the book that session b has read.
Harmless(b) ==
  /\ "sales" \in locks[b] =>
       /\ sales' = sales
       /\ \A p \in Purchases, l \in Lines :
            Contribution(purchases'[p], l) = Contribution(purchases[p], l)
  /\ ~Idle(b) /\ Kind(b) # "create" =>
       /\ purchases'[Purchase(b)].status # "ABSENT"
       /\ \/ purchases'[Purchase(b)] = purchases[Purchase(b)]
          \/ /\ "purchase" \notin locks[b]
             /\ purchases'[Purchase(b)].version = purchases[Purchase(b)].version + 1

LEMMA VersionsAreNumbers ==
  ASSUME CInv, NEW p \in Purchases
  PROVE purchases[p].version \in Nat
BY DEF CInv, IInv, TypeOK, Rows

LEMMA OkKept ==
  ASSUME CInv, IInv', NEW b \in Sessions, Untouched(b), Harmless(b)
  PROVE Ok(b)'
<1>1. Ok(b)
  BY DEF CInv
<1>2. Wellformed(b)'
  BY <1>1 DEF Ok, Wellformed, Untouched, Harmless, Idle, Kind, Purchase, Wanted, Exists
<1>3. VersionTells(b)'
  <2> SUFFICES ASSUME ~Idle(b), Kind(b) # "create"
               PROVE LET seen == request[b].seen
                         now == purchases'[Purchase(b)]
                     IN  seen.version \in Nat /\ (seen = now \/ seen.version < now.version)
    BY DEF VersionTells, Untouched, Idle, Kind, Purchase
  <2>1. Purchase(b) \in Purchases
    BY <1>1 DEF Ok, Wellformed
  <2>2. purchases[Purchase(b)].version \in Nat
    BY <2>1, VersionsAreNumbers
  <2>3. QED
    BY <1>1, <2>2 DEF Ok, VersionTells, Harmless
<1>4. CountedUnderLocks(b)'
  BY <1>1 DEF Ok, CountedUnderLocks, Untouched, Locked, Drafts, Allowed, VersionSeen,
              Idle, Kind, Wanted
<1>5. ReadsTrue(b)'
  <2>1. "sales" \in locks'[b] => state'[b] = sales'
    BY <1>1 DEF Ok, ReadsTrue, Untouched, Harmless
  <2>2. "purchase" \in locks'[b] => row'[b] = purchases'[Purchase(b)']
    <3> SUFFICES ASSUME "purchase" \in locks[b] PROVE row[b] = purchases'[Purchase(b)]
      BY DEF Untouched, Purchase
    <3>1. ~Idle(b) /\ Kind(b) # "create"
      BY <1>1, LocksOf DEF Ok, Wellformed
    <3>2. QED
      BY <1>1, <3>1 DEF Ok, ReadsTrue, Harmless
  <2>3. ASSUME NEW l \in Lines, counted[b][l] # None
        PROVE counted[b][l] = Committed(View(b)', l)
    <3>1. Locked(b) /\ Drafts(b)
      BY <1>1, <2>3 DEF Ok, CountedUnderLocks
    <3>2. Kind(b) \in Kinds /\ "sales" \in locks[b]
      BY <1>1, <3>1, LocksOf DEF Ok, Wellformed, Locked, Drafts
    <3>3. \A p \in Purchases : Contribution(purchases'[p], l) = Contribution(purchases[p], l)
      BY <3>2 DEF Harmless
    <3>4. \A p \in Purchases : Contribution(View(b)'[p], l) = Contribution(View(b)[p], l)
      <4>1. /\ purchases = [p \in Purchases |-> purchases[p]]
            /\ purchases' = [p \in Purchases |-> purchases'[p]]
        BY DEF CInv, IInv, TypeOK
      <4>2. CASE Kind(b) = "amend"
        <5>1. /\ View(b) = [purchases EXCEPT ![Purchase(b)] = Cancelled(row[b])]
              /\ View(b)' = [purchases' EXCEPT ![Purchase(b)] = Cancelled(row[b])]
          BY <4>2 DEF View, Kind, Purchase, Untouched
        <5>2. QED
          BY <3>3, <4>1, <5>1
      <4>3. CASE Kind(b) # "amend"
        <5>1. View(b) = purchases /\ View(b)' = purchases'
          BY <4>3 DEF View, Kind, Untouched
        <5>2. QED
          BY <3>3, <5>1
      <4>4. QED
        BY <4>2, <4>3
    <3>5. Committed(View(b)', l) = Committed(View(b), l)
      BY <3>4, SameCommitted
    <3>6. QED
      BY <1>1, <2>3, <3>5 DEF Ok, ReadsTrue
  <2>4. QED
    BY <2>1, <2>2, <2>3 DEF ReadsTrue, Untouched
<1>6. QED
  BY <1>2, <1>3, <1>4, <1>5 DEF Ok

-----------------------------------------------------------------------------
(* What a commit does to each purchase.                                    *)

\* A commit of session a leaves purchase p alone, creates it, or changes it under
\* its lock; without the sales order's lock its commitment stays the same.
Touches(a, p) ==
  \/ purchases'[p] = purchases[p]
  \/ ~Exists(p) /\ "sales" \in locks[a]
  \/ /\ p = Purchase(a) /\ "purchase" \in locks[a]
     /\ purchases'[p].status # "ABSENT"
     /\ purchases'[p].version = purchases[p].version + 1
     /\ \/ "sales" \in locks[a]
        \/ \A l \in Lines : Contribution(purchases'[p], l) = Contribution(purchases[p], l)

LEMMA VersionCounts ==
  ASSUME NEW r \in Rows, NEW d, NEW lines
  PROVE /\ Decided(r, d).version = r.version + 1
        /\ Cancelled(r).version = r.version + 1
        /\ Received(r, lines).version = r.version + 1
        /\ Closed(r).version = r.version + 1
        /\ Received(r, lines).status # "CANCELLED"
        /\ Closed(r).status # "CANCELLED"
BY DEF Decided, Cancelled, Received, Closed, Rows

LEMMA CreateTouches ==
  ASSUME CInv, NEW a \in Sessions, CommitCreate(a)
  PROVE sales' = sales /\ \A p \in Purchases : Touches(a, p)
<1>1. "sales" \in locks[a]
  BY DEF CommitCreate, MayCommit, Locked, Locks
<1>2. purchases = [p \in Purchases |-> purchases[p]]
  BY DEF CInv, IInv, TypeOK
<1>3. PICK n \in Purchases : ~Exists(n) /\ Put(n, Draft(Wanted(a), None))
  BY DEF CommitCreate
<1>4. QED
  BY <1>1, <1>2, <1>3 DEF Put, Touches

LEMMA AmendTouches ==
  ASSUME CInv, NEW a \in Sessions, CommitAmend(a)
  PROVE sales' = sales /\ \A p \in Purchases : Touches(a, p)
<1>1. Kind(a) = "amend" /\ Locked(a) /\ Allowed(a) /\ MayCommit(a)
  BY DEF CommitAmend, MayCommit
<1>2. "sales" \in locks[a] /\ "purchase" \in locks[a]
  BY <1>1, LocksOf DEF Locked, Kinds
<1>3. purchases = [p \in Purchases |-> purchases[p]]
  BY DEF CInv, IInv, TypeOK
<1>4. Purchase(a) \in Purchases /\ row[a] = purchases[Purchase(a)] /\ Exists(Purchase(a))
  BY <1>1, LockedReads
<1>5. PICK n \in Purchases :
        ~Exists(n) /\ purchases' = [View(a) EXCEPT ![n] = Draft(Wanted(a), Purchase(a))]
  BY DEF CommitAmend
<1>6. View(a) = [purchases EXCEPT ![Purchase(a)] = Cancelled(purchases[Purchase(a)])]
  BY <1>1, <1>4 DEF View
<1>7. \A p \in Purchases : p # n /\ p # Purchase(a) => purchases'[p] = purchases[p]
  BY <1>3, <1>5, <1>6
<1>8. n # Purchase(a)
  BY <1>4, <1>5
<1>9. purchases'[Purchase(a)] = Cancelled(purchases[Purchase(a)])
  BY <1>3, <1>4, <1>5, <1>6, <1>8
<1>10. purchases[Purchase(a)] \in Rows
  BY <1>4 DEF CInv, IInv, TypeOK
<1>11. /\ Cancelled(purchases[Purchase(a)]).status = "CANCELLED"
       /\ Cancelled(purchases[Purchase(a)]).version = purchases[Purchase(a)].version + 1
  BY <1>10 DEF Cancelled, Rows
<1>12. Touches(a, Purchase(a))
  BY <1>2, <1>9, <1>11 DEF Touches
<1>13. QED
  BY <1>2, <1>5, <1>7, <1>12 DEF CommitAmend, Touches

LEMMA RowTouches ==
  ASSUME CInv, NEW a \in Sessions, CommitRow(a)
  PROVE sales' = sales /\ \A p \in Purchases : Touches(a, p)
<1>1. Locked(a) /\ ~Drafts(a) /\ Put(Purchase(a), Written(a)) /\ MayCommit(a)
  BY DEF CommitRow, MayCommit
<1>2. Kind(a) \in Kinds /\ Kind(a) # "create" /\ Purchase(a) \in Purchases
  BY <1>1, LockedReads DEF Drafts
<1>3. /\ "purchase" \in locks[a]
      /\ "sales" \in locks[a] \/ Kind(a) \in {"receive", "close"}
  BY <1>1, <1>2, LocksOf DEF Locked
<1>4. purchases = [p \in Purchases |-> purchases[p]]
  BY DEF CInv, IInv, TypeOK
<1>5. Good(purchases[Purchase(a)])
  BY <1>2, GoodRows DEF CInv
<1>6. RowStep(a)
  BY RowRefines
<1>7. Kind(a) = "receive" => Wanted(a) \in RequestedLines
  BY <1>1 DEF CInv, Ok, Wellformed, Locked
<1>8. Follows(purchases[Purchase(a)], purchases'[Purchase(a)])
  <2>1. CASE Kind(a) \in Decisions /\ Decide(Purchase(a), Kind(a))
    BY <1>2, <1>4, <1>5, <2>1, DecidedFollows DEF Decide, Put
  <2>2. CASE Cancel(Purchase(a))
    BY <1>2, <1>4, <1>5, <2>2, CancelledFollows DEF Cancel, Put
  <2>3. CASE Kind(a) = "receive" /\ Receive(Purchase(a), Wanted(a))
    BY <1>2, <1>4, <1>5, <1>7, <2>3, ReceivedFollows DEF Receive, Put
  <2>4. CASE Close(Purchase(a))
    BY <1>2, <1>4, <1>5, <2>4, ClosedFollows DEF Close, Put
  <2>5. QED
    BY <1>6, <2>1, <2>2, <2>3, <2>4 DEF RowStep
<1>9. purchases[Purchase(a)] \in Rows
  BY <1>5 DEF Good
<1>10. /\ purchases'[Purchase(a)] = Written(a)
       /\ row[a] = purchases[Purchase(a)]
  BY <1>1, <1>2, <1>4, LockedReads DEF Put
<1>11. purchases'[Purchase(a)].version = purchases[Purchase(a)].version + 1
  BY <1>2, <1>9, <1>10, <1>1, VersionCounts DEF Written, Kinds, Drafts
<1>12. Kind(a) \in {"receive", "close"} => purchases'[Purchase(a)].status # "CANCELLED"
  BY <1>9, <1>10, VersionCounts DEF Written, Decisions
<1>13. Kind(a) \in {"receive", "close"} => \A l \in Lines :
         Contribution(purchases'[Purchase(a)], l) = Contribution(purchases[Purchase(a)], l)
  BY <1>8, <1>12 DEF Contribution, Follows
<1>14. purchases'[Purchase(a)].status # "ABSENT"
  BY <1>8 DEF Follows
<1>15. Touches(a, Purchase(a))
  BY <1>3, <1>11, <1>13, <1>14 DEF Touches
<1>16. \A p \in Purchases : p # Purchase(a) => purchases'[p] = purchases[p]
  BY <1>1, <1>4 DEF Put
<1>17. QED
  BY <1>1, <1>15, <1>16 DEF Put, Touches

-----------------------------------------------------------------------------
(* The invariant, step by step.                                            *)

\* A session that is not touched keeps what it knows while another commits.
LEMMA OthersKept ==
  ASSUME CInv, IInv', NEW a \in Sessions, NEW b \in Sessions, a # b, Untouched(b),
         sales' = sales, \A p \in Purchases : Touches(a, p)
  PROVE Ok(b)'
<1>1. Ok(b)
  BY DEF CInv
<1>2. "sales" \in locks[b] => "sales" \notin locks[a]
  BY DEF CInv, Exclusive
<1>3. "purchase" \in locks[b] /\ "purchase" \in locks[a] => Purchase(a) # Purchase(b)
  BY DEF CInv, Exclusive
<1>4. ASSUME "sales" \in locks[b], NEW p \in Purchases, NEW l \in Lines
      PROVE Contribution(purchases'[p], l) = Contribution(purchases[p], l)
  BY <1>2, <1>4 DEF Touches
<1>5. ASSUME ~Idle(b), Kind(b) # "create"
      PROVE /\ purchases'[Purchase(b)].status # "ABSENT"
            /\ \/ purchases'[Purchase(b)] = purchases[Purchase(b)]
               \/ /\ "purchase" \notin locks[b]
                  /\ purchases'[Purchase(b)].version = purchases[Purchase(b)].version + 1
  <2>1. Purchase(b) \in Purchases /\ Exists(Purchase(b))
    BY <1>1, <1>5 DEF Ok, Wellformed
  <2>2. Touches(a, Purchase(b))
    BY <2>1
  <2>3. QED
    BY <1>3, <2>1, <2>2 DEF Touches, Exists
<1>6. Harmless(b)
  BY <1>4, <1>5 DEF Harmless
<1>7. QED
  BY <1>6, OkKept

\* A session that is not touched keeps what it knows while the book stays the same.
LEMMA BookKept ==
  ASSUME CInv, NEW b \in Sessions, Untouched(b), UNCHANGED bookVars
  PROVE Ok(b)'
<1>1. IInv'
  BY NextIInv DEF CInv
<1>2. ~Idle(b) /\ Kind(b) # "create" => Purchase(b) \in Purchases /\ Exists(Purchase(b))
  BY DEF CInv, Ok, Wellformed
<1>3. Harmless(b)
  BY <1>2 DEF Harmless, bookVars, Exists
<1>4. QED
  BY <1>1, <1>3, OkKept

\* A transaction that has ended knows nothing and holds nothing.
LEMMA Released ==
  ASSUME CInv, NEW a \in Sessions, Release(a)
  PROVE /\ Functional' /\ Exclusive' /\ Ok(a)'
        /\ \A b \in Sessions : b # a => Untouched(b)
<1>1. Functional'
  BY DEF CInv, Functional, Release, Uncounted
<1>2. /\ request'[a] = None /\ locks'[a] = {} /\ counted'[a] = Uncounted
      /\ \A b \in Sessions : b # a => Untouched(b)
  BY DEF CInv, Functional, Release, Untouched
<1>3. Exclusive'
  BY <1>2 DEF CInv, Exclusive, Untouched, Purchase
<1>4. Ok(a)'
  BY <1>2 DEF Ok, Wellformed, ReadsTrue, CountedUnderLocks, VersionTells, Idle, Uncounted
<1>5. QED
  BY <1>1, <1>2, <1>3, <1>4

LEMMA CommitKeeps ==
  ASSUME CInv, NEW a \in Sessions, CommitCreate(a) \/ CommitAmend(a) \/ CommitRow(a)
  PROVE CInv'
<1>1. Release(a)
  BY DEF CommitCreate, CommitAmend, CommitRow
<1>2. sales' = sales /\ \A p \in Purchases : Touches(a, p)
  BY CreateTouches, AmendTouches, RowTouches
<1>3. NextConcurrent
  BY DEF NextConcurrent, Run
<1>4. IInv'
  BY <1>3, Refines, NextIInv DEF CInv
<1>5. ASSUME NEW b \in Sessions PROVE Ok(b)'
  <2>1. CASE b = a
    BY <1>1, <2>1, Released
  <2>2. CASE b # a
    <3>1. Untouched(b)
      BY <1>1, <2>2, Released
    <3>2. QED
      BY <1>2, <1>4, <2>2, <3>1, OthersKept
  <2>3. QED
    BY <2>1, <2>2
<1>6. QED
  BY <1>1, <1>4, <1>5, Released DEF CInv

LEMMA EndKeeps ==
  ASSUME CInv, NEW a \in Sessions, Release(a), UNCHANGED bookVars
  PROVE CInv'
<1>1. IInv'
  BY NextIInv DEF CInv
<1>2. ASSUME NEW b \in Sessions PROVE Ok(b)'
  <2>1. CASE b = a
    BY <2>1, Released
  <2>2. CASE b # a
    <3>1. Untouched(b)
      BY <2>2, Released
    <3>2. QED
      BY <3>1, BookKept
  <2>3. QED
    BY <2>1, <2>2
<1>3. QED
  BY <1>1, <1>2, Released DEF CInv

\* A step of session a that leaves the book alone has to keep what a knows.
LEMMA OwnStep ==
  ASSUME CInv, NEW a \in Sessions, UNCHANGED bookVars, Functional', Exclusive', Ok(a)',
         \A b \in Sessions : b # a => Untouched(b)
  PROVE CInv'
<1>1. IInv'
  BY NextIInv DEF CInv
<1>2. ASSUME NEW b \in Sessions PROVE Ok(b)'
  BY BookKept
<1>3. QED
  BY <1>1, <1>2 DEF CInv

\* What a page permits is for a purchase that is there.
LEMMA AskedFor ==
  ASSUME CInv, NEW a \in Sessions, Ask(a)
  PROVE \E kind \in Kinds, p \in Purchases \cup {None} : \E lines :
          /\ Send(a, kind, p, lines)
          /\ kind = "create" <=> p = None
          /\ p # None => Exists(p)
          /\ lines \in RequestedLines \cup {NoLines}
          /\ kind \in {"create", "amend", "receive"} => lines \in RequestedLines
<1> DEFINE Asks(kind, p, lines) ==
             /\ Send(a, kind, p, lines)
             /\ kind = "create" <=> p = None
             /\ p # None => Exists(p)
             /\ lines \in RequestedLines \cup {NoLines}
             /\ kind \in {"create", "amend", "receive"} => lines \in RequestedLines
<1>0. \A p \in Purchases : p # None
  BY PurchaseAssumption
<1>1. ASSUME NEW lines \in RequestedLines, Send(a, "create", None, lines)
      PROVE Asks("create", None, lines)
  BY <1>1
<1>2. ASSUME NEW p \in Purchases, NEW d \in Decisions,
             MayDecide(sales, purchases[p], d), Send(a, d, p, NoLines)
      PROVE Asks(d, p, NoLines)
  BY <1>0, <1>2 DEF MayDecide, Decisions, Source, Exists
<1>3. ASSUME NEW p \in Purchases, NEW k \in {"cancel", "amend"},
             NEW lines \in RequestedLines \cup {NoLines},
             MayCancel(sales, purchases[p]), Send(a, k, p, lines),
             k = "amend" => lines \in RequestedLines
      PROVE Asks(k, p, lines)
  BY <1>0, <1>3 DEF MayCancel, Open, Exists
<1>4. ASSUME NEW p \in Purchases, MayClose(purchases[p]), Send(a, "close", p, NoLines)
      PROVE Asks("close", p, NoLines)
  BY <1>0, <1>4 DEF MayClose, Exists
<1>5. ASSUME NEW p \in Purchases, NEW lines \in RequestedLines,
             MayReceive(purchases[p], lines), Send(a, "receive", p, lines)
      PROVE Asks("receive", p, lines)
  BY <1>0, <1>5 DEF MayReceive, Exists
<1>6. QED
  <2>1. CASE \E lines \in RequestedLines : Send(a, "create", None, lines)
    BY <1>1, <2>1 DEF Kinds
  <2>2. CASE \E p \in Purchases, d \in Decisions :
               MayDecide(sales, purchases[p], d) /\ Send(a, d, p, NoLines)
    BY <1>2, <2>2 DEF Kinds
  <2>3. CASE \E p \in Purchases : MayCancel(sales, purchases[p]) /\ Send(a, "cancel", p, NoLines)
    BY <1>3, <2>3 DEF Kinds
  <2>4. CASE \E p \in Purchases : MayClose(purchases[p]) /\ Send(a, "close", p, NoLines)
    BY <1>4, <2>4 DEF Kinds
  <2>5. CASE \E p \in Purchases, lines \in RequestedLines :
               MayReceive(purchases[p], lines) /\ Send(a, "receive", p, lines)
    BY <1>5, <2>5 DEF Kinds
  <2>6. CASE \E p \in Purchases, lines \in RequestedLines :
               MayCancel(sales, purchases[p]) /\ Send(a, "amend", p, lines)
    BY <1>3, <2>6 DEF Kinds
  <2>7. QED
    BY <2>1, <2>2, <2>3, <2>4, <2>5, <2>6 DEF Ask

LEMMA SendKeeps ==
  ASSUME CInv, NEW a \in Sessions, Ask(a)
  PROVE CInv'
<1>0. PICK kind \in Kinds, p \in Purchases \cup {None} : \E lines :
        /\ Send(a, kind, p, lines)
        /\ kind = "create" <=> p = None
        /\ p # None => Exists(p)
        /\ kind \in {"create", "amend", "receive"} => lines \in RequestedLines
  BY AskedFor
<1>1. PICK lines :
        /\ Send(a, kind, p, lines)
        /\ kind = "create" <=> p = None
        /\ p # None => Exists(p)
        /\ kind \in {"create", "amend", "receive"} => lines \in RequestedLines
  BY <1>0
<1>2. /\ Idle(a) /\ UNCHANGED <<bookVars, locks, state, row, counted>>
      /\ request' = [request EXCEPT ![a] =
           [kind |-> kind, purchase |-> p, lines |-> lines,
            seen |-> IF p = None THEN Blank ELSE purchases[p]]]
  BY <1>1 DEF Send
<1>3. /\ request'[a].kind = kind /\ request'[a].purchase = p /\ request'[a].lines = lines
      /\ p # None => request'[a].seen = purchases[p]
  BY <1>2 DEF CInv, Functional
<1>4. \A b \in Sessions : b # a => Untouched(b)
  BY <1>2 DEF CInv, Functional, Untouched
<1>5. locks[a] = {} /\ counted[a] = Uncounted
  BY <1>2 DEF CInv, Ok, Wellformed
<1>6. Functional'
  BY <1>2 DEF CInv, Functional
<1>7. Exclusive'
  BY <1>2, <1>4, <1>5 DEF CInv, Exclusive, Untouched, Purchase
<1>8. Ok(a)'
  <2>1. Wellformed(a)'
    <3>1. Idle(a)' => locks'[a] = {} /\ counted'[a] = Uncounted
      BY <1>2, <1>5
    <3>2. Kind(a)' = kind /\ Purchase(a)' = p /\ Wanted(a)' = lines
      BY <1>3 DEF Kind, Purchase, Wanted
    <3>3. p # None => Exists(p)'
      BY <1>1, <1>2 DEF Exists, bookVars
    <3>4. QED
      BY <1>1, <1>2, <1>5, <3>1, <3>2, <3>3 DEF Wellformed, Uncounted, Exists
  <2>2. ReadsTrue(a)' /\ CountedUnderLocks(a)'
    BY <1>2, <1>5 DEF ReadsTrue, CountedUnderLocks, Uncounted
  <2>3. VersionTells(a)'
    <3>1. p # None => purchases[p].version \in Nat
      BY VersionsAreNumbers
    <3>2. QED
      BY <1>1, <1>2, <1>3, <3>1 DEF VersionTells, Kind, Purchase, bookVars
  <2>4. QED
    BY <2>1, <2>2, <2>3 DEF Ok
<1>9. QED
  BY <1>2, <1>4, <1>6, <1>7, <1>8, OwnStep

\* Nothing is counted before the last lock.
LEMMA UncountedYet ==
  ASSUME CInv, NEW a \in Sessions, NEW lock, MayLock(a, lock)
  PROVE \A l \in Lines : counted[a][l] = None
BY DEF CInv, Ok, CountedUnderLocks, Locked, MayLock

LEMMA LockSalesKeeps ==
  ASSUME CInv, NEW a \in Sessions, LockSales(a)
  PROVE CInv'
<1>1. /\ MayLock(a, "sales") /\ SalesFree /\ UNCHANGED <<bookVars, request, row, counted>>
      /\ locks' = [locks EXCEPT ![a] = @ \cup {"sales"}]
      /\ state' = [state EXCEPT ![a] = sales]
  BY DEF LockSales
<1>2. /\ locks'[a] = locks[a] \cup {"sales"} /\ state'[a] = sales
      /\ \A b \in Sessions : b # a => Untouched(b)
  BY <1>1 DEF CInv, Functional, Untouched
<1>3. Functional'
  BY <1>1 DEF CInv, Functional
<1>4. Exclusive'
  BY <1>1, <1>2 DEF CInv, Exclusive, Untouched, Purchase, SalesFree
<1>5. ~Idle(a) /\ "sales" \in Locks(Kind(a)) /\ Ok(a)
  BY <1>1 DEF MayLock, CInv
<1>6. \A l \in Lines : counted[a][l] = None
  BY <1>1, UncountedYet
<1>7. Ok(a)'
  <2>1. Wellformed(a)'
    BY <1>1, <1>2, <1>5 DEF Ok, Wellformed, Idle, Kind, Purchase, Wanted, Exists, bookVars
  <2>2. ReadsTrue(a)' /\ CountedUnderLocks(a)'
    BY <1>1, <1>2, <1>5, <1>6
       DEF Ok, ReadsTrue, CountedUnderLocks, Purchase, bookVars
  <2>3. VersionTells(a)'
    BY <1>1, <1>5 DEF Ok, VersionTells, Idle, Kind, Purchase, bookVars
  <2>4. QED
    BY <2>1, <2>2, <2>3 DEF Ok
<1>8. QED
  BY <1>1, <1>2, <1>3, <1>4, <1>7, OwnStep

LEMMA LockPurchaseKeeps ==
  ASSUME CInv, NEW a \in Sessions, LockPurchase(a)
  PROVE CInv'
<1>1. /\ MayLock(a, "purchase") /\ PurchaseFree(Purchase(a))
      /\ UNCHANGED <<bookVars, request, state, counted>>
      /\ locks' = [locks EXCEPT ![a] = @ \cup {"purchase"}]
      /\ row' = [row EXCEPT ![a] = purchases[Purchase(a)]]
  BY DEF LockPurchase
<1>2. /\ locks'[a] = locks[a] \cup {"purchase"} /\ row'[a] = purchases[Purchase(a)]
      /\ \A b \in Sessions : b # a => Untouched(b)
  BY <1>1 DEF CInv, Functional, Untouched
<1>3. Functional'
  BY <1>1 DEF CInv, Functional
<1>4. Exclusive'
  BY <1>1, <1>2 DEF CInv, Exclusive, Untouched, Purchase, PurchaseFree
<1>5. ~Idle(a) /\ "purchase" \in Locks(Kind(a)) /\ Ok(a)
  BY <1>1 DEF MayLock, CInv
<1>6. \A l \in Lines : counted[a][l] = None
  BY <1>1, UncountedYet
<1>7. Ok(a)'
  <2>0. locks'[a] = Locks(Kind(a))
    BY <1>1, <1>2, <1>5 DEF MayLock, First, Ok, Wellformed
  <2>1. Wellformed(a)'
    BY <1>1, <1>2, <1>5, <2>0 DEF Ok, Wellformed, Idle, Kind, Purchase, Wanted, Exists, bookVars
  <2>2. ReadsTrue(a)' /\ CountedUnderLocks(a)'
    BY <1>1, <1>2, <1>5, <1>6
       DEF Ok, ReadsTrue, CountedUnderLocks, Purchase, bookVars
  <2>3. VersionTells(a)'
    BY <1>1, <1>5 DEF Ok, VersionTells, Idle, Kind, Purchase, bookVars
  <2>4. QED
    BY <2>1, <2>2, <2>3 DEF Ok
<1>8. QED
  BY <1>1, <1>2, <1>3, <1>4, <1>7, OwnStep

LEMMA CountKeeps ==
  ASSUME CInv, NEW a \in Sessions, NEW m \in Lines, Count(a, m)
  PROVE CInv'
<1>1. /\ Locked(a) /\ Allowed(a) /\ Drafts(a)
      /\ UNCHANGED <<bookVars, request, locks, state, row>>
      /\ counted' = [counted EXCEPT ![a][m] = Committed(View(a), m)]
  BY DEF Count, Counts
<1>2. /\ \A l \in Lines :
           counted'[a][l] = IF l = m THEN Committed(View(a), m) ELSE counted[a][l]
      /\ \A b \in Sessions : b # a => Untouched(b)
  BY <1>1 DEF CInv, Functional, Untouched
<1>3. Functional'
  <2>1. counted' = [b \in Sessions |-> counted'[b]]
    BY <1>1 DEF CInv, Functional
  <2>2. ASSUME NEW b \in Sessions
        PROVE counted'[b] = [l \in Lines |-> counted'[b][l]]
    BY <1>1 DEF CInv, Functional
  <2>3. QED
    BY <1>1, <2>1, <2>2 DEF CInv, Functional
<1>4. Exclusive'
  BY <1>1 DEF CInv, Exclusive, Purchase
<1>5. ~Idle(a) /\ Ok(a)
  BY <1>1 DEF Locked, CInv
<1>6. View(a)' = View(a)
  BY <1>1 DEF View, Kind, Purchase, bookVars
<1>7. Ok(a)'
  <2>1. Wellformed(a)'
    BY <1>1, <1>5 DEF Ok, Wellformed, Idle, Kind, Purchase, Wanted, Exists, bookVars
  <2>2. /\ "sales" \in locks'[a] => state'[a] = sales'
        /\ "purchase" \in locks'[a] => row'[a] = purchases'[Purchase(a)']
    BY <1>1, <1>5 DEF Ok, ReadsTrue, Purchase, bookVars
  <2>3. ASSUME NEW l \in Lines, counted'[a][l] # None
        PROVE counted'[a][l] = Committed(View(a)', l)
    BY <1>2, <1>5, <1>6, <2>3 DEF Ok, ReadsTrue
  <2>4. ReadsTrue(a)'
    BY <2>2, <2>3 DEF ReadsTrue
  <2>5. CountedUnderLocks(a)'
    BY <1>1 DEF CountedUnderLocks, Locked, Drafts, Allowed, VersionSeen, Idle, Kind, Wanted
  <2>6. VersionTells(a)'
    BY <1>1, <1>5 DEF Ok, VersionTells, Idle, Kind, Purchase, bookVars
  <2>7. QED
    BY <2>1, <2>4, <2>5, <2>6 DEF Ok
<1>8. QED
  BY <1>1, <1>2, <1>3, <1>4, <1>7, OwnStep

LEMMA AdvanceKeeps ==
  ASSUME CInv, Advance, SalesFree, UNCHANGED sessionVars
  PROVE CInv'
<1>1. IInv'
  BY NextIInv DEF CInv, Next
<1>2. UNCHANGED <<request, locks, state, row, counted>> /\ UNCHANGED purchases
  BY DEF sessionVars, Advance
<1>3. Functional' /\ Exclusive'
  BY <1>2 DEF CInv, Functional, Exclusive, Purchase
<1>4. ASSUME NEW b \in Sessions PROVE Ok(b)'
  <2>1. Untouched(b) /\ "sales" \notin locks[b]
    BY <1>2 DEF Untouched, SalesFree
  <2>2. ~Idle(b) /\ Kind(b) # "create" => Exists(Purchase(b))
    BY DEF CInv, Ok, Wellformed
  <2>3. Harmless(b)
    BY <1>2, <2>1, <2>2 DEF Harmless, Exists
  <2>4. QED
    BY <1>1, <2>1, <2>3, OkKept
<1>5. QED
  BY <1>1, <1>3, <1>4 DEF CInv

LEMMA StutterKeeps ==
  ASSUME CInv, UNCHANGED vars
  PROVE CInv'
<1>1. UNCHANGED bookVars /\ UNCHANGED <<request, locks, state, row, counted>>
  BY DEF vars, sessionVars
<1>2. IInv'
  BY <1>1, NextIInv DEF CInv
<1>3. Functional' /\ Exclusive'
  BY <1>1 DEF CInv, Functional, Exclusive, Purchase
<1>4. \A b \in Sessions : Ok(b)'
  BY <1>1, BookKept DEF Untouched
<1>5. QED
  BY <1>2, <1>3, <1>4 DEF CInv

LEMMA InitCInv == InitConcurrent => CInv
<1> SUFFICES ASSUME InitConcurrent PROVE CInv
  OBVIOUS
<1>1. IInv
  BY InitIInv DEF InitConcurrent
<1>2. Functional /\ Exclusive
  BY DEF InitConcurrent, Functional, Exclusive, Uncounted
<1>3. ASSUME NEW a \in Sessions PROVE Ok(a)
  BY DEF InitConcurrent, Ok, Wellformed, ReadsTrue, CountedUnderLocks, VersionTells,
         Idle, Uncounted
<1>4. QED
  BY <1>1, <1>2, <1>3 DEF CInv

LEMMA NextCInv == CInv /\ [NextConcurrent]_vars => CInv'
<1> SUFFICES ASSUME CInv, [NextConcurrent]_vars PROVE CInv'
  OBVIOUS
<1>1. ASSUME NEW a \in Sessions, Run(a) PROVE CInv'
  <2>1. CASE \E l \in Lines : Count(a, l)
    BY <2>1, CountKeeps
  <2>2. CASE CommitCreate(a) \/ CommitAmend(a) \/ CommitRow(a)
    BY <2>2, CommitKeeps
  <2>3. CASE Refuse(a)
    BY <2>3, EndKeeps DEF Refuse
  <2>4. QED
    BY <1>1, <2>1, <2>2, <2>3 DEF Run
<1>2. ASSUME NEW a \in Sessions, Rollback(a) PROVE CInv'
  BY <1>2, EndKeeps DEF Rollback
<1>3. QED
  BY <1>1, <1>2, SendKeeps, LockSalesKeeps, LockPurchaseKeeps, AdvanceKeeps, StutterKeeps
     DEF NextConcurrent

LEMMA SpecCInv == SpecConcurrent => []CInv
BY InitCInv, NextCInv, PTL DEF SpecConcurrent

-----------------------------------------------------------------------------
(* Theorems. *)

\* Transactions that run at once do what commands one after the other would
\* (_begin_decision, _change, create, receive and close).
THEOREM ImplementsCorrect == SpecConcurrent => ImplementsPurchaseBook
<1>1. InitConcurrent => Init
  BY DEF InitConcurrent
<1>2. CInv /\ [NextConcurrent]_vars => [Next]_bookVars
  BY Refines
<1>3. QED
  BY <1>1, <1>2, SpecCInv, PTL DEF SpecConcurrent, Spec, ImplementsPurchaseBook

-----------------------------------------------------------------------------
(* What a transaction has read and counted keeps its domain.               *)

Typed(a) ==
  /\ request[a] \in Requests \cup {None}
  /\ ~Idle(a) => (Kind(a) = "create" <=> Purchase(a) = None)
  /\ state[a] \in SalesStatus \cup {None}
  /\ row[a] \in Rows
  /\ counted[a] \in [Lines -> Nat \cup {None}]

AllTyped == \A a \in Sessions : Typed(a)

LEMMA BlankType == Blank \in Rows
BY NoLinesType DEF Blank, Rows, PurchaseStatus

LEMMA ReadType ==
  ASSUME CInv
  PROVE  sales \in SalesStatus /\ purchases \in [Purchases -> Rows]
BY DEF CInv, IInv, TypeOK

LEMMA CountType ==
  ASSUME CInv, AllTyped, NEW a \in Sessions, ~Idle(a), NEW l \in Lines
  PROVE  Committed(View(a), l) \in Nat
<1>1. purchases \in [Purchases -> Rows] /\ row[a] \in Rows
  BY ReadType DEF AllTyped, Typed
<1>2. Cancelled(row[a]) \in Rows
  BY <1>1, RowStatus DEF Cancelled, PurchaseStatus
<1>3. View(a) \in [Purchases -> Rows]
  BY <1>1, <1>2 DEF View
<1>4. QED
  BY <1>3, CommittedIs, ContributionsNat

LEMMA UntouchedTyped ==
  ASSUME AllTyped, NEW b \in Sessions, Untouched(b)
  PROVE  Typed(b)'
BY DEF AllTyped, Typed, Untouched, Idle, Kind, Purchase

LEMMA AskTyped ==
  ASSUME CInv, AllTyped, NEW a \in Sessions, Ask(a)
  PROVE  AllTyped'
<1>1. PICK kind \in Kinds, p \in Purchases \cup {None} : \E lines :
        /\ Send(a, kind, p, lines)
        /\ kind = "create" <=> p = None
        /\ lines \in RequestedLines \cup {NoLines}
  BY AskedFor
<1>2. PICK lines \in RequestedLines \cup {NoLines} :
        Send(a, kind, p, lines) /\ (kind = "create" <=> p = None)
  BY <1>1
<1>3. PICK seen \in Rows : seen = IF p = None THEN Blank ELSE purchases[p]
  BY ReadType, BlankType
<1>4. /\ request' = [request EXCEPT ![a] =
           [kind |-> kind, purchase |-> p, lines |-> lines, seen |-> seen]]
      /\ UNCHANGED <<locks, state, row, counted>>
  BY <1>2, <1>3 DEF Send
<1>5. request'[a] = [kind |-> kind, purchase |-> p, lines |-> lines, seen |-> seen]
      /\ \A b \in Sessions : b # a => Untouched(b)
  BY <1>4 DEF CInv, Functional, Untouched
<1>6. request'[a] \in Requests
  BY <1>5, RequestedType, NoLinesType DEF Requests
<1>7. Typed(a)'
  BY <1>2, <1>4, <1>5, <1>6 DEF AllTyped, Typed, Kind, Purchase
<1>8. QED
  BY <1>5, <1>7, UntouchedTyped DEF AllTyped

LEMMA LockTyped ==
  ASSUME CInv, AllTyped, NEW a \in Sessions, LockSales(a) \/ LockPurchase(a)
  PROVE  AllTyped'
<1>1. \A b \in Sessions : b # a => Untouched(b)
  BY DEF CInv, Functional, Untouched, LockSales, LockPurchase
<1>2. request' = request /\ counted' = counted
  BY DEF LockSales, LockPurchase
<1>3. CASE LockSales(a)
  <2>1. state'[a] = sales /\ row' = row
    BY <1>3 DEF LockSales, CInv, Functional
  <2>2. Typed(a)'
    BY <1>2, <2>1, ReadType DEF AllTyped, Typed, Idle, Kind, Purchase
  <2>3. QED
    BY <1>1, <2>2, UntouchedTyped DEF AllTyped
<1>4. CASE LockPurchase(a)
  <2>1. row'[a] = purchases[Purchase(a)] /\ state' = state
    BY <1>4 DEF LockPurchase, CInv, Functional
  <2>2. Purchase(a) \in Purchases
    <3>1. ~Idle(a) /\ "purchase" \in Locks(Kind(a))
      BY <1>4 DEF LockPurchase, MayLock
    <3>2. QED
      BY <3>1, LocksOf DEF CInv, Ok, Wellformed
  <2>3. Typed(a)'
    BY <1>2, <2>1, <2>2, ReadType DEF AllTyped, Typed, Idle, Kind, Purchase
  <2>4. QED
    BY <1>1, <2>3, UntouchedTyped DEF AllTyped
<1>5. QED
  BY <1>3, <1>4

LEMMA CountTyped ==
  ASSUME CInv, AllTyped, NEW a \in Sessions, NEW l \in Lines, Count(a, l)
  PROVE  AllTyped'
<1>1. ~Idle(a) /\ UNCHANGED <<request, locks, state, row>>
      /\ counted' = [counted EXCEPT ![a][l] = Committed(View(a), l)]
  BY DEF Count, Locked
<1>2. Committed(View(a), l) \in Nat
  BY <1>1, CountType
<1>3. /\ counted'[a] = [counted[a] EXCEPT ![l] = Committed(View(a), l)]
      /\ \A b \in Sessions : b # a => Untouched(b)
  BY <1>1 DEF CInv, Functional, Untouched
<1>4. counted'[a] \in [Lines -> Nat \cup {None}]
  BY <1>2, <1>3 DEF AllTyped, Typed
<1>5. Typed(a)'
  BY <1>1, <1>4 DEF AllTyped, Typed, Idle, Kind, Purchase
<1>6. QED
  BY <1>3, <1>5, UntouchedTyped DEF AllTyped

LEMMA EndTyped ==
  ASSUME CInv, AllTyped, NEW a \in Sessions, Release(a)
  PROVE  AllTyped'
<1>1. \A b \in Sessions : b # a => Untouched(b)
  BY Released
<1>2. /\ request'[a] = None /\ state'[a] = None /\ row'[a] = Blank
      /\ counted'[a] = Uncounted
  BY DEF CInv, Functional, Release
<1>3. Typed(a)'
  BY <1>2, BlankType DEF Typed, Idle, Uncounted
<1>4. QED
  BY <1>1, <1>3, UntouchedTyped DEF AllTyped

LEMMA NextTyped == CInv /\ AllTyped /\ [NextConcurrent]_vars => AllTyped'
<1> SUFFICES ASSUME CInv, AllTyped, [NextConcurrent]_vars PROVE AllTyped'
  OBVIOUS
<1>1. ASSUME NEW a \in Sessions, Run(a) \/ Rollback(a) PROVE AllTyped'
  <2>1. (\E l \in Lines : Count(a, l)) \/ Release(a)
    BY <1>1 DEF Run, Rollback, CommitCreate, CommitAmend, CommitRow, Refuse
  <2>2. QED
    BY <2>1, CountTyped, EndTyped
<1>2. ASSUME UNCHANGED sessionVars PROVE AllTyped'
  BY <1>2, UntouchedTyped DEF AllTyped, Untouched, sessionVars
<1>3. QED
  BY <1>1, <1>2, AskTyped, LockTyped DEF NextConcurrent, vars

LEMMA TypedTells ==
  ASSUME CInv, AllTyped
  PROVE  TypeOKConcurrent
<1>1. /\ request \in [Sessions -> Requests \cup {None}]
      /\ state \in [Sessions -> SalesStatus \cup {None}]
      /\ row \in [Sessions -> Rows]
      /\ counted \in [Sessions -> [Lines -> Nat \cup {None}]]
  BY DEF CInv, Functional, AllTyped, Typed
<1>2. ASSUME NEW a \in Sessions
      PROVE  /\ locks[a] \in SUBSET {"sales", "purchase"}
             /\ IF Idle(a) THEN locks[a] = {}
                ELSE /\ Kind(a) = "create" <=> Purchase(a) = None
                     /\ "purchase" \in locks[a] =>
                          "sales" \in locks[a] \/ Kind(a) \in {"receive", "close"}
  BY LocksOf DEF CInv, Ok, Wellformed, AllTyped, Typed
<1>3. locks \in [Sessions -> SUBSET {"sales", "purchase"}]
  BY <1>2 DEF CInv, Functional
<1>4. QED
  BY <1>1, <1>2, <1>3 DEF TypeOKConcurrent, CInv, IInv

\* Whatever transactions run at once, what they have asked for, read and counted
\* keeps its domain, and a purchase is locked after its sales order.
THEOREM TypeCorrectConcurrent == SpecConcurrent => []TypeOKConcurrent
<1>1. InitConcurrent => AllTyped
  BY BlankType DEF InitConcurrent, AllTyped, Typed, Idle, Uncounted
<1>2. CInv /\ AllTyped => TypeOKConcurrent
  BY TypedTells
<1>3. QED
  BY <1>1, <1>2, NextTyped, SpecCInv, PTL DEF SpecConcurrent

-----------------------------------------------------------------------------
(* What the locks are for.                                                 *)

\* What a transaction has read under its locks is still so when it writes.
THEOREM ReadsStayTrueCorrect == SpecConcurrent => []ReadsStayTrue
<1>1. CInv => ReadsStayTrue
  BY DEF CInv, Ok, ReadsTrue, ReadsStayTrue
<1>2. QED
  BY <1>1, SpecCInv, PTL

\* A command finds the purchase exactly as its sender saw it (_check_version).
THEOREM DecidedAsSeenCorrect == SpecConcurrent => []DecidedAsSeen
<1>1. CInv => DecidedAsSeen
  <2> SUFFICES ASSUME CInv, NEW a \in Sessions, MayCommit(a), Kind(a) # "create"
               PROVE purchases[Purchase(a)] = request[a].seen
    BY DEF DecidedAsSeen
  <2>1. /\ Locked(a) /\ Allowed(a) /\ ~Idle(a)
        /\ Kind(a) \in Kinds /\ Purchase(a) \in Purchases
        /\ row[a] = purchases[Purchase(a)]
    BY LockedReads DEF MayCommit, Locked
  <2>2. VersionSeen(a)
    BY <2>1 DEF Allowed, Kinds, Decisions
  <2>3. purchases[Purchase(a)].version \in Nat
    BY <2>1, VersionsAreNumbers
  <2>4. request[a].seen.version = purchases[Purchase(a)].version
    BY <2>1, <2>2 DEF VersionSeen
  <2>5. VersionTells(a)
    BY DEF CInv, Ok
  <2>6. QED
    BY <2>1, <2>3, <2>4, <2>5 DEF VersionTells
<1>2. QED
  BY <1>1, SpecCInv, PTL

\* A completed sales order gets no commitment, decision or cancellation, not even
\* from a transaction that was already running (_begin_decision).
THEOREM FinalizedConcurrentCorrect == SpecConcurrent => FinalizedKeepsCommitments
BY ImplementsCorrect, FinalCorrect DEF ImplementsPurchaseBook

\* The purchases of a sales order never commit more of a line than it orders,
\* however many transactions count what is left at once (_committed_quantity).
THEOREM CommittedConcurrentCorrect == SpecConcurrent => []CommittedWithinOrdered
BY ImplementsCorrect, CommittedCorrect DEF ImplementsPurchaseBook

\* Commands never wait for each other's rows in a circle: who waits for the sales
\* order waits for one that waits for a purchase at most, and who holds a purchase
\* holds all it needs (_begin_decision, _change).
THEOREM NobodyWaitsInACircleCorrect == SpecConcurrent => []NobodyWaitsInACircle
<1>1. CInv => NobodyWaitsInACircle
  <2> SUFFICES ASSUME CInv, NEW S \in SUBSET Sessions, S # {},
                      \A a \in S : \E b \in S : WaitsFor(a, b)
               PROVE FALSE
    BY DEF NobodyWaitsInACircle
  <2>1. ASSUME NEW a \in S, "purchase" \in locks[a] PROVE FALSE
    <3>1. ~Idle(a) /\ locks[a] = Locks(Kind(a))
      BY <2>1 DEF CInv, Ok, Wellformed
    <3>2. QED
      BY <3>1 DEF WaitsFor, MayLock
  <2>2. ASSUME NEW a \in S, "sales" \in locks[a] PROVE FALSE
    <3>1. PICK b \in S : WaitsFor(a, b)
      OBVIOUS
    <3>2. "purchase" \in locks[b]
      BY <2>2, <3>1 DEF WaitsFor, MayLock
    <3>3. QED
      BY <2>1, <3>2
  <2>3. PICK a \in S, b \in S : WaitsFor(a, b)
    OBVIOUS
  <2>4. QED
    BY <2>1, <2>2, <2>3 DEF WaitsFor
<1>2. QED
  BY <1>1, SpecCInv, PTL

=============================================================================
