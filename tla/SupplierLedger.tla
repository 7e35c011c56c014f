--------------------------- MODULE SupplierLedger ---------------------------
(***************************************************************************)
(* What is owed to a supplier and paid to it, as                           *)
(* apps/api/app/finance/supplier_services.py promises to keep it: payables *)
(* of confirmed purchases, payments, and their allocation and reversal     *)
(* rows, each command as one step.  SupplierFinance runs the commands      *)
(* concurrently.                                                           *)
(*                                                                         *)
(* Amounts are whole units of one currency, for one supplier: a payment    *)
(* and a payable of two are never matched.  Dates and texts are left out.  *)
(***************************************************************************)
EXTENDS Integers, FiniteSets, Functions

CONSTANTS
  Purchases,  \* purchase_orders of the supplier
  Price,      \* the total of a purchase
  Payables,   \* payables; bound: how many are ever created
  Payments,   \* supplier_payments of kind PAYMENT; bound: how many are ever recorded
  MaxAmount,  \* bound: the largest amount of a payable or payment
  MaxShare,   \* bound: the largest share of an allocation
  None

ASSUME SupplierAssumption ==
  /\ Price \in [Purchases -> Nat]
  /\ MaxAmount \in Nat /\ MaxShare \in Nat
  /\ None \notin Purchases
  /\ IsFiniteSet(Payables) /\ IsFiniteSet(Payments)

VARIABLES
  confirmed,  \* the purchases whose confirmed_at is set
  payables,   \* payables
  payments,   \* supplier_payments, with how many reversals name each
  allocated,  \* the ALLOCATION rows: what a payment pays of a payable
  returned    \* the REVERSAL rows, by the payment that was reversed

ledgerVars == <<confirmed, payables, payments, allocated, returned>>

PayableRows == [purchase : Purchases \cup {None}, amount : Nat, voided : BOOLEAN,
                version : Nat]
PaymentRows == [amount : Nat, reversals : Nat, version : Nat]
Amounts == 1..MaxAmount
Nothing == [q \in Payables |-> 0]
Shares == [Payables -> 0..MaxShare] \ {Nothing}

TypeOK ==
  /\ confirmed \subseteq Purchases
  /\ payables \in [Payables -> PayableRows]
  /\ payments \in [Payments -> PaymentRows]
  /\ allocated \in [Payments -> [Payables -> Nat]]
  /\ returned \in [Payments -> [Payables -> Nat]]

Init ==
  /\ confirmed = {}
  /\ payables = [q \in Payables |->
       [purchase |-> None, amount |-> 0, voided |-> FALSE, version |-> 0]]
  /\ payments = [p \in Payments |-> [amount |-> 0, reversals |-> 0, version |-> 0]]
  /\ allocated = [p \in Payments |-> Nothing]
  /\ returned = [p \in Payments |-> Nothing]

Owed(q) == payables[q].purchase # None
Recorded(p) == payments[p].amount > 0

-----------------------------------------------------------------------------
(* Sums. *)

\* The principal of the payables of a purchase that are not voided.
Principal(b) ==
  FoldFunction(+, 0, [q \in Payables |->
    IF payables[q].purchase = b /\ ~payables[q].voided THEN payables[q].amount ELSE 0])

\* What a payment has been allocated to.
Spent(p) == FoldFunction(+, 0, allocated[p])

\* paid_totals: reversal rows count against the rows they reverse.
Paid(q) == FoldFunction(+, 0, [p \in Payments |-> allocated[p][q] - returned[p][q]])

SumOfShares(shares) == FoldFunction(+, 0, shares)

-----------------------------------------------------------------------------
(* The commands. *)

\* The supplier confirms a purchase (Procurement); cancelling the rest of it later
\* does not take that back.
Confirm(b) ==
  /\ b \notin confirmed
  /\ confirmed' = confirmed \cup {b}
  /\ UNCHANGED <<payables, payments, allocated, returned>>

\* The effects of the commands, whatever they checked.
AddPayable(b, amount) ==
  /\ \E q \in Payables :
       /\ ~Owed(q)
       /\ payables' = [payables EXCEPT ![q] =
            [purchase |-> b, amount |-> amount, voided |-> FALSE, version |-> 1]]
  /\ UNCHANGED <<confirmed, payments, allocated, returned>>

MarkVoided(q) ==
  /\ payables' = [payables EXCEPT ![q].voided = TRUE, ![q].version = @ + 1]
  /\ UNCHANGED <<confirmed, payments, allocated, returned>>

\* Mutant: rows are added without counting the version of the payables.
CountedOnce(Q) == payables

\* The versions of the payables that a settlement touches count on.
Counted(Q) ==
  [q \in Payables |->
    IF q \in Q THEN [payables[q] EXCEPT !.version = @ + 1] ELSE payables[q]]

AddAllocations(p, shares) ==
  /\ allocated' = [allocated EXCEPT ![p] = [q \in Payables |-> @[q] + shares[q]]]
  /\ payables' = Counted({q \in Payables : shares[q] > 0})
  /\ payments' = [payments EXCEPT ![p].version = @ + 1]
  /\ UNCHANGED <<confirmed, returned>>

\* The reversal payment with a row for each row it found; the original keeps its own.
AddReversal(p, rows) ==
  /\ payments' = [payments EXCEPT ![p].reversals = @ + 1]
  /\ returned' = [returned EXCEPT ![p] = [q \in Payables |-> @[q] + rows[q]]]
  /\ payables' = Counted({q \in Payables : rows[q] > 0})
  /\ UNCHANGED <<confirmed, allocated>>

CreatePayable(b, amount) ==
  /\ b \in confirmed
  /\ Principal(b) + amount <= Price[b]
  /\ AddPayable(b, amount)

VoidPayable(q) ==
  /\ Owed(q) /\ ~payables[q].voided
  /\ Paid(q) = 0
  /\ MarkVoided(q)

RecordPayment(p, amount) ==
  /\ ~Recorded(p)
  /\ payments' = [payments EXCEPT ![p] = [amount |-> amount, reversals |-> 0, version |-> 1]]
  /\ UNCHANGED <<confirmed, payables, allocated, returned>>

Active(p) == Recorded(p) /\ payments[p].reversals = 0

Allocate(p, shares) ==
  /\ Active(p)
  /\ Spent(p) + SumOfShares(shares) <= payments[p].amount
  /\ \A q \in Payables : shares[q] > 0 =>
       /\ Owed(q) /\ ~payables[q].voided
       /\ Paid(q) + shares[q] <= payables[q].amount
  /\ AddAllocations(p, shares)

Reverse(p) == Active(p) /\ AddReversal(p, allocated[p])

Next ==
  \/ \E b \in Purchases : Confirm(b) \/ \E amount \in Amounts : CreatePayable(b, amount)
  \/ \E q \in Payables : VoidPayable(q)
  \/ \E p \in Payments :
       \/ \E amount \in Amounts : RecordPayment(p, amount)
       \/ \E shares \in Shares : Allocate(p, shares)
       \/ Reverse(p)

Spec == Init /\ [][Next]_ledgerVars

-----------------------------------------------------------------------------
(* Properties. *)

\* Nothing is owed or paid beyond its amount, whatever is created, voided, allocated
\* and reversed meanwhile: the payables in force of a purchase come to its total at
\* most, and it is confirmed; no payment is allocated beyond its amount; no payable
\* is paid beyond its own or less than nothing (create_payable, allocate, reverse).
WithinAmounts ==
  /\ \A b \in Purchases : Principal(b) <= Price[b]
  /\ \A q \in Payables : Owed(q) => payables[q].purchase \in confirmed
  /\ \A p \in Payments : Spent(p) <= payments[p].amount
  /\ \A q \in Payables : Paid(q) \in 0..payables[q].amount

\* A payment is reversed once at most, and then with all its rows, neither more nor
\* fewer: the unique indexes of the reversals never refuse one (reverse).
ReversedExactly ==
  \A p \in Payments :
    \/ payments[p].reversals = 0 /\ returned[p] = Nothing
    \/ payments[p].reversals = 1 /\ returned[p] = allocated[p]

\* Nothing in force is allocated to a voided payable, neither when it is voided nor
\* ever after (void_payable, allocate).
VoidedIsUnpaid ==
  \A q \in Payables, p \in Payments :
    payables[q].voided /\ allocated[p][q] > 0 => payments[p].reversals > 0

\* Through any sequence of commands nothing is overpaid, what is reversed is reversed
\* as a whole, and what is voided carries no money (supplier_services).
LedgerSound == WithinAmounts /\ ReversedExactly /\ VoidedIsUnpaid

=============================================================================
