------------------------ MODULE SupplierFinanceProofs ------------------------
(***************************************************************************)
(* Proofs about SupplierLedger and SupplierFinance: what the commands keep *)
(* when each is one step, and that concurrent transactions do what such    *)
(* commands do.  The laws of sums are those of FiniteSums.                 *)
(***************************************************************************)
EXTENDS SupplierFinance, FiniteSums

\* The amounts that the sums of the ledger are taken of.
Owing(b) ==
  [q \in Payables |->
    IF payables[q].purchase = b /\ ~payables[q].voided THEN payables[q].amount ELSE 0]
Paying(q) == [p \in Payments |-> allocated[p][q] - returned[p][q]]

LEMMA SumsAre ==
  ASSUME TypeOK
  PROVE  /\ \A b : Principal(b) = SumOver(Owing(b), Payables)
         /\ \A p \in Payments : Spent(p) = SumOver(allocated[p], Payables)
         /\ \A q : Paid(q) = SumOver(Paying(q), Payments)
<1>1. ASSUME NEW b PROVE Principal(b) = SumOver(Owing(b), Payables)
  BY DEF Principal, Owing, SumOver, FoldFunction
<1>2. ASSUME NEW p \in Payments PROVE Spent(p) = SumOver(allocated[p], Payables)
  <2>1. DOMAIN allocated[p] = Payables
    BY DEF TypeOK
  <2> QED BY <2>1 DEF Spent, SumOver, FoldFunction
<1>3. ASSUME NEW q PROVE Paid(q) = SumOver(Paying(q), Payments)
  BY DEF Paid, Paying, SumOver, FoldFunction
<1> QED BY <1>1, <1>2, <1>3

LEMMA SumsAreNext ==
  ASSUME TypeOK'
  PROVE  /\ \A b : Principal(b)' = SumOver(Owing(b)', Payables)
         /\ \A p \in Payments : Spent(p)' = SumOver(allocated'[p], Payables)
         /\ \A q : Paid(q)' = SumOver(Paying(q)', Payments)
<1>1. ASSUME NEW b PROVE Principal(b)' = SumOver(Owing(b)', Payables)
  BY DEF Principal, Owing, SumOver, FoldFunction, FoldFunctionOnSet,
     MapThenFoldSet
<1>2. ASSUME NEW p \in Payments PROVE Spent(p)' = SumOver(allocated'[p], Payables)
  <2>1. DOMAIN allocated'[p] = Payables
    BY DEF TypeOK
  <2> QED BY <2>1 DEF Spent, SumOver, FoldFunction, FoldFunctionOnSet,
     MapThenFoldSet
<1>3. ASSUME NEW q PROVE Paid(q)' = SumOver(Paying(q)', Payments)
  BY DEF Paid, Paying, SumOver, FoldFunction, FoldFunctionOnSet,
     MapThenFoldSet
<1> QED BY <1>1, <1>2, <1>3

LEMMA SharesAre ==
  ASSUME NEW shares \in [Payables -> Nat]
  PROVE  SumOfShares(shares) = SumOver(shares, Payables)
BY DEF SumOfShares, SumOver, FoldFunction

LEMMA AmountsTyped ==
  ASSUME TypeOK
  PROVE  /\ IsFiniteSet(Payables) /\ IsFiniteSet(Payments)
         /\ \A b : Owing(b) \in [Payables -> Nat]
         /\ \A q \in Payables : Paying(q) \in [Payments -> Int]
<1>1. ASSUME NEW b, NEW q \in Payables PROVE Owing(b)[q] \in Nat
  BY DEF TypeOK, PayableRows, Owing
<1>2. ASSUME NEW q \in Payables, NEW p \in Payments PROVE Paying(q)[p] \in Int
  <2>1. allocated[p][q] \in Nat /\ returned[p][q] \in Nat
    BY DEF TypeOK
  <2> QED BY <2>1 DEF Paying
<1>3. \A b : Owing(b) \in [Payables -> Nat]
  BY <1>1 DEF Owing
<1>4. \A q \in Payables : Paying(q) \in [Payments -> Int]
  BY <1>2 DEF Paying
<1> QED BY <1>3, <1>4, SupplierAssumption

-----------------------------------------------------------------------------
(* Types. *)

LEMMA CountedTyped ==
  ASSUME TypeOK, NEW Q
  PROVE  Counted(Q) \in [Payables -> PayableRows]
<1>1. ASSUME NEW q \in Payables PROVE Counted(Q)[q] \in PayableRows
  <2>1. payables[q] \in PayableRows
    BY DEF TypeOK
  <2>2. [payables[q] EXCEPT !.version = @ + 1] \in PayableRows
    BY <2>1 DEF PayableRows
  <2> QED BY <2>1, <2>2 DEF Counted
<1> QED BY <1>1 DEF Counted

LEMMA AddPayableTyped ==
  ASSUME TypeOK, NEW b \in Purchases, NEW amount \in Nat, AddPayable(b, amount)
  PROVE  TypeOK'
<1>1. PICK q \in Payables :
        payables' = [payables EXCEPT ![q] =
          [purchase |-> b, amount |-> amount, voided |-> FALSE, version |-> 1]]
  BY DEF AddPayable
<1>2. [purchase |-> b, amount |-> amount, voided |-> FALSE, version |-> 1] \in PayableRows
  BY DEF PayableRows
<1>3. payables' \in [Payables -> PayableRows]
  BY <1>1, <1>2 DEF TypeOK
<1> QED BY <1>3 DEF AddPayable, TypeOK

LEMMA VoidedRow ==
  ASSUME NEW r \in PayableRows
  PROVE  [r EXCEPT !.voided = TRUE, !.version = @ + 1] \in PayableRows
<1>1. r.version + 1 \in Nat
  BY DEF PayableRows
<1>2. [r EXCEPT !.voided = TRUE, !.version = r.version + 1] \in PayableRows
  BY <1>1 DEF PayableRows
<1> QED BY <1>2

LEMMA MarkVoidedTyped ==
  ASSUME TypeOK, NEW q \in Payables, MarkVoided(q)
  PROVE  TypeOK' /\ payables'[q] = [payables[q] EXCEPT !.voided = TRUE, !.version = @ + 1]
<1>1. payables[q] \in PayableRows
  BY DEF TypeOK
<1>2. [payables[q] EXCEPT !.voided = TRUE, !.version = @ + 1] \in PayableRows
  BY <1>1, VoidedRow
<1>3. payables' = [payables EXCEPT ![q] =
        [payables[q] EXCEPT !.voided = TRUE, !.version = @ + 1]]
  <2>1. [[payables EXCEPT ![q].voided = TRUE] EXCEPT ![q].version = @ + 1]
        = [payables EXCEPT ![q] = [payables[q] EXCEPT !.voided = TRUE, !.version = @ + 1]]
    BY <1>1 DEF TypeOK, PayableRows
  <2> QED BY <2>1 DEF MarkVoided
<1>4. payables' \in [Payables -> PayableRows]
  BY <1>2, <1>3 DEF TypeOK
<1> QED BY <1>3, <1>4 DEF MarkVoided, TypeOK

LEMMA RecordPaymentTyped ==
  ASSUME TypeOK, NEW p \in Payments, NEW amount \in Amounts, RecordPayment(p, amount)
  PROVE  TypeOK' /\ payments'[p] = [amount |-> amount, reversals |-> 0, version |-> 1]
<1>1. amount \in Nat
  BY SupplierAssumption DEF Amounts
<1>2. [amount |-> amount, reversals |-> 0, version |-> 1] \in PaymentRows
  BY <1>1 DEF PaymentRows
<1>3. payments' \in [Payments -> PaymentRows]
  BY <1>2 DEF RecordPayment, TypeOK
<1> QED BY <1>3 DEF RecordPayment, TypeOK

LEMMA AddAllocationsTyped ==
  ASSUME TypeOK, NEW p \in Payments, NEW shares \in [Payables -> Nat],
         AddAllocations(p, shares)
  PROVE  /\ TypeOK'
         /\ payments'[p] = [payments[p] EXCEPT !.version = @ + 1]
         /\ allocated'[p] = [q \in Payables |-> allocated[p][q] + shares[q]]
<1>1. payments[p] \in PaymentRows /\ allocated[p] \in [Payables -> Nat]
  BY DEF TypeOK
<1>2. [payments[p] EXCEPT !.version = @ + 1] \in PaymentRows
  BY <1>1 DEF PaymentRows
<1>3. payments' = [payments EXCEPT ![p] = [payments[p] EXCEPT !.version = @ + 1]]
  BY DEF AddAllocations, TypeOK, PaymentRows
<1>4. payments' \in [Payments -> PaymentRows]
  BY <1>2, <1>3 DEF TypeOK
<1>5. [q \in Payables |-> allocated[p][q] + shares[q]] \in [Payables -> Nat]
  BY <1>1
<1>6. allocated' = [allocated EXCEPT ![p] = [q \in Payables |-> allocated[p][q] + shares[q]]]
  BY DEF AddAllocations, TypeOK
<1>7. allocated' \in [Payments -> [Payables -> Nat]]
  BY <1>5, <1>6 DEF TypeOK
<1>8. payables' \in [Payables -> PayableRows]
  BY CountedTyped DEF AddAllocations
<1>9. TypeOK'
  BY <1>4, <1>7, <1>8 DEF AddAllocations, TypeOK
<1> QED BY <1>3, <1>6, <1>9 DEF TypeOK

LEMMA AddReversalTyped ==
  ASSUME TypeOK, NEW p \in Payments, NEW rows \in [Payables -> Nat], AddReversal(p, rows)
  PROVE  /\ TypeOK'
         /\ payments'[p] = [payments[p] EXCEPT !.reversals = @ + 1]
         /\ returned'[p] = [q \in Payables |-> returned[p][q] + rows[q]]
<1>1. payments[p] \in PaymentRows /\ returned[p] \in [Payables -> Nat]
  BY DEF TypeOK
<1>2. [payments[p] EXCEPT !.reversals = @ + 1] \in PaymentRows
  BY <1>1 DEF PaymentRows
<1>3. payments' = [payments EXCEPT ![p] = [payments[p] EXCEPT !.reversals = @ + 1]]
  BY DEF AddReversal, TypeOK, PaymentRows
<1>4. payments' \in [Payments -> PaymentRows]
  BY <1>2, <1>3 DEF TypeOK
<1>5. [q \in Payables |-> returned[p][q] + rows[q]] \in [Payables -> Nat]
  BY <1>1
<1>6. returned' = [returned EXCEPT ![p] = [q \in Payables |-> returned[p][q] + rows[q]]]
  BY DEF AddReversal, TypeOK
<1>7. returned' \in [Payments -> [Payables -> Nat]]
  BY <1>5, <1>6 DEF TypeOK
<1>8. payables' \in [Payables -> PayableRows]
  BY CountedTyped DEF AddReversal
<1>9. TypeOK'
  BY <1>4, <1>7, <1>8 DEF AddReversal, TypeOK
<1> QED BY <1>3, <1>6, <1>9 DEF TypeOK
-----------------------------------------------------------------------------
(* What the commands keep when each is one step.                           *)

\* A payment that is not recorded has no rows, a payable that is not created no amount.
UnusedIsEmpty ==
  /\ \A p \in Payments : ~Recorded(p) => payments[p].reversals = 0 /\ allocated[p] = Nothing
  /\ \A q \in Payables : ~Owed(q) => payables[q].amount = 0

LedgerInv ==
  TypeOK /\ WithinAmounts /\ ReversedExactly /\ VoidedIsUnpaid /\ UnusedIsEmpty

\* Nothing is paid back that was not paid.
LEMMA PayingNat ==
  ASSUME TypeOK, ReversedExactly, NEW q \in Payables, NEW p \in Payments
  PROVE  /\ Paying(q)[p] \in Nat
         /\ payments[p].reversals = 0 => Paying(q)[p] = allocated[p][q]
         /\ payments[p].reversals # 0 => Paying(q)[p] = 0
<1>1. allocated[p][q] \in Nat /\ returned[p][q] \in Nat
  BY DEF TypeOK
<1>2. \/ payments[p].reversals = 0 /\ returned[p][q] = 0
      \/ payments[p].reversals = 1 /\ returned[p][q] = allocated[p][q]
  BY DEF ReversedExactly, Nothing
<1> QED BY <1>1, <1>2 DEF Paying

\* Sums of rows that do not change.
LEMMA SamePaid ==
  ASSUME UNCHANGED <<allocated, returned>>, NEW q PROVE Paid(q)' = Paid(q)
BY DEF Paid, FoldFunction, FoldFunctionOnSet, MapThenFoldSet

LEMMA SameSpent ==
  ASSUME UNCHANGED allocated, NEW p PROVE Spent(p)' = Spent(p)
BY DEF Spent, FoldFunction, FoldFunctionOnSet, MapThenFoldSet

LEMMA SamePrincipal ==
  ASSUME UNCHANGED payables, NEW b PROVE Principal(b)' = Principal(b)
BY DEF Principal, FoldFunction, FoldFunctionOnSet, MapThenFoldSet

\* What the effects do to the sums.
LEMMA PrincipalAdded ==
  ASSUME TypeOK, NEW b \in Purchases, NEW amount \in Nat, AddPayable(b, amount)
  PROVE  /\ Principal(b)' = Principal(b) + amount
         /\ \A c \in Purchases \ {b} : Principal(c)' = Principal(c)
<1>1. TypeOK'
  BY AddPayableTyped
<1>2. PICK q \in Payables :
        /\ ~Owed(q)
        /\ payables' = [payables EXCEPT ![q] =
             [purchase |-> b, amount |-> amount, voided |-> FALSE, version |-> 1]]
  BY DEF AddPayable
<1>3. payables'[q] = [purchase |-> b, amount |-> amount, voided |-> FALSE, version |-> 1]
  BY <1>2 DEF TypeOK
<1>4. \A r \in Payables \ {q} : payables'[r] = payables[r]
  BY <1>2 DEF TypeOK
<1>5. ASSUME NEW c \in Purchases
      PROVE  /\ Owing(c)[q] = 0
             /\ Owing(c)'[q] = IF c = b THEN amount ELSE 0
             /\ \A r \in Payables \ {q} : Owing(c)'[r] = Owing(c)[r]
  <2>1. payables[q].purchase # c
    BY <1>2, SupplierAssumption DEF Owed
  <2>2. Owing(c)[q] = 0
    BY <2>1 DEF Owing
  <2>3. Owing(c)'[q] = IF c = b THEN amount ELSE 0
    BY <1>3 DEF Owing
  <2>4. \A r \in Payables \ {q} : Owing(c)'[r] = Owing(c)[r]
    BY <1>4 DEF Owing
  <2> QED BY <2>2, <2>3, <2>4
<1>6. ASSUME NEW c \in Purchases
      PROVE  Principal(c)' = Principal(c) + IF c = b THEN amount ELSE 0
  <2>1. /\ IsFiniteSet(Payables)
        /\ \A r \in Payables : Owing(c)[r] \in Int
    BY AmountsTyped
  <2>2. \A r \in Payables : Owing(c)'[r] \in Int
    BY <2>1, <1>5
  <2>3. SumOver(Owing(c)', Payables)
          = SumOver(Owing(c), Payables) + Owing(c)'[q] - Owing(c)[q]
    BY <2>1, <2>2, <1>5, SumChange
  <2>4. SumOver(Owing(c), Payables) \in Int
    BY <2>1, SumInt
  <2>5. Principal(c) = SumOver(Owing(c), Payables) /\ Principal(c)' = SumOver(Owing(c)', Payables)
    BY <1>1, SumsAre, SumsAreNext
  <2> QED BY <1>5, <2>3, <2>4, <2>5
<1>7. \A c \in Purchases : Principal(c) \in Int
  BY AmountsTyped, SumsAre, SumInt
<1> QED BY <1>6, <1>7

LEMMA PrincipalVoided ==
  ASSUME TypeOK, NEW q \in Payables, MarkVoided(q), NEW b
  PROVE  Principal(b)' <= Principal(b)
<1>1. TypeOK' /\ payables'[q] = [payables[q] EXCEPT !.voided = TRUE, !.version = @ + 1]
  BY MarkVoidedTyped
<1>2. payables[q] \in PayableRows
  BY DEF TypeOK
<1>3. \A r \in Payables \ {q} : payables'[r] = payables[r]
  BY DEF MarkVoided, TypeOK
<1>4. payables'[q].voided
  BY <1>1, <1>2 DEF PayableRows
<1>5. Owing(b)'[q] = 0
  BY <1>4 DEF Owing
<1>6. \A r \in Payables \ {q} : Owing(b)'[r] = Owing(b)[r]
  BY <1>3 DEF Owing
<1>7. IsFiniteSet(Payables) /\ \A r \in Payables : Owing(b)[r] \in Nat
  BY AmountsTyped
<1>8. \A r \in Payables :
        Owing(b)'[r] \in Int /\ Owing(b)[r] \in Int /\ Owing(b)'[r] <= Owing(b)[r]
  BY <1>5, <1>6, <1>7
<1>9. SumOver(Owing(b)', Payables) <= SumOver(Owing(b), Payables)
  BY <1>7, <1>8, SumMonotone
<1> QED BY <1>1, <1>9, SumsAre, SumsAreNext

\* Counting versions changes no amount.
LEMMA PrincipalCounted ==
  ASSUME TypeOK, NEW Q, payables' = Counted(Q), NEW b
  PROVE  Principal(b)' = Principal(b)
<1>1. ASSUME NEW r \in Payables
      PROVE  /\ payables'[r].purchase = payables[r].purchase
             /\ payables'[r].voided = payables[r].voided
             /\ payables'[r].amount = payables[r].amount
  BY DEF Counted, TypeOK, PayableRows
<1>2. Owing(b)' = Owing(b)
  BY <1>1 DEF Owing
<1>3. /\ Principal(b) = SumOver(Owing(b), Payables)
      /\ Principal(b)' = SumOver(Owing(b)', Payables)
  BY DEF Principal, Owing, SumOver, FoldFunction, FoldFunctionOnSet, MapThenFoldSet
<1> QED BY <1>2, <1>3
LEMMA SpentAdded ==
  ASSUME TypeOK, NEW p \in Payments, NEW shares \in [Payables -> Nat],
         AddAllocations(p, shares)
  PROVE  /\ Spent(p)' = Spent(p) + SumOfShares(shares)
         /\ \A r \in Payments \ {p} : allocated'[r] = allocated[r] /\ Spent(r)' = Spent(r)
<1>1. TypeOK' /\ allocated'[p] = [q \in Payables |-> allocated[p][q] + shares[q]]
  BY AddAllocationsTyped
<1>2. \A q \in Payables : /\ allocated[p][q] \in Int /\ shares[q] \in Int
                          /\ allocated'[p][q] = allocated[p][q] + shares[q]
  BY <1>1 DEF TypeOK
<1>3. IsFiniteSet(Payables)
  BY AmountsTyped
<1>4. SumOver(allocated'[p], Payables)
        = SumOver(allocated[p], Payables) + SumOver(shares, Payables)
  BY <1>2, <1>3, SumPlus
<1>5. Spent(p)' = Spent(p) + SumOfShares(shares)
  BY <1>1, <1>4, SumsAre, SumsAreNext, SharesAre
<1>6. ASSUME NEW r \in Payments \ {p}
      PROVE  allocated'[r] = allocated[r] /\ Spent(r)' = Spent(r)
  <2>1. allocated'[r] = allocated[r]
    BY DEF AddAllocations, TypeOK
  <2>2. Spent(r) = SumOver(allocated[r], Payables) /\ Spent(r)' = SumOver(allocated'[r], Payables)
    BY <1>1, SumsAre, SumsAreNext
  <2> QED BY <2>1, <2>2
<1> QED BY <1>5, <1>6

LEMMA PaidAdded ==
  ASSUME TypeOK, NEW p \in Payments, NEW shares \in [Payables -> Nat],
         AddAllocations(p, shares), NEW q \in Payables
  PROVE  Paid(q)' = Paid(q) + shares[q]
<1>1. TypeOK' /\ allocated'[p] = [r \in Payables |-> allocated[p][r] + shares[r]]
  BY AddAllocationsTyped
<1>2. /\ \A r \in Payments \ {p} : allocated'[r] = allocated[r]
      /\ returned' = returned
  BY DEF AddAllocations, TypeOK
<1>3. \A r \in Payments \ {p} : Paying(q)'[r] = Paying(q)[r]
  BY <1>2 DEF Paying
<1>4. allocated[p][q] \in Nat /\ returned[p][q] \in Nat /\ shares[q] \in Nat
  BY DEF TypeOK
<1>5. Paying(q)[p] = allocated[p][q] - returned[p][q]
  BY DEF Paying
<1>6. Paying(q)'[p] = (allocated[p][q] + shares[q]) - returned[p][q]
  BY <1>1, <1>2 DEF Paying
<1>7. IsFiniteSet(Payments) /\ \A r \in Payments : Paying(q)[r] \in Int
  BY AmountsTyped
<1>8. \A r \in Payments : Paying(q)'[r] \in Int
  BY <1>3, <1>4, <1>6, <1>7
<1>9. SumOver(Paying(q)', Payments)
        = SumOver(Paying(q), Payments) + Paying(q)'[p] - Paying(q)[p]
  BY <1>3, <1>7, <1>8, SumChange
<1>10. SumOver(Paying(q), Payments) \in Int
  BY <1>7, SumInt
<1>11. Paid(q) = SumOver(Paying(q), Payments) /\ Paid(q)' = SumOver(Paying(q)', Payments)
  BY <1>1, SumsAre, SumsAreNext
<1> QED BY <1>4, <1>5, <1>6, <1>9, <1>10, <1>11

LEMMA PaidReturned ==
  ASSUME TypeOK, NEW p \in Payments, NEW rows \in [Payables -> Nat], AddReversal(p, rows),
         NEW q \in Payables
  PROVE  Paid(q)' = Paid(q) - rows[q]
<1>1. TypeOK' /\ returned'[p] = [r \in Payables |-> returned[p][r] + rows[r]]
  BY AddReversalTyped
<1>2. /\ \A r \in Payments \ {p} : returned'[r] = returned[r]
      /\ allocated' = allocated
  BY DEF AddReversal, TypeOK
<1>3. \A r \in Payments \ {p} : Paying(q)'[r] = Paying(q)[r]
  BY <1>2 DEF Paying
<1>4. allocated[p][q] \in Nat /\ returned[p][q] \in Nat /\ rows[q] \in Nat
  BY DEF TypeOK
<1>5. Paying(q)[p] = allocated[p][q] - returned[p][q]
  BY DEF Paying
<1>6. Paying(q)'[p] = allocated[p][q] - (returned[p][q] + rows[q])
  BY <1>1, <1>2 DEF Paying
<1>7. IsFiniteSet(Payments) /\ \A r \in Payments : Paying(q)[r] \in Int
  BY AmountsTyped
<1>8. \A r \in Payments : Paying(q)'[r] \in Int
  BY <1>3, <1>4, <1>6, <1>7
<1>9. SumOver(Paying(q)', Payments)
        = SumOver(Paying(q), Payments) + Paying(q)'[p] - Paying(q)[p]
  BY <1>3, <1>7, <1>8, SumChange
<1>10. SumOver(Paying(q), Payments) \in Int
  BY <1>7, SumInt
<1>11. Paid(q) = SumOver(Paying(q), Payments) /\ Paid(q)' = SumOver(Paying(q)', Payments)
  BY <1>1, SumsAre, SumsAreNext
<1> QED BY <1>4, <1>5, <1>6, <1>9, <1>10, <1>11

\* A payable that nothing is paid of has no row in force.
LEMMA UnpaidHasNoRows ==
  ASSUME TypeOK, ReversedExactly, NEW q \in Payables, Paid(q) = 0, NEW p \in Payments
  PROVE  allocated[p][q] > 0 => payments[p].reversals > 0
<1>1. IsFiniteSet(Payments) /\ \A r \in Payments : Paying(q)[r] \in Nat
  BY AmountsTyped, PayingNat
<1>2. Paying(q)[p] <= SumOver(Paying(q), Payments)
  BY <1>1, SumNat
<1>3. SumOver(Paying(q), Payments) = 0
  BY SumsAre
<1>4. Paying(q)[p] = 0
  BY <1>1, <1>2, <1>3
<1>5. payments[p].reversals \in Nat
  BY DEF TypeOK, PaymentRows
<1>6. payments[p].reversals = 0 => allocated[p][q] = 0
  BY <1>4, PayingNat
<1> QED BY <1>5, <1>6

LEMMA PaidNat ==
  ASSUME TypeOK, ReversedExactly, NEW q \in Payables PROVE Paid(q) \in Nat
<1>1. IsFiniteSet(Payments) /\ \A r \in Payments : Paying(q)[r] \in Nat
  BY AmountsTyped, PayingNat
<1> QED BY <1>1, SumNat, SumsAre

LEMMA SpentNat ==
  ASSUME TypeOK, NEW p \in Payments PROVE Spent(p) \in Nat
<1>1. IsFiniteSet(Payables) /\ \A q \in Payables : allocated[p][q] \in Nat
  BY AmountsTyped DEF TypeOK
<1> QED BY <1>1, SumNat, SumsAre
LEMMA PrincipalInt ==
  ASSUME TypeOK, NEW b PROVE Principal(b) \in Int
<1>1. IsFiniteSet(Payables) /\ \A q \in Payables : Owing(b)[q] \in Int
  BY AmountsTyped
<1> QED BY <1>1, SumInt, SumsAre

LEMMA PrincipalIntNext ==
  ASSUME TypeOK', NEW b PROVE Principal(b)' \in Int
<1>1. IsFiniteSet(Payables)
  BY SupplierAssumption
<1>2. \A q \in Payables : Owing(b)'[q] \in Int
  BY DEF TypeOK, PayableRows, Owing
<1> QED BY <1>1, <1>2, SumInt, SumsAreNext

LEMMA ConfirmKeeps ==
  ASSUME LedgerInv, NEW b \in Purchases, Confirm(b) PROVE LedgerInv'
<1> USE DEF LedgerInv
<1>1. UNCHANGED <<payables, payments, allocated, returned>>
  BY DEF Confirm
<1>2. TypeOK'
  BY <1>1 DEF TypeOK, Confirm
<1>3. WithinAmounts'
  <2>1. \A c \in Purchases : Principal(c)' <= Price[c]
    BY <1>1, SamePrincipal DEF WithinAmounts
  <2>2. \A q \in Payables : Owed(q)' => payables'[q].purchase \in confirmed'
    BY <1>1 DEF WithinAmounts, Confirm, Owed
  <2>3. \A p \in Payments : Spent(p)' <= payments'[p].amount
    BY <1>1, SameSpent DEF WithinAmounts
  <2>4. \A q \in Payables : Paid(q)' \in 0..payables'[q].amount
    BY <1>1, SamePaid DEF WithinAmounts
  <2> QED BY <2>1, <2>2, <2>3, <2>4 DEF WithinAmounts
<1>4. ReversedExactly' /\ VoidedIsUnpaid' /\ UnusedIsEmpty'
  BY <1>1 DEF ReversedExactly, VoidedIsUnpaid, UnusedIsEmpty, Recorded, Owed
<1> QED BY <1>2, <1>3, <1>4

LEMMA CreatePayableKeeps ==
  ASSUME LedgerInv, NEW b \in Purchases, NEW amount \in Nat, CreatePayable(b, amount)
  PROVE  LedgerInv'
<1> USE DEF LedgerInv
<1>1. AddPayable(b, amount) /\ b \in confirmed /\ Principal(b) + amount <= Price[b]
  BY DEF CreatePayable
<1>2. TypeOK'
  BY <1>1, AddPayableTyped
<1>3. UNCHANGED <<confirmed, payments, allocated, returned>>
  BY <1>1 DEF AddPayable
<1>4. PICK q \in Payables :
        /\ ~Owed(q)
        /\ payables' = [payables EXCEPT ![q] =
             [purchase |-> b, amount |-> amount, voided |-> FALSE, version |-> 1]]
  BY <1>1 DEF AddPayable
<1>5. payables'[q] = [purchase |-> b, amount |-> amount, voided |-> FALSE, version |-> 1]
  BY <1>4 DEF TypeOK
<1>6. \A r \in Payables \ {q} : payables'[r] = payables[r]
  BY <1>4 DEF TypeOK
<1>7. WithinAmounts'
  <2>1. \A c \in Purchases : Principal(c)' <= Price[c]
    BY <1>1, PrincipalAdded DEF WithinAmounts
  <2>2. \A r \in Payables : Owed(r)' => payables'[r].purchase \in confirmed'
    <3>1. payables'[q].purchase \in confirmed'
      BY <1>1, <1>3, <1>5
    <3>2. \A r \in Payables \ {q} : Owed(r)' => payables'[r].purchase \in confirmed'
      BY <1>3, <1>6 DEF WithinAmounts, Owed
    <3> QED BY <3>1, <3>2
  <2>3. \A p \in Payments : Spent(p)' <= payments'[p].amount
    BY <1>3, SameSpent DEF WithinAmounts
  <2>4. \A r \in Payables : Paid(r)' \in 0..payables'[r].amount
    <3>1. \A r \in Payables : Paid(r)' = Paid(r)
      BY <1>3, SamePaid
    <3>2. Paid(q) = 0
      <4>1. payables[q].amount = 0 /\ Paid(q) \in 0..payables[q].amount
        BY <1>4 DEF UnusedIsEmpty, WithinAmounts
      <4> QED BY <4>1
    <3>3. Paid(q)' \in 0..payables'[q].amount
      BY <1>5, <3>1, <3>2
    <3> QED BY <1>6, <3>1, <3>3 DEF WithinAmounts
  <2> QED BY <2>1, <2>2, <2>3, <2>4 DEF WithinAmounts
<1>8. ReversedExactly'
  BY <1>3 DEF ReversedExactly
<1>9. VoidedIsUnpaid'
  <2>1. ~payables'[q].voided
    BY <1>5
  <2> QED BY <1>3, <1>6, <2>1 DEF VoidedIsUnpaid
<1>10. UnusedIsEmpty'
  <2>1. Owed(q)'
    BY <1>5, SupplierAssumption DEF Owed
  <2>2. \A r \in Payables : ~Owed(r)' => payables'[r].amount = 0
    BY <1>6, <2>1 DEF UnusedIsEmpty, Owed
  <2> QED BY <1>3, <2>2 DEF UnusedIsEmpty, Recorded
<1> QED BY <1>2, <1>7, <1>8, <1>9, <1>10

LEMMA VoidPayableKeeps ==
  ASSUME LedgerInv, NEW q \in Payables, VoidPayable(q) PROVE LedgerInv'
<1> USE DEF LedgerInv
<1>1. MarkVoided(q) /\ Paid(q) = 0 /\ Owed(q)
  BY DEF VoidPayable
<1>2. TypeOK' /\ payables'[q] = [payables[q] EXCEPT !.voided = TRUE, !.version = @ + 1]
  BY <1>1, MarkVoidedTyped
<1>3. UNCHANGED <<confirmed, payments, allocated, returned>>
  BY <1>1 DEF MarkVoided
<1>4. \A r \in Payables \ {q} : payables'[r] = payables[r]
  BY <1>1 DEF MarkVoided, TypeOK
<1>5. payables'[q].purchase = payables[q].purchase /\ payables'[q].amount = payables[q].amount
  <2>1. payables[q] \in PayableRows
    BY DEF TypeOK
  <2> QED BY <1>2, <2>1 DEF PayableRows
<1>6. WithinAmounts'
  <2>1. \A b \in Purchases : Principal(b)' <= Price[b]
    <3>1. ASSUME NEW b \in Purchases PROVE Principal(b)' <= Price[b]
      <4>1. Principal(b)' <= Principal(b) /\ Principal(b) <= Price[b]
        BY <1>1, PrincipalVoided DEF WithinAmounts
      <4>2. Principal(b)' \in Int /\ Principal(b) \in Int /\ Price[b] \in Int
        BY <1>2, PrincipalInt, PrincipalIntNext, SupplierAssumption
      <4> QED BY <4>1, <4>2
    <3> QED BY <3>1
  <2>2. \A r \in Payables : Owed(r)' => payables'[r].purchase \in confirmed'
    BY <1>3, <1>4, <1>5 DEF WithinAmounts, Owed
  <2>3. \A p \in Payments : Spent(p)' <= payments'[p].amount
    BY <1>3, SameSpent DEF WithinAmounts
  <2>4. \A r \in Payables : Paid(r)' \in 0..payables'[r].amount
    <3>1. \A r \in Payables : Paid(r)' = Paid(r)
      BY <1>3, SamePaid
    <3>2. \A r \in Payables : payables'[r].amount = payables[r].amount
      BY <1>4, <1>5
    <3> QED BY <3>1, <3>2 DEF WithinAmounts
  <2> QED BY <2>1, <2>2, <2>3, <2>4 DEF WithinAmounts
<1>7. ReversedExactly'
  BY <1>3 DEF ReversedExactly
<1>8. VoidedIsUnpaid'
  <2>1. \A p \in Payments : allocated[p][q] > 0 => payments[p].reversals > 0
    BY <1>1, UnpaidHasNoRows
  <2> QED BY <1>3, <1>4, <2>1 DEF VoidedIsUnpaid
<1>9. UnusedIsEmpty'
  BY <1>3, <1>4, <1>5 DEF UnusedIsEmpty, Recorded, Owed
<1> QED BY <1>2, <1>6, <1>7, <1>8, <1>9

LEMMA RecordPaymentKeeps ==
  ASSUME LedgerInv, NEW p \in Payments, NEW amount \in Amounts, RecordPayment(p, amount)
  PROVE  LedgerInv'
<1> USE DEF LedgerInv
<1>1. TypeOK' /\ payments'[p] = [amount |-> amount, reversals |-> 0, version |-> 1]
  BY RecordPaymentTyped
<1>2. UNCHANGED <<confirmed, payables, allocated, returned>> /\ ~Recorded(p)
  BY DEF RecordPayment
<1>3. \A r \in Payments \ {p} : payments'[r] = payments[r]
  BY DEF RecordPayment, TypeOK
<1>4. payments[p].reversals = 0 /\ allocated[p] = Nothing
  BY <1>2 DEF UnusedIsEmpty
<1>5. amount \in Nat /\ amount > 0
  BY SupplierAssumption DEF Amounts
<1>6. WithinAmounts'
  <2>1. \A b \in Purchases : Principal(b)' <= Price[b]
    BY <1>2, SamePrincipal DEF WithinAmounts
  <2>2. \A q \in Payables : Owed(q)' => payables'[q].purchase \in confirmed'
    BY <1>2 DEF WithinAmounts, Owed
  <2>3. \A r \in Payments : Spent(r)' <= payments'[r].amount
    <3>1. \A r \in Payments : Spent(r)' = Spent(r)
      BY <1>2, SameSpent
    <3>2. Spent(p) = 0
      <4>1. \A q \in Payables : allocated[p][q] = 0
        BY <1>4 DEF Nothing
      <4> QED BY <4>1, SumZero, SumsAre, SupplierAssumption
    <3> QED BY <1>1, <1>3, <1>5, <3>1, <3>2 DEF WithinAmounts
  <2>4. \A q \in Payables : Paid(q)' \in 0..payables'[q].amount
    BY <1>2, SamePaid DEF WithinAmounts
  <2> QED BY <2>1, <2>2, <2>3, <2>4 DEF WithinAmounts
<1>7. ReversedExactly'
  <2>1. returned[p] = Nothing
    BY <1>4 DEF ReversedExactly
  <2> QED BY <1>1, <1>2, <1>3, <2>1 DEF ReversedExactly
<1>8. VoidedIsUnpaid'
  <2>1. \A q \in Payables : ~(allocated[p][q] > 0)
    BY <1>4 DEF Nothing
  <2> QED BY <1>2, <1>3, <2>1 DEF VoidedIsUnpaid
<1>9. UnusedIsEmpty'
  <2>1. Recorded(p)'
    BY <1>1, <1>5 DEF Recorded
  <2> QED BY <1>2, <1>3, <2>1 DEF UnusedIsEmpty, Recorded, Owed
<1> QED BY <1>1, <1>6, <1>7, <1>8, <1>9
LEMMA CountedKeeps ==
  ASSUME TypeOK, NEW Q, payables' = Counted(Q)
  PROVE  \A q \in Payables : /\ payables'[q].purchase = payables[q].purchase
                             /\ payables'[q].amount = payables[q].amount
                             /\ payables'[q].voided = payables[q].voided
BY DEF Counted, TypeOK, PayableRows

LEMMA AllocateKeeps ==
  ASSUME LedgerInv, NEW p \in Payments, NEW shares \in [Payables -> Nat],
         Allocate(p, shares)
  PROVE  LedgerInv'
<1> USE DEF LedgerInv
<1>1. AddAllocations(p, shares) /\ Active(p)
  BY DEF Allocate
<1>2. /\ TypeOK'
      /\ payments'[p] = [payments[p] EXCEPT !.version = @ + 1]
      /\ allocated'[p] = [q \in Payables |-> allocated[p][q] + shares[q]]
  BY <1>1, AddAllocationsTyped
<1>3. /\ UNCHANGED <<confirmed, returned>>
      /\ \A r \in Payments \ {p} : payments'[r] = payments[r] /\ allocated'[r] = allocated[r]
  BY <1>1 DEF AddAllocations, TypeOK
<1>4. payments'[p].amount = payments[p].amount /\ payments'[p].reversals = payments[p].reversals
  BY <1>2 DEF TypeOK, PaymentRows
<1>5. \A r \in Payments :
        payments'[r].amount = payments[r].amount /\ payments'[r].reversals = payments[r].reversals
  BY <1>3, <1>4
<1>6. payables' = Counted({q \in Payables : shares[q] > 0})
  BY <1>1 DEF AddAllocations
<1>7. \A q \in Payables : /\ payables'[q].purchase = payables[q].purchase
                          /\ payables'[q].amount = payables[q].amount
                          /\ payables'[q].voided = payables[q].voided
  BY <1>6, CountedKeeps
<1>8. WithinAmounts'
  <2>1. \A b \in Purchases : Principal(b)' <= Price[b]
    BY <1>6, PrincipalCounted DEF WithinAmounts
  <2>2. \A q \in Payables : Owed(q)' => payables'[q].purchase \in confirmed'
    BY <1>3, <1>7 DEF WithinAmounts, Owed
  <2>3. \A r \in Payments : Spent(r)' <= payments'[r].amount
    <3>1. Spent(p)' = Spent(p) + SumOfShares(shares)
      BY <1>1, SpentAdded
    <3>2. \A r \in Payments \ {p} : Spent(r)' = Spent(r)
      BY <1>1, SpentAdded
    <3>3. Spent(p) + SumOfShares(shares) <= payments[p].amount
      BY DEF Allocate
    <3> QED BY <1>5, <3>1, <3>2, <3>3 DEF WithinAmounts
  <2>4. ASSUME NEW q \in Payables PROVE Paid(q)' \in 0..payables'[q].amount
    <3>1. Paid(q)' = Paid(q) + shares[q]
      BY <1>1, PaidAdded
    <3>2. Paid(q) \in 0..payables[q].amount /\ payables[q].amount \in Nat /\ shares[q] \in Nat
      BY DEF WithinAmounts, TypeOK, PayableRows
    <3>3. shares[q] > 0 => Paid(q) + shares[q] <= payables[q].amount
      BY DEF Allocate
    <3>4. payables'[q].amount = payables[q].amount
      BY <1>7
    <3> QED BY <3>1, <3>2, <3>3, <3>4
  <2> QED BY <2>1, <2>2, <2>3, <2>4 DEF WithinAmounts
<1>9. ReversedExactly'
  <2>1. payments[p].reversals = 0 /\ returned[p] = Nothing
    BY <1>1 DEF Active, ReversedExactly
  <2> QED BY <1>3, <1>5, <2>1 DEF ReversedExactly
<1>10. VoidedIsUnpaid'
  <2>1. ASSUME NEW q \in Payables, payables'[q].voided, allocated'[p][q] > 0
        PROVE  payments'[p].reversals > 0
    <3>1. payables[q].voided
      BY <1>7, <2>1
    <3>2. ~(shares[q] > 0)
      BY <3>1 DEF Allocate
    <3>3. allocated[p][q] \in Nat /\ shares[q] \in Nat
      BY DEF TypeOK
    <3>4. allocated'[p][q] = allocated[p][q]
      BY <1>2, <3>2, <3>3
    <3> QED BY <1>5, <2>1, <3>1, <3>4 DEF VoidedIsUnpaid
  <2>2. ASSUME NEW q \in Payables, NEW r \in Payments \ {p},
               payables'[q].voided, allocated'[r][q] > 0
        PROVE  payments'[r].reversals > 0
    BY <1>3, <1>7, <2>2 DEF VoidedIsUnpaid
  <2> QED BY <2>1, <2>2 DEF VoidedIsUnpaid
<1>11. UnusedIsEmpty'
  <2>1. Recorded(p)
    BY <1>1 DEF Active
  <2>2. \A r \in Payments :
          ~Recorded(r)' => payments'[r].reversals = 0 /\ allocated'[r] = Nothing
    BY <1>3, <1>5, <2>1 DEF UnusedIsEmpty, Recorded
  <2>3. \A q \in Payables : ~Owed(q)' => payables'[q].amount = 0
    BY <1>7 DEF UnusedIsEmpty, Owed
  <2> QED BY <2>2, <2>3 DEF UnusedIsEmpty
<1> QED BY <1>2, <1>8, <1>9, <1>10, <1>11

LEMMA ReverseKeeps ==
  ASSUME LedgerInv, NEW p \in Payments, Reverse(p) PROVE LedgerInv'
<1> USE DEF LedgerInv
<1>1. AddReversal(p, allocated[p]) /\ Active(p) /\ allocated[p] \in [Payables -> Nat]
  BY DEF Reverse, TypeOK
<1>2. /\ TypeOK'
      /\ payments'[p] = [payments[p] EXCEPT !.reversals = @ + 1]
      /\ returned'[p] = [q \in Payables |-> returned[p][q] + allocated[p][q]]
  BY <1>1, AddReversalTyped
<1>3. /\ UNCHANGED <<confirmed, allocated>>
      /\ \A r \in Payments \ {p} : payments'[r] = payments[r] /\ returned'[r] = returned[r]
  BY <1>1 DEF AddReversal, TypeOK
<1>4. payments[p].reversals = 0 /\ returned[p] = Nothing
  BY <1>1 DEF Active, ReversedExactly
<1>5. payments'[p].amount = payments[p].amount /\ payments'[p].reversals = 1
  BY <1>2, <1>4 DEF TypeOK, PaymentRows
<1>6. payables' = Counted({q \in Payables : allocated[p][q] > 0})
  BY <1>1 DEF AddReversal
<1>7. \A q \in Payables : /\ payables'[q].purchase = payables[q].purchase
                          /\ payables'[q].amount = payables[q].amount
                          /\ payables'[q].voided = payables[q].voided
  BY <1>6, CountedKeeps
<1>8. ReversedExactly'
  <2>1. \A q \in Payables : returned[p][q] + allocated[p][q] = allocated[p][q]
    BY <1>1, <1>4 DEF Nothing
  <2>2. returned'[p] = allocated[p]
    BY <1>1, <1>2, <2>1
  <2> QED BY <1>3, <1>5, <2>2 DEF ReversedExactly
<1>9. WithinAmounts'
  <2>1. \A b \in Purchases : Principal(b)' <= Price[b]
    BY <1>6, PrincipalCounted DEF WithinAmounts
  <2>2. \A q \in Payables : Owed(q)' => payables'[q].purchase \in confirmed'
    BY <1>3, <1>7 DEF WithinAmounts, Owed
  <2>3. \A r \in Payments : Spent(r)' <= payments'[r].amount
    BY <1>3, <1>5, SameSpent DEF WithinAmounts
  <2>4. ASSUME NEW q \in Payables PROVE Paid(q)' \in 0..payables'[q].amount
    <3>1. Paid(q)' = Paid(q) - allocated[p][q]
      BY <1>1, PaidReturned
    <3>2. Paid(q) \in 0..payables[q].amount /\ payables[q].amount \in Nat
          /\ allocated[p][q] \in Nat
      BY <1>1 DEF WithinAmounts, TypeOK, PayableRows
    <3>3. Paying(q)[p] = allocated[p][q]
      BY <1>4, PayingNat
    <3>4. Paying(q)[p] <= Paid(q)
      <4>1. IsFiniteSet(Payments) /\ \A r \in Payments : Paying(q)[r] \in Nat
        BY AmountsTyped, PayingNat
      <4> QED BY <4>1, SumNat, SumsAre
    <3>5. payables'[q].amount = payables[q].amount
      BY <1>7
    <3> QED BY <3>1, <3>2, <3>3, <3>4, <3>5
  <2> QED BY <2>1, <2>2, <2>3, <2>4 DEF WithinAmounts
<1>10. VoidedIsUnpaid'
  <2>1. payments'[p].reversals > 0
    BY <1>5
  <2> QED BY <1>3, <1>7, <2>1 DEF VoidedIsUnpaid
<1>11. UnusedIsEmpty'
  <2>1. Recorded(p)'
    BY <1>1, <1>5 DEF Active, Recorded
  <2>2. \A r \in Payments :
          ~Recorded(r)' => payments'[r].reversals = 0 /\ allocated'[r] = Nothing
    BY <1>3, <2>1 DEF UnusedIsEmpty, Recorded
  <2>3. \A q \in Payables : ~Owed(q)' => payables'[q].amount = 0
    BY <1>7 DEF UnusedIsEmpty, Owed
  <2> QED BY <2>2, <2>3 DEF UnusedIsEmpty
<1> QED BY <1>2, <1>8, <1>9, <1>10, <1>11

LEMMA LedgerInitially == Init => LedgerInv
<1> SUFFICES ASSUME Init PROVE LedgerInv
  OBVIOUS
<1>1. TypeOK
  BY DEF Init, TypeOK, PayableRows, PaymentRows, Nothing
<1>2. UnusedIsEmpty /\ ReversedExactly /\ VoidedIsUnpaid
  BY DEF Init, UnusedIsEmpty, ReversedExactly, VoidedIsUnpaid, Nothing
<1>3. WithinAmounts
  <2>1. \A b \in Purchases : Principal(b) <= Price[b]
    <3>1. ASSUME NEW b \in Purchases PROVE Principal(b) = 0
      <4>1. \A q \in Payables : Owing(b)[q] = 0
        BY DEF Init, Owing
      <4> QED BY <1>1, <4>1, SumZero, SumsAre, SupplierAssumption
    <3>2. \A b \in Purchases : 0 <= Price[b]
      BY SupplierAssumption
    <3> QED BY <3>1, <3>2
  <2>2. \A q \in Payables : ~Owed(q) /\ payables[q].amount = 0
    BY DEF Init, Owed
  <2>3. \A p \in Payments : Spent(p) <= payments[p].amount
    <3>1. ASSUME NEW p \in Payments PROVE Spent(p) = 0 /\ payments[p].amount = 0
      <4>1. \A q \in Payables : allocated[p][q] = 0
        BY DEF Init, Nothing
      <4>2. payments[p].amount = 0
        BY DEF Init
      <4> QED BY <1>1, <4>1, <4>2, SumZero, SumsAre, SupplierAssumption
    <3> QED BY <3>1
  <2>4. ASSUME NEW q \in Payables PROVE Paid(q) = 0
    <3>1. \A p \in Payments : Paying(q)[p] = 0
      BY DEF Init, Paying, Nothing
    <3> QED BY <1>1, <3>1, SumZero, SumsAre, SupplierAssumption
  <2> QED BY <2>1, <2>2, <2>3, <2>4 DEF WithinAmounts
<1> QED BY <1>1, <1>2, <1>3 DEF LedgerInv

LEMMA LedgerStays == LedgerInv /\ UNCHANGED ledgerVars => LedgerInv'
<1> SUFFICES ASSUME LedgerInv, UNCHANGED ledgerVars PROVE LedgerInv'
  OBVIOUS
<1> USE DEF LedgerInv
<1>1. UNCHANGED <<confirmed, payables, payments, allocated, returned>>
  BY DEF ledgerVars
<1>2. TypeOK' /\ ReversedExactly' /\ VoidedIsUnpaid' /\ UnusedIsEmpty'
  BY <1>1 DEF TypeOK, ReversedExactly, VoidedIsUnpaid, UnusedIsEmpty, Recorded, Owed
<1>3. WithinAmounts'
  BY <1>1, SamePrincipal, SameSpent, SamePaid DEF WithinAmounts, Owed
<1> QED BY <1>2, <1>3

LEMMA LedgerStep == LedgerInv /\ [Next]_ledgerVars => LedgerInv'
<1> SUFFICES ASSUME LedgerInv, [Next]_ledgerVars PROVE LedgerInv'
  OBVIOUS
<1>1. CASE \E b \in Purchases : Confirm(b)
  BY <1>1, ConfirmKeeps
<1>2. CASE \E b \in Purchases : \E amount \in Amounts : CreatePayable(b, amount)
  <2>1. Amounts \subseteq Nat
    BY SupplierAssumption DEF Amounts
  <2> QED BY <1>2, <2>1, CreatePayableKeeps
<1>3. CASE \E q \in Payables : VoidPayable(q)
  BY <1>3, VoidPayableKeeps
<1>4. CASE \E p \in Payments : \E amount \in Amounts : RecordPayment(p, amount)
  BY <1>4, RecordPaymentKeeps
<1>5. CASE \E p \in Payments : \E shares \in Shares : Allocate(p, shares)
  <2>1. Shares \subseteq [Payables -> Nat]
    BY SupplierAssumption DEF Shares
  <2> QED BY <1>5, <2>1, AllocateKeeps
<1>6. CASE \E p \in Payments : Reverse(p)
  BY <1>6, ReverseKeeps
<1>7. CASE UNCHANGED ledgerVars
  BY <1>7, LedgerStays
<1> QED BY <1>1, <1>2, <1>3, <1>4, <1>5, <1>6, <1>7 DEF Next

LEMMA LedgerCorrect == Spec => []LedgerInv
BY LedgerInitially, LedgerStep, PTL DEF Spec
-----------------------------------------------------------------------------
(* What a command does to the rows that others have locked or seen.        *)

\* A transaction that holds the row can go on deciding on what it has read.
LeftAlone(r) ==
  /\ IF r \in Purchases THEN SumOf(r)' <= SumOf(r) ELSE SumOf(r)' = SumOf(r)
  /\ r \in Payments /\ Recorded(r) => allocated'[r] = allocated[r] /\ payments'[r] = payments[r]

InUse(r) == IF r \in Payments THEN Recorded(r) ELSE Owed(r)

\* Whoever has seen the version knows whether the sum is still what it was.
CountsOn(r) ==
  InUse(r) => /\ InUse(r)' /\ Version(r) <= Version(r)'
              /\ Version(r)' = Version(r) => SumOf(r)' = SumOf(r)

LEMMA SumOfInt == ASSUME TypeOK, NEW r \in Rows PROVE SumOf(r) \in Int
<1>1. \A q \in Payables : Paid(q) \in Int
  BY AmountsTyped, SumInt, SumsAre
<1>2. \A p \in Payments : Spent(p) \in Int
  BY SpentNat
<1>3. \A b : Principal(b) \in Int
  BY PrincipalInt
<1> QED BY <1>1, <1>2, <1>3 DEF SumOf, Rows

LEMMA VersionNat ==
  ASSUME TypeOK, NEW r \in Payables \cup Payments PROVE Version(r) \in Nat
BY DEF Version, TypeOK, PayableRows, PaymentRows

LEMMA VersionNatNext ==
  ASSUME TypeOK', NEW r \in Payables \cup Payments PROVE Version(r)' \in Nat
BY DEF Version, TypeOK, PayableRows, PaymentRows

LEMMA SumOfIntNext == ASSUME TypeOK', NEW r \in Rows PROVE SumOf(r)' \in Int
<1>1. ASSUME NEW q \in Payables PROVE Paid(q)' \in Int
  <2>1. \A p \in Payments : allocated'[p][q] \in Nat /\ returned'[p][q] \in Nat
    BY DEF TypeOK
  <2>2. \A p \in Payments : Paying(q)'[p] \in Int
    BY <2>1 DEF Paying
  <2> QED BY <2>2, SumInt, SumsAreNext, SupplierAssumption
<1>2. ASSUME NEW p \in Payments PROVE Spent(p)' \in Int
  <2>1. \A q \in Payables : allocated'[p][q] \in Int
    BY DEF TypeOK
  <2> QED BY <2>1, SumInt, SumsAreNext, SupplierAssumption
<1>3. \A b : Principal(b)' \in Int
  BY PrincipalIntNext
<1> QED BY <1>1, <1>2, <1>3 DEF SumOf, Rows

LEMMA LedgerUnchanged ==
  ASSUME TypeOK, UNCHANGED <<payables, payments, allocated, returned>>, NEW r \in Rows
  PROVE  LeftAlone(r) /\ (r \in Payables \cup Payments => CountsOn(r))
<1>1. SumOf(r)' = SumOf(r)
  BY SamePrincipal, SameSpent, SamePaid DEF SumOf
<1>2. LeftAlone(r)
  BY <1>1, SumOfInt DEF LeftAlone
<1>3. ASSUME r \in Payables \cup Payments PROVE CountsOn(r)
  <2>1. InUse(r)' = InUse(r)
    BY DEF InUse, Owed, Recorded
  <2>2. Version(r)' = Version(r)
    BY DEF Version
  <2> QED BY <1>1, <1>3, <2>1, <2>2, VersionNat DEF CountsOn
<1> QED BY <1>2, <1>3

LEMMA RecordPaymentDisturbs ==
  ASSUME TypeOK, NEW p \in Payments, NEW amount \in Amounts, RecordPayment(p, amount),
         NEW r \in Rows
  PROVE  LeftAlone(r) /\ (r \in Payables \cup Payments => CountsOn(r))
<1>1. UNCHANGED <<payables, allocated, returned>> /\ ~Recorded(p)
  BY DEF RecordPayment
<1>2. \A s \in Payments \ {p} : payments'[s] = payments[s]
  BY DEF RecordPayment, TypeOK
<1>3. SumOf(r)' = SumOf(r)
  BY <1>1, SamePrincipal, SameSpent, SamePaid DEF SumOf
<1>4. LeftAlone(r)
  BY <1>1, <1>2, <1>3, SumOfInt DEF LeftAlone
<1>5. ASSUME r \in Payables \cup Payments, InUse(r) PROVE InUse(r)' /\ Version(r)' = Version(r)
  BY <1>1, <1>2, <1>5 DEF InUse, Owed, Recorded, Version
<1> QED BY <1>3, <1>4, <1>5, VersionNat DEF CountsOn

LEMMA AddPayableDisturbs ==
  ASSUME TypeOK, NEW b \in Purchases, NEW amount \in Nat, AddPayable(b, amount),
         NEW r \in Rows
  PROVE  (r # b => LeftAlone(r)) /\ (r \in Payables \cup Payments => CountsOn(r))
<1>1. UNCHANGED <<payments, allocated, returned>>
  BY DEF AddPayable
<1>2. PICK q \in Payables :
        /\ ~Owed(q)
        /\ payables' = [payables EXCEPT ![q] =
             [purchase |-> b, amount |-> amount, voided |-> FALSE, version |-> 1]]
  BY DEF AddPayable
<1>3. \A s \in Payables \ {q} : payables'[s] = payables[s]
  BY <1>2 DEF TypeOK
<1>4. r \notin Purchases => SumOf(r)' = SumOf(r)
  BY <1>1, SameSpent, SamePaid DEF SumOf
<1>5. r \in Purchases \ {b} => SumOf(r)' = SumOf(r)
  BY PrincipalAdded DEF SumOf
<1>6. r # b => LeftAlone(r)
  BY <1>1, <1>4, <1>5, SumOfInt DEF LeftAlone
<1>7. ASSUME r \in Payables \cup Payments, InUse(r) PROVE InUse(r)' /\ Version(r)' = Version(r)
  BY <1>1, <1>2, <1>3, <1>7 DEF InUse, Owed, Recorded, Version
<1>8. r \in Payables \cup Payments => r \notin Purchases
  BY RowsAssumption
<1> QED BY <1>4, <1>6, <1>7, <1>8, VersionNat DEF CountsOn

LEMMA MarkVoidedDisturbs ==
  ASSUME TypeOK, NEW q \in Payables, MarkVoided(q), NEW r \in Rows
  PROVE  LeftAlone(r) /\ (r \in Payables \cup Payments => CountsOn(r))
<1>1. UNCHANGED <<payments, allocated, returned>>
  BY DEF MarkVoided
<1>2. payables'[q] = [payables[q] EXCEPT !.voided = TRUE, !.version = @ + 1]
  BY MarkVoidedTyped
<1>3. \A s \in Payables \ {q} : payables'[s] = payables[s]
  BY DEF MarkVoided, TypeOK
<1>4. r \notin Purchases => SumOf(r)' = SumOf(r)
  BY <1>1, SameSpent, SamePaid DEF SumOf
<1>5. r \in Purchases => SumOf(r)' <= SumOf(r)
  BY PrincipalVoided DEF SumOf
<1>6. LeftAlone(r)
  BY <1>1, <1>4, <1>5 DEF LeftAlone
<1>7. payables[q] \in PayableRows
  BY DEF TypeOK
<1>8. payables'[q].purchase = payables[q].purchase
      /\ payables'[q].version = payables[q].version + 1
  BY <1>2, <1>7 DEF PayableRows
<1>9. ASSUME r \in Payables \cup Payments, InUse(r)
      PROVE  InUse(r)' /\ Version(r) <= Version(r)'
  <2>1. CASE r \in Payments \/ r # q
    <3>1. InUse(r)' /\ Version(r)' = Version(r)
      BY <1>1, <1>3, <1>9, <2>1 DEF InUse, Owed, Recorded, Version
    <3> QED BY <1>9, <3>1, VersionNat
  <2>2. CASE r = q /\ r \notin Payments
    <3>1. payables[q].version \in Nat
      BY <1>7 DEF PayableRows
    <3> QED BY <1>8, <1>9, <2>2, <3>1 DEF InUse, Owed, Version
  <2> QED BY <2>1, <2>2
<1>10. r \in Payables \cup Payments => r \notin Purchases
  BY RowsAssumption
<1> QED BY <1>4, <1>6, <1>9, <1>10 DEF CountsOn
\* A settlement touches the payment and the payables that its rows are for.
LEMMA CountedVersions ==
  ASSUME TypeOK, NEW Q, payables' = Counted(Q), NEW q \in Payables
  PROVE  /\ payables'[q].purchase = payables[q].purchase
         /\ q \notin Q => payables'[q].version = payables[q].version
         /\ q \in Q => payables'[q].version = payables[q].version + 1
         /\ payables[q].version \in Nat
BY DEF Counted, TypeOK, PayableRows

LEMMA AddAllocationsDisturbs ==
  ASSUME TypeOK, NEW p \in Payments, NEW shares \in [Payables -> Nat],
         AddAllocations(p, shares), NEW r \in Rows
  PROVE  /\ r # p /\ r \notin {q \in Payables : shares[q] > 0} => LeftAlone(r)
         /\ r \in Payables \cup Payments => CountsOn(r)
<1> DEFINE Q == {q \in Payables : shares[q] > 0}
<1>1. payables' = Counted(Q)
  BY DEF AddAllocations
<1>2. /\ \A s \in Payments \ {p} : payments'[s] = payments[s] /\ allocated'[s] = allocated[s]
      /\ payments'[p] = [payments[p] EXCEPT !.version = @ + 1]
  BY AddAllocationsTyped DEF AddAllocations, TypeOK
<1>3. CASE r \in Purchases
  <2>1. SumOf(r)' = SumOf(r)
    BY <1>1, <1>3, PrincipalCounted DEF SumOf
  <2> QED BY <1>3, <2>1, SumOfInt, RowsAssumption DEF LeftAlone
<1>4. CASE r \in Payables
  <2>1. r \notin Purchases /\ r \notin Payments
    BY <1>4, RowsAssumption
  <2>2. SumOf(r)' = SumOf(r) + shares[r]
    BY <1>4, <2>1, PaidAdded DEF SumOf
  <2>3. SumOf(r) \in Int /\ shares[r] \in Nat
    BY <1>4, SumOfInt
  <2>4. r \notin Q => SumOf(r)' = SumOf(r)
    BY <1>4, <2>2, <2>3
  <2>5. /\ payables'[r].purchase = payables[r].purchase
        /\ r \notin Q => payables'[r].version = payables[r].version
        /\ r \in Q => payables'[r].version = payables[r].version + 1
        /\ payables[r].version \in Nat
    BY <1>1, <1>4, CountedVersions
  <2>6. CountsOn(r)
    <3>1. Version(r) = payables[r].version /\ Version(r)' = payables'[r].version
      BY <2>1 DEF Version
    <3>2. InUse(r) = InUse(r)'
      BY <2>1, <2>5 DEF InUse, Owed
    <3>3. Version(r) <= Version(r)' /\ (Version(r)' = Version(r) => r \notin Q)
      BY <2>5, <3>1
    <3> QED BY <2>4, <3>2, <3>3 DEF CountsOn
  <2> QED BY <2>1, <2>4, <2>6 DEF LeftAlone
<1>5. CASE r \in Payments
  <2>1. r \notin Purchases
    BY <1>5, RowsAssumption
  <2>2. r # p => SumOf(r)' = SumOf(r)
    BY <1>5, <2>1, SpentAdded DEF SumOf
  <2>3. payments[p] \in PaymentRows /\ payments[p].version \in Nat
    BY DEF TypeOK, PaymentRows
  <2>4. payments'[p].version = payments[p].version + 1 /\ payments'[p].amount = payments[p].amount
    BY <1>2, <2>3 DEF PaymentRows
  <2>5. CountsOn(r)
    <3>1. InUse(r) = InUse(r)'
      BY <1>2, <1>5, <2>4 DEF InUse, Recorded
    <3>2. r # p => Version(r)' = Version(r)
      BY <1>2, <1>5 DEF Version
    <3>3. r = p => Version(r) <= Version(r)' /\ Version(r)' # Version(r)
      BY <1>5, <2>3, <2>4 DEF Version
    <3> QED BY <1>5, <2>2, <3>1, <3>2, <3>3, VersionNat DEF CountsOn
  <2> QED BY <1>2, <2>1, <2>2, <2>5 DEF LeftAlone
<1> QED BY <1>3, <1>4, <1>5 DEF Rows

LEMMA AddReversalDisturbs ==
  ASSUME TypeOK, NEW p \in Payments, NEW rows \in [Payables -> Nat], AddReversal(p, rows),
         NEW r \in Rows
  PROVE  /\ r # p /\ r \notin {q \in Payables : rows[q] > 0} => LeftAlone(r)
         /\ r \in Payables \cup Payments => CountsOn(r)
<1> DEFINE Q == {q \in Payables : rows[q] > 0}
<1>1. payables' = Counted(Q) /\ UNCHANGED allocated
  BY DEF AddReversal
<1>2. /\ \A s \in Payments \ {p} : payments'[s] = payments[s]
      /\ payments'[p] = [payments[p] EXCEPT !.reversals = @ + 1]
  BY AddReversalTyped DEF AddReversal, TypeOK
<1>3. CASE r \in Purchases
  <2>1. SumOf(r)' = SumOf(r)
    BY <1>1, <1>3, PrincipalCounted DEF SumOf
  <2> QED BY <1>3, <2>1, SumOfInt, RowsAssumption DEF LeftAlone
<1>4. CASE r \in Payables
  <2>1. r \notin Purchases /\ r \notin Payments
    BY <1>4, RowsAssumption
  <2>2. SumOf(r)' = SumOf(r) - rows[r]
    BY <1>4, <2>1, PaidReturned DEF SumOf
  <2>3. SumOf(r) \in Int /\ rows[r] \in Nat
    BY <1>4, SumOfInt
  <2>4. r \notin Q => SumOf(r)' = SumOf(r)
    BY <1>4, <2>2, <2>3
  <2>5. /\ payables'[r].purchase = payables[r].purchase
        /\ r \notin Q => payables'[r].version = payables[r].version
        /\ r \in Q => payables'[r].version = payables[r].version + 1
        /\ payables[r].version \in Nat
    BY <1>1, <1>4, CountedVersions
  <2>6. CountsOn(r)
    <3>1. Version(r) = payables[r].version /\ Version(r)' = payables'[r].version
      BY <2>1 DEF Version
    <3>2. InUse(r) = InUse(r)'
      BY <2>1, <2>5 DEF InUse, Owed
    <3>3. Version(r) <= Version(r)' /\ (Version(r)' = Version(r) => r \notin Q)
      BY <2>5, <3>1
    <3> QED BY <2>4, <3>2, <3>3 DEF CountsOn
  <2> QED BY <2>1, <2>4, <2>6 DEF LeftAlone
<1>5. CASE r \in Payments
  <2>1. r \notin Purchases
    BY <1>5, RowsAssumption
  <2>2. SumOf(r)' = SumOf(r)
    BY <1>1, <1>5, <2>1, SameSpent DEF SumOf
  <2>3. payments'[p].version = payments[p].version /\ payments'[p].amount = payments[p].amount
    BY <1>2 DEF TypeOK, PaymentRows
  <2>4. CountsOn(r)
    <3>1. InUse(r) = InUse(r)'
      BY <1>2, <1>5, <2>3 DEF InUse, Recorded
    <3>2. Version(r)' = Version(r)
      BY <1>2, <1>5, <2>3 DEF Version
    <3> QED BY <1>5, <2>2, <3>1, <3>2, VersionNat DEF CountsOn
  <2> QED BY <1>1, <1>2, <2>1, <2>2, <2>4 DEF LeftAlone
<1> QED BY <1>3, <1>4, <1>5 DEF Rows
-----------------------------------------------------------------------------
(* The inductive invariant of the transactions.                            *)

Wellformed(a) ==
  \/ /\ Kind(a) = "create" /\ Target(a) \in Purchases
     /\ request[a].amount \in Amounts /\ request[a].shares = Nothing
  \/ Kind(a) = "void" /\ Target(a) \in Payables /\ request[a].shares = Nothing
  \/ Kind(a) = "allocate" /\ Target(a) \in Payments /\ request[a].shares \in Shares
  \/ Kind(a) = "reverse" /\ Target(a) \in Payments /\ request[a].shares = Nothing

LocksInOrder(a) ==
  /\ locks[a] \subseteq Needs(a)
  /\ \A r \in locks[a] : \A s \in Needs(a) : Before(s, r) => s \in locks[a]

FoundTrue(a) ==
  found[a] # None =>
    /\ Settles(a) /\ Target(a) \in locks[a] /\ Active(Target(a))
    /\ found[a] = allocated[Target(a)]
    /\ VersionSeen(a, Target(a))

SumsTrue(a) ==
  \A r \in Rows : sums[a][r] # None =>
    /\ r \in locks[a]
    /\ IF r \in Purchases THEN SumOf(r) <= sums[a][r] ELSE SumOf(r) = sums[a][r]

NamedRows(a) == Named(Kind(a), Target(a), request[a].shares)

PageTells(a) ==
  \A r \in NamedRows(a) :
    /\ r \in Payables \cup Payments /\ InUse(r)
    /\ request[a].seen[r].version \in Nat /\ request[a].seen[r].version <= Version(r)
    /\ request[a].seen[r].version = Version(r) => SumOf(r) = request[a].seen[r].sum

SessionInv(a) ==
  ~Idle(a) =>
    Wellformed(a) /\ LocksInOrder(a) /\ FoundTrue(a) /\ SumsTrue(a) /\ PageTells(a)

Exclusive == \A a, b \in Sessions : a # b => locks[a] \cap locks[b] = {}

IInv == TypeOKConcurrent /\ Exclusive /\ \A a \in Sessions : SessionInv(a)

SameSession(a) ==
  /\ request'[a] = request[a] /\ locks'[a] = locks[a]
  /\ sums'[a] = sums[a] /\ found'[a] = found[a]

\* A transaction whose rows are left alone goes on as before.
LEMMA SessionStays ==
  ASSUME TypeOKConcurrent, TypeOK', NEW a \in Sessions, SessionInv(a), SameSession(a),
         \A r \in locks[a] : LeftAlone(r), \A r \in Payables \cup Payments : CountsOn(r)
  PROVE  SessionInv(a)'
<1> SUFFICES ASSUME ~Idle(a)'
    PROVE (Wellformed(a) /\ LocksInOrder(a) /\ FoundTrue(a) /\ SumsTrue(a) /\ PageTells(a))'
  BY DEF SessionInv
<1> USE DEF SameSession
<1>1. ~Idle(a)
  BY DEF Idle
<1>2. /\ Wellformed(a) /\ LocksInOrder(a) /\ FoundTrue(a) /\ SumsTrue(a) /\ PageTells(a)
      /\ TypeOK
  BY <1>1 DEF SessionInv, TypeOKConcurrent
<1>3. Kind(a)' = Kind(a) /\ Target(a)' = Target(a) /\ request'[a] = request[a]
  BY DEF Kind, Target
<1>4. Wellformed(a)'
  BY <1>2, <1>3 DEF Wellformed
<1>5. Needs(a)' = Needs(a)
  BY <1>3 DEF Needs, Touched, Settles, Share
<1>6. LocksInOrder(a)'
  BY <1>2, <1>5 DEF LocksInOrder, Before
<1>7. FoundTrue(a)'
  <2> SUFFICES ASSUME found'[a] # None
      PROVE /\ Settles(a)' /\ Target(a)' \in locks'[a] /\ Active(Target(a))'
            /\ found'[a] = allocated'[Target(a)'] /\ VersionSeen(a, Target(a))'
    BY DEF FoundTrue
  <2>1. /\ Settles(a) /\ Target(a) \in locks[a] /\ Active(Target(a))
        /\ found[a] = allocated[Target(a)] /\ VersionSeen(a, Target(a))
    BY <1>2 DEF FoundTrue
  <2>2. Target(a) \in Payments /\ Recorded(Target(a))
    BY <1>2, <2>1 DEF Settles, Wellformed, Active
  <2>3. allocated'[Target(a)] = allocated[Target(a)] /\ payments'[Target(a)] = payments[Target(a)]
    BY <2>1, <2>2 DEF LeftAlone
  <2>4. Settles(a)' /\ Target(a)' \in locks'[a] /\ found'[a] = allocated'[Target(a)']
    BY <1>3, <2>1, <2>3 DEF Settles
  <2>5. Active(Target(a))'
    BY <1>3, <2>1, <2>3 DEF Active, Recorded
  <2>6. VersionSeen(a, Target(a))'
    BY <1>3, <2>1, <2>2, <2>3 DEF VersionSeen, Version
  <2> QED BY <2>4, <2>5, <2>6
<1>8. SumsTrue(a)'
  <2> SUFFICES ASSUME NEW r \in Rows, sums'[a][r] # None
      PROVE /\ r \in locks'[a]
            /\ IF r \in Purchases THEN SumOf(r)' <= sums'[a][r] ELSE SumOf(r)' = sums'[a][r]
    BY DEF SumsTrue
  <2>1. /\ r \in locks[a]
        /\ IF r \in Purchases THEN SumOf(r) <= sums[a][r] ELSE SumOf(r) = sums[a][r]
    BY <1>2 DEF SumsTrue
  <2>2. IF r \in Purchases THEN SumOf(r)' <= SumOf(r) ELSE SumOf(r)' = SumOf(r)
    BY <2>1 DEF LeftAlone
  <2>3. sums[a][r] \in Int
    BY DEF TypeOKConcurrent
  <2>4. SumOf(r) \in Int
    BY <1>2, SumOfInt
  <2>5. SumOf(r)' \in Int
    BY SumOfIntNext
  <2> QED BY <2>1, <2>2, <2>3, <2>4, <2>5
<1>9. PageTells(a)'
  <2>1. NamedRows(a)' = NamedRows(a)
    BY <1>3 DEF NamedRows, Named
  <2> SUFFICES ASSUME NEW r \in NamedRows(a)
      PROVE /\ r \in Payables \cup Payments /\ InUse(r)'
            /\ request[a].seen[r].version \in Nat
            /\ request[a].seen[r].version <= Version(r)'
            /\ request[a].seen[r].version = Version(r)' => SumOf(r)' = request[a].seen[r].sum
    BY <1>3, <2>1 DEF PageTells
  <2>2. /\ r \in Payables \cup Payments /\ InUse(r)
        /\ request[a].seen[r].version \in Nat
        /\ request[a].seen[r].version <= Version(r)
        /\ request[a].seen[r].version = Version(r) => SumOf(r) = request[a].seen[r].sum
    BY <1>2 DEF PageTells
  <2>3. /\ InUse(r)' /\ Version(r) <= Version(r)'
        /\ Version(r)' = Version(r) => SumOf(r)' = SumOf(r)
    BY <2>2 DEF CountsOn
  <2>4. Version(r) \in Nat /\ Version(r)' \in Nat
    BY <1>2, <2>2, VersionNat, VersionNatNext
  <2> QED BY <2>2, <2>3, <2>4
<1> QED BY <1>4, <1>6, <1>7, <1>8, <1>9
\* The types of a session, one by one.
SessionTyped(a) ==
  /\ request[a] \in Requests \cup {None}
  /\ locks[a] \in SUBSET Rows
  /\ sums[a] \in [Rows -> Int \cup {None}]
  /\ found[a] \in [Payables -> Nat] \cup {None}
  /\ IF Idle(a) THEN locks[a] = {} /\ sums[a] = NoSums /\ found[a] = None
     ELSE locks[a] \subseteq Needs(a) /\ (found[a] # None => Target(a) \in locks[a])

Functional ==
  /\ request = [a \in Sessions |-> request[a]]
  /\ locks = [a \in Sessions |-> locks[a]]
  /\ sums = [a \in Sessions |-> sums[a]]
  /\ found = [a \in Sessions |-> found[a]]

LEMMA TypedParts ==
  TypeOKConcurrent <=> TypeOK /\ Functional /\ \A a \in Sessions : SessionTyped(a)
<1>1. ASSUME TypeOKConcurrent PROVE TypeOK /\ Functional /\ \A a \in Sessions : SessionTyped(a)
  BY <1>1 DEF TypeOKConcurrent, Functional, SessionTyped
<1>2. ASSUME TypeOK, Functional, \A a \in Sessions : SessionTyped(a) PROVE TypeOKConcurrent
  <2>1. request \in [Sessions -> Requests \cup {None}]
    BY <1>2 DEF Functional, SessionTyped
  <2>2. locks \in [Sessions -> SUBSET Rows]
    BY <1>2 DEF Functional, SessionTyped
  <2>3. sums \in [Sessions -> [Rows -> Int \cup {None}]]
    BY <1>2 DEF Functional, SessionTyped
  <2>4. found \in [Sessions -> [Payables -> Nat] \cup {None}]
    BY <1>2 DEF Functional, SessionTyped
  <2> QED BY <1>2, <2>1, <2>2, <2>3, <2>4 DEF TypeOKConcurrent, SessionTyped
<1> QED BY <1>1, <1>2

LEMMA TypedPartsNext ==
  ASSUME TypeOK', Functional', \A a \in Sessions : SessionTyped(a)'
  PROVE  TypeOKConcurrent'
<1>1. request' \in [Sessions -> Requests \cup {None}]
  BY DEF Functional, SessionTyped
<1>2. locks' \in [Sessions -> SUBSET Rows]
  BY DEF Functional, SessionTyped
<1>3. sums' \in [Sessions -> [Rows -> Int \cup {None}]]
  BY DEF Functional, SessionTyped
<1>4. found' \in [Sessions -> [Payables -> Nat] \cup {None}]
  BY DEF Functional, SessionTyped
<1> QED BY <1>1, <1>2, <1>3, <1>4 DEF TypeOKConcurrent, SessionTyped

LEMMA SessionTypeStays ==
  ASSUME NEW a \in Sessions, SessionTyped(a), SameSession(a) PROVE SessionTyped(a)'
<1>1. Idle(a)' = Idle(a) /\ Target(a)' = Target(a) /\ Kind(a)' = Kind(a)
  BY DEF SameSession, Idle, Target, Kind
<1>2. Needs(a)' = Needs(a)
  BY <1>1 DEF SameSession, Needs, Touched, Settles, Share
<1> QED BY <1>1, <1>2 DEF SessionTyped, SameSession

\* One session moves, the ledger may.
LEMMA OneMoves ==
  ASSUME IInv, TypeOK', Functional', NEW a \in Sessions,
         \A b \in Sessions \ {a} : SameSession(b),
         \A r \in Rows \ locks[a] : LeftAlone(r),
         \A r \in Payables \cup Payments : CountsOn(r),
         SessionTyped(a)', SessionInv(a)',
         \A b \in Sessions \ {a} : locks'[a] \cap locks[b] = {}
  PROVE  IInv'
<1>1. TypeOK /\ TypeOKConcurrent /\ Exclusive /\ \A b \in Sessions : SessionTyped(b)
  BY TypedParts DEF IInv
<1>2. \A b \in Sessions \ {a} : SessionTyped(b)'
  BY <1>1, SessionTypeStays
<1>3. TypeOKConcurrent'
  BY <1>2, TypedPartsNext
<1>4. ASSUME NEW b \in Sessions \ {a} PROVE SessionInv(b)'
  <2>1. locks[b] \subseteq Rows \ locks[a]
    BY <1>1 DEF SessionTyped, Exclusive
  <2>2. SessionInv(b)
    BY DEF IInv
  <2> QED BY <1>1, <2>1, <2>2, SessionStays
<1>5. Exclusive'
  BY <1>1 DEF Exclusive, SameSession
<1> QED BY <1>3, <1>4, <1>5 DEF IInv

\* The ledger moves and no session does.
LEMMA LedgerMoves ==
  ASSUME IInv, TypeOK', UNCHANGED sessionVars,
         \A r \in Rows : LeftAlone(r), \A r \in Payables \cup Payments : CountsOn(r)
  PROVE  IInv'
<1>1. TypeOK /\ Functional /\ TypeOKConcurrent /\ Exclusive /\ \A a \in Sessions : SessionTyped(a)
  BY TypedParts DEF IInv
<1>2. UNCHANGED <<request, locks, sums, found>>
  BY DEF sessionVars
<1>3. \A a \in Sessions : SameSession(a)
  BY <1>2 DEF SameSession
<1>4. \A a \in Sessions : SessionTyped(a)'
  BY <1>1, <1>3, SessionTypeStays
<1>5. Functional'
  BY <1>1, <1>2 DEF Functional
<1>6. TypeOKConcurrent'
  BY <1>4, <1>5, TypedPartsNext
<1>7. ASSUME NEW a \in Sessions PROVE SessionInv(a)'
  <2>1. SessionInv(a) /\ \A r \in locks[a] : LeftAlone(r)
    BY <1>1 DEF IInv, SessionTyped
  <2> QED BY <1>1, <1>3, <2>1, SessionStays
<1>8. Exclusive'
  BY <1>1, <1>2 DEF Exclusive
<1> QED BY <1>6, <1>7, <1>8 DEF IInv

\* One session moves and the ledger does not.
LEMMA OnlyOneMoves ==
  ASSUME IInv, UNCHANGED ledgerVars, Functional', NEW a \in Sessions,
         \A b \in Sessions \ {a} : SameSession(b),
         SessionTyped(a)', SessionInv(a)',
         \A b \in Sessions \ {a} : locks'[a] \cap locks[b] = {}
  PROVE  IInv'
<1>1. TypeOK /\ UNCHANGED <<confirmed, payables, payments, allocated, returned>>
  BY DEF ledgerVars, IInv, TypeOKConcurrent
<1>2. TypeOK'
  BY <1>1 DEF TypeOK
<1>3. \A r \in Rows : LeftAlone(r) /\ (r \in Payables \cup Payments => CountsOn(r))
  BY <1>1, LedgerUnchanged
<1>4. Payables \cup Payments \subseteq Rows
  BY DEF Rows
<1> QED BY <1>2, <1>3, <1>4, OneMoves

-----------------------------------------------------------------------------
(* Steps that do not commit.                                               *)

LEMMA ConfirmStep ==
  ASSUME IInv, NEW b \in Purchases, Confirm(b), UNCHANGED sessionVars PROVE IInv'
<1>1. TypeOK /\ UNCHANGED <<payables, payments, allocated, returned>>
  BY DEF Confirm, IInv, TypeOKConcurrent
<1>2. TypeOK'
  BY <1>1 DEF TypeOK, Confirm
<1>3. \A r \in Rows : LeftAlone(r) /\ (r \in Payables \cup Payments => CountsOn(r))
  BY <1>1, LedgerUnchanged
<1> QED BY <1>2, <1>3, LedgerMoves DEF Rows

LEMMA RecordPaymentStep ==
  ASSUME IInv, NEW p \in Payments, NEW amount \in Amounts, RecordPayment(p, amount),
         UNCHANGED sessionVars
  PROVE  IInv'
<1>1. TypeOK
  BY DEF IInv, TypeOKConcurrent
<1>2. TypeOK'
  BY <1>1, RecordPaymentTyped
<1>3. \A r \in Rows : LeftAlone(r) /\ (r \in Payables \cup Payments => CountsOn(r))
  BY <1>1, RecordPaymentDisturbs
<1> QED BY <1>2, <1>3, LedgerMoves DEF Rows

LEMMA RollbackStep == ASSUME IInv, NEW a \in Sessions, Rollback(a) PROVE IInv'
<1>1. TypeOK /\ Functional /\ \A b \in Sessions : SessionTyped(b)
  BY TypedParts DEF IInv
<1>2. /\ request' = [request EXCEPT ![a] = None] /\ locks' = [locks EXCEPT ![a] = {}]
      /\ sums' = [sums EXCEPT ![a] = NoSums] /\ found' = [found EXCEPT ![a] = None]
      /\ UNCHANGED ledgerVars
  BY DEF Rollback, Release
<1>3. request'[a] = None /\ locks'[a] = {} /\ sums'[a] = NoSums /\ found'[a] = None
  BY <1>1, <1>2 DEF Functional
<1>4. \A b \in Sessions \ {a} : SameSession(b)
  BY <1>1, <1>2 DEF Functional, SameSession
<1>5. Functional'
  BY <1>1, <1>2 DEF Functional
<1>6. SessionTyped(a)' /\ SessionInv(a)'
  BY <1>3 DEF SessionTyped, SessionInv, Idle, NoSums
<1> QED BY <1>2, <1>3, <1>4, <1>5, <1>6, OnlyOneMoves

LEMMA LockStep ==
  ASSUME IInv, NEW a \in Sessions, NEW r \in Rows, Lock(a, r) PROVE IInv'
<1>1. /\ TypeOK /\ Functional /\ \A b \in Sessions : SessionTyped(b)
      /\ SessionInv(a)
  BY TypedParts DEF IInv
<1>2. /\ ~Idle(a) /\ r \in Needs(a) \ locks[a] /\ Free(r)
      /\ \A s \in Needs(a) : Before(s, r) => s \in locks[a]
      /\ locks' = [locks EXCEPT ![a] = @ \cup {r}]
      /\ UNCHANGED <<ledgerVars, request, sums, found>>
  BY DEF Lock, MayLock
<1>3. /\ locks'[a] = locks[a] \cup {r}
      /\ request'[a] = request[a] /\ sums'[a] = sums[a] /\ found'[a] = found[a]
  BY <1>1, <1>2 DEF Functional
<1>4. \A b \in Sessions \ {a} : SameSession(b)
  BY <1>1, <1>2 DEF Functional, SameSession
<1>5. Functional'
  BY <1>1, <1>2 DEF Functional
<1>6. /\ Wellformed(a) /\ LocksInOrder(a) /\ FoundTrue(a) /\ SumsTrue(a) /\ PageTells(a)
  BY <1>1, <1>2 DEF SessionInv
<1>7. /\ Idle(a)' = Idle(a) /\ Target(a)' = Target(a) /\ Kind(a)' = Kind(a)
      /\ Needs(a)' = Needs(a)
  BY <1>3 DEF Idle, Target, Kind, Needs, Touched, Settles, Share
<1>8. SessionTyped(a)'
  BY <1>1, <1>2, <1>3, <1>7 DEF SessionTyped
<1>9. SessionInv(a)'
  <2>1. Wellformed(a)'
    BY <1>3, <1>6, <1>7 DEF Wellformed
  <2>2. LocksInOrder(a)'
    <3>1. ASSUME NEW t \in locks[a] \cup {r}, NEW s \in Needs(a), Before(s, t)
          PROVE  s \in locks[a] \cup {r}
      BY <1>2, <1>6, <3>1 DEF LocksInOrder
    <3>2. locks[a] \cup {r} \subseteq Needs(a)
      BY <1>2, <1>6 DEF LocksInOrder
    <3> QED BY <1>3, <1>7, <3>1, <3>2 DEF LocksInOrder, Before
  <2>3. UNCHANGED <<payables, payments, allocated, returned>>
    BY <1>2 DEF ledgerVars
  <2>4. FoundTrue(a)'
    BY <1>3, <1>6, <1>7, <2>3 DEF FoundTrue, Settles, Active, Recorded, VersionSeen, Version
  <2>5. \A s : SumOf(s)' = SumOf(s)
    BY <2>3, SamePrincipal, SameSpent, SamePaid DEF SumOf
  <2>6. SumsTrue(a)'
    BY <1>3, <1>6, <2>5 DEF SumsTrue
  <2>7. PageTells(a)'
    <3>1. NamedRows(a)' = NamedRows(a)
      BY <1>3, <1>7 DEF NamedRows, Named
    <3>2. \A s : InUse(s)' = InUse(s) /\ Version(s)' = Version(s)
      BY <2>3 DEF InUse, Owed, Recorded, Version
    <3> QED BY <1>3, <1>6, <2>5, <3>1, <3>2 DEF PageTells
  <2> QED BY <2>1, <2>2, <2>4, <2>6, <2>7 DEF SessionInv
<1>10. \A b \in Sessions \ {a} : locks'[a] \cap locks[b] = {}
  BY <1>2, <1>3 DEF Free, IInv, Exclusive
<1> QED BY <1>2, <1>4, <1>5, <1>8, <1>9, <1>10, OnlyOneMoves
LEMMA LookStep == ASSUME IInv, NEW a \in Sessions, Look(a) PROVE IInv'
<1>1. /\ TypeOK /\ Functional /\ \A b \in Sessions : SessionTyped(b)
      /\ SessionInv(a)
  BY TypedParts DEF IInv
<1>2. /\ ~Idle(a) /\ Settles(a) /\ found[a] = None /\ Target(a) \in locks[a]
      /\ VersionSeen(a, Target(a)) /\ Active(Target(a))
      /\ found' = [found EXCEPT ![a] = allocated[Target(a)]]
      /\ UNCHANGED <<ledgerVars, request, locks, sums>>
  BY DEF Look
<1>3. /\ found'[a] = allocated[Target(a)]
      /\ request'[a] = request[a] /\ sums'[a] = sums[a] /\ locks'[a] = locks[a]
  BY <1>1, <1>2 DEF Functional
<1>4. \A b \in Sessions \ {a} : SameSession(b)
  BY <1>1, <1>2 DEF Functional, SameSession
<1>5. Functional'
  BY <1>1, <1>2 DEF Functional
<1>6. /\ Wellformed(a) /\ LocksInOrder(a) /\ FoundTrue(a) /\ SumsTrue(a) /\ PageTells(a)
  BY <1>1, <1>2 DEF SessionInv
<1>7. /\ Idle(a)' = Idle(a) /\ Target(a)' = Target(a) /\ Kind(a)' = Kind(a)
  BY <1>3 DEF Idle, Target, Kind
<1>8. locks[a] = {Target(a)} /\ Target(a) \in Payments /\ Target(a) \notin Payables
  <2>1. Needs(a) = {Target(a)}
    BY <1>2 DEF Needs
  <2>2. Target(a) \in Payments
    BY <1>2, <1>6 DEF Wellformed, Settles
  <2> QED BY <1>2, <1>6, <2>1, <2>2, RowsAssumption DEF LocksInOrder
<1>9. Target(a) \in Needs(a)'
  BY <1>7 DEF Needs
<1>10. SessionTyped(a)'
  <2>1. found'[a] \in [Payables -> Nat]
    BY <1>1, <1>3, <1>8 DEF TypeOK
  <2> QED BY <1>1, <1>2, <1>3, <1>7, <1>8, <1>9, <2>1 DEF SessionTyped
<1>11. SessionInv(a)'
  <2>1. Wellformed(a)'
    BY <1>3, <1>6, <1>7 DEF Wellformed
  <2>2. LocksInOrder(a)'
    BY <1>3, <1>8, <1>9 DEF LocksInOrder, Before
  <2>3. UNCHANGED <<payables, payments, allocated, returned>>
    BY <1>2 DEF ledgerVars
  <2>4. FoundTrue(a)'
    BY <1>2, <1>3, <1>7, <2>3 DEF FoundTrue, Settles, Active, Recorded, VersionSeen, Version
  <2>5. \A s : SumOf(s)' = SumOf(s)
    BY <2>3, SamePrincipal, SameSpent, SamePaid DEF SumOf
  <2>6. SumsTrue(a)'
    BY <1>3, <1>6, <2>5 DEF SumsTrue
  <2>7. PageTells(a)'
    <3>1. NamedRows(a)' = NamedRows(a)
      BY <1>3, <1>7 DEF NamedRows, Named
    <3>2. \A s : InUse(s)' = InUse(s) /\ Version(s)' = Version(s)
      BY <2>3 DEF InUse, Owed, Recorded, Version
    <3> QED BY <1>3, <1>6, <2>5, <3>1, <3>2 DEF PageTells
  <2> QED BY <2>1, <2>2, <2>4, <2>6, <2>7 DEF SessionInv
<1>12. \A b \in Sessions \ {a} : locks'[a] \cap locks[b] = {}
  BY <1>3 DEF IInv, Exclusive
<1> QED BY <1>2, <1>4, <1>5, <1>10, <1>11, <1>12, OnlyOneMoves

LEMMA SummedIsNeeded ==
  ASSUME NEW a \in Sessions, Locked(a), NEW r \in Summed(a) PROVE r \in locks[a]
BY DEF Locked, Summed, Needs, Settles

LEMMA ReadSumStep ==
  ASSUME IInv, NEW a \in Sessions, NEW r \in Rows, Sum(a, r) PROVE IInv'
<1>1. /\ TypeOK /\ Functional /\ \A b \in Sessions : SessionTyped(b)
      /\ SessionInv(a)
  BY TypedParts DEF IInv
<1>2. /\ ~Idle(a) /\ Locked(a) /\ r \in Summed(a)
      /\ sums' = [sums EXCEPT ![a][r] = SumOf(r)]
      /\ UNCHANGED <<ledgerVars, request, locks, found>>
  BY DEF Sum, Locked
<1>3. sums[a] \in [Rows -> Int \cup {None}] /\ SumOf(r) \in Int
  BY <1>1, SumOfInt DEF SessionTyped
<1>4. sums' = [sums EXCEPT ![a] = [sums[a] EXCEPT ![r] = SumOf(r)]]
  BY <1>1, <1>2 DEF Functional
<1>5. /\ sums'[a] = [sums[a] EXCEPT ![r] = SumOf(r)]
      /\ request'[a] = request[a] /\ found'[a] = found[a] /\ locks'[a] = locks[a]
  BY <1>1, <1>2, <1>4 DEF Functional
<1>6. \A b \in Sessions \ {a} : SameSession(b)
  BY <1>1, <1>2, <1>4 DEF Functional, SameSession
<1>7. Functional'
  BY <1>1, <1>2, <1>4 DEF Functional
<1>8. /\ Wellformed(a) /\ LocksInOrder(a) /\ FoundTrue(a) /\ SumsTrue(a) /\ PageTells(a)
  BY <1>1, <1>2 DEF SessionInv
<1>9. /\ Idle(a)' = Idle(a) /\ Target(a)' = Target(a) /\ Kind(a)' = Kind(a)
      /\ Needs(a)' = Needs(a)
  BY <1>5 DEF Idle, Target, Kind, Needs, Touched, Settles, Share
<1>10. SessionTyped(a)'
  <2>1. sums'[a] \in [Rows -> Int \cup {None}]
    BY <1>3, <1>5
  <2> QED BY <1>1, <1>2, <1>5, <1>9, <2>1 DEF SessionTyped
<1>11. SessionInv(a)'
  <2>1. Wellformed(a)'
    BY <1>5, <1>8, <1>9 DEF Wellformed
  <2>2. LocksInOrder(a)'
    BY <1>5, <1>8, <1>9 DEF LocksInOrder, Before
  <2>3. UNCHANGED <<payables, payments, allocated, returned>>
    BY <1>2 DEF ledgerVars
  <2>4. FoundTrue(a)'
    BY <1>5, <1>8, <1>9, <2>3 DEF FoundTrue, Settles, Active, Recorded, VersionSeen, Version
  <2>5. \A s : SumOf(s)' = SumOf(s)
    BY <2>3, SamePrincipal, SameSpent, SamePaid DEF SumOf
  <2>6. SumsTrue(a)'
    <3>1. ASSUME NEW s \in Rows, sums'[a][s] # None
          PROVE  /\ s \in locks[a]
                 /\ IF s \in Purchases THEN SumOf(s) <= sums'[a][s] ELSE SumOf(s) = sums'[a][s]
      <4>1. CASE s = r
        BY <1>2, <1>3, <1>5, <4>1, SummedIsNeeded
      <4>2. CASE s # r
        <5>1. sums'[a][s] = sums[a][s]
          BY <1>3, <1>5, <4>2
        <5> QED BY <1>8, <3>1, <5>1 DEF SumsTrue
      <4> QED BY <4>1, <4>2
    <3> QED BY <1>5, <2>5, <3>1 DEF SumsTrue
  <2>7. PageTells(a)'
    <3>1. NamedRows(a)' = NamedRows(a)
      BY <1>5, <1>9 DEF NamedRows, Named
    <3>2. \A s : InUse(s)' = InUse(s) /\ Version(s)' = Version(s)
      BY <2>3 DEF InUse, Owed, Recorded, Version
    <3> QED BY <1>5, <1>8, <2>5, <3>1, <3>2 DEF PageTells
  <2> QED BY <2>1, <2>2, <2>4, <2>6, <2>7 DEF SessionInv
<1>12. \A b \in Sessions \ {a} : locks'[a] \cap locks[b] = {}
  BY <1>5 DEF IInv, Exclusive
<1> QED BY <1>2, <1>6, <1>7, <1>10, <1>11, <1>12, OnlyOneMoves

\* Send, whatever is asked for, if the rows that it names are in use.
LEMMA SendStep ==
  ASSUME IInv, NEW a \in Sessions, NEW kind \in Kinds, NEW target \in Rows,
         NEW amount \in 0..MaxAmount, NEW shares \in [Payables -> 0..MaxShare],
         Send(a, kind, target, amount, shares),
         Wellformed(a)',
         \A r \in Named(kind, target, shares) : r \in Payables \cup Payments /\ InUse(r)
  PROVE  IInv'
<1> DEFINE seen == [r \in Rows |-> IF r \in Named(kind, target, shares)
                                   THEN [version |-> Version(r), sum |-> SumOf(r)] ELSE None]
           rec == [kind |-> kind, target |-> target, amount |-> amount, shares |-> shares,
                   seen |-> seen]
<1>1. /\ TypeOK /\ Functional /\ \A b \in Sessions : SessionTyped(b)
      /\ SessionInv(a)
  BY TypedParts DEF IInv
<1>2. /\ Idle(a) /\ request' = [request EXCEPT ![a] = rec]
      /\ UNCHANGED <<ledgerVars, locks, sums, found>>
  BY DEF Send
<1>3. locks[a] = {} /\ sums[a] = NoSums /\ found[a] = None
  BY <1>1, <1>2 DEF SessionTyped
<1>4. /\ request'[a] = rec
      /\ locks'[a] = {} /\ sums'[a] = NoSums /\ found'[a] = None
  BY <1>1, <1>2, <1>3 DEF Functional
<1>5. \A b \in Sessions \ {a} : SameSession(b)
  BY <1>1, <1>2 DEF Functional, SameSession
<1>6. Functional'
  BY <1>1, <1>2 DEF Functional
<1>7. seen \in [Rows -> Page \cup {None}]
  <2>1. ASSUME NEW r \in Named(kind, target, shares)
        PROVE  [version |-> Version(r), sum |-> SumOf(r)] \in Page
    <3>1. r \in Payables \cup Payments /\ r \in Rows
      BY DEF Rows
    <3>2. Version(r) \in Nat /\ SumOf(r) \in Int
      BY <1>1, <3>1, VersionNat, SumOfInt
    <3> QED BY <3>2 DEF Page
  <2> QED BY <2>1
<1>8. rec \in Requests
  BY <1>7 DEF Requests
<1>9. SessionTyped(a)'
  BY <1>4, <1>8 DEF SessionTyped, NoSums, Idle
<1>10. SessionInv(a)'
  <2>1. LocksInOrder(a)' /\ FoundTrue(a)' /\ SumsTrue(a)'
    BY <1>4 DEF LocksInOrder, FoundTrue, SumsTrue, NoSums
  <2>2. PageTells(a)'
    <3>1. NamedRows(a)' = Named(kind, target, shares)
      BY <1>4 DEF NamedRows, Kind, Target, Named
    <3>2. UNCHANGED <<payables, payments, allocated, returned>>
      BY <1>2 DEF ledgerVars
    <3>3. \A r : SumOf(r)' = SumOf(r)
      BY <3>2, SamePrincipal, SameSpent, SamePaid DEF SumOf
    <3>4. \A r : InUse(r)' = InUse(r) /\ Version(r)' = Version(r)
      BY <3>2 DEF InUse, Owed, Recorded, Version
    <3>5. ASSUME NEW r \in Named(kind, target, shares)
          PROVE  /\ r \in Payables \cup Payments /\ InUse(r)
                 /\ request'[a].seen[r].version = Version(r)
                 /\ request'[a].seen[r].sum = SumOf(r)
                 /\ Version(r) \in Nat
      <4>1. r \in Payables \cup Payments /\ r \in Rows
        BY DEF Rows
      <4>2. request'[a].seen[r] = [version |-> Version(r), sum |-> SumOf(r)]
        BY <1>4, <4>1
      <4> QED BY <1>1, <4>1, <4>2, VersionNat
    <3> QED BY <3>1, <3>3, <3>4, <3>5 DEF PageTells
  <2> QED BY <2>1, <2>2 DEF SessionInv
<1>11. \A b \in Sessions \ {a} : locks'[a] \cap locks[b] = {}
  BY <1>4
<1> QED BY <1>2, <1>5, <1>6, <1>9, <1>10, <1>11, OnlyOneMoves
LEMMA AskStep == ASSUME IInv, NEW a \in Sessions, Ask(a) PROVE IInv'
<1>1. Nothing \in [Payables -> 0..MaxShare] /\ 0 \in 0..MaxAmount
  BY SupplierAssumption DEF Nothing
<1>2. \A q \in Payables : ~(Nothing[q] > 0)
  BY DEF Nothing
<1>3. Amounts \subseteq 0..MaxAmount /\ Shares \subseteq [Payables -> 0..MaxShare]
  BY SupplierAssumption DEF Amounts, Shares
<1>4. ASSUME NEW kind, NEW target, NEW amount, NEW shares,
             Send(a, kind, target, amount, shares)
      PROVE  /\ Kind(a)' = kind /\ Target(a)' = target
             /\ request'[a].amount = amount /\ request'[a].shares = shares
  <2>1. Functional
    BY TypedParts DEF IInv
  <2>2. /\ request'[a].kind = kind /\ request'[a].target = target
        /\ request'[a].amount = amount /\ request'[a].shares = shares
    BY <1>4, <2>1 DEF Send, Functional
  <2> QED BY <2>2 DEF Kind, Target
<1>5. CASE \E b \in confirmed : \E amount \in Amounts : Send(a, "create", b, amount, Nothing)
  <2>1. PICK b \in confirmed, amount \in Amounts : Send(a, "create", b, amount, Nothing)
    BY <1>5
  <2>2. b \in Purchases
    BY DEF IInv, TypeOKConcurrent, TypeOK
  <2>3. Wellformed(a)'
    BY <1>4, <2>1, <2>2 DEF Wellformed
  <2>4. Named("create", b, Nothing) = {}
    BY DEF Named
  <2> QED BY <1>1, <1>3, <2>1, <2>2, <2>3, <2>4, SendStep DEF Kinds, Rows
<1>6. CASE \E q \in Payables : InForce(q) /\ Send(a, "void", q, 0, Nothing)
  <2>1. PICK q \in Payables : InForce(q) /\ Send(a, "void", q, 0, Nothing)
    BY <1>6
  <2>2. Wellformed(a)'
    BY <1>4, <2>1 DEF Wellformed
  <2>3. Named("void", q, Nothing) = {q} /\ InUse(q)
    BY <1>2, <2>1, RowsAssumption DEF Named, InUse, InForce
  <2> QED BY <1>1, <2>1, <2>2, <2>3, SendStep DEF Kinds, Rows
<1>7. CASE \E p \in Payments : Active(p) /\ Send(a, "reverse", p, 0, Nothing)
  <2>1. PICK p \in Payments : Active(p) /\ Send(a, "reverse", p, 0, Nothing)
    BY <1>7
  <2>2. Wellformed(a)'
    BY <1>4, <2>1 DEF Wellformed
  <2>3. Named("reverse", p, Nothing) = {p} /\ InUse(p)
    BY <1>2, <2>1 DEF Named, InUse, Active
  <2> QED BY <1>1, <2>1, <2>2, <2>3, SendStep DEF Kinds, Rows
<1>8. CASE \E p \in Payments : \E shares \in Shares :
             /\ Active(p)
             /\ \A q \in Payables : shares[q] > 0 => InForce(q)
             /\ Send(a, "allocate", p, 0, shares)
  <2>1. PICK p \in Payments, shares \in Shares :
             /\ Active(p)
             /\ \A q \in Payables : shares[q] > 0 => InForce(q)
             /\ Send(a, "allocate", p, 0, shares)
    BY <1>8
  <2>2. Wellformed(a)'
    BY <1>4, <2>1 DEF Wellformed
  <2>3. ASSUME NEW r \in Named("allocate", p, shares)
        PROVE  r \in Payables \cup Payments /\ InUse(r)
    <3>1. CASE r = p
      BY <2>1, <3>1 DEF InUse, Active
    <3>2. CASE r # p
      <4>1. r \in Payables /\ shares[r] > 0
        BY <3>2 DEF Named
      <4> QED BY <2>1, <4>1, RowsAssumption DEF InUse, InForce
    <3> QED BY <3>1, <3>2
  <2>4. shares \in [Payables -> 0..MaxShare]
    BY <1>3
  <2>5. p \in Rows /\ "allocate" \in Kinds
    BY DEF Rows, Kinds
  <2> QED BY <1>1, <2>1, <2>2, <2>3, <2>4, <2>5, SendStep
<1> QED BY <1>5, <1>6, <1>7, <1>8 DEF Ask

-----------------------------------------------------------------------------
(* A commit does what one command would, on rows that nobody else holds.   *)

\* What a transaction knows when it may commit.
LEMMA CommitKnows ==
  ASSUME IInv, NEW a \in Sessions, MayCommit(a)
  PROVE  /\ Wellformed(a) /\ Needs(a) \subseteq locks[a] /\ PageTells(a)
         /\ Settles(a) => /\ Active(Target(a)) /\ found[a] = allocated[Target(a)]
                          /\ VersionSeen(a, Target(a))
         /\ \A r \in Summed(a) :
              /\ sums[a][r] \in Int
              /\ IF r \in Purchases THEN SumOf(r) <= sums[a][r] ELSE SumOf(r) = sums[a][r]
<1>1. SessionInv(a) /\ SessionTyped(a) /\ ~Idle(a)
  BY TypedParts DEF IInv, MayCommit, Locked
<1>2. Wellformed(a) /\ FoundTrue(a) /\ SumsTrue(a) /\ PageTells(a)
  BY <1>1 DEF SessionInv
<1>3. Needs(a) \subseteq locks[a]
  BY DEF MayCommit, Locked
<1>4. Settles(a) => /\ Active(Target(a)) /\ found[a] = allocated[Target(a)]
                    /\ VersionSeen(a, Target(a))
  BY <1>2 DEF FoundTrue, MayCommit, Locked
<1>5. ASSUME NEW r \in Summed(a)
      PROVE  /\ sums[a][r] \in Int
             /\ IF r \in Purchases THEN SumOf(r) <= sums[a][r] ELSE SumOf(r) = sums[a][r]
  <2>1. r \in locks[a] /\ sums[a][r] # None
    BY SummedIsNeeded DEF MayCommit
  <2>2. r \in Rows
    BY <1>1, <2>1 DEF SessionTyped
  <2>3. sums[a][r] \in Int
    BY <1>1, <2>1, <2>2 DEF SessionTyped
  <2> QED BY <1>2, <2>1, <2>2, <2>3 DEF SumsTrue
<1> QED BY <1>2, <1>3, <1>4, <1>5

LEMMA CreateCommits ==
  ASSUME IInv, NEW a \in Sessions, MayCommit(a), Kind(a) = "create",
         AddPayable(Target(a), request[a].amount)
  PROVE  Target(a) \in Purchases /\ CreatePayable(Target(a), request[a].amount)
<1>1. Target(a) \in Purchases /\ request[a].amount \in Amounts
  BY CommitKnows DEF Wellformed
<1>2. Target(a) \in Summed(a)
  BY DEF Summed
<1>3. SumOf(Target(a)) <= sums[a][Target(a)] /\ sums[a][Target(a)] \in Int
  BY <1>1, <1>2, CommitKnows
<1>4. SumOf(Target(a)) = Principal(Target(a)) /\ Principal(Target(a)) \in Int
  BY <1>1, PrincipalInt DEF SumOf, IInv, TypeOKConcurrent
<1>5. /\ Target(a) \in confirmed
      /\ sums[a][Target(a)] + request[a].amount <= Price[Target(a)]
  BY DEF MayCommit, Allowed, Creatable
<1>6. request[a].amount \in Nat /\ Price[Target(a)] \in Nat
  BY <1>1, SupplierAssumption DEF Amounts
<1> QED BY <1>1, <1>3, <1>4, <1>5, <1>6 DEF CreatePayable

LEMMA VoidCommits ==
  ASSUME IInv, NEW a \in Sessions, MayCommit(a), Kind(a) = "void", MarkVoided(Target(a))
  PROVE  Target(a) \in Payables /\ VoidPayable(Target(a))
<1>1. Target(a) \in Payables
  BY CommitKnows DEF Wellformed
<1>2. Target(a) \in Summed(a) /\ Target(a) \notin Purchases /\ Target(a) \notin Payments
  BY <1>1, RowsAssumption DEF Summed
<1>3. Paid(Target(a)) = sums[a][Target(a)]
  BY <1>2, CommitKnows DEF SumOf
<1>4. InForce(Target(a)) /\ sums[a][Target(a)] = 0
  BY DEF MayCommit, Allowed, Voidable
<1> QED BY <1>1, <1>3, <1>4 DEF VoidPayable, InForce

LEMMA AllocateCommits ==
  ASSUME IInv, NEW a \in Sessions, MayCommit(a), Kind(a) = "allocate",
         AddAllocations(Target(a), request[a].shares)
  PROVE  /\ Target(a) \in Payments /\ request[a].shares \in Shares
         /\ Allocate(Target(a), request[a].shares)
<1>1. Target(a) \in Payments /\ request[a].shares \in Shares
  BY CommitKnows DEF Wellformed
<1>2. Settles(a)
  BY DEF Settles
<1>3. Active(Target(a))
  BY <1>2, CommitKnows
<1>4. Target(a) \in Summed(a) /\ Target(a) \notin Purchases
  BY <1>1, RowsAssumption DEF Summed
<1>5. Spent(Target(a)) = sums[a][Target(a)]
  BY <1>1, <1>4, CommitKnows DEF SumOf
<1>6. Allocable(a)
  BY DEF MayCommit, Allowed
<1>7. ASSUME NEW q \in Payables, request[a].shares[q] > 0
      PROVE  /\ Owed(q) /\ ~payables[q].voided
             /\ Paid(q) + request[a].shares[q] <= payables[q].amount
  <2>1. q \in Touched(a)
    BY <1>7 DEF Touched, Share
  <2>2. q \in Summed(a) /\ q \notin Purchases /\ q \notin Payments
    BY <2>1, RowsAssumption DEF Summed
  <2>3. Paid(q) = sums[a][q]
    BY <2>2, CommitKnows DEF SumOf
  <2> QED BY <1>6, <2>1, <2>3 DEF Allocable, InForce, Share
<1>8. Spent(Target(a)) + SumOfShares(request[a].shares) <= payments[Target(a)].amount
  BY <1>5, <1>6 DEF Allocable
<1> QED BY <1>1, <1>3, <1>7, <1>8 DEF Allocate

LEMMA ReverseCommits ==
  ASSUME IInv, NEW a \in Sessions, MayCommit(a), Kind(a) = "reverse",
         AddReversal(Target(a), found[a])
  PROVE  Target(a) \in Payments /\ Reverse(Target(a))
<1>1. Target(a) \in Payments
  BY CommitKnows DEF Wellformed
<1>2. Settles(a)
  BY DEF Settles
<1>3. Active(Target(a)) /\ found[a] = allocated[Target(a)]
  BY <1>2, CommitKnows
<1> QED BY <1>1, <1>3 DEF Reverse

LEMMA CommitMoves ==
  ASSUME IInv, NEW a \in Sessions, Commit(a)
  PROVE  /\ Next /\ TypeOK'
         /\ \A r \in Rows \ locks[a] : LeftAlone(r)
         /\ \A r \in Payables \cup Payments : CountsOn(r)
<1>1. TypeOK /\ MayCommit(a)
  BY DEF Commit, IInv, TypeOKConcurrent
<1>2. Target(a) \in Needs(a) /\ Needs(a) \subseteq locks[a]
  BY <1>1, CommitKnows DEF Needs
<1>3. Payables \cup Payments \subseteq Rows
  BY DEF Rows
<1>4. CASE Kind(a) = "create" /\ AddPayable(Target(a), request[a].amount)
  <2>1. Target(a) \in Purchases /\ CreatePayable(Target(a), request[a].amount)
    BY <1>1, <1>4, CreateCommits
  <2>2. request[a].amount \in Amounts /\ request[a].amount \in Nat
    BY <1>1, <1>4, CommitKnows, SupplierAssumption DEF Wellformed, Amounts
  <2>3. Next
    BY <2>1, <2>2 DEF Next
  <2>4. TypeOK'
    BY <1>1, <1>4, <2>1, <2>2, AddPayableTyped
  <2>5. \A r \in Rows : (r # Target(a) => LeftAlone(r))
                        /\ (r \in Payables \cup Payments => CountsOn(r))
    BY <1>1, <1>4, <2>1, <2>2, AddPayableDisturbs
  <2> QED BY <1>2, <1>3, <2>3, <2>4, <2>5
<1>5. CASE Kind(a) = "void" /\ MarkVoided(Target(a))
  <2>1. Target(a) \in Payables /\ VoidPayable(Target(a))
    BY <1>1, <1>5, VoidCommits
  <2>2. Next
    BY <2>1 DEF Next
  <2>3. TypeOK'
    BY <1>1, <1>5, <2>1, MarkVoidedTyped
  <2>4. \A r \in Rows : LeftAlone(r) /\ (r \in Payables \cup Payments => CountsOn(r))
    BY <1>1, <1>5, <2>1, MarkVoidedDisturbs
  <2> QED BY <1>3, <2>2, <2>3, <2>4
<1>6. CASE Kind(a) = "allocate" /\ AddAllocations(Target(a), request[a].shares)
  <2>1. /\ Target(a) \in Payments /\ request[a].shares \in Shares
        /\ Allocate(Target(a), request[a].shares)
    BY <1>1, <1>6, AllocateCommits
  <2>2. request[a].shares \in [Payables -> Nat]
    BY <2>1, SupplierAssumption DEF Shares
  <2>3. Next
    BY <2>1 DEF Next
  <2>4. TypeOK'
    BY <1>1, <1>6, <2>1, <2>2, AddAllocationsTyped
  <2>5. {q \in Payables : request[a].shares[q] > 0} \subseteq locks[a]
    <3>1. Settles(a) /\ found[a] # None
      BY <1>1, <1>6 DEF Settles, MayCommit, Locked
    <3>2. {q \in Payables : request[a].shares[q] > 0} \subseteq Touched(a)
      BY <1>6 DEF Touched, Share
    <3> QED BY <1>2, <3>1, <3>2 DEF Needs
  <2>6. \A r \in Rows :
          /\ (r # Target(a) /\ r \notin {q \in Payables : request[a].shares[q] > 0}
              => LeftAlone(r))
          /\ r \in Payables \cup Payments => CountsOn(r)
    BY <1>1, <1>6, <2>1, <2>2, AddAllocationsDisturbs
  <2> QED BY <1>2, <1>3, <2>3, <2>4, <2>5, <2>6
<1>7. CASE Kind(a) = "reverse" /\ AddReversal(Target(a), found[a])
  <2>1. Target(a) \in Payments /\ Reverse(Target(a))
    BY <1>1, <1>7, ReverseCommits
  <2>2. Settles(a) /\ found[a] # None
    BY <1>1, <1>7 DEF Settles, MayCommit, Locked
  <2>3. found[a] \in [Payables -> Nat]
    BY <1>1, <2>1, <2>2, CommitKnows DEF TypeOK
  <2>4. Next
    BY <2>1 DEF Next
  <2>5. TypeOK'
    BY <1>1, <1>7, <2>1, <2>3, AddReversalTyped
  <2>6. {q \in Payables : found[a][q] > 0} \subseteq locks[a]
    <3>1. {q \in Payables : found[a][q] > 0} \subseteq Touched(a)
      BY <1>7 DEF Touched
    <3> QED BY <1>2, <2>2, <3>1 DEF Needs
  <2>7. \A r \in Rows :
          /\ (r # Target(a) /\ r \notin {q \in Payables : found[a][q] > 0} => LeftAlone(r))
          /\ r \in Payables \cup Payments => CountsOn(r)
    BY <1>1, <1>7, <2>1, <2>3, AddReversalDisturbs
  <2> QED BY <1>2, <1>3, <2>4, <2>5, <2>6, <2>7
<1> QED BY <1>4, <1>5, <1>6, <1>7 DEF Commit

LEMMA CommitStep == ASSUME IInv, NEW a \in Sessions, Commit(a) PROVE IInv'
<1>1. Functional
  BY TypedParts DEF IInv
<1>2. /\ request' = [request EXCEPT ![a] = None] /\ locks' = [locks EXCEPT ![a] = {}]
      /\ sums' = [sums EXCEPT ![a] = NoSums] /\ found' = [found EXCEPT ![a] = None]
  BY DEF Commit, Release
<1>3. request'[a] = None /\ locks'[a] = {} /\ sums'[a] = NoSums /\ found'[a] = None
  BY <1>1, <1>2 DEF Functional
<1>4. \A b \in Sessions \ {a} : SameSession(b)
  BY <1>1, <1>2 DEF Functional, SameSession
<1>5. Functional'
  BY <1>1, <1>2 DEF Functional
<1>6. SessionTyped(a)' /\ SessionInv(a)'
  BY <1>3 DEF SessionTyped, SessionInv, Idle, NoSums
<1>7. \A b \in Sessions \ {a} : locks'[a] \cap locks[b] = {}
  BY <1>3
<1> QED BY <1>4, <1>5, <1>6, <1>7, CommitMoves, OneMoves
-----------------------------------------------------------------------------
(* The theorems. *)

LEMMA Initially == InitConcurrent => IInv
<1> SUFFICES ASSUME InitConcurrent PROVE IInv
  OBVIOUS
<1>1. TypeOK
  BY LedgerInitially DEF InitConcurrent, LedgerInv
<1>2. Functional
  BY DEF InitConcurrent, Functional
<1>3. ASSUME NEW a \in Sessions
      PROVE  request[a] = None /\ locks[a] = {} /\ sums[a] = NoSums /\ found[a] = None
  BY DEF InitConcurrent
<1>4. \A a \in Sessions : SessionTyped(a) /\ SessionInv(a)
  BY <1>3 DEF SessionTyped, SessionInv, Idle, NoSums
<1>5. Exclusive
  BY <1>3 DEF Exclusive
<1> QED BY <1>1, <1>2, <1>4, <1>5, TypedParts DEF IInv

\* Every step keeps the invariant and is a step of the ledger or a stutter of it.
LEMMA Step == IInv /\ [NextConcurrent]_vars => IInv' /\ [Next]_ledgerVars
<1> SUFFICES ASSUME IInv, [NextConcurrent]_vars PROVE IInv' /\ [Next]_ledgerVars
  OBVIOUS
<1>1. CASE \E b \in Purchases : Confirm(b) /\ Free(b) /\ UNCHANGED sessionVars
  BY <1>1, ConfirmStep DEF Next
<1>2. CASE \E p \in Payments : \E amount \in Amounts :
             RecordPayment(p, amount) /\ UNCHANGED sessionVars
  BY <1>2, RecordPaymentStep DEF Next
<1>3. ASSUME NEW a \in Sessions, Ask(a) PROVE IInv' /\ UNCHANGED ledgerVars
  BY <1>3, AskStep DEF Ask, Send
<1>4. ASSUME NEW a \in Sessions, Run(a) PROVE IInv' /\ [Next]_ledgerVars
  <2>1. CASE \E r \in Rows : Lock(a, r)
    BY <2>1, LockStep DEF Lock
  <2>2. CASE \E r \in Rows : Sum(a, r)
    BY <2>2, ReadSumStep DEF Sum
  <2>3. CASE Look(a)
    BY <2>3, LookStep DEF Look
  <2>4. CASE Commit(a)
    BY <2>4, CommitStep, CommitMoves
  <2>5. CASE Rollback(a)
    BY <2>5, RollbackStep DEF Rollback
  <2> QED BY <1>4, <2>1, <2>2, <2>3, <2>4, <2>5 DEF Run
<1>5. CASE UNCHANGED vars
  <2>1. UNCHANGED ledgerVars /\ UNCHANGED sessionVars
    BY <1>5 DEF vars
  <2>2. TypeOK /\ UNCHANGED <<confirmed, payables, payments, allocated, returned>>
    BY <2>1 DEF ledgerVars, IInv, TypeOKConcurrent
  <2>3. TypeOK'
    BY <2>2 DEF TypeOK
  <2>4. \A r \in Rows : LeftAlone(r) /\ (r \in Payables \cup Payments => CountsOn(r))
    BY <2>2, LedgerUnchanged
  <2>5. IInv'
    BY <2>1, <2>3, <2>4, LedgerMoves DEF Rows
  <2> QED BY <2>1, <2>5
<1> QED BY <1>1, <1>2, <1>3, <1>4, <1>5 DEF NextConcurrent

LEMMA IInvCorrect == SpecConcurrent => []IInv
BY Initially, Step, PTL DEF SpecConcurrent

\* SupplierFinanceService implements SupplierLedger: whatever the transactions read and
\* in whatever order they lock and commit, each has the effect of one command that is
\* checked and done at once, at its commit.
THEOREM SupplierFinanceImplementsLedger == SpecConcurrent => ImplementsSupplierLedger
<1>1. InitConcurrent => Init
  BY DEF InitConcurrent
<1> QED BY <1>1, Initially, Step, PTL DEF SpecConcurrent, ImplementsSupplierLedger, Spec

\* The state of the ledger, of the transactions and of their locks is of its type.
THEOREM TypeCorrect == SpecConcurrent => []TypeOKConcurrent
<1>1. IInv => TypeOKConcurrent
  BY DEF IInv
<1> QED BY <1>1, IInvCorrect, PTL

\* Whatever the amounts and however many transactions run at once, the ledger is sound.
THEOREM LedgerSoundCorrect == SpecConcurrent => []LedgerSound
<1>1. LedgerInv => LedgerSound
  BY DEF LedgerInv, LedgerSound
<1>2. SpecConcurrent => Spec
  BY SupplierFinanceImplementsLedger DEF ImplementsSupplierLedger
<1> QED BY <1>1, <1>2, LedgerCorrect, PTL

\* create_payable, allocate and reverse keep what is owed and paid within its amounts,
\* for any number of purchases, payables, payments and concurrent transactions.
THEOREM AmountsCorrect == SpecConcurrent => []WithinAmounts
<1>1. LedgerInv => WithinAmounts
  BY DEF LedgerInv
<1>2. SpecConcurrent => Spec
  BY SupplierFinanceImplementsLedger DEF ImplementsSupplierLedger
<1> QED BY <1>1, <1>2, LedgerCorrect, PTL

\* reverse: a payment is reversed once at most, and then with all its rows.
THEOREM ReversalsCorrect == SpecConcurrent => []ReversedExactly
<1>1. LedgerInv => ReversedExactly
  BY DEF LedgerInv
<1>2. SpecConcurrent => Spec
  BY SupplierFinanceImplementsLedger DEF ImplementsSupplierLedger
<1> QED BY <1>1, <1>2, LedgerCorrect, PTL

\* void_payable and allocate: nothing in force is allocated to a voided payable.
THEOREM VoidedCorrect == SpecConcurrent => []VoidedIsUnpaid
<1>1. LedgerInv => VoidedIsUnpaid
  BY DEF LedgerInv
<1>2. SpecConcurrent => Spec
  BY SupplierFinanceImplementsLedger DEF ImplementsSupplierLedger
<1> QED BY <1>1, <1>2, LedgerCorrect, PTL

\* The sums that a transaction decides on stay true until it ends, although no lock is
\* on the rows that they are taken of.
THEOREM ReadsCorrect == SpecConcurrent => []ReadsStayTrue
<1>1. IInv => ReadsStayTrue
  <2> SUFFICES ASSUME IInv, NEW a \in Sessions
      PROVE /\ \A r \in Rows : sums[a][r] # None =>
                 IF r \in Purchases THEN SumOf(r) <= sums[a][r] ELSE SumOf(r) = sums[a][r]
            /\ found[a] # None => found[a] = allocated[Target(a)]
    BY DEF ReadsStayTrue
  <2>1. SessionTyped(a) /\ SessionInv(a)
    BY TypedParts DEF IInv
  <2>2. CASE Idle(a)
    BY <2>1, <2>2 DEF SessionTyped, NoSums
  <2>3. CASE ~Idle(a)
    BY <2>1, <2>3 DEF SessionInv, SumsTrue, FoundTrue
  <2> QED BY <2>2, <2>3
<1> QED BY <1>1, IInvCorrect, PTL

\* check_version: a transaction commits only on balances that its sender has seen.
THEOREM SettledAsSeenCorrect == SpecConcurrent => []SettledAsSeen
<1>1. IInv => SettledAsSeen
  <2> SUFFICES ASSUME IInv, NEW a \in Sessions, MayCommit(a),
                      NEW r \in Named(Kind(a), Target(a), request[a].shares)
      PROVE SumOf(r) = request[a].seen[r].sum
    BY DEF SettledAsSeen
  <2>1. Wellformed(a) /\ PageTells(a) /\ (Settles(a) => VersionSeen(a, Target(a)))
    BY CommitKnows
  <2>2. VersionSeen(a, r)
    <3>1. Kind(a) # "create"
      BY DEF Named
    <3>2. CASE r = Target(a)
      <4>1. CASE Kind(a) = "void"
        BY <3>2, <4>1 DEF MayCommit, Allowed, Voidable
      <4>2. CASE Kind(a) # "void"
        BY <2>1, <3>1, <3>2, <4>2 DEF Wellformed, Settles
      <4> QED BY <4>1, <4>2
    <3>3. CASE r # Target(a)
      <4>1. r \in Payables /\ request[a].shares[r] > 0
        BY <3>3 DEF Named
      <4>2. request[a].shares # Nothing
        BY <4>1 DEF Nothing
      <4>3. Kind(a) = "allocate"
        BY <2>1, <3>1, <4>2 DEF Wellformed
      <4>4. r \in Touched(a)
        BY <4>1, <4>3 DEF Touched, Share
      <4> QED BY <4>3, <4>4 DEF MayCommit, Allowed, Allocable
    <3> QED BY <3>2, <3>3
  <2> QED BY <2>1, <2>2 DEF PageTells, NamedRows, VersionSeen
<1> QED BY <1>1, IInvCorrect, PTL

\* Whoever holds a row and waits for another waits for a payable with a larger id.
LEMMA WaitsUpwards ==
  ASSUME IInv, NEW a \in Sessions, NEW r \in locks[a], NEW s \in Rows, MayLock(a, s)
  PROVE  s \in Payables /\ (r \in Payables => r < s)
<1>1. ~Idle(a) /\ s \in Needs(a) /\ s \notin locks[a]
  BY DEF MayLock
<1>2. LocksInOrder(a) /\ FoundTrue(a)
  BY <1>1 DEF IInv, SessionInv
<1>3. s # Target(a)
  <2>1. ASSUME s = Target(a) PROVE FALSE
    <3>1. found[a] = None
      BY <1>1, <1>2, <2>1 DEF FoundTrue
    <3>2. Needs(a) = {Target(a)}
      BY <3>1 DEF Needs
    <3> QED BY <1>1, <1>2, <2>1, <3>2 DEF LocksInOrder
  <2> QED BY <2>1
<1>4. s \in Payables
  BY <1>1, <1>3 DEF Needs, Touched
<1>5. ASSUME r \in Payables PROVE r < s
  <2>1. r \in Nat /\ s \in Nat
    BY <1>4, <1>5, RowsAssumption
  <2>2. ~(s < r)
    BY <1>1, <1>2, <1>4, <1>5 DEF LocksInOrder, Before
  <2>3. r # s
    BY <1>1
  <2> QED BY <2>1, <2>2, <2>3
<1> QED BY <1>4, <1>5

\* The order of the locks in allocate and reverse: no transactions, however many, wait
\* for each other in a circle.
THEOREM NobodyWaitsInACircleCorrect == SpecConcurrent => []NobodyWaitsInACircle
<1>1. IInv => NobodyWaitsInACircle
  <2> SUFFICES ASSUME IInv, NEW S \in SUBSET Sessions, S # {},
                      \A a \in S : \E b \in S : WaitsFor(a, b)
      PROVE FALSE
    BY DEF NobodyWaitsInACircle
  <2>1. ASSUME NEW a \in S PROVE \E r \in Rows : \E b \in S : MayLock(a, r) /\ r \in locks[b]
    BY DEF WaitsFor
  <2> DEFINE W == {q \in Payables : \E a \in S : \E b \in S : MayLock(a, q) /\ q \in locks[b]}
  <2>2. ASSUME NEW b \in S, NEW r \in locks[b]
        PROVE  \E q \in W : r \in Payables => r < q
    <3>1. PICK q \in Rows : \E c \in S : MayLock(b, q) /\ q \in locks[c]
      BY <2>1
    <3>2. q \in Payables /\ (r \in Payables => r < q)
      BY <3>1, WaitsUpwards
    <3>3. q \in W
      BY <3>1, <3>2
    <3> QED BY <3>2, <3>3
  <2>3. W # {}
    <3>1. PICK a \in S : TRUE
      OBVIOUS
    <3>2. PICK r \in Rows : \E b \in S : MayLock(a, r) /\ r \in locks[b]
      BY <2>1
    <3>3. PICK b \in S : r \in locks[b]
      BY <3>2
    <3> HIDE DEF W
    <3> QED BY <2>2, <3>3
  <2>4. W \subseteq Nat /\ IsFiniteSet(W)
    BY RowsAssumption, SupplierAssumption, FS_Subset
  <2>5. PICK m \in W : \A n \in W : n <= m
    <3> HIDE DEF W
    <3> QED BY <2>3, <2>4, Largest
  <2>6. PICK b \in S : m \in locks[b]
    OBVIOUS
  <2>7. m \in Payables
    OBVIOUS
  <2>8. PICK q \in W : m < q
    BY <2>2, <2>6, <2>7
  <2> HIDE DEF W
  <2> QED BY <2>4, <2>5, <2>8
<1> QED BY <1>1, IInvCorrect, PTL
=============================================================================
