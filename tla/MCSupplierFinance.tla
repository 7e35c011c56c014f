-------------------------- MODULE MCSupplierFinance --------------------------
(***************************************************************************)
(* Instances of SupplierFinance for TLC: two transactions are the fewest   *)
(* that compete, two payables the fewest that can be locked in two orders, *)
(* and two payments the fewest that compete for one payable.               *)
(***************************************************************************)
EXTENDS SupplierFinance, TLC

\* A purchase can be owed in one payable or, in parts, in two.
MCPrice == [b \in Purchases |-> MaxAmount]
MCPayables == 1..2

\* One payment is large enough for two shares, the other is too small for them.
OneLargePayment ==
  \A p, r \in Payments :
    payments[p].amount = MaxAmount /\ payments[r].amount = MaxAmount => p = r
MCSymmetry == Permutations(Sessions) \cup Permutations(Payments)
=============================================================================
