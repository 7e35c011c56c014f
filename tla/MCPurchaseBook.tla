--------------------------- MODULE MCPurchaseBook ----------------------------
(***************************************************************************)
(* Instances of PurchaseBook for TLC.                                      *)
(***************************************************************************)
EXTENDS PurchaseBook, TLC

\* Every line is ordered alike, so that lines may be exchanged.
MCOrdered == [l \in Lines |-> MaxQuantity]

MCSymmetry == Permutations(Purchases) \cup Permutations(Lines)
=============================================================================
