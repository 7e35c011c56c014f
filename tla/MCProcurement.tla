---------------------------- MODULE MCProcurement ----------------------------
(***************************************************************************)
(* Instances of Procurement for TLC.                                       *)
(***************************************************************************)
EXTENDS Procurement, TLC

\* Every line is ordered alike, so that lines may be exchanged.
MCOrdered == [l \in Lines |-> MaxQuantity]

MCSymmetry == Permutations(Sessions) \cup Permutations(Purchases) \cup Permutations(Lines)
=============================================================================
