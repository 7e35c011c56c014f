--------------------------- MODULE MCOrderCreation ----------------------------
(***************************************************************************)
(* The instance of OrderCreation for TLC: two quotations, two keys and two *)
(* terms are the fewest with which a key is reused for another quotation   *)
(* or other terms; three attempts let one repeat a request while another   *)
(* competes with it.  No symmetry, as a liveness property is checked.      *)
(***************************************************************************)
EXTENDS OrderCreation
=============================================================================
