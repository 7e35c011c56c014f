------------------------------ MODULE MCOutbox ------------------------------
(***************************************************************************)
(* Instances of Outbox for TLC: two events, two relays and two consumers   *)
(* are the fewest with which rows share a batch, relays compete for a row  *)
(* and a message is consumed twice at once; two attempts make the last one *)
(* differ from the first.                                                  *)
(***************************************************************************)
EXTENDS Outbox, TLC

MCEvents == {1, 2}
MCOneEvent == {1}

\* Sound for the safety runs only.
MCSymmetry == Permutations(Relays) \cup Permutations(Consumers)
=============================================================================
