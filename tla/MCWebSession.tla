---------------------------- MODULE MCWebSession ----------------------------
(***************************************************************************)
(* An instance of WebSession for TLC: two tabs, a user of two              *)
(* organizations and one of a single one.                                  *)
(***************************************************************************)
EXTENDS WebSession

MCMember == [u \in Users |-> IF u = "buyer" THEN {"north"} ELSE Orgs]
=============================================================================
