---------------------------- MODULE EventDelivery ----------------------------
(***************************************************************************)
(* What the outbox promises: an event recorded with a business commit is   *)
(* applied at most once, whatever is lost or repeated on the way, and is   *)
(* never forgotten: until it is applied it is either under way or set      *)
(* aside for an administrator, who can put it under way again.             *)
(***************************************************************************)
EXTENDS Naturals

CONSTANTS Events

VARIABLES place,   \* where an event stands: "absent", "underway", "aside"
          applied  \* how often the effect of an event has become durable

dvars == <<place, applied>>

Init == place = [e \in Events |-> "absent"] /\ applied = [e \in Events |-> 0]

Record(e) == /\ place[e] = "absent"
             /\ place' = [place EXCEPT ![e] = "underway"]
             /\ UNCHANGED applied

SetAside(e) == /\ place[e] = "underway"
               /\ place' = [place EXCEPT ![e] = "aside"]
               /\ UNCHANGED applied

Resume(e) == /\ place[e] = "aside"
             /\ place' = [place EXCEPT ![e] = "underway"]
             /\ UNCHANGED applied

\* A message of an event set aside may still be applied.
Apply(e) == /\ place[e] # "absent"
            /\ applied[e] = 0
            /\ applied' = [applied EXCEPT ![e] = 1]
            /\ UNCHANGED place

Next == \E e \in Events : Record(e) \/ SetAside(e) \/ Resume(e) \/ Apply(e)

Spec == Init /\ [][Next]_dvars
=============================================================================
