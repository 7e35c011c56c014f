------------------------------ MODULE OrderBook -------------------------------
(***************************************************************************)
(* What the creation of sales orders promises: a request is answered in    *)
(* one step, if with success, then with the order of its quotation, which  *)
(* has the terms it asked for and which it opened with the next number if  *)
(* there was none; a key stands for one request.                           *)
(***************************************************************************)
EXTENDS Naturals, FiniteSets

CONSTANTS Attempts, Keys, Quotations, Terms, None

VARIABLES orders,   \* the rows of sales_orders
          request,  \* what an attempt asks for
          reply     \* the order it was answered with

bvars == <<orders, request, reply>>

Requests == [key : Keys, quotation : Quotations, terms : Terms]

Init ==
  /\ orders = {}
  /\ request = [a \in Attempts |-> None]
  /\ reply = [a \in Attempts |-> None]

Ask(a) ==
  /\ request[a] = None
  /\ \E r \in Requests : request' = [request EXCEPT ![a] = r]
  /\ UNCHANGED <<orders, reply>>

\* Two requests with one key succeed only if they are the same.
Answer(a, row) ==
  /\ request[a] \in Requests /\ reply[a] = None
  /\ row.quotation = request[a].quotation /\ row.terms = request[a].terms
  /\ \A b \in Attempts :
       reply[b] # None /\ request[b].key = request[a].key => request[b] = request[a]
  /\ reply' = [reply EXCEPT ![a] = row]
  /\ UNCHANGED request

\* The first order of a quotation takes the next number.
Open(a) ==
  LET row == [quotation |-> request[a].quotation, terms |-> request[a].terms,
              number |-> Cardinality(orders) + 1]
  IN /\ Answer(a, row)
     /\ \A o \in orders : o.quotation # row.quotation
     /\ orders' = orders \cup {row}

Again(a) == UNCHANGED orders /\ \E row \in orders : Answer(a, row)

Next == \E a \in Attempts : Ask(a) \/ Open(a) \/ Again(a)

Spec == Init /\ [][Next]_bvars
=============================================================================
