---------------------------- MODULE OrderCreation -----------------------------
(***************************************************************************)
(* The requests POST /sales-orders while they run against each other:      *)
(* SalesOrderCommandService.create of apps/api/app/sales/order_services.py *)
(* between the statements at which it may wait or fail, with the command   *)
(* keys of platform/idempotency.py and the numbers of platform/numbering.py*)
(*                                                                         *)
(* A request is one READ COMMITTED transaction.  It holds an advisory lock *)
(* on its key, then the row of its quotation, then the row of the          *)
(* sequence, each until it ends; whatever it has not committed is lost     *)
(* with it.  A client that hears nothing sends the request again.          *)
(***************************************************************************)
EXTENDS Naturals, FiniteSets

CONSTANTS
  Quotations,
  Terms,     \* deposit_rate and deposit_due_date
  Keys,      \* Idempotency-Key; a request without one has a key of its own
  Attempts,  \* bound: the requests that are sent, repeated ones included
  None

VARIABLES
  accepted,   \* the quotations with an accepted version
  orders,     \* sales_orders
  receipts,   \* idempotency_keys: the request of a key and its resource
  nextValue,  \* document_sequences.next_value
  request,    \* what an attempt asks for
  pc,         \* how far an attempt is
  drawn,      \* the number it has drawn
  reply       \* the order it was answered with

vars == <<accepted, orders, receipts, nextValue, request, pc, drawn, reply>>

Requests == [key : Keys, quotation : Quotations, terms : Terms]
Orders == [quotation : Quotations, terms : Terms, number : Nat \ {0}]
Receipts == [request : Requests, order : Orders]
Ended == {"REPLIED", "REFUSED", "FAILED"}
Stages == {"IDLE", "BEGUN", "KEYED", "SOURCED", "NUMBERED"} \cup Ended

TypeOK ==
  /\ accepted \in SUBSET Quotations
  /\ orders \in SUBSET Orders
  /\ receipts \in SUBSET Receipts
  /\ nextValue \in Nat \ {0}
  /\ request \in [Attempts -> Requests \cup {None}]
  /\ pc \in [Attempts -> Stages]
  /\ drawn \in [Attempts -> Nat]
  /\ reply \in [Attempts -> Orders \cup {None}]
  /\ \A a \in Attempts :
       /\ IF pc[a] = "IDLE" THEN request[a] = None ELSE request[a] \in Requests
       /\ pc[a] = "NUMBERED" => drawn[a] > 0
       /\ IF pc[a] = "REPLIED" THEN reply[a] \in Orders ELSE reply[a] = None

Init ==
  /\ accepted = {}
  /\ orders = {}
  /\ receipts = {}
  /\ nextValue = 1
  /\ request = [a \in Attempts |-> None]
  /\ pc = [a \in Attempts |-> "IDLE"]
  /\ drawn = [a \in Attempts |-> 0]
  /\ reply = [a \in Attempts |-> None]

-----------------------------------------------------------------------------
(* Locks, each held until the transaction ends.                            *)

\* Mutant: pg_advisory_lock in place of pg_advisory_xact_lock.
HoldsKeyForSession(a) == pc[a] \notin {"IDLE", "BEGUN"}

HoldsKey(a) == pc[a] \in {"KEYED", "SOURCED", "NUMBERED"}
HoldsQuotation(a) == pc[a] \in {"SOURCED", "NUMBERED"}
HoldsSequence(a) == pc[a] = "NUMBERED"

KeyFree(k) == \A b \in Attempts : HoldsKey(b) => request[b].key # k

\* Mutant: the quotation is read without FOR UPDATE.
QuotationUnlocked(q) == TRUE

QuotationFree(q) == \A b \in Attempts : HoldsQuotation(b) => request[b].quotation # q
SequenceFree == \A b \in Attempts : ~HoldsSequence(b)

Goto(a, stage) == pc' = [pc EXCEPT ![a] = stage]

-----------------------------------------------------------------------------
\* QuotationCommandService.accept, which locks the quotation's row.
Accept(q) ==
  /\ q \notin accepted
  /\ QuotationFree(q)
  /\ accepted' = accepted \cup {q}
  /\ UNCHANGED <<orders, receipts, nextValue, request, pc, drawn, reply>>

Send(a) ==
  /\ pc[a] = "IDLE"
  /\ \E r \in Requests : request' = [request EXCEPT ![a] = r]
  /\ Goto(a, "BEGUN")
  /\ UNCHANGED <<accepted, orders, receipts, nextValue, drawn, reply>>

(* begin_command: the key is locked, then its receipt is read.             *)

ReceiptsOf(k) == {x \in receipts : x.request.key = k}

\* Mutant: the request hash leaves the terms out.
MatchesLoosely(x, r) == x.request.quotation = r.quotation

Matches(x, r) == x.request = r

BeginNew(a) ==
  /\ pc[a] = "BEGUN"
  /\ KeyFree(request[a].key)
  /\ ReceiptsOf(request[a].key) = {}
  /\ Goto(a, "KEYED")
  /\ UNCHANGED <<accepted, orders, receipts, nextValue, request, drawn, reply>>

\* The key has this request's receipt: it is answered with the same order.
Replay(a) ==
  /\ pc[a] = "BEGUN"
  /\ KeyFree(request[a].key)
  /\ \E x \in ReceiptsOf(request[a].key) :
       /\ Matches(x, request[a])
       /\ reply' = [reply EXCEPT ![a] = x.order]
  /\ Goto(a, "REPLIED")
  /\ UNCHANGED <<accepted, orders, receipts, nextValue, request, drawn>>

\* IDEMPOTENCY_CONFLICT.
RefuseKey(a) ==
  /\ pc[a] = "BEGUN"
  /\ KeyFree(request[a].key)
  /\ \E x \in ReceiptsOf(request[a].key) : ~Matches(x, request[a])
  /\ Goto(a, "REFUSED")
  /\ UNCHANGED <<accepted, orders, receipts, nextValue, request, drawn, reply>>

(* create: the quotation is locked, then its order is read.                *)

OrdersOf(q) == {o \in orders : o.quotation = q}

LockQuotation(a) ==
  /\ pc[a] = "KEYED"
  /\ QuotationFree(request[a].quotation)
  /\ OrdersOf(request[a].quotation) = {}
  /\ request[a].quotation \in accepted
  /\ Goto(a, "SOURCED")
  /\ UNCHANGED <<accepted, orders, receipts, nextValue, request, drawn, reply>>

\* Mutant: the terms of the existing order are not compared.
AnswerAnyExisting(a) ==
  /\ pc[a] = "KEYED"
  /\ QuotationFree(request[a].quotation)
  /\ \E o \in OrdersOf(request[a].quotation) :
       /\ receipts' = receipts \cup {[request |-> request[a], order |-> o]}
       /\ reply' = [reply EXCEPT ![a] = o]
  /\ Goto(a, "REPLIED")
  /\ UNCHANGED <<accepted, orders, nextValue, request, drawn>>

\* The order exists with the same terms: the key gets a receipt for it.
AnswerExisting(a) ==
  /\ pc[a] = "KEYED"
  /\ QuotationFree(request[a].quotation)
  /\ \E o \in OrdersOf(request[a].quotation) :
       /\ o.terms = request[a].terms
       /\ receipts' = receipts \cup {[request |-> request[a], order |-> o]}
       /\ reply' = [reply EXCEPT ![a] = o]
  /\ Goto(a, "REPLIED")
  /\ UNCHANGED <<accepted, orders, nextValue, request, drawn>>

\* ORDER_CREATION_CONFLICT, QUOTATION_NOT_ACCEPTED: the receipt is rolled back.
RefuseSource(a) ==
  /\ pc[a] = "KEYED"
  /\ QuotationFree(request[a].quotation)
  /\ IF OrdersOf(request[a].quotation) = {}
     THEN request[a].quotation \notin accepted
     ELSE \E o \in OrdersOf(request[a].quotation) : o.terms # request[a].terms
  /\ Goto(a, "REFUSED")
  /\ UNCHANGED <<accepted, orders, receipts, nextValue, request, drawn, reply>>

-----------------------------------------------------------------------------
(* next_document_number, the insertion and the commit.                     *)

\* Mutant: a database sequence, which keeps its value when a draw is undone.
DrawForGood(a) ==
  /\ pc[a] = "SOURCED"
  /\ SequenceFree
  /\ drawn' = [drawn EXCEPT ![a] = nextValue]
  /\ nextValue' = nextValue + 1
  /\ Goto(a, "NUMBERED")
  /\ UNCHANGED <<accepted, orders, receipts, request, reply>>

\* The upsert locks the sequence's row; its new value is committed with the order.
DrawNumber(a) ==
  /\ pc[a] = "SOURCED"
  /\ SequenceFree
  /\ drawn' = [drawn EXCEPT ![a] = nextValue]
  /\ Goto(a, "NUMBERED")
  /\ UNCHANGED <<accepted, orders, receipts, nextValue, request, reply>>

\* uq_sales_orders_org_number and uq_sales_orders_org_quote.
Unique(row) ==
  \A o \in orders : o.number # row.number /\ o.quotation # row.quotation

Drafted(a) == [quotation |-> request[a].quotation, terms |-> request[a].terms,
               number |-> drawn[a]]

Commit(a) ==
  /\ pc[a] = "NUMBERED"
  /\ Unique(Drafted(a))
  /\ orders' = orders \cup {Drafted(a)}
  /\ receipts' = receipts \cup {[request |-> request[a], order |-> Drafted(a)]}
  /\ nextValue' = drawn[a] + 1
  /\ reply' = [reply EXCEPT ![a] = Drafted(a)]
  /\ Goto(a, "REPLIED")
  /\ UNCHANGED <<accepted, request, drawn>>

\* The API process dies, the connection is lost or a constraint refuses the row.
Rollback(a) ==
  /\ pc[a] \notin Ended \cup {"IDLE"}
  /\ Goto(a, "FAILED")
  /\ UNCHANGED <<accepted, orders, receipts, nextValue, request, drawn, reply>>

-----------------------------------------------------------------------------
Create(a) ==
  \/ BeginNew(a) \/ Replay(a) \/ RefuseKey(a)
  \/ LockQuotation(a) \/ AnswerExisting(a) \/ RefuseSource(a)
  \/ DrawNumber(a) \/ Commit(a)

Next ==
  \/ \E q \in Quotations : Accept(q)
  \/ \E a \in Attempts : Send(a) \/ Create(a) \/ Rollback(a)

Spec == Init /\ [][Next]_vars

\* The database grants a lock that stays free and runs the next statement.
FairSpec == Spec /\ \A a \in Attempts : WF_vars(Create(a))

-----------------------------------------------------------------------------
(* Properties. *)

\* Requests with one key that succeed are the same request and are answered with
\* the same order, one of the book with the quotation and the terms asked for:
\* however often and however concurrently they run (begin_command, create).
AnswersAgree ==
  \A a, b \in Attempts : pc[a] = "REPLIED" /\ pc[b] = "REPLIED" =>
    /\ request[a].key = request[b].key => request[a] = request[b] /\ reply[a] = reply[b]
    /\ reply[a] \in orders
    /\ reply[a].quotation = request[a].quotation
    /\ reply[a].terms = request[a].terms

\* The locks are enough: no unique constraint ever refuses an order that is about
\* to be committed, so no request ends in a server error for being concurrent.
ConstraintsNeverRefuse == \A a \in Attempts : pc[a] = "NUMBERED" => Unique(Drafted(a))

\* Numbers are never missing and never repeated: a number drawn by a request that
\* fails is drawn again (IMPLEMENTATION_GUIDE 568).
NumbersHaveNoGaps ==
  /\ {o.number : o \in orders} = 1..Cardinality(orders)
  /\ nextValue = Cardinality(orders) + 1

\* A request waits for another's lock, never for ever: it is answered, refused or
\* fails (the order key, quotation, sequence of the locks).
RequestsEnd == \A a \in Attempts : pc[a] = "BEGUN" ~> pc[a] \in Ended

Book == INSTANCE OrderBook

\* Concurrent requests do what requests one after the other would.
ImplementsOrderBook == Book!Spec

=============================================================================
