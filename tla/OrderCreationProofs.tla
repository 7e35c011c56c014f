------------------------- MODULE OrderCreationProofs --------------------------
(***************************************************************************)
(* Proofs about OrderCreation for any quotations, terms, keys and any      *)
(* number of requests.                                                     *)
(*                                                                         *)
(* The properties speak of what is committed; they hold because of what a  *)
(* lock keeps true while it is held.  Held says it for each lock: a locked *)
(* key has no receipt, a locked quotation no order, a locked sequence no   *)
(* number beyond the one that was drawn.                                   *)
(***************************************************************************)
EXTENDS OrderCreation, FiniteSetTheorems, TLAPS

\* What the holder of a lock has read is still so, and no lock is held twice.
Held ==
  \A a \in Attempts :
    /\ HoldsKey(a) => ReceiptsOf(request[a].key) = {}
    /\ HoldsQuotation(a) => OrdersOf(request[a].quotation) = {}
    /\ HoldsSequence(a) => drawn[a] = nextValue
    /\ \A b \in Attempts : a # b =>
         /\ HoldsKey(a) /\ HoldsKey(b) => request[a].key # request[b].key
         /\ HoldsQuotation(a) /\ HoldsQuotation(b) =>
              request[a].quotation # request[b].quotation
         /\ ~(HoldsSequence(a) /\ HoldsSequence(b))

\* A key has one receipt, whose order has the quotation and terms of the request.
ReceiptsAgree ==
  /\ \A x, y \in receipts : x.request.key = y.request.key => x = y
  /\ \A x \in receipts : /\ x.order \in orders
                         /\ x.order.quotation = x.request.quotation
                         /\ x.order.terms = x.request.terms

\* A request that succeeded left its receipt.
RepliesHaveReceipts ==
  \A a \in Attempts : pc[a] = "REPLIED" =>
    [request |-> request[a], order |-> reply[a]] \in receipts

Numbered ==
  /\ IsFiniteSet(orders)
  /\ \A o \in orders : o.number < nextValue
  /\ NumbersHaveNoGaps

IInv == TypeOK /\ Held /\ ReceiptsAgree /\ RepliesHaveReceipts /\ Numbered

\* What changes when an attempt moves on.
LEMMA Moves ==
  ASSUME TypeOK, NEW a \in Attempts, NEW stage, Goto(a, stage)
  PROVE  pc'[a] = stage /\ \A b \in Attempts : b # a => pc'[b] = pc[b]
  BY DEF TypeOK, Goto

LEMMA TypeInductive == TypeOK /\ [Next]_vars => TypeOK'
<1> SUFFICES ASSUME TypeOK, [Next]_vars PROVE TypeOK'
  OBVIOUS
<1> DEFINE Typed(a) == /\ IF pc[a] = "IDLE" THEN request[a] = None
                                              ELSE request[a] \in Requests
                       /\ pc[a] = "NUMBERED" => drawn[a] > 0
                       /\ IF pc[a] = "REPLIED" THEN reply[a] \in Orders ELSE reply[a] = None
<1>1. ASSUME NEW a \in Attempts, NEW stage \in Stages \ {"IDLE", "NUMBERED", "REPLIED"},
             pc[a] \notin {"IDLE", "REPLIED"}, Goto(a, stage),
             UNCHANGED <<accepted, orders, receipts, nextValue, request, drawn, reply>>
      PROVE  TypeOK'
  <2>1. pc' \in [Attempts -> Stages]
    BY <1>1 DEF Goto, TypeOK
  <2>2. ASSUME NEW b \in Attempts PROVE Typed(b)'
    <3>1. Typed(a) /\ Typed(b) /\ pc'[a] = stage /\ (b # a => pc'[b] = pc[b])
      BY <1>1, Moves DEF TypeOK
    <3> QED BY <1>1, <3>1
  <2> QED BY <1>1, <2>1, <2>2 DEF TypeOK
<1>2. ASSUME NEW a \in Attempts, NEW row \in Orders, Goto(a, "REPLIED"),
             pc[a] # "IDLE", reply' = [reply EXCEPT ![a] = row],
             orders' \in SUBSET Orders, receipts' \in SUBSET Receipts,
             nextValue' \in Nat \ {0}, UNCHANGED <<accepted, request, drawn>>
      PROVE  TypeOK'
  <2>1. pc' \in [Attempts -> Stages] /\ reply' \in [Attempts -> Orders \cup {None}]
    BY <1>2 DEF Goto, TypeOK, Stages, Ended
  <2>2. ASSUME NEW b \in Attempts PROVE Typed(b)'
    <3>1. Typed(a) /\ Typed(b) /\ pc'[a] = "REPLIED" /\ (b # a => pc'[b] = pc[b])
      BY <1>2, Moves DEF TypeOK
    <3>2. reply'[a] = row /\ (b # a => reply'[b] = reply[b])
      BY <1>2 DEF TypeOK
    <3> QED BY <1>2, <3>1, <3>2
  <2> QED BY <1>2, <2>1, <2>2 DEF TypeOK
<1>3. ASSUME NEW q \in Quotations, Accept(q) PROVE TypeOK'
  BY <1>3 DEF Accept, TypeOK
<1>4. ASSUME NEW a \in Attempts, Send(a) PROVE TypeOK'
  <2>1. PICK r \in Requests : request' = [request EXCEPT ![a] = r]
    BY <1>4 DEF Send
  <2>2. pc[a] = "IDLE" /\ Goto(a, "BEGUN")
        /\ UNCHANGED <<accepted, orders, receipts, nextValue, drawn, reply>>
    BY <1>4 DEF Send
  <2>3. request' \in [Attempts -> Requests \cup {None}] /\ pc' \in [Attempts -> Stages]
    BY <2>1, <2>2 DEF TypeOK, Goto, Stages
  <2>4. ASSUME NEW b \in Attempts PROVE Typed(b)'
    <3>1. Typed(b) /\ Typed(a) /\ pc'[a] = "BEGUN" /\ (b # a => pc'[b] = pc[b])
      BY <2>2, Moves DEF TypeOK
    <3>2. request'[a] = r /\ (b # a => request'[b] = request[b])
      BY <2>1 DEF TypeOK
    <3> QED BY <2>2, <3>1, <3>2
  <2> QED BY <2>2, <2>3, <2>4 DEF TypeOK
<1>5. ASSUME NEW a \in Attempts,
             BeginNew(a) \/ RefuseKey(a) \/ LockQuotation(a) \/ RefuseSource(a) \/ Rollback(a)
      PROVE  TypeOK'
  BY <1>1, <1>5 DEF BeginNew, RefuseKey, LockQuotation, RefuseSource, Rollback, Stages, Ended
<1>6. ASSUME NEW a \in Attempts, Replay(a) PROVE TypeOK'
  <2>1. PICK x \in ReceiptsOf(request[a].key) : reply' = [reply EXCEPT ![a] = x.order]
    BY <1>6 DEF Replay
  <2>2. x.order \in Orders
    BY DEF ReceiptsOf, TypeOK, Receipts
  <2>3. /\ orders' \in SUBSET Orders /\ receipts' \in SUBSET Receipts
        /\ nextValue' \in Nat \ {0} /\ UNCHANGED <<accepted, request, drawn>>
        /\ Goto(a, "REPLIED") /\ pc[a] # "IDLE"
    BY <1>6 DEF Replay, TypeOK
  <2> QED BY <1>2, <2>1, <2>2, <2>3
<1>7. ASSUME NEW a \in Attempts, AnswerExisting(a) PROVE TypeOK'
  <2>1. PICK o \in OrdersOf(request[a].quotation) :
          /\ receipts' = receipts \cup {[request |-> request[a], order |-> o]}
          /\ reply' = [reply EXCEPT ![a] = o]
    BY <1>7 DEF AnswerExisting
  <2>2. o \in Orders
    BY DEF OrdersOf, TypeOK
  <2>3. request[a] \in Requests
    BY <1>7 DEF AnswerExisting, TypeOK
  <2>4. /\ orders' \in SUBSET Orders /\ nextValue' \in Nat \ {0}
        /\ UNCHANGED <<accepted, request, drawn>>
        /\ Goto(a, "REPLIED") /\ pc[a] # "IDLE"
    BY <1>7 DEF AnswerExisting, TypeOK
  <2>5. receipts' \in SUBSET Receipts
    BY <2>1, <2>2, <2>3 DEF Receipts, TypeOK
  <2> QED BY <1>2, <2>1, <2>2, <2>4, <2>5
<1>8. ASSUME NEW a \in Attempts, DrawNumber(a) PROVE TypeOK'
  <2>1. /\ drawn' = [drawn EXCEPT ![a] = nextValue] /\ Goto(a, "NUMBERED") /\ pc[a] = "SOURCED"
        /\ UNCHANGED <<accepted, orders, receipts, nextValue, request, reply>>
    BY <1>8 DEF DrawNumber
  <2>2. drawn' \in [Attempts -> Nat] /\ pc' \in [Attempts -> Stages]
    BY <2>1 DEF TypeOK, Goto, Stages
  <2>3. ASSUME NEW b \in Attempts PROVE Typed(b)'
    <3>1. Typed(b) /\ Typed(a) /\ pc'[a] = "NUMBERED" /\ (b # a => pc'[b] = pc[b])
      BY <2>1, Moves DEF TypeOK
    <3>2. drawn'[a] = nextValue /\ (b # a => drawn'[b] = drawn[b]) /\ nextValue > 0
      BY <2>1 DEF TypeOK
    <3> QED BY <2>1, <3>1, <3>2
  <2> QED BY <2>1, <2>2, <2>3 DEF TypeOK
<1>9. ASSUME NEW a \in Attempts, Commit(a) PROVE TypeOK'
  <2>1. request[a] \in Requests /\ drawn[a] \in Nat \ {0}
    BY <1>9 DEF Commit, TypeOK
  <2>2. Drafted(a) \in Orders
    BY <2>1 DEF Drafted, Orders, Requests
  <2>3. /\ orders' = orders \cup {Drafted(a)}
        /\ receipts' = receipts \cup {[request |-> request[a], order |-> Drafted(a)]}
        /\ nextValue' = drawn[a] + 1
        /\ reply' = [reply EXCEPT ![a] = Drafted(a)]
        /\ Goto(a, "REPLIED") /\ pc[a] # "IDLE" /\ UNCHANGED <<accepted, request, drawn>>
    BY <1>9 DEF Commit
  <2>4. orders' \in SUBSET Orders /\ receipts' \in SUBSET Receipts /\ nextValue' \in Nat \ {0}
    BY <2>1, <2>2, <2>3 DEF TypeOK, Receipts
  <2> QED BY <1>2, <2>2, <2>3, <2>4
<1>10. CASE UNCHANGED vars
  BY <1>10 DEF vars, TypeOK
<1> QED BY <1>3, <1>4, <1>5, <1>6, <1>7, <1>8, <1>9, <1>10 DEF Next, Create

-----------------------------------------------------------------------------
(* Locks keep what their holders have read.                                *)

LEMMA HeldFrame ==
  ASSUME TypeOK, Held, UNCHANGED <<orders, receipts, nextValue>>,
         \A b \in Attempts : /\ HoldsKey(b)' => HoldsKey(b) /\ request'[b] = request[b]
                             /\ HoldsQuotation(b)' => HoldsQuotation(b)
                             /\ HoldsSequence(b)' => HoldsSequence(b) /\ drawn'[b] = drawn[b]
  PROVE  Held'
<1> SUFFICES ASSUME NEW a \in Attempts
             PROVE  /\ HoldsKey(a)' => ReceiptsOf(request[a].key)' = {}
                    /\ HoldsQuotation(a)' => OrdersOf(request[a].quotation)' = {}
                    /\ HoldsSequence(a)' => drawn'[a] = nextValue'
                    /\ \A b \in Attempts : a # b =>
                         /\ HoldsKey(a)' /\ HoldsKey(b)' => request'[a].key # request'[b].key
                         /\ HoldsQuotation(a)' /\ HoldsQuotation(b)' =>
                              request'[a].quotation # request'[b].quotation
                         /\ ~(HoldsSequence(a)' /\ HoldsSequence(b)')
  BY DEF Held
<1>1. \A b \in Attempts : HoldsQuotation(b)' => HoldsKey(b)'
  BY DEF HoldsQuotation, HoldsKey
<1>2. HoldsKey(a)' => ReceiptsOf(request[a].key)' = {}
  BY DEF Held, ReceiptsOf
<1>3. HoldsQuotation(a)' => OrdersOf(request[a].quotation)' = {}
  BY <1>1 DEF Held, OrdersOf
<1>4. HoldsSequence(a)' => drawn'[a] = nextValue'
  BY DEF Held
<1>5. ASSUME NEW b \in Attempts, a # b
      PROVE  /\ HoldsKey(a)' /\ HoldsKey(b)' => request'[a].key # request'[b].key
             /\ HoldsQuotation(a)' /\ HoldsQuotation(b)' =>
                  request'[a].quotation # request'[b].quotation
             /\ ~(HoldsSequence(a)' /\ HoldsSequence(b)')
  BY <1>1, <1>5 DEF Held
<1> QED BY <1>2, <1>3, <1>4, <1>5

\* An attempt ends or is sent: it holds nothing afterwards.
LEMMA HeldRelease ==
  ASSUME TypeOK, Held, NEW a \in Attempts, NEW stage \in Ended \cup {"BEGUN"}, Goto(a, stage),
         UNCHANGED <<orders, receipts, nextValue, drawn>>,
         \A b \in Attempts : b # a => request'[b] = request[b]
  PROVE  Held'
<1>1. pc'[a] = stage /\ \A b \in Attempts : b # a => pc'[b] = pc[b]
  BY Moves
<1>2. ASSUME NEW b \in Attempts
      PROVE  /\ HoldsKey(b)' => HoldsKey(b) /\ request'[b] = request[b]
             /\ HoldsQuotation(b)' => HoldsQuotation(b)
             /\ HoldsSequence(b)' => HoldsSequence(b) /\ drawn'[b] = drawn[b]
  <2>1. CASE b = a
    BY <1>1, <2>1 DEF HoldsKey, HoldsQuotation, HoldsSequence, Ended
  <2>2. CASE b # a
    BY <1>1, <2>2 DEF HoldsKey, HoldsQuotation, HoldsSequence
  <2> QED BY <2>1, <2>2
<1> QED BY <1>2, HeldFrame

LEMMA HeldInductive == IInv /\ [Next]_vars => Held'
<1> SUFFICES ASSUME IInv, [Next]_vars PROVE Held'
  OBVIOUS
<1>1. TypeOK /\ Held
  BY DEF IInv
<1> DEFINE Kept(a) ==
             /\ HoldsKey(a) => ReceiptsOf(request[a].key) = {}
             /\ HoldsQuotation(a) => OrdersOf(request[a].quotation) = {}
             /\ HoldsSequence(a) => drawn[a] = nextValue
           Apart(a, b) ==
             /\ HoldsKey(a) /\ HoldsKey(b) => request[a].key # request[b].key
             /\ HoldsQuotation(a) /\ HoldsQuotation(b) =>
                  request[a].quotation # request[b].quotation
             /\ ~(HoldsSequence(a) /\ HoldsSequence(b))
<1>2. \A a \in Attempts : Kept(a) /\ \A b \in Attempts : a # b => Apart(a, b)
  BY <1>1 DEF Held
<1>3. ASSUME NEW c \in Attempts, \A a \in Attempts : Kept(a)',
             \A a \in Attempts : a # c => Apart(a, c)',
             \A a, b \in Attempts : a # b /\ a # c /\ b # c => Apart(a, b)'
      PROVE  Held'
  <2>1. \A a, b \in Attempts : Apart(a, b)' = Apart(b, a)'
    BY DEF HoldsKey, HoldsQuotation, HoldsSequence
  <2>2. ASSUME NEW a \in Attempts, NEW b \in Attempts, a # b PROVE Apart(a, b)'
    <3>1. CASE a = c
      <4>1. Apart(b, c)'
        BY <1>3, <2>2, <3>1
      <4> QED BY <3>1, <4>1 DEF HoldsKey, HoldsQuotation, HoldsSequence
    <3>2. CASE b = c
      BY <1>3, <2>2, <3>2
    <3>3. CASE a # c /\ b # c
      BY <1>3, <2>2, <3>3
    <3> QED BY <3>1, <3>2, <3>3
  <2> QED BY <1>3, <2>2 DEF Held
<1>4. ASSUME NEW a \in Attempts, BeginNew(a) PROVE Held'
  <2>1. /\ pc[a] = "BEGUN" /\ KeyFree(request[a].key) /\ ReceiptsOf(request[a].key) = {}
        /\ UNCHANGED <<orders, receipts, nextValue, request, drawn>>
        /\ pc'[a] = "KEYED" /\ \A b \in Attempts : b # a => pc'[b] = pc[b]
    BY <1>1, <1>4, Moves DEF BeginNew
  <2>2. ASSUME NEW b \in Attempts PROVE Kept(b)' /\ (b # a => Apart(b, a)')
    BY <1>2, <2>1 DEF HoldsKey, HoldsQuotation, HoldsSequence, KeyFree, ReceiptsOf, OrdersOf
  <2>3. ASSUME NEW b \in Attempts, NEW d \in Attempts, b # d, b # a, d # a PROVE Apart(b, d)'
    BY <1>2, <2>1, <2>3 DEF HoldsKey, HoldsQuotation, HoldsSequence
  <2> QED BY <1>3, <2>2, <2>3
<1>5. ASSUME NEW a \in Attempts, LockQuotation(a) PROVE Held'
  <2>1. /\ pc[a] = "KEYED" /\ QuotationFree(request[a].quotation)
        /\ OrdersOf(request[a].quotation) = {}
        /\ UNCHANGED <<orders, receipts, nextValue, request, drawn>>
        /\ pc'[a] = "SOURCED" /\ \A b \in Attempts : b # a => pc'[b] = pc[b]
    BY <1>1, <1>5, Moves DEF LockQuotation
  <2>2. ASSUME NEW b \in Attempts PROVE Kept(b)' /\ (b # a => Apart(b, a)')
    BY <1>2, <2>1 DEF HoldsKey, HoldsQuotation, HoldsSequence, QuotationFree, ReceiptsOf, OrdersOf
  <2>3. ASSUME NEW b \in Attempts, NEW d \in Attempts, b # d, b # a, d # a PROVE Apart(b, d)'
    BY <1>2, <2>1, <2>3 DEF HoldsKey, HoldsQuotation, HoldsSequence
  <2> QED BY <1>3, <2>2, <2>3
<1>6. ASSUME NEW a \in Attempts, DrawNumber(a) PROVE Held'
  <2>1. /\ pc[a] = "SOURCED" /\ SequenceFree
        /\ drawn'[a] = nextValue /\ \A b \in Attempts : b # a => drawn'[b] = drawn[b]
        /\ UNCHANGED <<orders, receipts, nextValue, request>>
        /\ pc'[a] = "NUMBERED" /\ \A b \in Attempts : b # a => pc'[b] = pc[b]
    BY <1>1, <1>6, Moves DEF DrawNumber, TypeOK
  <2>2. ASSUME NEW b \in Attempts PROVE Kept(b)' /\ (b # a => Apart(b, a)')
    BY <1>2, <2>1 DEF HoldsKey, HoldsQuotation, HoldsSequence, SequenceFree, ReceiptsOf, OrdersOf
  <2>3. ASSUME NEW b \in Attempts, NEW d \in Attempts, b # d, b # a, d # a PROVE Apart(b, d)'
    BY <1>2, <2>1, <2>3 DEF HoldsKey, HoldsQuotation, HoldsSequence
  <2> QED BY <1>3, <2>2, <2>3
<1>7. ASSUME NEW a \in Attempts, AnswerExisting(a) PROVE Held'
  <2>1. /\ pc[a] = "KEYED" /\ UNCHANGED <<orders, nextValue, request, drawn>>
        /\ \A x \in receipts' : x \in receipts \/ x.request = request[a]
        /\ pc'[a] = "REPLIED" /\ \A b \in Attempts : b # a => pc'[b] = pc[b]
    BY <1>1, <1>7, Moves DEF AnswerExisting
  <2>2. ASSUME NEW b \in Attempts PROVE Kept(b)'
    <3>1. CASE b = a
      BY <2>1, <3>1 DEF HoldsKey, HoldsQuotation, HoldsSequence
    <3>2. CASE b # a
      <4>1. Kept(b) /\ Apart(b, a)
        BY <1>2, <3>2
      <4>2. HoldsKey(b) => request[b].key # request[a].key
        BY <2>1, <4>1 DEF HoldsKey
      <4> QED BY <2>1, <3>2, <4>1, <4>2
              DEF HoldsKey, HoldsQuotation, HoldsSequence, ReceiptsOf, OrdersOf
    <3> QED BY <3>1, <3>2
  <2>3. ASSUME NEW b \in Attempts, NEW d \in Attempts, b # d PROVE Apart(b, d)'
    BY <1>2, <2>1, <2>3 DEF HoldsKey, HoldsQuotation, HoldsSequence
  <2> QED BY <1>3, <1>7, <2>2, <2>3
<1>8. ASSUME NEW a \in Attempts, Commit(a) PROVE Held'
  <2>1. /\ pc[a] = "NUMBERED" /\ UNCHANGED <<request, drawn>>
        /\ orders' = orders \cup {Drafted(a)}
        /\ receipts' = receipts \cup {[request |-> request[a], order |-> Drafted(a)]}
        /\ pc'[a] = "REPLIED" /\ \A b \in Attempts : b # a => pc'[b] = pc[b]
    BY <1>1, <1>8, Moves DEF Commit
  <2>2. /\ \A x \in receipts' : x \in receipts \/ x.request = request[a]
        /\ \A o \in orders' : o \in orders \/ o.quotation = request[a].quotation
    BY <2>1 DEF Drafted
  <2>3. ASSUME NEW b \in Attempts PROVE Kept(b)'
    <3>1. CASE b = a
      BY <2>1, <3>1 DEF HoldsKey, HoldsQuotation, HoldsSequence
    <3>2. CASE b # a
      <4>1. Kept(b) /\ Apart(b, a) /\ HoldsKey(a) /\ HoldsQuotation(a) /\ HoldsSequence(a)
        BY <1>2, <2>1, <3>2 DEF HoldsKey, HoldsQuotation, HoldsSequence
      <4>2. /\ HoldsKey(b) => request[b].key # request[a].key
            /\ HoldsQuotation(b) => request[b].quotation # request[a].quotation
            /\ ~HoldsSequence(b)
        BY <4>1
      <4> QED BY <2>1, <2>2, <3>2, <4>1, <4>2
              DEF HoldsKey, HoldsQuotation, HoldsSequence, ReceiptsOf, OrdersOf
    <3> QED BY <3>1, <3>2
  <2>4. ASSUME NEW b \in Attempts, NEW d \in Attempts, b # d PROVE Apart(b, d)'
    BY <1>2, <2>1, <2>4 DEF HoldsKey, HoldsQuotation, HoldsSequence
  <2> QED BY <1>3, <1>8, <2>3, <2>4
<1>9. ASSUME NEW a \in Attempts,
             Replay(a) \/ RefuseKey(a) \/ RefuseSource(a) \/ Rollback(a)
      PROVE  Held'
  <2>1. PICK stage \in Ended : Goto(a, stage)
    BY <1>9 DEF Replay, RefuseKey, RefuseSource, Rollback, Ended
  <2>2. UNCHANGED <<orders, receipts, nextValue, drawn, request>>
    BY <1>9 DEF Replay, RefuseKey, RefuseSource, Rollback
  <2> QED BY <1>1, <2>1, <2>2, HeldRelease
<1>10. ASSUME NEW a \in Attempts, Send(a) PROVE Held'
  <2>1. \A b \in Attempts : b # a => request'[b] = request[b]
    BY <1>1, <1>10 DEF Send, TypeOK
  <2>2. Goto(a, "BEGUN") /\ UNCHANGED <<orders, receipts, nextValue, drawn>>
    BY <1>10 DEF Send
  <2> QED BY <1>1, <2>1, <2>2, HeldRelease
<1>11. ASSUME (\E q \in Quotations : Accept(q)) \/ UNCHANGED vars PROVE Held'
  <2>1. UNCHANGED <<orders, receipts, nextValue, drawn, request, pc>>
    BY <1>11 DEF Accept, vars
  <2> QED BY <1>1, <2>1, HeldFrame DEF HoldsKey, HoldsQuotation, HoldsSequence
<1> QED BY <1>4, <1>5, <1>6, <1>7, <1>8, <1>9, <1>10, <1>11 DEF Next, Create

-----------------------------------------------------------------------------
(* Receipts, replies and numbers.                                          *)

\* Only two steps write receipts: both with the lock of the key and for an order.
LEMMA ReceiptsInductive == IInv /\ [Next]_vars => ReceiptsAgree'
<1> SUFFICES ASSUME IInv, [Next]_vars PROVE ReceiptsAgree'
  OBVIOUS
<1>1. TypeOK /\ Held /\ ReceiptsAgree
  BY DEF IInv
<1>2. ASSUME UNCHANGED <<orders, receipts>> PROVE ReceiptsAgree'
  BY <1>1, <1>2 DEF ReceiptsAgree
<1>3. ASSUME NEW a \in Attempts, HoldsKey(a), NEW row \in orders',
             row.quotation = request[a].quotation, row.terms = request[a].terms,
             orders \subseteq orders',
             receipts' = receipts \cup {[request |-> request[a], order |-> row]}
      PROVE  ReceiptsAgree'
  <2>1. \A x \in receipts : x.request.key # request[a].key
    BY <1>1, <1>3 DEF Held, ReceiptsOf
  <2>2. \A x, y \in receipts' : x.request.key = y.request.key => x = y
    BY <1>1, <1>3, <2>1 DEF ReceiptsAgree
  <2>3. \A x \in receipts' : /\ x.order \in orders'
                             /\ x.order.quotation = x.request.quotation
                             /\ x.order.terms = x.request.terms
    BY <1>1, <1>3 DEF ReceiptsAgree
  <2> QED BY <2>2, <2>3 DEF ReceiptsAgree
<1>4. ASSUME NEW a \in Attempts, AnswerExisting(a) PROVE ReceiptsAgree'
  <2>1. PICK o \in OrdersOf(request[a].quotation) :
          /\ o.terms = request[a].terms
          /\ receipts' = receipts \cup {[request |-> request[a], order |-> o]}
    BY <1>4 DEF AnswerExisting
  <2>2. orders' = orders /\ HoldsKey(a)
    BY <1>4 DEF AnswerExisting, HoldsKey
  <2>3. o \in orders' /\ o.quotation = request[a].quotation
    BY <2>1, <2>2 DEF OrdersOf
  <2> QED BY <1>3, <2>1, <2>2, <2>3
<1>5. ASSUME NEW a \in Attempts, Commit(a) PROVE ReceiptsAgree'
  <2>1. /\ HoldsKey(a) /\ orders' = orders \cup {Drafted(a)}
        /\ receipts' = receipts \cup {[request |-> request[a], order |-> Drafted(a)]}
    BY <1>5 DEF Commit, HoldsKey
  <2>2. Drafted(a).quotation = request[a].quotation /\ Drafted(a).terms = request[a].terms
    BY DEF Drafted
  <2> QED BY <1>3, <2>1, <2>2
<1>6. ASSUME NEW a \in Attempts,
             Send(a) \/ BeginNew(a) \/ Replay(a) \/ RefuseKey(a) \/ LockQuotation(a)
             \/ RefuseSource(a) \/ DrawNumber(a) \/ Rollback(a)
      PROVE  ReceiptsAgree'
  BY <1>2, <1>6 DEF Send, BeginNew, Replay, RefuseKey, LockQuotation, RefuseSource,
     DrawNumber, Rollback
<1>7. ASSUME (\E q \in Quotations : Accept(q)) \/ UNCHANGED vars PROVE ReceiptsAgree'
  BY <1>2, <1>7 DEF Accept, vars
<1> QED BY <1>4, <1>5, <1>6, <1>7 DEF Next, Create

LEMMA RepliesInductive == IInv /\ [Next]_vars => RepliesHaveReceipts'
<1> SUFFICES ASSUME IInv, [Next]_vars, NEW b \in Attempts, pc'[b] = "REPLIED"
             PROVE  [request |-> request'[b], order |-> reply'[b]] \in receipts'
  BY DEF RepliesHaveReceipts
<1>1. TypeOK /\ (pc[b] = "REPLIED" => [request |-> request[b], order |-> reply[b]] \in receipts)
  BY DEF IInv, RepliesHaveReceipts
<1> DEFINE Goal == [request |-> request'[b], order |-> reply'[b]] \in receipts'
<1>2. ASSUME pc[b] = "REPLIED", request'[b] = request[b], reply'[b] = reply[b],
             receipts \subseteq receipts'
      PROVE  Goal
  BY <1>1, <1>2
<1>3. ASSUME NEW a \in Attempts, NEW stage, stage # "REPLIED" \/ a # b, Goto(a, stage),
             \A c \in Attempts : c # a => request'[c] = request[c] /\ reply'[c] = reply[c],
             receipts \subseteq receipts'
      PROVE  Goal
  <2>1. a # b /\ pc[b] = "REPLIED"
    BY <1>1, <1>3, Moves
  <2> QED BY <1>2, <1>3, <2>1
<1>4. ASSUME NEW a \in Attempts,
             BeginNew(a) \/ RefuseKey(a) \/ LockQuotation(a) \/ RefuseSource(a)
             \/ DrawNumber(a) \/ Rollback(a)
      PROVE  Goal
  <2>1. UNCHANGED <<request, reply, receipts>>
    BY <1>4 DEF BeginNew, RefuseKey, LockQuotation, RefuseSource, DrawNumber, Rollback
  <2>2. \E stage : stage # "REPLIED" /\ Goto(a, stage)
    BY <1>4 DEF BeginNew, RefuseKey, LockQuotation, RefuseSource, DrawNumber, Rollback
  <2> QED BY <1>3, <2>1, <2>2
<1>5. ASSUME NEW a \in Attempts, Send(a) PROVE Goal
  <2>1. \A c \in Attempts : c # a => request'[c] = request[c]
    BY <1>1, <1>5 DEF Send, TypeOK
  <2> QED BY <1>3, <1>5, <2>1 DEF Send
<1>6. ASSUME NEW a \in Attempts, NEW row, Goto(a, "REPLIED"),
             reply' = [reply EXCEPT ![a] = row], UNCHANGED request,
             receipts \subseteq receipts', [request |-> request[a], order |-> row] \in receipts'
      PROVE  Goal
  <2>1. reply'[a] = row /\ \A c \in Attempts : c # a => reply'[c] = reply[c]
    BY <1>1, <1>6 DEF TypeOK
  <2>2. CASE a = b
    BY <1>6, <2>1, <2>2
  <2>3. CASE a # b
    BY <1>3, <1>6, <2>1, <2>3
  <2> QED BY <2>2, <2>3
<1>7. ASSUME NEW a \in Attempts, Replay(a) PROVE Goal
  <2>1. PICK x \in receipts : x.request = request[a] /\ reply' = [reply EXCEPT ![a] = x.order]
    BY <1>7 DEF Replay, Matches, ReceiptsOf
  <2>2. [request |-> request[a], order |-> x.order] = x
    BY <1>1, <2>1 DEF TypeOK, Receipts
  <2> QED BY <1>6, <1>7, <2>1, <2>2 DEF Replay
<1>8. ASSUME NEW a \in Attempts, AnswerExisting(a) PROVE Goal
  <2>1. PICK o \in OrdersOf(request[a].quotation) :
          /\ receipts' = receipts \cup {[request |-> request[a], order |-> o]}
          /\ reply' = [reply EXCEPT ![a] = o]
    BY <1>8 DEF AnswerExisting
  <2> QED BY <1>6, <1>8, <2>1 DEF AnswerExisting
<1>9. ASSUME NEW a \in Attempts, Commit(a) PROVE Goal
  BY <1>6, <1>9 DEF Commit
<1>10. ASSUME (\E q \in Quotations : Accept(q)) \/ UNCHANGED vars PROVE Goal
  BY <1>2, <1>10 DEF Accept, vars
<1> QED BY <1>4, <1>5, <1>7, <1>8, <1>9, <1>10 DEF Next, Create

\* A number is drawn under the lock of the sequence and committed with its order.
LEMMA CommitNumbers ==
  ASSUME IInv, NEW a \in Attempts, Commit(a)
  PROVE  /\ Drafted(a) \notin orders /\ Drafted(a).number = Cardinality(orders) + 1
         /\ Numbered'
<1>1. /\ TypeOK /\ IsFiniteSet(orders) /\ drawn[a] = nextValue
      /\ nextValue = Cardinality(orders) + 1
      /\ {o.number : o \in orders} = 1..Cardinality(orders)
  BY DEF IInv, Held, Numbered, NumbersHaveNoGaps, Commit, HoldsSequence
<1>2. orders' = orders \cup {Drafted(a)} /\ nextValue' = nextValue + 1
  BY <1>1 DEF Commit
<1>3. Drafted(a).number = nextValue
  BY <1>1 DEF Drafted
<1>4. \A o \in orders : o.number < nextValue /\ o.number \in Nat
  BY DEF IInv, TypeOK, Orders, Numbered
<1>5. Drafted(a) \notin orders
  BY <1>1, <1>3, <1>4 DEF TypeOK
<1>6. IsFiniteSet(orders') /\ Cardinality(orders') = Cardinality(orders) + 1
  BY <1>1, <1>2, <1>5, FS_AddElement
<1>7. Cardinality(orders) \in Nat
  BY <1>1, FS_CardinalityType
<1>8. {o.number : o \in orders'} = 1..Cardinality(orders')
  <2>1. {o.number : o \in orders'} = {o.number : o \in orders} \cup {nextValue}
    BY <1>2, <1>3
  <2>2. 1..(Cardinality(orders) + 1) = 1..Cardinality(orders) \cup {Cardinality(orders) + 1}
    BY <1>7
  <2> QED BY <1>1, <1>6, <2>1, <2>2
<1>9. \A o \in orders' : o.number < nextValue'
  BY <1>1, <1>2, <1>3, <1>4 DEF TypeOK
<1> QED BY <1>1, <1>2, <1>3, <1>5, <1>6, <1>8, <1>9 DEF Numbered, NumbersHaveNoGaps

LEMMA OnlyCommitsNumber ==
  ASSUME IInv, [Next]_vars
  PROVE  UNCHANGED <<orders, nextValue>> \/ \E a \in Attempts : Commit(a)
<1>1. ASSUME NEW a \in Attempts, Send(a) \/ Create(a) \/ Rollback(a), ~Commit(a)
      PROVE  UNCHANGED <<orders, nextValue>>
  BY <1>1 DEF Create, Send, BeginNew, Replay, RefuseKey, LockQuotation, AnswerExisting,
     RefuseSource, DrawNumber, Rollback
<1>2. ASSUME (\E q \in Quotations : Accept(q)) \/ UNCHANGED vars
      PROVE  UNCHANGED <<orders, nextValue>>
  BY <1>2 DEF Accept, vars
<1> QED BY <1>1, <1>2 DEF Next

LEMMA NumberedInductive == IInv /\ [Next]_vars => Numbered'
<1> SUFFICES ASSUME IInv, [Next]_vars PROVE Numbered'
  OBVIOUS
<1>1. CASE UNCHANGED <<orders, nextValue>>
  BY <1>1 DEF IInv, Numbered, NumbersHaveNoGaps
<1>2. ASSUME NEW a \in Attempts, Commit(a) PROVE Numbered'
  BY <1>2, CommitNumbers
<1> QED BY <1>1, <1>2, OnlyCommitsNumber

-----------------------------------------------------------------------------
LEMMA Inductive == Spec => []IInv
<1>1. Init => IInv
  <2> SUFFICES ASSUME Init PROVE IInv
    OBVIOUS
  <2>1. TypeOK
    BY DEF Init, TypeOK, Stages
  <2>2. Held /\ ReceiptsAgree /\ RepliesHaveReceipts
    BY DEF Init, Held, ReceiptsAgree, RepliesHaveReceipts, HoldsKey, HoldsQuotation,
       HoldsSequence
  <2>3. IsFiniteSet(orders) /\ Cardinality(orders) = 0
    BY FS_EmptySet DEF Init
  <2>4. {o.number : o \in orders} = {} /\ 1..0 = {} /\ nextValue = 1
    BY DEF Init
  <2>5. Numbered
    BY <2>3, <2>4 DEF Init, Numbered, NumbersHaveNoGaps
  <2> QED BY <2>1, <2>2, <2>5 DEF IInv
<1>2. IInv /\ [Next]_vars => IInv'
  BY TypeInductive, HeldInductive, ReceiptsInductive, RepliesInductive, NumberedInductive
     DEF IInv
<1> QED BY <1>1, <1>2, PTL DEF Spec

\* The rows, and what the requests carry from one statement to the next, keep to
\* their domains (create).
THEOREM TypeCorrect == Spec => []TypeOK
<1>1. IInv => TypeOK
  BY DEF IInv
<1> QED BY <1>1, Inductive, PTL

\* Requests with one key that succeed are one request with one answer, and the
\* answer is the order that was asked for (begin_command, create).
THEOREM Agreement == Spec => []AnswersAgree
<1>1. IInv => AnswersAgree
  <2> SUFFICES ASSUME IInv, NEW a \in Attempts, NEW b \in Attempts,
                      pc[a] = "REPLIED", pc[b] = "REPLIED"
               PROVE  /\ request[a].key = request[b].key =>
                           request[a] = request[b] /\ reply[a] = reply[b]
                      /\ reply[a] \in orders
                      /\ reply[a].quotation = request[a].quotation
                      /\ reply[a].terms = request[a].terms
    BY DEF AnswersAgree
  <2> DEFINE x == [request |-> request[a], order |-> reply[a]]
             y == [request |-> request[b], order |-> reply[b]]
  <2>1. x \in receipts /\ y \in receipts
    BY DEF IInv, RepliesHaveReceipts
  <2>2. x.request.key = y.request.key => x = y
    BY <2>1 DEF IInv, ReceiptsAgree
  <2>3. x.order \in orders /\ x.order.quotation = x.request.quotation
        /\ x.order.terms = x.request.terms
    BY <2>1 DEF IInv, ReceiptsAgree
  <2> QED BY <2>2, <2>3
<1> QED BY <1>1, Inductive, PTL

\* No unique constraint refuses an order: the locks exclude every collision
\* (create, next_document_number).
THEOREM NoRefusals == Spec => []ConstraintsNeverRefuse
<1>1. IInv => ConstraintsNeverRefuse
  <2> SUFFICES ASSUME IInv, NEW a \in Attempts, pc[a] = "NUMBERED", NEW o \in orders
               PROVE  o.number # Drafted(a).number /\ o.quotation # Drafted(a).quotation
    BY DEF ConstraintsNeverRefuse, Unique
  <2>1. drawn[a] = nextValue /\ OrdersOf(request[a].quotation) = {}
    BY DEF IInv, Held, HoldsSequence, HoldsQuotation
  <2>2. o.number < nextValue /\ o.number \in Nat /\ nextValue \in Nat
    BY DEF IInv, Numbered, TypeOK, Orders
  <2> QED BY <2>1, <2>2 DEF Drafted, OrdersOf
<1> QED BY <1>1, Inductive, PTL

\* The orders are numbered 1, 2, 3... however many requests fail
\* (next_document_number).
THEOREM NoGaps == Spec => []NumbersHaveNoGaps
<1>1. IInv => NumbersHaveNoGaps
  BY DEF IInv, Numbered
<1> QED BY <1>1, Inductive, PTL

\* Every step sends a request, opens an order, answers with one that is there, or
\* changes nothing a client or a reader of the book sees: create implements OrderBook.
THEOREM OrderCreationImplementsBook == Spec => ImplementsOrderBook
<1>1. Init => Book!Init
  BY DEF Init, Book!Init
<1>2. IInv /\ [Next]_vars => [Book!Next]_(Book!bvars)
  <2> SUFFICES ASSUME IInv, [Next]_vars PROVE Book!Next \/ UNCHANGED <<orders, request, reply>>
    BY DEF Book!bvars
  <2>1. TypeOK /\ ReceiptsAgree /\ RepliesHaveReceipts /\ Held
    BY DEF IInv
  <2>2. Book!Requests = Requests
    BY DEF Book!Requests, Requests
  \* Each way to succeed finds that the key answers for this request alone.
  <2>3. ASSUME NEW a \in Attempts, NEW row, pc[a] \notin {"IDLE", "REPLIED"},
               row.quotation = request[a].quotation, row.terms = request[a].terms,
               \A x \in ReceiptsOf(request[a].key) : x.request = request[a],
               reply' = [reply EXCEPT ![a] = row], UNCHANGED request
        PROVE  Book!Answer(a, row)
    <3>1. request[a] \in Book!Requests /\ reply[a] = None
      BY <2>1, <2>2, <2>3 DEF TypeOK
    <3>2. ASSUME NEW b \in Attempts, reply[b] # None, request[b].key = request[a].key
          PROVE  request[b] = request[a]
      <4> DEFINE x == [request |-> request[b], order |-> reply[b]]
      <4>1. pc[b] = "REPLIED"
        BY <2>1, <3>2 DEF TypeOK
      <4>2. x \in receipts
        BY <2>1, <4>1 DEF RepliesHaveReceipts
      <4>3. x \in ReceiptsOf(request[a].key)
        BY <3>2, <4>2 DEF ReceiptsOf
      <4> QED BY <2>3, <4>3
    <3> QED BY <2>3, <3>1, <3>2 DEF Book!Answer
  <2>4. ASSUME NEW a \in Attempts, Commit(a) PROVE Book!Next
    <3>1. ReceiptsOf(request[a].key) = {} /\ OrdersOf(request[a].quotation) = {}
      BY <2>1, <2>4 DEF Held, Commit, HoldsKey, HoldsQuotation
    <3>2. Drafted(a) = [quotation |-> request[a].quotation, terms |-> request[a].terms,
                        number |-> Cardinality(orders) + 1]
      BY <2>4, CommitNumbers DEF Drafted
    <3>3. Book!Cardinality(orders) = Cardinality(orders)
      BY DEF Book!Cardinality, Cardinality
    <3>4. Book!Answer(a, Drafted(a))
      BY <2>3, <2>4, <3>1 DEF Commit, Drafted
    <3>5. \A o \in orders : o.quotation # Drafted(a).quotation
      BY <3>1 DEF OrdersOf, Drafted
    <3>6. Book!Open(a)
      BY <2>4, <3>2, <3>3, <3>4, <3>5 DEF Commit, Book!Open
    <3> QED BY <3>6 DEF Book!Next
  <2>5. ASSUME NEW a \in Attempts, Replay(a) PROVE Book!Next
    <3>1. PICK x \in ReceiptsOf(request[a].key) :
            x.request = request[a] /\ reply' = [reply EXCEPT ![a] = x.order]
      BY <2>5 DEF Replay, Matches
    <3>2. x.order \in orders /\ x.order.quotation = request[a].quotation
          /\ x.order.terms = request[a].terms
      BY <2>1, <3>1 DEF ReceiptsAgree, ReceiptsOf
    <3>3. \A y \in ReceiptsOf(request[a].key) : y.request = request[a]
      BY <2>1, <3>1 DEF ReceiptsAgree, ReceiptsOf
    <3>4. Book!Answer(a, x.order)
      BY <2>3, <2>5, <3>1, <3>2, <3>3 DEF Replay
    <3>5. Book!Again(a)
      BY <2>5, <3>2, <3>4 DEF Replay, Book!Again
    <3> QED BY <3>5 DEF Book!Next
  <2>6. ASSUME NEW a \in Attempts, AnswerExisting(a) PROVE Book!Next
    <3>1. PICK o \in orders : /\ o.quotation = request[a].quotation
                              /\ o.terms = request[a].terms
                              /\ reply' = [reply EXCEPT ![a] = o]
      BY <2>6 DEF AnswerExisting, OrdersOf
    <3>2. ReceiptsOf(request[a].key) = {}
      BY <2>1, <2>6 DEF Held, AnswerExisting, HoldsKey
    <3>3. Book!Answer(a, o)
      BY <2>3, <2>6, <3>1, <3>2 DEF AnswerExisting
    <3>4. Book!Again(a)
      BY <2>6, <3>3 DEF AnswerExisting, Book!Again
    <3> QED BY <3>4 DEF Book!Next
  <2>7. ASSUME NEW a \in Attempts, Send(a) PROVE Book!Next
    <3>1. request[a] = None
      BY <2>1, <2>7 DEF Send, TypeOK
    <3>2. Book!Ask(a)
      BY <2>2, <2>7, <3>1 DEF Send, Book!Ask
    <3> QED BY <3>2 DEF Book!Next
  <2>8. ASSUME NEW a \in Attempts,
               BeginNew(a) \/ RefuseKey(a) \/ LockQuotation(a)
               \/ RefuseSource(a) \/ DrawNumber(a) \/ Rollback(a)
        PROVE  UNCHANGED <<orders, request, reply>>
    BY <2>8 DEF BeginNew, RefuseKey, LockQuotation, RefuseSource, DrawNumber, Rollback
  <2>9. ASSUME (\E q \in Quotations : Accept(q)) \/ UNCHANGED vars
        PROVE  UNCHANGED <<orders, request, reply>>
    BY <2>9 DEF Accept, vars
  <2> QED BY <2>4, <2>5, <2>6, <2>7, <2>8, <2>9 DEF Next, Create
<1> QED BY <1>1, <1>2, Inductive, PTL DEF Spec, ImplementsOrderBook, Book!Spec

=============================================================================
