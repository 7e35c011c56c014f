----------------------------- MODULE OutboxProofs -----------------------------
(***************************************************************************)
(* Proofs about Outbox for any numbers of events, relays, consumers,       *)
(* attempts and faults.                                                    *)
(***************************************************************************)
EXTENDS Outbox, FiniteSetTheorems, TLAPS

LEMMA FirstOfSubset == ASSUME NEW S, NEW n PROVE FirstOf(S, n) \subseteq S
  BY DEF FirstOf

\* Every reachable state is well typed: the rows, the relays' batches and the
\* consumers' tasks stay in the domains outbox.py gives them.
THEOREM TypeCorrect == Spec => []TypeOK
<1> USE EventsAssumption, NoneAssumption, BoundsAssumption
<1>1. Init => TypeOK
  BY DEF Init, TypeOK, Status, Outcome, Phase
<1>2. TypeOK /\ [Next]_vars => TypeOK'
  <2> SUFFICES ASSUME TypeOK, [Next]_vars PROVE TypeOK'
    OBVIOUS
  <2> USE DEF TypeOK, Status, Outcome, Phase, rowVars, relayVars, consumerVars, boundVars
  <2>1. ASSUME NEW e \in Events, Record(e) \/ BackoffElapses(e) PROVE TypeOK'
    <3>1. CASE Record(e)
      BY <3>1 DEF Record
    <3>2. CASE BackoffElapses(e)
      BY <3>2 DEF BackoffElapses
    <3> QED BY <2>1, <3>1, <3>2
  <2>2. ASSUME NEW e \in Events, RecoverUnconsumed(e) PROVE TypeOK'
    BY <2>2 DEF RecoverUnconsumed
  <2>3. ASSUME NEW e \in Events, Replay(e) PROVE TypeOK'
    BY <2>3 DEF Replay
  <2>4. ASSUME NEW e \in Events, BrokerLoses(e) PROVE TypeOK'
    BY <2>4 DEF BrokerLoses
  <2>5. ASSUME NEW r \in Relays, ClaimBatch(r) PROVE TypeOK'
    <3> DEFINE S == FirstOf(Due, BatchLimit)
    <3>1. S \subseteq Events
      BY FirstOfSubset DEF Due
    <3> HIDE DEF S
    <3>2. /\ status' = [e \in Events |-> IF e \in S THEN "PROCESSING" ELSE status[e]]
          /\ attempts' = [e \in Events |->
                            IF e \in S THEN attempts[e] + 1 ELSE attempts[e]]
          /\ locked' = locked \cup S
          /\ batch' = [batch EXCEPT ![r] = S]
          /\ UNCHANGED <<waiting, outcome, queue, consumerVars, handed, boundVars>>
      BY <2>5 DEF ClaimBatch, S
    <3>3. status' \in [Events -> Status] /\ attempts' \in [Events -> Nat]
      BY <3>2
    <3> QED BY <3>1, <3>2, <3>3
  <2>6. ASSUME NEW r \in Relays, PublishAccepted(r) \/ PublishRaised(r) PROVE TypeOK'
    <3>1. Current(r) \subseteq Events
      BY FirstOfSubset DEF Current
    <3>2. /\ \/ UNCHANGED <<queue, handed>>
             \/ \E e \in Current(r) : queue' = queue \cup {e} /\ handed' = handed \cup {e}
          /\ \E v \in Outcome : outcome' = [outcome EXCEPT ![r] = v]
          /\ UNCHANGED <<rowVars, batch, consumerVars, boundVars>>
      BY <2>6 DEF PublishAccepted, PublishRaised
    <3>3. queue' \in SUBSET Events /\ handed' \in SUBSET Events
      BY <3>1, <3>2
    <3>4. outcome' \in [Relays -> Outcome]
      BY <3>2
    <3> QED BY <3>2, <3>3, <3>4
  <2>7. ASSUME NEW r \in Relays, MarkPublished(r) \/ MarkFailed(r) PROVE TypeOK'
    <3>1. PICK e \in Events :
            /\ NextMessage(r, e)
            /\ \/ UNCHANGED rowVars
               \/ /\ UNCHANGED attempts
                  /\ locked' = locked \ {e}
                  /\ waiting' \in {waiting, waiting \cup {e}}
                  /\ \E v \in Status : status' = [status EXCEPT ![e] = v]
      BY <2>7, FirstOfSubset DEF MarkPublished, MarkFailed, Current
    <3>2. batch[r] \ {e} \in SUBSET Events
      OBVIOUS
    <3>3. /\ batch' = [batch EXCEPT ![r] = batch[r] \ {e}]
          /\ outcome' = [outcome EXCEPT ![r] = "none"]
          /\ UNCHANGED <<queue, consumerVars, handed, boundVars>>
      BY <3>1 DEF NextMessage
    <3>4. batch' \in [Relays -> SUBSET Events]
      BY <3>2, <3>3
    <3>5. outcome' \in [Relays -> Outcome]
      BY <3>3
    <3>6. status' \in [Events -> Status]
      BY <3>1
    <3>7. attempts' \in [Events -> Nat]
      BY <3>1
    <3>8. locked' \in SUBSET Events /\ waiting' \in SUBSET Events
      BY <3>1
    <3> QED BY <3>3, <3>4, <3>5, <3>6, <3>7, <3>8
  <2>8. ASSUME NEW r \in Relays, RelayDies(r) PROVE TypeOK'
    BY <2>8 DEF RelayDies
  <2>9. CASE RecoverStale
    BY <2>9 DEF RecoverStale
  <2>10. ASSUME NEW c \in Consumers, NEW e \in Events, Receive(c, e) PROVE TypeOK'
    BY <2>10 DEF Receive
  <2>11. ASSUME NEW c \in Consumers, InsertReceipt(c) \/ SkipDuplicate(c) PROVE TypeOK'
    BY <2>11 DEF InsertReceipt, SkipDuplicate
  <2>12. ASSUME NEW c \in Consumers, CommitHandler(c) PROVE TypeOK'
    <3>1. task[c] \in Events
      BY <2>12 DEF CommitHandler
    <3>2. receipts' \in SUBSET Events
      BY <2>12, <3>1 DEF CommitHandler
    <3>3. effects[task[c]] \in Nat
      BY <3>1
    <3>4. effects' = [effects EXCEPT ![task[c]] = effects[task[c]] + 1]
      BY <2>12 DEF CommitHandler
    <3>5. effects' \in [Events -> Nat]
      BY <3>1, <3>3, <3>4
    <3> QED BY <2>12, <3>1, <3>2, <3>5 DEF CommitHandler
  <2>13. ASSUME NEW c \in Consumers, HandlerRaises(c) \/ Acknowledge(c) PROVE TypeOK'
    BY <2>13 DEF HandlerRaises, Acknowledge
  <2>14. ASSUME NEW c \in Consumers, ConsumerDies(c) PROVE TypeOK'
    <3>1. task[c] \in Events
      BY <2>14 DEF ConsumerDies
    <3>2. faults' \in 0..MaxFaults
      BY <2>14 DEF ConsumerDies
    <3> QED BY <2>14, <3>1, <3>2 DEF ConsumerDies
  <2>15. CASE UNCHANGED vars
    BY <2>15 DEF vars
  <2> QED
    BY <2>1, <2>2, <2>3, <2>4, <2>5, <2>6, <2>7, <2>8, <2>9, <2>10, <2>11, <2>12,
       <2>13, <2>14, <2>15 DEF Next, RelayStep, ConsumerStep
<1> QED
  BY <1>1, <1>2, PTL DEF Spec

-----------------------------------------------------------------------------
(* A handler that runs holds the only uncommitted receipt of its event, and *)
(* there is no committed one: what makes EffectMatchesReceipt inductive.    *)

HandlingAlone ==
  \A c \in Consumers : phase[c] = "handling" =>
    /\ task[c] \notin receipts
    /\ \A d \in Consumers : phase[d] = "handling" /\ task[d] = task[c] => d = c

EffectInv == HandlingAlone /\ EffectMatchesReceipt

LEMMA EffectInvariant == Spec => []EffectInv
<1>1. Init => EffectInv
  BY DEF Init, EffectInv, HandlingAlone, EffectMatchesReceipt
<1>2. TypeOK /\ EffectInv /\ [Next]_vars => EffectInv'
  <2> SUFFICES ASSUME TypeOK, EffectInv, [Next]_vars PROVE EffectInv'
    OBVIOUS
  <2> USE DEF EffectInv, HandlingAlone, EffectMatchesReceipt
  <2>1. CASE UNCHANGED consumerVars
    BY <2>1 DEF consumerVars
  <2>2. ASSUME NEW c \in Consumers, NEW e \in Events, Receive(c, e) PROVE EffectInv'
    BY <2>2 DEF Receive, TypeOK, Phase
  <2>3. ASSUME NEW c \in Consumers, InsertReceipt(c) PROVE EffectInv'
    BY <2>3 DEF InsertReceipt, ReceiptPending, TypeOK, Phase
  <2>4. ASSUME NEW c \in Consumers, SkipDuplicate(c) PROVE EffectInv'
    BY <2>4 DEF SkipDuplicate, TypeOK, Phase
  <2>5. ASSUME NEW c \in Consumers, CommitHandler(c) PROVE EffectInv'
    <3>1. task[c] \in Events /\ task[c] \notin receipts /\ phase[c] = "handling"
      BY <2>5 DEF CommitHandler, TypeOK
    <3>2. /\ receipts' = receipts \cup {task[c]}
          /\ effects' = [effects EXCEPT ![task[c]] = effects[task[c]] + 1]
          /\ phase' = [phase EXCEPT ![c] = "returned"]
          /\ task' = task
      BY <2>5 DEF CommitHandler
    <3>3. \A d \in Consumers : phase'[d] = "handling" => d # c /\ phase[d] = "handling"
      BY <3>2 DEF TypeOK
    <3>4. \A d \in Consumers : phase'[d] = "handling" => task[d] \notin receipts'
      BY <3>1, <3>2, <3>3
    <3>5. HandlingAlone'
      BY <3>2, <3>3, <3>4
    <3>6. EffectMatchesReceipt'
      BY <3>1, <3>2 DEF TypeOK
    <3> QED BY <3>5, <3>6
  <2>6. ASSUME NEW c \in Consumers, HandlerRaises(c) \/ Acknowledge(c) PROVE EffectInv'
    BY <2>6 DEF HandlerRaises, Acknowledge, TypeOK, Phase
  <2>7. ASSUME NEW c \in Consumers, ConsumerDies(c) PROVE EffectInv'
    BY <2>7 DEF ConsumerDies, TypeOK, Phase
  <2>8. CASE Next
    <3>1. ASSUME NEW e \in Events,
                 Record(e) \/ BackoffElapses(e) \/ RecoverUnconsumed(e)
                   \/ Replay(e) \/ BrokerLoses(e)
          PROVE UNCHANGED consumerVars
      BY <3>1 DEF Record, BackoffElapses, RecoverUnconsumed, Replay, BrokerLoses
    <3>2. ASSUME NEW r \in Relays, RelayStep(r) \/ RelayDies(r)
          PROVE UNCHANGED consumerVars
      BY <3>2 DEF RelayStep, RelayDies, ClaimBatch, PublishAccepted, PublishRaised,
                  MarkPublished, MarkFailed, NextMessage
    <3>3. RecoverStale => UNCHANGED consumerVars
      BY DEF RecoverStale
    <3> QED BY <2>1, <2>2, <2>3, <2>4, <2>5, <2>6, <2>7, <2>8, <3>1, <3>2, <3>3
            DEF Next, ConsumerStep
  <2> QED BY <2>1, <2>8 DEF vars
<1> QED
  BY <1>1, <1>2, TypeCorrect, PTL DEF Spec

\* Redeliveries, republications and concurrent consumers never commit an effect
\* twice, for any number of them and without assuming the relay's time limit.
THEOREM EffectOnce == Spec => []EffectMatchesReceipt
<1>1. EffectInv => EffectMatchesReceipt
  BY DEF EffectInv
<1> QED
  BY <1>1, EffectInvariant, PTL

-----------------------------------------------------------------------------
\* With the hard time limit a row in a relay's batch is PROCESSING and locked and
\* in no other batch, so every mark lands on the claim that its relay made.
THEOREM ClaimsExclusive ==
  ASSUME TimeLimited
  PROVE  Spec => []ClaimsAreExclusive
<1> USE DEF ClaimsAreExclusive, Locked
<1>1. Init => ClaimsAreExclusive
  BY DEF Init
<1>2. TypeOK /\ ClaimsAreExclusive /\ [Next]_vars => ClaimsAreExclusive'
  <2> SUFFICES ASSUME TypeOK, ClaimsAreExclusive, [Next]_vars
               PROVE  ClaimsAreExclusive'
    OBVIOUS
  <2> USE DEF TypeOK, rowVars, relayVars
  <2>1. ASSUME NEW e \in Events,
               \/ Record(e) \/ BackoffElapses(e) \/ RecoverUnconsumed(e)
               \/ Replay(e) \/ BrokerLoses(e)
        PROVE  ClaimsAreExclusive'
    BY <2>1 DEF Record, BackoffElapses, RecoverUnconsumed, Replay, BrokerLoses
  <2>2. ASSUME NEW r \in Relays, ClaimBatch(r) PROVE ClaimsAreExclusive'
    <3> DEFINE S == FirstOf(Due, BatchLimit)
    <3>1. S \subseteq Events /\ \A e \in S : status[e] = "PENDING"
      BY FirstOfSubset DEF Due
    <3>2. /\ status' = [e \in Events |-> IF e \in S THEN "PROCESSING" ELSE status[e]]
          /\ locked' = locked \cup S
          /\ batch' = [batch EXCEPT ![r] = S]
      BY <2>2 DEF ClaimBatch
    <3> HIDE DEF S
    <3>3. \A p \in Relays : batch[p] \cap S = {}
      BY <3>1
    <3> QED BY <3>1, <3>2, <3>3
  <2>3. ASSUME NEW r \in Relays, PublishAccepted(r) \/ PublishRaised(r)
        PROVE  ClaimsAreExclusive'
    BY <2>3 DEF PublishAccepted, PublishRaised
  <2>4. ASSUME NEW r \in Relays, MarkPublished(r) \/ MarkFailed(r)
        PROVE  ClaimsAreExclusive'
    <3>1. PICK e \in batch[r] :
            /\ batch' = [batch EXCEPT ![r] = batch[r] \ {e}]
            /\ \A f \in Events \ {e} :
                 status'[f] = status[f] /\ (f \in locked' <=> f \in locked)
      BY <2>4, FirstOfSubset DEF MarkPublished, MarkFailed, NextMessage, Current
    <3>2. \A p \in Relays : batch'[p] \subseteq batch[p] /\ e \notin batch'[p]
      BY <3>1
    <3> QED BY <3>1, <3>2
  <2>5. ASSUME NEW r \in Relays, RelayDies(r) PROVE ClaimsAreExclusive'
    BY <2>5 DEF RelayDies
  <2>6. CASE RecoverStale
    BY <2>6 DEF RecoverStale, MayBeStale, Held
  <2>7. ASSUME NEW c \in Consumers, ConsumerStep(c) \/ ConsumerDies(c)
        PROVE  ClaimsAreExclusive'
    BY <2>7 DEF ConsumerStep, ConsumerDies, Receive, InsertReceipt, SkipDuplicate,
                CommitHandler, HandlerRaises, Acknowledge
  <2>8. CASE UNCHANGED vars
    BY <2>8 DEF vars
  <2> QED BY <2>1, <2>2, <2>3, <2>4, <2>5, <2>6, <2>7, <2>8 DEF Next, RelayStep
<1> QED
  BY <1>1, <1>2, TypeCorrect, PTL DEF Spec

-----------------------------------------------------------------------------
\* Only recorded events travel: what is in a batch, at the broker or with a
\* consumer has a row.
Recorded(e) == status[e] # "ABSENT"

OnlyRecordedTravel ==
  /\ \A e \in queue : Recorded(e)
  /\ \A c \in Consumers : task[c] # None => Recorded(task[c])
  /\ \A r \in Relays : \A e \in batch[r] : Recorded(e)

LEMMA RecordedForever ==
  ASSUME TypeOK, OnlyRecordedTravel, [Next]_vars
  PROVE  \A e \in Events : Recorded(e) => Recorded(e)'
<1> USE DEF TypeOK, Recorded, rowVars
<1>1. ASSUME NEW e \in Events,
             \/ Record(e) \/ BackoffElapses(e) \/ RecoverUnconsumed(e)
             \/ Replay(e) \/ BrokerLoses(e)
      PROVE  \A f \in Events : Recorded(f) => Recorded(f)'
  BY <1>1 DEF Record, BackoffElapses, RecoverUnconsumed, Replay, BrokerLoses
<1>2. ASSUME NEW r \in Relays, RelayStep(r) \/ RelayDies(r)
      PROVE  \A f \in Events : Recorded(f) => Recorded(f)'
  BY <1>2 DEF RelayStep, RelayDies, ClaimBatch, PublishAccepted, PublishRaised,
              MarkPublished, MarkFailed
<1>3. RecoverStale => \A f \in Events : Recorded(f) => Recorded(f)'
  BY DEF RecoverStale
<1>4. ASSUME NEW c \in Consumers, ConsumerStep(c) \/ ConsumerDies(c)
      PROVE  UNCHANGED rowVars
  BY <1>4 DEF ConsumerStep, ConsumerDies, Receive, InsertReceipt, SkipDuplicate,
              CommitHandler, HandlerRaises, Acknowledge
<1> QED BY <1>1, <1>2, <1>3, <1>4 DEF Next, vars

LEMMA TravelInvariant == Spec => []OnlyRecordedTravel
<1>1. Init => OnlyRecordedTravel
  BY DEF Init, OnlyRecordedTravel
<1>2. TypeOK /\ OnlyRecordedTravel /\ [Next]_vars => OnlyRecordedTravel'
  <2> SUFFICES ASSUME TypeOK, OnlyRecordedTravel, [Next]_vars
               PROVE  OnlyRecordedTravel'
    OBVIOUS
  <2>1. \A e \in Events : Recorded(e) => Recorded(e)'
    BY RecordedForever
  <2>2. ASSUME NEW r \in Relays, ClaimBatch(r) PROVE OnlyRecordedTravel'
    <3>1. \A e \in FirstOf(Due, BatchLimit) : Recorded(e)
      BY FirstOfSubset DEF Due, Recorded
    <3>2. FirstOf(Due, BatchLimit) \subseteq Events
      BY FirstOfSubset DEF Due
    <3> QED BY <2>1, <2>2, <3>1, <3>2 DEF ClaimBatch, OnlyRecordedTravel, TypeOK, consumerVars
  <2>3. ASSUME NEW r \in Relays, PublishAccepted(r) \/ PublishRaised(r)
        PROVE  OnlyRecordedTravel'
    BY <2>1, <2>3, FirstOfSubset DEF PublishAccepted, PublishRaised, Current,
       OnlyRecordedTravel, TypeOK, consumerVars
  <2>4. ASSUME NEW r \in Relays, MarkPublished(r) \/ MarkFailed(r) \/ RelayDies(r)
        PROVE  OnlyRecordedTravel'
    <3>1. UNCHANGED <<queue, task>> /\ \A p \in Relays : batch'[p] \subseteq batch[p]
      BY <2>4 DEF MarkPublished, MarkFailed, NextMessage, RelayDies, TypeOK, consumerVars
    <3> QED BY <2>1, <3>1 DEF OnlyRecordedTravel, TypeOK
  <2>5. ASSUME NEW c \in Consumers, ConsumerStep(c) \/ ConsumerDies(c)
        PROVE  OnlyRecordedTravel'
    BY <2>1, <2>5 DEF ConsumerStep, ConsumerDies, Receive, InsertReceipt, SkipDuplicate,
       CommitHandler, HandlerRaises, Acknowledge, OnlyRecordedTravel, TypeOK, relayVars
  <2>6. CASE queue' \subseteq queue /\ UNCHANGED <<relayVars, task>>
    BY <2>1, <2>6 DEF OnlyRecordedTravel, TypeOK, relayVars
  <2>7. ASSUME NEW e \in Events,
               \/ Record(e) \/ BackoffElapses(e) \/ RecoverUnconsumed(e)
               \/ Replay(e) \/ BrokerLoses(e)
        PROVE  queue' \subseteq queue /\ UNCHANGED <<relayVars, task>>
    BY <2>7 DEF Record, BackoffElapses, RecoverUnconsumed, Replay, BrokerLoses,
       consumerVars
  <2>8. RecoverStale => UNCHANGED <<queue, relayVars, task>>
    BY DEF RecoverStale, consumerVars
  <2> QED BY <2>2, <2>3, <2>4, <2>5, <2>6, <2>7, <2>8
          DEF Next, RelayStep, vars, consumerVars
<1> QED
  BY <1>1, <1>2, TypeCorrect, PTL DEF Spec

\* The outbox, with its relays, broker and consumers, implements the promise of
\* EventDelivery, with or without the relay's time limit.
THEOREM OutboxImplementsDelivery == Spec => ImplementsDelivery
<1> USE DEF Place, TypeOK, Status
<1>1. Init => Delivery!Init
  BY DEF Init, Delivery!Init
<1>2. TypeOK /\ OnlyRecordedTravel /\ EffectInv /\ [Next]_vars
        => [Delivery!Next]_(Delivery!dvars)
  <2> SUFFICES ASSUME TypeOK, OnlyRecordedTravel, EffectInv, [Next]_vars
               PROVE  [Delivery!Next]_(Delivery!dvars)
    OBVIOUS
  <2> USE DEF Delivery!Next, Delivery!dvars, rowVars, consumerVars
  <2>1. ASSUME UNCHANGED effects, \A e \in Events : Place(e)' = Place(e)
        PROVE  [Delivery!Next]_(Delivery!dvars)
    <3>1. [e \in Events |-> Place(e)]' = [e \in Events |-> Place(e)]
      BY <2>1
    <3> QED BY <2>1, <3>1
  <2>2. ASSUME NEW e \in Events, Record(e) PROVE Delivery!Record(e)
    BY <2>2 DEF Record, Delivery!Record
  <2>3. ASSUME NEW e \in Events, Replay(e) PROVE Delivery!Resume(e)
    BY <2>3 DEF Replay, Delivery!Resume
  <2>4. ASSUME NEW e \in Events, RecoverUnconsumed(e)
        PROVE  Delivery!SetAside(e) \/ UNCHANGED Delivery!dvars
    <3>1. CASE Exhausted(e)
      BY <2>4, <3>1 DEF RecoverUnconsumed, Delivery!SetAside
    <3>2. CASE ~Exhausted(e)
      BY <2>4, <3>2 DEF RecoverUnconsumed
    <3> QED BY <3>1, <3>2
  <2>5. ASSUME NEW r \in Relays, MarkFailed(r)
        PROVE  (\E e \in Events : Delivery!SetAside(e)) \/ UNCHANGED Delivery!dvars
    <3>1. PICK e \in Events :
            /\ UNCHANGED effects
            /\ \/ UNCHANGED status
               \/ status[e] = "PROCESSING" /\ status' = [status EXCEPT ![e] = "DEAD"]
               \/ status[e] = "PROCESSING" /\ status' = [status EXCEPT ![e] = "PENDING"]
      BY <2>5, FirstOfSubset DEF MarkFailed, Current, Locked, NextMessage
    <3>2. CASE status[e] = "PROCESSING" /\ status' = [status EXCEPT ![e] = "DEAD"]
      BY <3>1, <3>2 DEF Delivery!SetAside
    <3>3. CASE status' # [status EXCEPT ![e] = "DEAD"]
      BY <3>1, <3>3
    <3> QED BY <3>1, <3>2, <3>3
  <2>6. ASSUME NEW c \in Consumers, CommitHandler(c) PROVE Delivery!Apply(task[c])
    <3>1. task[c] \in Events /\ Recorded(task[c]) /\ effects[task[c]] = 0
      BY <2>6, NoneAssumption DEF CommitHandler, OnlyRecordedTravel, EffectInv, HandlingAlone,
         EffectMatchesReceipt
    <3> QED BY <2>6, <3>1 DEF CommitHandler, Delivery!Apply, Recorded
  <2>7. ASSUME NEW r \in Relays, \/ ClaimBatch(r) \/ PublishAccepted(r)
                                 \/ PublishRaised(r) \/ MarkPublished(r) \/ RelayDies(r)
        PROVE  UNCHANGED effects /\ \A e \in Events : Place(e)' = Place(e)
    <3>1. CASE ClaimBatch(r)
      <4>1. \A e \in FirstOf(Due, BatchLimit) : status[e] = "PENDING"
        BY FirstOfSubset DEF Due
      <4>2. \A e \in Events : \/ status'[e] = status[e]
                              \/ status[e] = "PENDING" /\ status'[e] = "PROCESSING"
        BY <3>1, <4>1 DEF ClaimBatch
      <4> QED BY <3>1, <4>2 DEF ClaimBatch
    <3>2. CASE PublishAccepted(r) \/ PublishRaised(r) \/ RelayDies(r)
      BY <3>2 DEF PublishAccepted, PublishRaised, RelayDies
    <3>3. CASE MarkPublished(r)
      BY <3>3 DEF MarkPublished, Locked, NextMessage
    <3> QED BY <2>7, <3>1, <3>2, <3>3
  <2>8. RecoverStale => UNCHANGED effects /\ \A e \in Events : Place(e)' = Place(e)
    BY DEF RecoverStale, MayBeStale
  <2>9. ASSUME NEW e \in Events, BackoffElapses(e) \/ BrokerLoses(e)
        PROVE  UNCHANGED <<effects, status>>
    BY <2>9 DEF BackoffElapses, BrokerLoses
  <2>10. ASSUME NEW c \in Consumers, ConsumerDies(c) \/ (ConsumerStep(c) /\ ~CommitHandler(c))
         PROVE  UNCHANGED <<effects, status>>
    BY <2>10 DEF ConsumerStep, ConsumerDies, Receive, InsertReceipt, SkipDuplicate,
       HandlerRaises, Acknowledge
  <2>11. UNCHANGED <<effects, status>>
           => UNCHANGED effects /\ \A e \in Events : Place(e)' = Place(e)
    OBVIOUS
  <2>12. UNCHANGED vars => UNCHANGED <<effects, status>>
    BY DEF vars
  <2>13. ASSUME NEW c \in Consumers, CommitHandler(c) PROVE task[c] \in Events
    BY <2>13 DEF CommitHandler
  <2> QED
    BY <2>1, <2>2, <2>3, <2>4, <2>5, <2>6, <2>7, <2>8, <2>9, <2>10, <2>11, <2>12, <2>13
       DEF Next, RelayStep
<1> QED
  BY <1>1, <1>2, TypeCorrect, TravelInvariant, EffectInvariant, PTL
     DEF Spec, ImplementsDelivery, Delivery!Spec

-----------------------------------------------------------------------------
(* A relay whose publish was accepted has handed over the message that it   *)
(* marks next: what makes StatusIsTruthful inductive.                       *)

LEMMA FirstIsOne ==
  ASSUME NEW S \in SUBSET Events, NEW d \in FirstOf(S, 1), NEW e \in FirstOf(S, 1)
  PROVE  d = e
<1>1. ASSUME NEW f \in FirstOf(S, 1), NEW g \in FirstOf(S, 1) PROVE ~(g < f)
  <2> DEFINE L == {h \in S : h < f}
  <2>1. IsFiniteSet(L)
    BY FS_Subset, EventsAssumption
  <2>2. Cardinality(L) < 1 /\ g \in S
    BY DEF FirstOf
  <2>3. Cardinality(L) = 0
    BY <2>1, <2>2, FS_CardinalityType
  <2>4. L = {}
    BY <2>1, <2>3, FS_EmptySet
  <2> QED BY <2>2, <2>4
<1>2. d \in Nat /\ e \in Nat
  BY FirstOfSubset, EventsAssumption
<1> QED BY <1>1, <1>2

AcceptedWasHandedOver ==
  \A r \in Relays :
    /\ outcome[r] = "accepted" => Current(r) \subseteq handed
    /\ batch[r] = {} => outcome[r] = "none"

TruthInv == StatusIsTruthful /\ AcceptedWasHandedOver

\* Whatever relays, recoveries and replays do, PUBLISHED follows a hand-over and
\* DEAD follows max_attempts claims.
THEOREM StatusTruthful == Spec => []StatusIsTruthful
<1>1. Init => TruthInv
  BY DEF Init, TruthInv, StatusIsTruthful, AcceptedWasHandedOver
<1>2. TypeOK /\ TruthInv /\ [Next]_vars => TruthInv'
  <2> SUFFICES ASSUME TypeOK, TruthInv, [Next]_vars PROVE TruthInv'
    OBVIOUS
  <2> USE DEF TruthInv, rowVars, relayVars
  <2>1. ASSUME NEW e \in Events,
               \/ Record(e) \/ BackoffElapses(e) \/ RecoverUnconsumed(e)
               \/ Replay(e) \/ BrokerLoses(e)
        PROVE  TruthInv'
    <3>1. StatusIsTruthful'
      BY <2>1 DEF Record, BackoffElapses, RecoverUnconsumed, Exhausted, Replay,
         BrokerLoses, StatusIsTruthful, TypeOK
    <3>2. UNCHANGED <<relayVars, handed>>
      BY <2>1 DEF Record, BackoffElapses, RecoverUnconsumed, Replay, BrokerLoses
    <3> QED BY <3>1, <3>2 DEF AcceptedWasHandedOver, Current
  <2>2. ASSUME NEW r \in Relays, ClaimBatch(r) PROVE TruthInv'
    <3>1. \A e \in Events : status'[e] # "PROCESSING" =>
             status'[e] = status[e] /\ attempts'[e] = attempts[e]
      BY <2>2 DEF ClaimBatch, TypeOK
    <3>2. StatusIsTruthful'
      BY <2>2, <3>1 DEF ClaimBatch, StatusIsTruthful
    <3>3. outcome[r] = "none" /\ UNCHANGED <<outcome, handed>>
      BY <2>2 DEF ClaimBatch, AcceptedWasHandedOver
    <3>4. \A p \in Relays : p # r => batch'[p] = batch[p]
      BY <2>2 DEF ClaimBatch, TypeOK
    <3> QED BY <3>2, <3>3, <3>4 DEF AcceptedWasHandedOver, Current
  <2>3. ASSUME NEW r \in Relays, PublishAccepted(r) \/ PublishRaised(r) PROVE TruthInv'
    <3>1. /\ handed \subseteq handed' /\ UNCHANGED <<rowVars, batch>>
          /\ \A p \in Relays : p # r => outcome'[p] = outcome[p]
          /\ outcome'[r] = "accepted" => Current(r) \cap handed' # {}
          /\ Current(r) # {}
      BY <2>3 DEF PublishAccepted, PublishRaised, TypeOK
    <3>2. batch[r] \in SUBSET Events
      BY DEF TypeOK
    <3>3. \A d \in Current(r), e \in Current(r) : d = e
      BY <3>2, FirstIsOne DEF Current
    <3>4. outcome'[r] = "accepted" => Current(r) \subseteq handed'
      BY <3>1, <3>3
    <3>5. batch[r] # {}
      BY <3>1, FirstOfSubset DEF Current
    <3>6. StatusIsTruthful'
      BY <3>1 DEF StatusIsTruthful
    <3>7. AcceptedWasHandedOver'
      BY <3>1, <3>4, <3>5 DEF AcceptedWasHandedOver, Current
    <3> QED BY <3>6, <3>7
  <2>4. ASSUME NEW r \in Relays, MarkPublished(r) \/ MarkFailed(r) PROVE TruthInv'
    <3>1. PICK e \in Current(r) :
            /\ NextMessage(r, e) /\ UNCHANGED attempts
            /\ \/ UNCHANGED status
               \/ outcome[r] = "accepted" /\ status' = [status EXCEPT ![e] = "PUBLISHED"]
               \/ Exhausted(e) /\ status' = [status EXCEPT ![e] = "DEAD"]
               \/ status' = [status EXCEPT ![e] = "PENDING"]
      BY <2>4 DEF MarkPublished, MarkFailed
    <3>2. outcome[r] = "accepted" => e \in handed
      BY DEF AcceptedWasHandedOver
    <3>3. e \in Events /\ handed' = handed
      BY <3>1, FirstOfSubset DEF Current, TypeOK, NextMessage
    <3>4. StatusIsTruthful'
      BY <3>1, <3>2, <3>3 DEF StatusIsTruthful, Exhausted, TypeOK
    <3>5. \A p \in Relays : IF p = r THEN outcome'[p] = "none"
                            ELSE outcome'[p] = outcome[p] /\ batch'[p] = batch[p]
      BY <3>1 DEF NextMessage, TypeOK
    <3>6. AcceptedWasHandedOver'
      BY <3>3, <3>5 DEF AcceptedWasHandedOver, Current
    <3> QED BY <3>4, <3>6
  <2>5. ASSUME NEW r \in Relays, RelayDies(r) PROVE TruthInv'
    <3>1. \A p \in Relays : IF p = r THEN outcome'[p] = "none"
                            ELSE outcome'[p] = outcome[p] /\ batch'[p] = batch[p]
      BY <2>5 DEF RelayDies, TypeOK
    <3>2. UNCHANGED <<rowVars, handed>>
      BY <2>5 DEF RelayDies
    <3> QED BY <3>1, <3>2 DEF StatusIsTruthful, AcceptedWasHandedOver, Current
  <2>6. CASE RecoverStale
    <3>1. StatusIsTruthful'
      BY <2>6 DEF RecoverStale, StatusIsTruthful, TypeOK
    <3>2. UNCHANGED <<relayVars, handed>>
      BY <2>6 DEF RecoverStale
    <3> QED BY <3>1, <3>2 DEF AcceptedWasHandedOver, Current
  <2>7. ASSUME NEW c \in Consumers, ConsumerStep(c) \/ ConsumerDies(c) PROVE TruthInv'
    <3>1. UNCHANGED <<rowVars, relayVars, handed>>
      BY <2>7 DEF ConsumerStep, ConsumerDies, Receive, InsertReceipt, SkipDuplicate,
         CommitHandler, HandlerRaises, Acknowledge
    <3> QED BY <3>1 DEF StatusIsTruthful, AcceptedWasHandedOver, Current
  <2>8. CASE UNCHANGED vars
    BY <2>8 DEF vars, StatusIsTruthful, AcceptedWasHandedOver, Current
  <2> QED BY <2>1, <2>2, <2>3, <2>4, <2>5, <2>6, <2>7, <2>8 DEF Next, RelayStep
<1>3. TruthInv => StatusIsTruthful
  BY DEF TruthInv
<1> QED
  BY <1>1, <1>2, <1>3, TypeCorrect, PTL DEF Spec

-----------------------------------------------------------------------------
(* Every claim beyond max_attempts is paid for by the death of a relay: a   *)
(* row that can be claimed, or that recover_stale can take back, has an     *)
(* attempt left.                                                            *)

Claimable(e) ==
  \/ status[e] \in {"ABSENT", "PENDING"}
  \/ status[e] = "PROCESSING" /\ ~Held(e)

AttemptsInv ==
  \A e \in Events :
    /\ attempts[e] <= MaxAttempts + deaths
    /\ Claimable(e) => attempts[e] < MaxAttempts + deaths

\* Under the hard time limit the claims of a row since it was recorded or
\* replayed are bounded by max_attempts and the deaths of relays
\* (claim_batch, recover_stale, recover_unconsumed, replay).
THEOREM Bounded == ASSUME TimeLimited PROVE Spec => []AttemptsBounded
<1> USE BoundsAssumption
<1>1. Init => AttemptsInv
  BY DEF Init, AttemptsInv
<1>2. TypeOK /\ ClaimsAreExclusive /\ AttemptsInv /\ [Next]_vars => AttemptsInv'
  <2> SUFFICES ASSUME TypeOK, ClaimsAreExclusive, AttemptsInv, [Next]_vars
               PROVE  AttemptsInv'
    OBVIOUS
  <2> USE DEF TypeOK, rowVars, relayVars, boundVars
  <2> DEFINE Bound == MaxAttempts + deaths
  <2>0. Bound \in Nat /\ \A e \in Events : attempts[e] \in Nat
    OBVIOUS
  <2>1. ASSUME NEW e \in Events,
               \/ Record(e) \/ BackoffElapses(e) \/ BrokerLoses(e)
               \/ RecoverUnconsumed(e) \/ Replay(e)
        PROVE  AttemptsInv'
    <3>1. /\ UNCHANGED <<batch, deaths>>
          /\ \A f \in Events \ {e} : status'[f] = status[f] /\ attempts'[f] = attempts[f]
          /\ \/ attempts'[e] = attempts[e] /\ status'[e] = status[e]
             \/ attempts'[e] = attempts[e] /\ status[e] = "ABSENT"
             \/ attempts'[e] = attempts[e] /\ status'[e] = "DEAD"
             \/ attempts'[e] < MaxAttempts
      BY <2>1 DEF Record, BackoffElapses, BrokerLoses, RecoverUnconsumed, Replay, Exhausted
    <3>2. \A f \in Events : attempts'[f] \in Nat /\ (Held(f)' <=> Held(f))
      BY <2>0, <2>1, <3>1 DEF Held, Record, BackoffElapses, BrokerLoses, RecoverUnconsumed, Replay
    <3> QED BY <2>0, <3>1, <3>2 DEF AttemptsInv, Claimable
  <2>2. ASSUME NEW r \in Relays, ClaimBatch(r) PROVE AttemptsInv'
    <3> DEFINE S == FirstOf(Due, BatchLimit)
    <3>1. S \subseteq Events /\ \A e \in S : status[e] = "PENDING"
      BY FirstOfSubset DEF Due
    <3>2. /\ batch[r] = {} /\ UNCHANGED deaths
          /\ status' = [e \in Events |-> IF e \in S THEN "PROCESSING" ELSE status[e]]
          /\ attempts' = [e \in Events |-> IF e \in S THEN attempts[e] + 1 ELSE attempts[e]]
          /\ batch' = [batch EXCEPT ![r] = S]
      BY <2>2 DEF ClaimBatch
    <3> HIDE DEF S
    <3>3. ASSUME NEW e \in S PROVE attempts[e] < Bound
      <4>1. e \in Events /\ Claimable(e)
        BY <3>1 DEF Claimable
      <4> QED BY <4>1 DEF AttemptsInv
    <3>4. \A e \in S : attempts'[e] = attempts[e] + 1 /\ status'[e] = "PROCESSING"
      BY <3>1, <3>2
    <3>5. \A e \in S : Held(e)'
      BY <3>2 DEF Held
    <3>6. \A e \in Events \ S : attempts'[e] = attempts[e] /\ status'[e] = status[e]
      BY <3>2
    <3>7. \A e \in Events \ S : Held(e)' <=> Held(e)
      BY <3>2 DEF Held
    <3>8. UNCHANGED Bound
      BY <3>2
    <3> HIDE DEF TypeOK, Bound
    <3> SUFFICES ASSUME NEW e \in Events
                 PROVE  /\ attempts'[e] <= Bound'
                        /\ Claimable(e)' => attempts'[e] < Bound'
      BY DEF AttemptsInv, Bound
    <3>9. CASE e \in S
      BY <2>0, <3>3, <3>4, <3>5, <3>8, <3>9 DEF Claimable
    <3>10. CASE e \notin S
      <4>1. Claimable(e)' <=> Claimable(e)
        BY <3>6, <3>7, <3>10 DEF Claimable
      <4>2. attempts'[e] = attempts[e]
        BY <3>6, <3>10
      <4> QED BY <3>8, <4>1, <4>2 DEF AttemptsInv, Bound
    <3> QED BY <3>9, <3>10
  <2>3. ASSUME NEW r \in Relays, MarkPublished(r) \/ MarkFailed(r) PROVE AttemptsInv'
    <3>1. PICK e \in batch[r] :
            /\ NextMessage(r, e) /\ UNCHANGED attempts
            /\ \/ UNCHANGED rowVars /\ ~Locked(e)
               \/ status' = [status EXCEPT ![e] = "PUBLISHED"]
               \/ status' = [status EXCEPT ![e] = "DEAD"]
               \/ status' = [status EXCEPT ![e] = "PENDING"] /\ ~Exhausted(e)
      BY <2>3, FirstOfSubset DEF MarkPublished, MarkFailed, Current
    <3>2. Locked(e) /\ e \in Events
      BY DEF ClaimsAreExclusive, Locked
    <3>3. UNCHANGED <<attempts, deaths>> /\ batch' = [batch EXCEPT ![r] = batch[r] \ {e}]
      BY <3>1 DEF NextMessage
    <3>4. \A f \in Events \ {e} : status'[f] = status[f] /\ (Held(f)' <=> Held(f))
      BY <3>1, <3>2, <3>3 DEF Held
    <3>5. status'[e] \in {"PUBLISHED", "DEAD"} \/ attempts[e] < MaxAttempts
      BY <2>0, <3>1, <3>2 DEF Exhausted
    <3>6. status'[e] \in {"PUBLISHED", "DEAD"} \/ attempts[e] < Bound
      BY <2>0, <3>5
    <3> QED BY <3>3, <3>4, <3>6 DEF AttemptsInv, Claimable
  <2>4. ASSUME NEW r \in Relays, RelayDies(r) PROVE AttemptsInv'
    <3>1. deaths' = deaths + 1 /\ UNCHANGED <<status, attempts>>
      BY <2>4 DEF RelayDies
    <3> QED BY <2>0, <3>1 DEF AttemptsInv
  <2>5. CASE RecoverStale
    <3>1. /\ UNCHANGED <<attempts, deaths, batch>>
          /\ \A e \in Events : status'[e] = status[e] \/ MayBeStale(e)
      BY <2>5 DEF RecoverStale
    <3>2. \A e \in Events : Claimable(e)' => Claimable(e)
      BY <3>1 DEF Claimable, MayBeStale, Held
    <3> QED BY <3>1, <3>2 DEF AttemptsInv
  <2>6. ASSUME NEW c \in Consumers, ConsumerStep(c) \/ ConsumerDies(c) PROVE AttemptsInv'
    <3>1. UNCHANGED <<rowVars, relayVars, deaths>>
      BY <2>6 DEF ConsumerStep, ConsumerDies, Receive, InsertReceipt, SkipDuplicate,
         CommitHandler, HandlerRaises, Acknowledge
    <3> QED BY <2>0, <3>1 DEF AttemptsInv, Claimable, Held
  <2>7. ASSUME NEW r \in Relays, PublishAccepted(r) \/ PublishRaised(r) PROVE AttemptsInv'
    BY <2>7 DEF PublishAccepted, PublishRaised, AttemptsInv, Claimable, Held
  <2>8. CASE UNCHANGED vars
    BY <2>8 DEF vars, AttemptsInv, Claimable, Held
  <2> QED BY <2>1, <2>2, <2>3, <2>4, <2>5, <2>6, <2>7, <2>8 DEF Next, RelayStep
<1>3. AttemptsInv => AttemptsBounded
  BY DEF AttemptsInv, AttemptsBounded
<1> QED
  BY <1>1, <1>2, <1>3, TypeCorrect, ClaimsExclusive, PTL DEF Spec

===============================================================================
