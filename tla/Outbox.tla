------------------------------- MODULE Outbox -------------------------------
(***************************************************************************)
(* The transactional outbox of apps/api/app/platform/outbox.py and the     *)
(* Celery tasks of apps/worker/worker/tasks.py that drive it.              *)
(*                                                                         *)
(* A business command commits its outbox_events row with its own writes.   *)
(* Relay tasks claim PENDING rows, hand each message to the broker and     *)
(* mark the row; consumers insert a processed_events receipt and run the   *)
(* handler in one transaction; two recoveries put back rows whose relay    *)
(* died and rows whose consumer left no receipt.  Every database           *)
(* transaction is one action; a process may die between any two of them.   *)
(***************************************************************************)
EXTENDS Integers, FiniteSets

CONSTANTS
  Events,      \* outbox_events rows; a larger number was created later
  Relays,      \* concurrent executions of the platform.relay-outbox task
  Consumers,   \* concurrent executions of platform.consume-outbox-event
  MaxAttempts, \* OutboxRelay.max_attempts
  BatchLimit,  \* the limit of claim_batch
  TimeLimited, \* the Celery hard limit (45 s) kills a relay before the 5
               \* minutes after which recover_stale takes its rows
  MaxFaults,   \* bound: process deaths and broker losses in a behaviour
  MaxReplays,  \* bound: manual replays in a behaviour
  None

ASSUME EventsAssumption == Events \subseteq Nat /\ IsFiniteSet(Events)
ASSUME NoneAssumption == None \notin Events
ASSUME BoundsAssumption == /\ MaxAttempts \in Nat \ {0}
                           /\ BatchLimit \in Nat \ {0}
                           /\ TimeLimited \in BOOLEAN
                           /\ MaxFaults \in Nat
                           /\ MaxReplays \in Nat

VARIABLES
  status,    \* outbox_events.status; "ABSENT" before the business commit
  attempts,  \* outbox_events.attempt_count
  locked,    \* the rows whose locked_by is the relays' common worker id
  waiting,   \* the rows whose available_at is still in the future
  batch,     \* per relay, the messages run_once has still to go through
  outcome,   \* per relay, what publish did with the oldest of its batch
  queue,     \* the events with at least one task message at the broker
  task,      \* per consumer, the message it works on
  phase,     \* per consumer, how far consume() and the Celery ack have got
  receipts,  \* the committed processed_events rows
  effects,   \* per event, how many committed transactions ran the handler
  handed,    \* history: the events some publish put on the broker
  deaths, faults, replays  \* the bounded counts: relay deaths, other faults, replays

rowVars == <<status, attempts, locked, waiting>>
relayVars == <<batch, outcome>>
consumerVars == <<task, phase, receipts, effects>>
boundVars == <<deaths, faults, replays>>
vars == <<rowVars, relayVars, queue, consumerVars, handed, boundVars>>

Status == {"ABSENT", "PENDING", "PROCESSING", "PUBLISHED", "DEAD"}
Outcome == {"none", "accepted", "raised"}
Phase == {"idle", "received", "handling", "returned"}

TypeOK ==
  /\ status \in [Events -> Status]
  /\ attempts \in [Events -> Nat]
  /\ locked \in SUBSET Events
  /\ waiting \in SUBSET Events
  /\ batch \in [Relays -> SUBSET Events]
  /\ outcome \in [Relays -> Outcome]
  /\ queue \in SUBSET Events
  /\ task \in [Consumers -> Events \cup {None}]
  /\ phase \in [Consumers -> Phase]
  /\ receipts \in SUBSET Events
  /\ effects \in [Events -> Nat]
  /\ handed \in SUBSET Events
  /\ deaths \in 0..MaxFaults
  /\ faults \in 0..MaxFaults
  /\ replays \in 0..MaxReplays
  /\ \A c \in Consumers : phase[c] = "idle" <=> task[c] = None

Init ==
  /\ status = [e \in Events |-> "ABSENT"]
  /\ attempts = [e \in Events |-> 0]
  /\ locked = {}
  /\ waiting = {}
  /\ batch = [r \in Relays |-> {}]
  /\ outcome = [r \in Relays |-> "none"]
  /\ queue = {}
  /\ task = [c \in Consumers |-> None]
  /\ phase = [c \in Consumers |-> "idle"]
  /\ receipts = {}
  /\ effects = [e \in Events |-> 0]
  /\ handed = {}
  /\ deaths = 0
  /\ faults = 0
  /\ replays = 0

-----------------------------------------------------------------------------
(* The rows. *)

\* ORDER BY created_at, id LIMIT n.
FirstOf(S, n) == {e \in S : Cardinality({f \in S : f < e}) < n}

\* The rows claim_batch selects from: PENDING, available_at <= now.
Due == {e \in Events : status[e] = "PENDING" /\ e \notin waiting}

\* A business transaction commits with its event, or neither exists.
Record(e) ==
  /\ status[e] = "ABSENT"
  /\ status' = [status EXCEPT ![e] = "PENDING"]
  /\ UNCHANGED <<attempts, locked, waiting, relayVars, queue, consumerVars,
                 handed, boundVars>>

\* The backoff of a failed row runs out.
BackoffElapses(e) ==
  /\ e \in waiting
  /\ waiting' = waiting \ {e}
  /\ UNCHANGED <<status, attempts, locked, relayVars, queue, consumerVars,
                 handed, boundVars>>

-----------------------------------------------------------------------------
(* OutboxRelay.run_once: claim in one transaction, then publish and mark   *)
(* the messages one by one, each mark a transaction of its own.            *)

ClaimBatch(r) ==
  /\ batch[r] = {}
  /\ Due # {}
  /\ LET S == FirstOf(Due, BatchLimit) IN
       /\ status' = [e \in Events |-> IF e \in S THEN "PROCESSING" ELSE status[e]]
       /\ attempts' = [e \in Events |->
                         IF e \in S THEN attempts[e] + 1 ELSE attempts[e]]
       /\ locked' = locked \cup S
       /\ batch' = [batch EXCEPT ![r] = S]
  /\ UNCHANGED <<waiting, outcome, queue, consumerVars, handed, boundVars>>

\* The message the loop of run_once has come to.
Current(r) == FirstOf(batch[r], 1)

\* dispatcher.publish returned.
PublishAccepted(r) ==
  /\ outcome[r] = "none"
  /\ \E e \in Current(r) : queue' = queue \cup {e} /\ handed' = handed \cup {e}
  /\ outcome' = [outcome EXCEPT ![r] = "accepted"]
  /\ UNCHANGED <<rowVars, batch, consumerVars, boundVars>>

\* dispatcher.publish raised, before or after the broker took the message.
PublishRaised(r) ==
  /\ outcome[r] = "none"
  /\ \E e \in Current(r) : \/ queue' = queue \cup {e} /\ handed' = handed \cup {e}
                          \/ UNCHANGED <<queue, handed>>
  /\ outcome' = [outcome EXCEPT ![r] = "raised"]
  /\ UNCHANGED <<rowVars, batch, consumerVars, boundVars>>

\* The threshold of _mark_failed and recover_unconsumed.
Exhausted(e) == attempts[e] >= MaxAttempts

\* _locked_event: the row is still PROCESSING under the relays' worker id.
Locked(e) == status[e] = "PROCESSING" /\ e \in locked

\* The relay goes on with the rest of its batch.
NextMessage(r, e) ==
  /\ batch' = [batch EXCEPT ![r] = @ \ {e}]
  /\ outcome' = [outcome EXCEPT ![r] = "none"]
  /\ UNCHANGED <<queue, consumerVars, handed, boundVars>>

\* Mutant: the mark does not wait for the publish to have succeeded.
MarkPublishedAnyway(r) ==
  /\ outcome[r] # "none"
  /\ \E e \in Current(r) :
       /\ status' = [status EXCEPT ![e] = "PUBLISHED"]
       /\ locked' = locked \ {e}
       /\ UNCHANGED <<attempts, waiting>>
       /\ NextMessage(r, e)

MarkPublished(r) ==
  /\ outcome[r] = "accepted"
  /\ \E e \in Current(r) :
       /\ \/ /\ Locked(e)
             /\ status' = [status EXCEPT ![e] = "PUBLISHED"]
             /\ locked' = locked \ {e}
             /\ UNCHANGED <<attempts, waiting>>
          \/ ~Locked(e) /\ UNCHANGED rowVars
       /\ NextMessage(r, e)

MarkFailed(r) ==
  /\ outcome[r] = "raised"
  /\ \E e \in Current(r) :
       /\ \/ /\ Locked(e) /\ Exhausted(e)
             /\ status' = [status EXCEPT ![e] = "DEAD"]
             /\ locked' = locked \ {e}
             /\ UNCHANGED <<attempts, waiting>>
          \/ /\ Locked(e) /\ ~Exhausted(e)
             /\ status' = [status EXCEPT ![e] = "PENDING"]
             /\ locked' = locked \ {e}
             /\ waiting' = waiting \cup {e}
             /\ UNCHANGED attempts
          \/ ~Locked(e) /\ UNCHANGED rowVars
       /\ NextMessage(r, e)

\* The process dies or the hard time limit kills it; its batch is forgotten.
RelayDies(r) ==
  /\ batch[r] # {}
  /\ deaths + faults < MaxFaults
  /\ deaths' = deaths + 1
  /\ batch' = [batch EXCEPT ![r] = {}]
  /\ outcome' = [outcome EXCEPT ![r] = "none"]
  /\ UNCHANGED <<rowVars, queue, consumerVars, handed, faults, replays>>

-----------------------------------------------------------------------------
(* Recovery. *)

Held(e) == \E r \in Relays : e \in batch[r]

\* Mutant: a stale threshold shorter than the time limit of the task.
MayBeStaleEarly(e) == status[e] = "PROCESSING"

\* Mutant: the recovery forgets the rows that have used up their attempts.
MayBeStaleWithAttempts(e) ==
  status[e] = "PROCESSING" /\ ~Held(e) /\ attempts[e] < MaxAttempts

\* Rows locked for five minutes.  Under the hard limit their relay is gone.
MayBeStale(e) == status[e] = "PROCESSING" /\ (TimeLimited => ~Held(e))

\* recover_stale, the first statement of every relay task.
RecoverStale ==
  \E S \in SUBSET {e \in Events : MayBeStale(e)} :
    /\ S # {}
    /\ status' = [e \in Events |-> IF e \in S THEN "PENDING" ELSE status[e]]
    /\ locked' = locked \ S
    /\ waiting' = waiting \ S
    /\ UNCHANGED <<attempts, relayVars, queue, consumerVars, handed, boundVars>>

\* recover_unconsumed on one row: published 15 minutes ago, no receipt.
RecoverUnconsumed(e) ==
  /\ status[e] = "PUBLISHED"
  /\ e \notin receipts
  /\ status' = [status EXCEPT ![e] = IF Exhausted(e)
                                     THEN "DEAD" ELSE "PENDING"]
  /\ waiting' = waiting \ {e}
  /\ UNCHANGED <<attempts, locked, relayVars, queue, consumerVars, handed,
                 boundVars>>

\* Mutant: the replay keeps the attempts of the row.
ReplayKeepingAttempts(e) ==
  /\ status[e] = "DEAD"
  /\ replays < MaxReplays
  /\ replays' = replays + 1
  /\ status' = [status EXCEPT ![e] = "PENDING"]
  /\ UNCHANGED <<attempts, locked, waiting, relayVars, queue, consumerVars,
                 handed, deaths, faults>>

\* OutboxAdminService.replay, by an administrator.
Replay(e) ==
  /\ status[e] = "DEAD"
  /\ replays < MaxReplays
  /\ replays' = replays + 1
  /\ status' = [status EXCEPT ![e] = "PENDING"]
  /\ attempts' = [attempts EXCEPT ![e] = 0]
  /\ waiting' = waiting \ {e}
  /\ locked' = locked \ {e}
  /\ UNCHANGED <<relayVars, queue, consumerVars, handed, deaths, faults>>

-----------------------------------------------------------------------------
(* The broker and the consumers.  Taking a message may leave further       *)
(* copies of it: earlier publishes, retries and redeliveries.              *)

Receive(c, e) ==
  /\ phase[c] = "idle"
  /\ e \in queue
  /\ queue' \in {queue, queue \ {e}}
  /\ task' = [task EXCEPT ![c] = e]
  /\ phase' = [phase EXCEPT ![c] = "received"]
  /\ UNCHANGED <<rowVars, relayVars, receipts, effects, handed, boundVars>>

\* An uncommitted receipt of the same event makes the INSERT wait.
ReceiptPending(e) == \E c \in Consumers : phase[c] = "handling" /\ task[c] = e

\* Mutant: the handler runs whether or not the INSERT gave a row.
InsertReceiptUnchecked(c) ==
  /\ phase[c] = "received"
  /\ phase' = [phase EXCEPT ![c] = "handling"]
  /\ UNCHANGED <<rowVars, relayVars, queue, task, receipts, effects, handed,
                 boundVars>>

\* INSERT .. ON CONFLICT DO NOTHING RETURNING gave the row: run the handler.
InsertReceipt(c) ==
  /\ phase[c] = "received"
  /\ ~ReceiptPending(task[c])
  /\ task[c] \notin receipts
  /\ phase' = [phase EXCEPT ![c] = "handling"]
  /\ UNCHANGED <<rowVars, relayVars, queue, task, receipts, effects, handed,
                 boundVars>>

\* ... gave nothing: return False.
SkipDuplicate(c) ==
  /\ phase[c] = "received"
  /\ ~ReceiptPending(task[c])
  /\ task[c] \in receipts
  /\ phase' = [phase EXCEPT ![c] = "returned"]
  /\ UNCHANGED <<rowVars, relayVars, queue, task, receipts, effects, handed,
                 boundVars>>

\* Mutant: the handler commits in a session of its own, before the receipt.
CommitWithoutReceipt(c) ==
  /\ phase[c] = "handling"
  /\ effects' = [effects EXCEPT ![task[c]] = @ + 1]
  /\ \/ /\ receipts' = receipts \cup {task[c]}
        /\ phase' = [phase EXCEPT ![c] = "returned"]
        /\ UNCHANGED task
     \/ /\ UNCHANGED receipts
        /\ phase' = [phase EXCEPT ![c] = "idle"]
        /\ task' = [task EXCEPT ![c] = None]
  /\ UNCHANGED <<rowVars, relayVars, queue, handed, boundVars>>

\* The receipt and what the handler wrote commit together.
CommitHandler(c) ==
  /\ phase[c] = "handling"
  /\ receipts' = receipts \cup {task[c]}
  /\ effects' = [effects EXCEPT ![task[c]] = @ + 1]
  /\ phase' = [phase EXCEPT ![c] = "returned"]
  /\ UNCHANGED <<rowVars, relayVars, queue, task, handed, boundVars>>

\* The handler raised: both roll back, Celery retries until its retries end.
HandlerRaises(c) ==
  /\ phase[c] = "handling"
  /\ queue' \in {queue, queue \cup {task[c]}}
  /\ task' = [task EXCEPT ![c] = None]
  /\ phase' = [phase EXCEPT ![c] = "idle"]
  /\ UNCHANGED <<rowVars, relayVars, receipts, effects, handed, boundVars>>

\* acks_late: the message is acknowledged after the task returned.
Acknowledge(c) ==
  /\ phase[c] = "returned"
  /\ task' = [task EXCEPT ![c] = None]
  /\ phase' = [phase EXCEPT ![c] = "idle"]
  /\ UNCHANGED <<rowVars, relayVars, queue, receipts, effects, handed, boundVars>>

\* reject_on_worker_lost: an unacknowledged message is delivered again.
ConsumerDies(c) ==
  /\ phase[c] # "idle"
  /\ deaths + faults < MaxFaults
  /\ faults' = faults + 1
  /\ queue' = queue \cup {task[c]}
  /\ task' = [task EXCEPT ![c] = None]
  /\ phase' = [phase EXCEPT ![c] = "idle"]
  /\ UNCHANGED <<rowVars, relayVars, receipts, effects, handed, deaths, replays>>

\* A broker restart forgets the messages of an event.
BrokerLoses(e) ==
  /\ e \in queue
  /\ deaths + faults < MaxFaults
  /\ faults' = faults + 1
  /\ queue' = queue \ {e}
  /\ UNCHANGED <<rowVars, relayVars, consumerVars, handed, deaths, replays>>

-----------------------------------------------------------------------------
RelayStep(r) ==
  ClaimBatch(r) \/ PublishAccepted(r) \/ PublishRaised(r)
    \/ MarkPublished(r) \/ MarkFailed(r)

ConsumerStep(c) ==
  \/ \E e \in Events : Receive(c, e)
  \/ InsertReceipt(c) \/ SkipDuplicate(c) \/ CommitHandler(c)
  \/ HandlerRaises(c) \/ Acknowledge(c)

Next ==
  \/ \E e \in Events : \/ Record(e) \/ BackoffElapses(e)
                       \/ RecoverUnconsumed(e) \/ Replay(e) \/ BrokerLoses(e)
  \/ \E r \in Relays : RelayStep(r) \/ RelayDies(r)
  \/ RecoverStale
  \/ \E c \in Consumers : ConsumerStep(c) \/ ConsumerDies(c)

Spec == Init /\ [][Next]_vars

\* Celery beat starts relay-outbox each second and recover-outbox each minute,
\* a running relay works through its batch, and backoffs end.  Nothing is
\* assumed of the consumers, the administrator or the broker.
Fairness ==
  /\ \A r \in Relays : WF_vars(RelayStep(r))
  /\ \A e \in Events : WF_vars(BackoffElapses(e)) /\ WF_vars(RecoverUnconsumed(e))
  /\ WF_vars(RecoverStale)

FairSpec == Spec /\ Fairness

-----------------------------------------------------------------------------
(* Properties. *)

\* Redelivery, republication and concurrent consumers never run a handler to
\* commit twice, and a receipt stands exactly for an effect that happened
\* (IdempotentEventConsumer.consume).
EffectMatchesReceipt ==
  \A e \in Events : effects[e] = IF e \in receipts THEN 1 ELSE 0

\* No two relays work on the same row, and a row in a relay's hands is locked:
\* the constant worker id cannot let one relay mark another's claim while the
\* hard time limit is shorter than the stale threshold (claim_batch,
\* recover_stale, _locked_event).
ClaimsAreExclusive ==
  /\ \A r, s \in Relays : r # s => batch[r] \cap batch[s] = {}
  /\ \A r \in Relays : \A e \in batch[r] : Locked(e)

\* The status tells what happened: PUBLISHED is believed only of an event that a
\* publish put on the broker, and an event is given up only after max_attempts
\* claims since it was recorded or replayed (run_once marks after publishing,
\* _mark_published, _mark_failed, recover_unconsumed).
StatusIsTruthful ==
  \A e \in Events :
    /\ status[e] = "PUBLISHED" => e \in handed
    /\ status[e] = "DEAD" => attempts[e] >= MaxAttempts

\* Only the stale recovery lets an event be claimed beyond max_attempts, so the
\* claims since it was recorded or replayed are bounded by max_attempts and the
\* relay deaths alone: no death of a consumer and no loss at the broker adds one
\* (claim_batch, recover_stale, recover_unconsumed, replay).
AttemptsBounded == \A e \in Events : attempts[e] <= MaxAttempts + deaths

\* Restarts and losses lose no event: each recorded one gets its receipt or is
\* put before the administrators as DEAD (IMPLEMENTATION_GUIDE 478, 657).
EventSettles ==
  \A e \in Events : status[e] # "ABSENT" ~> e \in receipts \/ status[e] = "DEAD"

Place(e) == CASE status[e] = "ABSENT" -> "absent"
              [] status[e] = "DEAD" -> "aside"
              [] OTHER -> "underway"

Delivery == INSTANCE EventDelivery
              WITH place <- [e \in Events |-> Place(e)], applied <- effects

\* The outbox keeps the promise of EventDelivery: one durable effect at most,
\* and an event leaves the administrators' list only by a replay (outbox.py).
ImplementsDelivery == Delivery!Spec

\* The guide's reading of the threshold: a row that waits for another attempt
\* has attempts left.
PendingHasAttemptsLeft ==
  \A e \in Events : status[e] = "PENDING" => attempts[e] < MaxAttempts

=============================================================================
