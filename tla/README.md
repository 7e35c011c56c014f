# TLA+ specifications of the foreign-trade workbench

This directory models the repository from both ends. On one side is the
transactional core: the FastAPI application under `src/apps/api/app` and the
Celery worker under `src/apps/worker/worker`. All shared state is in one
PostgreSQL database. A *command* is one transaction (`core/unit_of_work.py`) at
READ COMMITTED, and its correctness rests on what it locks, in which order, and
on what it checks after the lock. What crosses a transaction goes through the
outbox.

On the other side is the web application under `src/apps/web`, whose forms send
those commands over a network that loses answers, from pages that are out of
date, in tabs that share one session. Its correctness rests on the key and the
version each request carries, on what a form does when its answer does not come,
on which queries are fetched again, and on what a tab may still show when the
session changes.

Paths below are relative to `src/apps/api/app` unless they start with `src/`;
paths of web features are relative to `src/apps/web/features`.

## 1. Inventory

| part | state | operations | talks to | what is hard | correct when |
|---|---|---|---|---|---|
| Outbox (`platform/outbox.py`, `src/apps/worker/worker/tasks.py`) | `outbox_events`, `processed_events`, broker queue | record, claim, publish, mark, recover stale, recover unconsumed, replay, consume | every command records; the worker's handlers consume | process deaths between transactions, redelivery, one worker id for all relays, backoff | an effect happens at most once; no event is forgotten; only exhausted ones are set aside |
| Command keys and numbers (`platform/idempotency.py`, `numbering.py`) | `idempotency_keys`, `document_sequences` | begin/complete a command, draw a number | all commands | repeated and concurrent requests, rollback after a draw | one key is one request with one answer; numbers are dense and unique |
| Sales orders (`sales/order_services.py`, `completion_services.py`) | `sales_orders.status`, deposit, items | create, confirm, complete | quotations, money, shipments, documents, tasks | four components change one status | deposit before execution; completed means settled, for good |
| Receivables and receipts (`finance/services.py`, `sales/settlement.py`) | receivables, payments, signed allocation rows | generate, refresh, record, allocate, reverse | orders | partial payments over several orders, reversals after progress, due dates | nothing overpaid or spent twice; status agrees with rows and dates |
| Shipments (`fulfillment/services.py`, `sales/shipping_progress.py`) | shipments, their items | create and seven milestones | orders, documents | lines split over shipments, milestones in any order | order status follows the quantities |
| Documents (`documents/services.py`, `access.py`, `storage.py`) | documents, versions, links, scan jobs | start, complete, scan, download | storage, outbox, shipments and ten other targets | unlocked check, remote call, locked recheck; a target finalized meanwhile | only inspected files become available; required ones stay |
| Tasks and approvals (`work/`, `ai/approvals.py`) | tasks, approval requests | complete, approve a follow-up | orders, AI runs | approval racing completion | no task on a completed order |
| Quotations (`sales/services.py`, `state_commands.py`) | quotations, versions | create, revise, approve, send, accept, reject, expire | inquiries, opportunities, orders | decisions on superseded versions, validity dates | one accepted version, the current one, never revised |
| Procurement (`procurement/services.py`) | purchase orders, items, receipts | create, amend, cancel, approve, send, confirm, receive, close | sales orders, shipments, payables | commitments against sales lines; two lock orders | committed within ordered, received within committed |
| Supplier money (`finance/supplier_services.py`) | payables, supplier payments | create, void, record, allocate, reverse | purchase orders | sums over rows of several transactions | payables within the purchase, payments within payables |
| Expenses, funding (`finance/expense_services.py`, `funding.py`) | expenses and reversals | record, reverse | orders | concurrent reversals | reversed once at most |
| Contracts (`sales/contract_services.py`) | contracts | draft, sign, void | orders, documents | versions against the order's lock | one signed contract in force |
| Export cases (`export/services.py`) | customs and refund cases | create, transitions, follow-up | shipments, documents | transitions need documents that may change | facts only move forward |
| AI runs and disclosures (`ai/`) | runs, leases, jobs, disclosures | execute, submit, revise, decide | outbox, provider, live permissions | lease takeover during a remote call | one result per run; only reviewed text is released |
| Organization (`identity/administration_service.py`, `auth/`) | organization, memberships | update, add and change members | every request reads the live membership | mutual demotion | an active administrator remains |
| Leads, companies, inquiries, opportunities, catalog (`crm/`, `companies/`, `inquiries/`, `catalog/`) | records with version columns | write, convert, archive | each other | version conflicts | no lost update |
| Forms and pages (`leads`, `opportunities`, `companies`, `catalog`, `quotations`, `orders`, `finance`, `contracts`, `shipments`, `documents`, `export`, `ai`, `platform`, `identity`) | the record as shown, the form and its key, requests in flight, cached queries | open, edit, submit, retry, leave, refresh | every command of the API | lost answers, second presses, pages out of date, refetches that forget a query | done once; a success is of what was sent; decided on what was shown; own work is shown; nothing offered in vain, nothing stranded |
| Sessions of the browser (`src/apps/web/components/auth-gate.tsx`, `app-providers.tsx`, `overview/session.ts`, `src/apps/web/app/api`) | cookie, local storage, per tab the verified session and its query client | sign in and out, choose an organization, verify, hear of another tab | every page and query | tabs change under each other while answers are in flight | a tab shows only what belongs to its session and organization |
| Read-only views, schema, migrations, storage and provider adapters | – | – | – | – | – |

The hazards, each at the line where it bites and with the properties that would
catch it, are listed in `PROJECT.json`.

## 2. Modules

| module | models | abstraction of |
|---|---|---|
| `EventDelivery` | promise: an event is applied once at most and is never forgotten | – |
| `Outbox` | the outbox, relays, broker and consumers, one action per transaction | `EventDelivery` |
| `OrderBook` | promise: each answered request opened the order of its quotation, with the next number, or was answered with it | – |
| `OrderCreation` | concurrent `POST /sales-orders` between their locks | `OrderBook` |
| `OrderExecution` | an order from creation to completion with its money, shipments, documents and tasks; one action per command | – |
| `PurchaseBook` | promise: the purchases of a sales order, each command one step | – |
| `Procurement` | the same commands as transactions that lock, read, count and commit | `PurchaseBook` |
| `SupplierLedger` | promise: payables, supplier payments and their rows, each command one step | – |
| `SupplierFinance` | the same commands as transactions that lock, look, add up and commit | `SupplierLedger` |
| `FiniteSums` | laws of sums over finite sets, proved: what a changed summand changes, what sums bound | – |
| `Workbench` | one tab at work: a page, one of its forms, its requests, the server and everybody else | – |
| `PageShapes` | the shapes of the tables `Workbench` reads: forms, handlers, pages | – |
| `PartyPages`, `QuotationPages`, `OrderPages`, `FulfilmentPages`, `OfficePages` | those tables: every form that sends a command, its handler, its page | – |
| `WebSession` | the tabs of one browser, the session they share and what they have fetched | – |
| `MC…` | instances of each for TLC; `MCWorkbench` puts the tables together | |
| `…Proofs` | theorems about each and their TLAPS proofs; `SupplierFinanceProofs` is about the ledger too | |

The modules meet where one component's row decides on another's command. An
accepted quotation lets `OrderCreation` open an order; that order's status is
`order` in `OrderExecution` and `sales` in `PurchaseBook`, which `Procurement`
locks before it decides; a confirmed purchase of `PurchaseBook` is one in
`confirmed` of `SupplierLedger`. Every command also records events, which
`Outbox` carries on. `Procurement` extends `PurchaseBook` and `SupplierFinance`
extends `SupplierLedger`: the concurrent module writes the variables of its
promise with operators of the promise, so that its refinement mapping is the
identity and all that is at stake is *when* conditions are read.

### Outbox

State: the columns `status`, `attempt_count`, `locked_by` and `available_at` of a
row (`status`, `attempts`, `locked`, `waiting`); each relay's local batch and
the result of its publish; the messages at the broker (`queue`, a set: taking a
message may leave copies behind); each consumer's message and phase; the
committed receipts; and `effects`, which counts the committed runs of a
handler. Actions are `claim_batch`, `publish`, `_mark_published`,
`_mark_failed`, `recover_stale`, `recover_unconsumed`, `replay`, the insertion
of the receipt, the commit or failure of the handler and the acknowledgement.
A relay or consumer may die, and the broker may lose messages, at any point
(`MaxFaults` in all; the deaths of relays are counted apart, as only they can
add a claim). `recover_stale` waits five minutes and Celery kills a relay
after 45 seconds (`worker/app.py`); `TimeLimited` says whether that limit is
relied on. A message that the INSERT of another consumer holds up waits
(`ReceiptPending`), as the unique index of PostgreSQL makes it.

### OrderCreation

An attempt is one request. Its `pc` names the locks it holds: the advisory lock
of its key, then the quotation row, then the sequence row, all transaction
scoped, so `Holds…` are functions of `pc` and a rollback releases everything.
Each action is what happens between one lock and the next. Uncommitted writes
(the receipt, the new sequence value) are invisible and appear with the commit.
A repeated request is another attempt with the same key; a lost answer is an
attempt that nobody reads. Left out: the wait for the order's row on a replay
(no other lock of these is wanted under it), the change of year of the
sequence, and the format of the number. All other commands begin, number and
complete through the same helpers in the same order; their keys and numbers are
not modelled again.

### OrderExecution

Every command locks the rows of the orders it touches (`FOR UPDATE`, orders by
id) before it reads what it decides on, and holds them to its commit. So a
command is one action. A command that is refused or replayed changes nothing
and is no action. Amounts are whole units. Reversals are signed rows in the
code: `ledger` is their sum as `allocated_totals` computes it, `allocated`
the allocations of one receipt. Company and currency are one value, as they are
compared together. A shipment may have several documents of one required type
(`Kind`): `CreateUpload` starts a document of its own beside them, `CreateVersion`
replaces the latest version of one at once, and a type is there when the latest
version of one of its documents is AVAILABLE. `refresh_statuses` treats 500 rows a call: any
non-empty subset of the stale ones. `CONFIRMED` and `CANCELLED` are statuses
of the enum that no command sets; the guide's section 5.4 (lines 215-219) has
them in its chain, the code does not.

### PurchaseBook and Procurement

The book is the status of one sales order and the rows of its purchases:
status, version, quantities ordered and received per line, and the purchase it
replaces. `EXECUTING` stands for `DEPOSIT_PENDING` too and `SHIPPED` for
`READY_TO_SHIP` too, because procurement does not tell them apart.
`Committed` is `_committed_quantity`: a cancelled purchase counts what was
received of it, any other what was ordered. Prices, supplier references and
dates are left out; that a reference is asked for is taken as given. A command
that finds its purchase already as it wants it changes nothing and is no step.

In `Procurement` a session runs one command at a time: it was sent from a page
(`seen`), locks the sales order and then the purchase (receipts and closings
only the purchase), reads each row when it gets it, checks the version and the
conditions, counts line by line, and writes from what it has *read*, not from
what is there. An amendment counts after it has flushed its own cancellation
(`View`). `Current` is the mapper's comparison of versions at the flush.
`Rollback` is any failure. Clients ask for what their page permits: whatever
else they send is refused at once.

### SupplierLedger and SupplierFinance

The ledger is the payables (purchase, amount, voided, version), the payments
(amount, number of reversals, version) and two tables of rows: what a payment
is `allocated` to, and what of it was `returned` by a reversal. Balances are no
columns: `Paid`, `Spent` and `Principal` add up rows as `paid_totals`,
`allocations` and the query of `create_payable` do. One supplier, one currency,
whole units; dates and texts are left out.

In `SupplierFinance` the rows that are added up are *not* locked; what is locked
is the row they are for. `Lock` takes the payment, then its payables by id;
`Look` is `_active_payment`, which happens between the two; `Sum` reads one sum;
`Commit` decides and writes. `create_payable` locks the sales order and then the
purchase; nothing here wants one without the other, so the purchase stands for
both. `void_payable` locks its payable only, not the purchase, so the principal
of a purchase may fall while another transaction decides on it.

### Workbench and the tables of the pages

The web application is one protocol played by 96 forms on 40 pages: a page shows a record
from a cached query; a form is opened on it, filled, sent with a key and a
version; the handler looks up the key, then the version, then the status; on
success the named queries are fetched again; on failure the form stays, and what
is sent next depends on the form. So there is one state machine, `Workbench`,
and three tables, translated component by component and handler by handler:

- a form says which key it uses (none, one per request, one per form, one for
  what is sent), where it keeps it (below), whether the version it names is the one it was opened on or the
  one shown when it is sent, whether it starts from the values of the record,
  what stops a second press (a ref set at once, or the button once it is drawn
  disabled), whether it goes when the page shows another version, whether it
  stays in a status it is not offered in, whether it can send its last request
  once more as it was, and which queries its hook invalidates;
- a handler says which permissions it requires, which statuses it takes a record
  from and to, whether it compares the version, in which statuses it answers
  without doing anything, whether a content is refused or returned the second
  time, and which data it changes;
- a page says which queries are mounted, what data each reads, and how other
  parts of the system move its record.

The rules that the tables keep to are named assumptions of `Workbench`: which key
goes with which form (`KeysAssumption`), which version is named where one is checked
(`VersionsAssumption`), that the page asks for what the handler asks for
(`OffersAssumption`), that the hook fetches what the handler writes
(`RefreshesAssumption`), that a status has a way on (`WaysAssumption`), and what keeps
a command from being done again (`ProtectionAssumption`). Each is about one form, its
handler and its page; the exceptions are constants.

A key that is kept in a ref is found by the next press at once. One that is kept in
`useState` is found as it was when the page was last drawn, because the submit
handler is a closure of that render: `panel.read` is what the handler finds
(`Remembered`), and `Redrawn` brings it up to date whenever the page is drawn again.
A second press before that takes another key (`expense-form.tsx:91`,
`supplier-form.tsx:138`). A request that is sent while its predecessor is under way
is marked `again`.

`Send`, `Serve`, `Lose`, `Fail`, `Refresh`, `Land` and `Report` are a request
from the press to the message; `Open`, `Edit`, `Leave`, `Submit`, `Retry` and
`Draw` are the person and React; `OthersAct` is everybody else, through the same
handlers or other parts of the system; `Reload` is a poll or the refresh button.
A record is its status, its version and the row it is on (`edition`, which a
revision of a quotation or disclosure renews). Content is one value: the payload
a key is kept for, the text that is unique, what the server may refuse as
invalid. What the modules above prove about the handlers' transactions is what
lets `Serve` be one step.

The statuses of `OrderPages` name what the page's record stands for when that is
less than the row's own: a purchase whose order is completed is `LATE`, a
contract of such an order is `OVER`, a shipment whose order is completed is
`FINAL`, a document of a record that is finalized is `SEALED`.

### WebSession

The server knows the session by a cookie; every sign-in sets a marker that the
server tells the pages. Tabs share local storage (the organization chosen, the
marker last verified) and hear of each other's changes by events, later. A tab's
query client belongs to a *scope*, which `AppProviders` reads when the tab hears of a
change: `Drawn` is a tab that has heard of one, and throws the client away unless
the gate stays open on the same scope. The focus and the timer draw the gate alone
(`Gated`): it looks at the storage and may close, but what it lets through is still
that of the scope last heard of. A query
takes the organization from the storage when it is sent and the user from the
cookie when it is served; whoever signs in or changes the organization in
between makes the answer one of another scope, which must not survive. Assumed:
a person's next click comes after the tabs have heard of the one before
(`Settled`); two changes of the organization within the latency of one event
could otherwise leave a tab with data of the one in between.

## 3. Runs

| run | instance | shows |
|---|---|---|
| `outbox_safety` | 2 events, 2 relays, 2 consumers, 2 attempts, batch of 2, 1 fault, 1 replay | effects once, exclusive claims, truthful PUBLISHED and DEAD, bounded claims, refinement of `EventDelivery` |
| `outbox_liveness` | 1 consumer, batch of 1 | every recorded event is received or set aside |
| `outbox_threshold` | smallest | violation: see findings |
| `creation` | 3 requests, 2 keys, 2 quotations, 2 terms | answers agree, no constraint ever refuses, dense numbers, refinement of `OrderBook`, all requests end |
| `order_money` | 2 orders, 2 receipts of 2 units, 1 shipment, no documents; or 1 order and 3 days | deposits gate execution, statuses follow ledger and dates, receipts add up, completion is settled and final |
| `order_shipping` | 1 order, lines of 2 and 1 units over 2 shipments, 2 documents of one kind each | quantities stay within the order, its status follows quantities and documents |
| `order_evidence` | 1 shipment, 1 document | violation: see findings |
| `purchase_book` | 3 purchases of up to 2 units on 2 lines of 2 units | commitments within the order, status agrees with receipts, replaced once, history kept |
| `procurement` | 2 transactions, 2 purchases, 2 lines of 1 unit | reads stay true to the commit, decisions are on what was seen, nothing after completion, no circular wait, refinement of `PurchaseBook` |
| `supplier_finance` | 2 transactions, 1 purchase, 2 payables, 2 payments of up to 2 units | nothing beyond its amount, reversed exactly, voided is unpaid (`LedgerSound`), sums stay true, settled as seen, no circular wait, refinement of `SupplierLedger` |
| `web_forms` | every form on its page, 2 requests, 2 contents, 3 versions, 2 turns of the form | done once, success is of what was sent, nobody stuck on a key, decided on what was shown, nothing offered is refused, own work is shown, nothing stranded |
| `web_session` | 2 tabs, 2 users, 2 organizations, 2 sign-ins, 2 events | data is of the session and organization; all tabs converge |

`TypeOK` of every module is proved for all constants (section 4) and so has no
place in the runs; the runs check the properties that are more than types.

Bounds. Two relays, two consumers and two rows are the fewest with which a
batch is shared out, a claim is contested and a message is handled twice at
once; two attempts make the last differ from the first. Three requests with two
keys, two quotations and two terms contain a repeat or a conflicting reuse of a
key together with a competitor for the same quotation. Two receipts of two
units on deposits and balances of one unit give every partial, exact and
refused allocation; two orders under one receipt give reversals that touch one
executing and one completed order. The constraint `DaysOfOneOrder` lets days
pass only where the second order does not exist: dates concern one receivable
at a time, and three days put a date before, on and after its due date. Two
lines over two shipments give covered, half covered and uncovered orders; two
documents of one kind let one count while the other is replaced. Three
purchases make a replacement of a replacement. Two transactions are the fewest
that compete, and as no state of `Procurement` and `SupplierFinance` depends on
how many there are, a third only repeats what one of the two may do; the proofs
have no such bound. Two payables are the fewest that can be locked in two
orders; `OneLargePayment` keeps one payment large enough for two shares and the
other too small. Symmetry is used in runs without liveness only, over
identities that no definition orders or tells apart.

In `web_forms`, two requests are a press and its repetition, or two presses; two
contents make a change between them; three versions let somebody else act before
and after what the tab did; two turns are a form and the one that takes its
place. A tab that has sent all it may is followed until everything is answered,
and to open and leave a form before anything is sent is left out. In
`web_session`, `MaxEvents` bounds what people do and what fails, without which
nobody could ask that the tabs converge; two sign-ins make an old marker and a new
one; one user belongs to one organization and the other to both, so that a
change of user is at times a change of what may be seen.

Overlapping relays (`TimeLimited = FALSE`) have no run: `EffectOnce`,
`OutboxImplementsDelivery` and `StatusTruthful` are proved without the limit.

Deadlock checking is off where the instance ends by its own bounds: events,
attempts, orders, purchases, payments and days are finite, so a behaviour in
which all are used up stops. That transactions do not block each other is
checked as `NobodyWaitsInACircle`, which is stronger than the absence of a
state without successors, and by the liveness runs.

Fairness. In `Outbox`, beat starts `relay-outbox` every second and
`recover-outbox` every minute (`worker/app.py:28`), so relay steps, recoveries
and the end of a backoff are weakly fair; nothing is assumed of consumers,
broker or administrators. In `OrderCreation`, the database grants a lock that
stays free and executes the next statement: `Create(a)` is weakly fair. In
`order_evidence`, users complete uploads and the worker scans files whenever
the application lets them, which makes the counterexample one of the code's
refusals and not of idle users. In `WebSession`, a tab's timer ticks every minute
(`auth-gate.tsx:131`), the server answers it, React runs the effect, and the
browser delivers storage events; nothing is assumed of people, nor that a query
is ever answered. `Workbench` states no liveness: what must be reachable is
`NothingIsStranded`. `Procurement` and `SupplierFinance` assume no
fairness and state no liveness.

## 4. Proofs

All theorems hold for all values of the constants that satisfy the named
assumptions of the modules: sets of any size, any amounts, any number of
attempts, transactions and faults. Where a module adds up rows, the set of the
rows is assumed finite, as a table is.

- `FiniteSums`. A fold of the community modules is a recursive function on the
  subsets of its index set, chosen by CHOOSE. That such a function exists and
  that all of them agree (`RecursSomehow`, `RecursOnce`), and each law after
  that, is proved by contradiction: a finite set has a smallest subset for
  which the law fails (`Smallest`, from the library's `WFMin`), and the law
  for that subset without one element gives the law for it. `SumPick` takes
  any summand out of a sum, `SumChange` is a sum with one summand changed,
  `SumMonotone`, `SumSubset` and `SumZero` compare sums of naturals.

- `OutboxProofs`. `EffectOnce` needs that a row whose handler runs is handled by
  one consumer only (`HandlingAlone`): a receipt being inserted keeps others
  out until it commits. `ClaimsExclusive` assumes `TimeLimited`; the others do
  not. `StatusTruthful` needs that a relay whose publish was accepted has handed
  over the one message it marks next (`AcceptedWasHandedOver`). `Bounded`, under
  `TimeLimited`, is inductive with one addition: a row that can be claimed, or
  that is PROCESSING in no relay's batch, has an attempt left, as the death
  that left it there counts. Deaths of consumers and losses at the broker do not:
  a row that is published again for their sake has its attempts left.
  `OutboxImplementsDelivery` adds that only recorded events travel.
- `OrderCreationProofs`. `IInv` is `TypeOK` with four parts: what a request
  established under a lock still holds while it has the lock (`Held`), receipts
  with one key agree and name orders of the book (`ReceiptsAgree`), answers
  have receipts (`RepliesHaveReceipts`), and the numbers are an interval that
  ends before the next one (`Numbered`). `Held` carries the argument: no other
  request can insert an order for the quotation or take the sequence's value
  between the read and the commit. The refinement maps every step but the
  commits and answers to a stutter.
- `OrderExecutionProofs`. `IInv` is `TypeOK`, `Coupling`, `ReceivablesFollowLedger`
  and `DepositGatesExecution`. The last is not inductive alone: `Coupling`
  adds that an order under execution with a deposit has its receivables, that
  an order past EXECUTING has shipments (so that its deposit cannot be
  reversed), and that a finished status comes with what it takes to get there.
  `CompletedFrozen` follows from `IInv` for each step. The other three need sums.
  `OrderFollows` adds to the property that an order before EXECUTING has no
  shipments, which holds because `reverse` refuses to take back a deposit that
  shipments were planned on; so an order that begins to execute is not covered,
  having a line (`LinesAssumption`) of which nothing is carried. A milestone
  changes what is covered only of the orders of its shipment, and those are the
  orders that `refresh_shipping_progress` looks at. `ReceiptsSum` follows each
  row through both sums it counts in: `allocate` adds it to the receipt's and to
  the receivable's, `reverse` takes the receipt out of the second. For
  `CompletedSettled`, the whole quantity is delivered and no more is planned, so
  no other shipment carries any of it; afterwards nothing of this can change.
- `ProcurementProofs`, first part. `StatusTellsReceipts` and `ReplacedOnce` are inductive
  with `TypeOK`; `HistoryKept` and `FinalizedKeepsCommitments` follow for each
  step. `CommittedWithinOrdered` is kept by each step because a purchase that
  is drafted contributes what was counted before it, a cancelled one no more
  than before (no line receives more than was bought of it), and every other
  command leaves all contributions as they were.
- `ProcurementProofs`, second part. `CInv` says that each row is locked by one transaction
  (`Exclusive`), that a transaction's locks are those its kind has taken by now
  (`Wellformed`), that what it read is still so (`ReadsTrue`), that it counts
  only under all its locks (`CountedUnderLocks`), and that a version never
  names two rows (`VersionTells`). The argument for the counts: receipts and
  closings commit without the sales order's lock, but neither changes what a
  purchase contributes, so the function that is summed stays the same, and so
  does the sum, whatever a sum is. `ImplementsCorrect` then needs no more than
  that conditions on what was read are conditions on what is.
  `TypeCorrectConcurrent` adds the domains of what is asked for, read and counted
  (`AllTyped`) to `CInv`, which says of the locks all that is needed.

- `SupplierFinanceProofs`. First the ledger: `LedgerInv` is `TypeOK`,
  `WithinAmounts`, `ReversedExactly` and `VoidedIsUnpaid` with one addition,
  that a row not yet inserted has no amount, reversals or allocations
  (`UnusedIsEmpty`), without which an insertion could bring money along. The
  three cannot be had one by one: that a payable with nothing paid has no rows
  in force needs that no row returns more than it allocated, which is
  `ReversedExactly`. Then the transactions: `IInv` says of each that it holds
  the locks its kind has taken by now, in the order of the code (`Wellformed`,
  `LocksInOrder`), that the row it looked at is still so (`FoundTrue`), that its
  sums are still the sums (`SumsTrue`), and that a page is either older than
  the version or shows the balance (`PageTells`). A commit of one transaction
  keeps the sums of another because each row counts for one payment and one
  payable, both of which its writer had locked (`LeftAlone`); versions only
  grow, and grow whenever a balance changes (`CountsOn`). The one sum that is
  not protected, the principal of a purchase while a payable is voided, can
  only become smaller, so `SumsTrue` asks for no more of it. No circular wait:
  whoever holds a row and waits for another waits for a payable with a larger
  id than all it holds.

- `WebSessionProofs`. `DataIsOfTheSession` needs `Tidiness`, of each tab: what it
  has fetched or asked for was asked for in the scope it has heard of, so it was
  served under that scope's marker or a later one, never one that was not given
  out; it is of another organization only while the organization heard of is no
  longer the stored one, and then the tab has an event to come, for which the
  next click waits. A gate that is open knows of a session. A tab that hears of
  another scope and is drawn has nothing left (`DrawnIsTidy`); where only the gate
  is drawn, what stays is of the scope heard of before and is as good as it was
  (`GatedIsTidy`, `AlikeIsTidy`); and markers only grow, so data under a later marker means
  that the browser's is later than the one heard of.

- `WorkbenchProofs`. A theorem about one set of tables would be a run over again;
  these are for all tables that keep to the assumptions of `Workbench`, each a rule
  that one form, handler or page can be held against without looking at any
  behaviour. TLC evaluates them on the 96 forms with `web_forms`, and the forms
  listed in section 6 are the ones that break a rule. So a form that is added has to
  be checked against the rules only, and what follows holds for any number of
  requests, turns, contents and versions, where the run has two or three.
  Every proof goes through two lemmas: what becomes of the form in a step
  (`PanelSteps`: it stays, goes, is mounted anew, starts afresh, is edited, or
  sends) and what becomes of the record (`RecordSteps`). Over `Basic`, that is types,
  versions that only grow and turns that only grow with the requests:
  - `Turns`: what an open form sends in one turn names one version, if the form is
    tied to one, and has one content, if the key is renewed with every change.
  - `DoneOnlyOnce`. `ProtectionAssumption` names the ways in which a command is kept
    from being done again, and each is the only one of some form. Its content is
    unique (`ContentOnce`). Its key is kept: what was sent last in a turn has the
    key the form keeps (`LastKey`), and its handlers find that key unless a request
    is under way (`UpToDate`); so equal contents in a row have equal keys
    (`KeyPerContent`), if the key is in a ref, and nothing is done twice under a
    key (`KeyOnce`). If the key is in the state, this holds only as long as none of
    these requests was sent `again` while another was under way: forms that have
    nothing else are `Hasty`, and their commands may be repeated by a hasty press,
    but by nothing else. It names
    one version per turn (`OneBasePerTurn`), and what the handler looks at grows with
    what it does (`VersionOnce`). The status it leads to is one of a set that no step
    leaves and from which it is not done (`StatusOnce`). Or a step leaves that set
    only with the version: then two runs are two versions apart
    (`TwoApart`), and as what a page shows only grows (`SawGrows`), the second was
    decided on somebody else's work. Or a step leaves that set only with the row, and
    the handler looks at which row is meant (`RowOnce`).
  - `NobodyIsStuck` needs `Keys`: a key is used for one content and version, and the
    key a form has kept belongs to what the form is at. `DecidedOnWhatIsDone` needs
    that a request names nothing later than it was decided on and nothing that is to
    come (`NamesWhatItSaw`); the handler's comparison closes the gap.
    `OffersAreAccepted` needs that what a request was sent on was offered, also by a
    form that holds on (`Offers`).
  - `OwnWorkIsSeen` needs `WillShow`: a query that is behind is left out by the hook,
    under way, or waits for an answer, unless a request failed. A query keyed by the
    version is behind only while the page shows an older version
    (`BehindInVersion`), so fetching the record is enough.

Only model-checked. `EventSettles`, `RequestsEnd` and `SessionsConverge`,
which are liveness. That the tables of the pages keep to the assumptions of
`Workbench` is evaluated by TLC, form by form.
`DeliveredRegainsDocuments` and `PendingHasAttemptsLeft` do not
hold: they are the findings.

## 5. Findings

1. `order_evidence`: `deliver` looks at no documents (`fulfillment/services.py:462`).
   A replacement of a required document that was started after departure and is
   still pending when the shipment is delivered can never be completed
   (`documents/access.py:70` refuses), nor can another be uploaded; the
   order can then never be completed, as completion requires all documents.
2. `outbox_threshold`: the guide (line 478) sends an event that has passed its
   threshold to DEAD; `recover_stale` (`platform/outbox.py:112`) puts a row
   back to PENDING without looking at its attempts. `AttemptsBounded` says how
   far this can go: one more claim for each relay that dies.

## 6. What the code leaves open

The run `web_forms` names the forms for which a property does not hold, in the
constants of `MCWorkbench.cfg`; each is a fact about the code.

- `Unprotected`: creating a lead and the contact and no-response steps of a lead
  send neither key nor version (`leads/api.ts:67`, `:85`), so a repetition after
  a lost answer is done again. For the two steps it takes somebody else's step
  in between, which four versions show and three do not.
- `Hasty`: recording an expense, creating a payable and recording a supplier payment
  (`finance/expense-form.tsx:91`, `finance/supplier-form.tsx:138`) have nothing but
  their key to tell a repetition by, and keep it in `useState` without a ref that
  stops the second press. Pressed again before the page is drawn with the button
  disabled, they draw another UUID and the command is done twice; `DoneOnce` shows
  that a lost answer, an error or a slow one does not do it. Creating a contract
  (`contracts/forms.tsx:96`) has the same form, but is refused while there is a
  contract: it takes somebody who voids the first one in between, a version more
  than the run has. The other forms that keep the key so (receiving and closing,
  changing a purchase, the customer's review, the steps of an opportunity, product
  links, members) are protected by a version, a status or a unique content too.
- `Sticky`: the forms that record a receipt and allocate one renew their key
  only on success (`finance/order-finance.tsx:115`, `:196`), and the form of a
  new export case keeps one key; if an answer is lost and the person then
  corrects the form, the server refuses it until the page is mounted again.
- `Outdated`: the form that changes a purchase is filled when it is opened and
  sends the version the page shows when it is sent
  (`orders/purchase-changes.tsx:65`), so it passes the check of the version with
  lines written for an older one.
- `Unvetted`: completing an order and generating its receivables are offered in
  statuses the server refuses; changing a purchase is offered after its sales
  order is completed; starting negotiations stays on the page, mounted anew,
  when the opportunity has gone to negotiation, even by the same command if the
  record is drawn before the hook is through
  (`opportunities/opportunity-workspace.tsx:283`).
- `LeftBehind` (`MCWorkbench`): confirming an order stages a task that the page's
  `order-finance` query shows only later; expenses, contracts, payables, supplier
  payments and reviews of a task write to the timeline, which is polled every
  minute and not fetched again.

`DoneOnce` does not speak of a repetition after something else was sent or after
somebody else's work came to be seen: a key is kept for the last payload only,
and then the repetition is a new decision.

## 7. Not modelled, and why

- Row-by-row locks of receipts, reversals and completions (`finance/services.py`):
  one command is one step in `OrderExecution`. The two transactions of an upload
  around the signed URL, and the leased runner of the assistant
  (`ai/runner.py`): their results appear as moves of a record, their concurrency
  does not. The rule of the last administrator needs several members at once.
- Projections, search, overviews, estimates and counts change no state. Storage
  and the model provider are external. Migrations are declarations.
- Authorisation inside a handler is a precondition of each action of the
  transactional modules; `Workbench` compares the permissions a page asks for
  with those its handler requires.
- Of the forms: wording, layout, pagination, the validation of fields, and the
  reviews of texts other than those of tasks and timeline entries, which run
  through the same component and the same handler with another table. An upload
  keeps the client, and so the organization, it began with; the query of a
  revision that fails while the form is open takes the form away.
- The bearer token of isolated tests is not part of `WebSession`.
