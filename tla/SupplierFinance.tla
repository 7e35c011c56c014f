--------------------------- MODULE SupplierFinance ---------------------------
(***************************************************************************)
(* SupplierFinanceService of                                               *)
(* apps/api/app/finance/supplier_services.py while its commands run        *)
(* against each other.  A command is one READ COMMITTED transaction: it    *)
(* locks a purchase, or a payment and the payables that its rows are for,  *)
(* in the order of their ids, then adds up the rows that others inserted   *)
(* and inserts its own.  No lock is on the rows that it adds up.           *)
(*                                                                         *)
(* create_payable also locks the sales order before the purchase; as other *)
(* commands on the purchase meet at its row, that row stands for both.     *)
(***************************************************************************)
EXTENDS SupplierLedger

CONSTANT Sessions  \* bound: the transactions that run at once

\* Primary keys: no two rows have the same, and those of the payables are ordered.
ASSUME RowsAssumption ==
  /\ Payables \subseteq Nat
  /\ Purchases \cap Payables = {} /\ Payments \cap Payables = {}
  /\ Purchases \cap Payments = {}

VARIABLES
  request,  \* the command a session runs, None when it runs none
  locks,    \* the rows that it has locked
  sums,     \* per row, the sum that it has read for it
  found     \* the allocations of the payment that it has read when it looked at it

sessionVars == <<request, locks, sums, found>>
vars == <<ledgerVars, sessionVars>>

Rows == Purchases \cup Payables \cup Payments
Kinds == {"create", "void", "allocate", "reverse"}

\* The sum that a command reads for a row.
SumOf(r) == IF r \in Purchases THEN Principal(r)
            ELSE IF r \in Payments THEN Spent(r) ELSE Paid(r)

Version(r) == IF r \in Payments THEN payments[r].version ELSE payables[r].version

\* seen: the versions and sums on the client's page, of the rows that it names.
Page == [version : Nat, sum : Int]
Requests == [kind : Kinds, target : Rows, amount : 0..MaxAmount,
             shares : [Payables -> 0..MaxShare], seen : [Rows -> Page \cup {None}]]

Idle(a) == request[a] = None
Kind(a) == request[a].kind
Target(a) == request[a].target
Share(a, q) == request[a].shares[q]

\* The rows that a request names with their versions.
Named(kind, target, shares) ==
  IF kind = "create" THEN {} ELSE {target} \cup {q \in Payables : shares[q] > 0}

NoSums == [r \in Rows |-> None]

Settles(a) == Kind(a) \in {"allocate", "reverse"}

\* The payables that a settlement is about.
Touched(a) ==
  {q \in Payables : IF Kind(a) = "reverse" THEN found[a][q] > 0 ELSE Share(a, q) > 0}

\* Mutant: an allocation locks its payment only.
NeedsPaymentOnly(a) ==
  {Target(a)} \cup IF Kind(a) = "reverse" /\ found[a] # None THEN Touched(a) ELSE {}

\* The rows that a command locks: the payables after it has looked at the payment.
Needs(a) ==
  {Target(a)} \cup IF Settles(a) /\ found[a] # None THEN Touched(a) ELSE {}

TypeOKConcurrent ==
  /\ TypeOK
  /\ request \in [Sessions -> Requests \cup {None}]
  /\ locks \in [Sessions -> SUBSET Rows]
  /\ sums \in [Sessions -> [Rows -> Int \cup {None}]]
  /\ found \in [Sessions -> [Payables -> Nat] \cup {None}]
  /\ \A a \in Sessions :
       IF Idle(a) THEN locks[a] = {} /\ sums[a] = NoSums /\ found[a] = None
       ELSE locks[a] \subseteq Needs(a) /\ (found[a] # None => Target(a) \in locks[a])

InitConcurrent ==
  /\ Init
  /\ request = [a \in Sessions |-> None]
  /\ locks = [a \in Sessions |-> {}]
  /\ sums = [a \in Sessions |-> NoSums]
  /\ found = [a \in Sessions |-> None]

-----------------------------------------------------------------------------
(* Requests: for what the client's page shows to be there and in force.    *)

Send(a, kind, target, amount, shares) ==
  /\ Idle(a)
  /\ request' = [request EXCEPT ![a] =
       [kind |-> kind, target |-> target, amount |-> amount, shares |-> shares,
        seen |-> [r \in Rows |-> IF r \in Named(kind, target, shares)
                                 THEN [version |-> Version(r), sum |-> SumOf(r)]
                                 ELSE None]]]
  /\ UNCHANGED <<ledgerVars, locks, sums, found>>

InForce(q) == Owed(q) /\ ~payables[q].voided

\* Bound: nobody asks for a payable when there are no more.
Left == \E q \in Payables : ~Owed(q)

Ask(a) ==
  \/ \E b \in confirmed, amount \in Amounts : Left /\ Send(a, "create", b, amount, Nothing)
  \/ \E q \in Payables : InForce(q) /\ Send(a, "void", q, 0, Nothing)
  \/ \E p \in Payments :
       /\ Active(p)
       /\ \/ Send(a, "reverse", p, 0, Nothing)
          \/ \E shares \in Shares :
               /\ \A q \in Payables : shares[q] > 0 => InForce(q)
               /\ Send(a, "allocate", p, 0, shares)

-----------------------------------------------------------------------------
(* Locks, held until the transaction ends.                                 *)

\* Mutant: the payables are locked in the order in which they are named.
BeforeUnsorted(r, s) == r \in Payments /\ s \in Payables

\* The payment comes first, and the payables are sorted.
Before(r, s) == s \in Payables /\ (r \in Payments \/ (r \in Payables /\ r < s))

\* Mutant: purchases are read without FOR UPDATE.
PurchaseUnlocked(r) == r \in Purchases \/ \A b \in Sessions : r \notin locks[b]

Free(r) == \A b \in Sessions : r \notin locks[b]

MayLock(a, r) ==
  /\ ~Idle(a)
  /\ r \in Needs(a) \ locks[a]
  /\ \A s \in Needs(a) : Before(s, r) => s \in locks[a]

Lock(a, r) ==
  /\ MayLock(a, r) /\ Free(r)
  /\ locks' = [locks EXCEPT ![a] = @ \cup {r}]
  /\ UNCHANGED <<ledgerVars, request, sums, found>>

\* check_version.
VersionSeen(a, r) == Version(r) = request[a].seen[r].version

\* _active_payment, under the payment's lock and before those of the payables.
Look(a) ==
  /\ ~Idle(a) /\ Settles(a) /\ found[a] = None
  /\ Target(a) \in locks[a]
  /\ VersionSeen(a, Target(a)) /\ Active(Target(a))
  /\ found' = [found EXCEPT ![a] = allocated[Target(a)]]
  /\ UNCHANGED <<ledgerVars, request, locks, sums>>

Locked(a) ==
  /\ ~Idle(a)
  /\ Settles(a) => found[a] # None
  /\ Needs(a) \subseteq locks[a]

-----------------------------------------------------------------------------
(* Sums and checks under the locks.                                        *)

\* A reversal looks at no sum.  paid_totals adds up all payables at once; here one
\* after the other.
Summed(a) ==
  CASE Kind(a) = "reverse" -> {}
    [] Kind(a) = "allocate" -> {Target(a)} \cup Touched(a)
    [] OTHER -> {Target(a)}

Sum(a, r) ==
  /\ Locked(a) /\ r \in Summed(a) /\ sums[a][r] = None
  /\ sums' = [sums EXCEPT ![a][r] = SumOf(r)]
  /\ UNCHANGED <<ledgerVars, request, locks, found>>

Creatable(a) ==
  /\ Target(a) \in confirmed
  /\ sums[a][Target(a)] + request[a].amount <= Price[Target(a)]

Voidable(a) ==
  /\ VersionSeen(a, Target(a))
  /\ InForce(Target(a)) /\ sums[a][Target(a)] = 0

\* Mutant: the shares are compared with the payment one by one.
AllocableAlone(a) ==
  \A q \in Touched(a) :
    /\ sums[a][Target(a)] + Share(a, q) <= payments[Target(a)].amount
    /\ VersionSeen(a, q) /\ InForce(q)
    /\ sums[a][q] + Share(a, q) <= payables[q].amount

Allocable(a) ==
  /\ sums[a][Target(a)] + SumOfShares(request[a].shares) <= payments[Target(a)].amount
  /\ \A q \in Touched(a) :
       /\ VersionSeen(a, q) /\ InForce(q)
       /\ sums[a][q] + Share(a, q) <= payables[q].amount

Allowed(a) ==
  CASE Kind(a) = "create" -> Creatable(a)
    [] Kind(a) = "void" -> Voidable(a)
    [] Kind(a) = "allocate" -> Allocable(a)
    [] OTHER -> TRUE

-----------------------------------------------------------------------------
(* The end of a transaction.                                               *)

Release(a) ==
  /\ request' = [request EXCEPT ![a] = None]
  /\ locks' = [locks EXCEPT ![a] = {}]
  /\ sums' = [sums EXCEPT ![a] = NoSums]
  /\ found' = [found EXCEPT ![a] = None]

MayCommit(a) ==
  /\ Locked(a)
  /\ \A r \in Summed(a) : sums[a][r] # None
  /\ Allowed(a)

Commit(a) ==
  /\ MayCommit(a)
  /\ \/ Kind(a) = "create" /\ AddPayable(Target(a), request[a].amount)
     \/ Kind(a) = "void" /\ MarkVoided(Target(a))
     \/ Kind(a) = "allocate" /\ AddAllocations(Target(a), request[a].shares)
     \/ Kind(a) = "reverse" /\ AddReversal(Target(a), found[a])
  /\ Release(a)

\* A check fails, the process dies or the connection is lost.
Rollback(a) == ~Idle(a) /\ Release(a) /\ UNCHANGED ledgerVars

Run(a) ==
  \/ \E r \in Rows : Lock(a, r) \/ Sum(a, r)
  \/ Look(a) \/ Commit(a) \/ Rollback(a)

\* record_payment locks nothing that these commands lock.
NextConcurrent ==
  \/ \E b \in Purchases : Confirm(b) /\ Free(b) /\ UNCHANGED sessionVars
  \/ \E p \in Payments, amount \in Amounts :
       RecordPayment(p, amount) /\ UNCHANGED sessionVars
  \/ \E a \in Sessions : Ask(a) \/ Run(a)

SpecConcurrent == InitConcurrent /\ [][NextConcurrent]_vars

-----------------------------------------------------------------------------
(* Properties. *)

\* Nobody changes a sum while a transaction decides on it, although the rows that it
\* adds up are not locked: whoever inserts one holds the row that it is for.  Only
\* the principal of a purchase may fall, as a payable is voided without its lock.
ReadsStayTrue ==
  \A a \in Sessions :
    /\ \A r \in Rows : sums[a][r] # None =>
         IF r \in Purchases THEN SumOf(r) <= sums[a][r] ELSE SumOf(r) = sums[a][r]
    /\ found[a] # None => found[a] = allocated[Target(a)]

\* The versions tell what is paid: an allocation, void or reversal is committed only
\* on balances that its sender saw, though these are no columns of the rows
\* (check_version).
SettledAsSeen ==
  \A a \in Sessions : MayCommit(a) =>
    \A r \in Named(Kind(a), Target(a), request[a].shares) :
      SumOf(r) = request[a].seen[r].sum

\* Transactions never wait for each other in a circle: the payables that two of them
\* share are locked in one order (allocate, reverse).
WaitsFor(a, b) == \E r \in Rows : MayLock(a, r) /\ r \in locks[b]
NobodyWaitsInACircle ==
  \A S \in SUBSET Sessions : S # {} => \E a \in S : \A b \in S : ~WaitsFor(a, b)

\* Concurrent commands do what commands one after the other would.
ImplementsSupplierLedger == Spec

=============================================================================
