------------------------------ MODULE Purchase ------------------------------
(***************************************************************************)
(* The purchase state machine of apps/api: POST /purchases requests run by *)
(* several API replicas, the MongoDB purchase records, payments and        *)
(* tickets, the Redis ticket claims and locks, and the reconciliation job  *)
(* every replica runs once a minute.                                       *)
(*                                                                         *)
(* A request is a process that takes one step per awaited call.  A call    *)
(* may never reach the store, or take effect and lose its reply; a process *)
(* may crash; and it may stall longer than a lease.  Each of these         *)
(* consumes one of the MaxFaults faults.                                   *)
(*                                                                         *)
(* A definition whose name ends in _Faulty is a variant with a plausible   *)
(* bug.  No action uses one: PROJECT.json names the property that each     *)
(* would violate in the place of the definition after it.                  *)
(*                                                                         *)
(* All tickets belong to one showtime, so that a claim is one Lua call.    *)
(***************************************************************************)
EXTENDS Naturals

CONSTANTS
    Request,    \* POST /purchases calls; a record has the name of its request
    Sweeper,    \* runs of the reconciliation job, one per replica
    User, Ticket, IdempotencyKey,
    Nobody,     \* null: no owner, no buyer, no job
    UserOf,     \* the authenticated customer of a request
    KeyOf,      \* its Idempotency-Key header
    ItemsOf,    \* the tickets of its body; stands for its fingerprint too
    SeatsOf,    \* the sets of seats each customer may choose to hold
    MaxFaults   \* bound on failed calls, lost replies, crashes and stalls

ASSUME RequestAssumption ==
    /\ UserOf \in [Request -> User]
    /\ KeyOf \in [Request -> IdempotencyKey]
    /\ ItemsOf \in [Request -> (SUBSET Ticket) \ {{}}]
    /\ SeatsOf \in [User -> SUBSET SUBSET Ticket]

ASSUME NameAssumption ==
    /\ Nobody \notin Request \union Sweeper \union User
    /\ Request \intersect Sweeper = {}
    /\ Request \intersect User = {}

ASSUME BoundAssumption == MaxFaults \in Nat

VARIABLES
    status, completionId, reconciliationId, leaseExpired, storedError,
    payment,            \* the payment of each record
    soldTo,             \* the record each ticket is sold to
    ticketKey,          \* Redis: the owner of each ticket
    userKey,            \* Redis: the list of tickets each user holds
    lock,               \* Redis: the lock of each set of tickets
    step, job,          \* where each process is, and the record it works on
    answer,             \* what each request answers its caller
    faults

recordVars == <<status, completionId, reconciliationId, leaseExpired, storedError>>
holdVars == <<ticketKey, userKey>>
processVars == <<step, job, answer, faults>>
vars == <<recordVars, payment, soldTo, holdVars, lock, processVars>>

-----------------------------------------------------------------------------
Worker == Request \union Sweeper

Status == {"none", "pending", "completing", "completed", "compensating", "cancelled"}
Open == {"pending", "completing", "compensating"}
Terminal == {"completed", "cancelled"}

\* "unresolved" is charged with requiresPurchaseResolution still set
Payment == {"none", "unresolved", "resolved", "cancelled"}

Answer == {"none", "completed", "keyReused", "inProgress", "storedError",
           "operationFailed", "rejected", "failed"}

\* the steps of a request before, inside and after the try block of
\* processPurchaseLocked, and the steps of reconcilePurchase ("refundOnly": the
\* payment is cancelled after the release of the claims failed)
EntrySteps == {"lookup", "acquire", "recheck", "available", "validate", "create", "winner"}
AttemptSteps == {"claim", "pay", "bind", "revoke", "lease", "confirm", "commit"}
ReconcileSteps == {"release", "refund", "refundOnly", "mark", "yield"}
SettleSteps == {"resolve", "cancel"}
StoppedSteps == {"idle", "answered", "crashed"}
Step == EntrySteps \union AttemptSteps \union ReconcileSteps \union SettleSteps
        \union StoppedSteps \union {"compensate", "cleanup", "unlock"}

LockKey == {ItemsOf[p] : p \in Request}

TypeOK ==
    /\ status \in [Request -> Status]
    /\ completionId \in [Request -> Request \union {Nobody}]
    /\ reconciliationId \in [Request -> Worker \union {Nobody}]
    /\ leaseExpired \in [Request -> BOOLEAN]
    /\ storedError \in [Request -> BOOLEAN]
    /\ payment \in [Request -> Payment]
    /\ soldTo \in [Ticket -> Request \union {Nobody}]
    /\ ticketKey \in [Ticket -> User \union Request \union {Nobody}]
    /\ userKey \in [User -> SUBSET Ticket]
    /\ lock \in [LockKey -> Request \union {Nobody}]
    /\ step \in [Worker -> Step]
    /\ job \in [Worker -> Request \union {Nobody}]
    /\ \A p \in Request : job[p] = p
    /\ answer \in [Request -> Answer]
    /\ faults \in Nat

Init ==
    /\ status = [p \in Request |-> "none"]
    /\ completionId = [p \in Request |-> Nobody]
    /\ reconciliationId = [p \in Request |-> Nobody]
    /\ leaseExpired = [p \in Request |-> FALSE]
    /\ storedError = [p \in Request |-> FALSE]
    /\ payment = [p \in Request |-> "none"]
    /\ soldTo = [t \in Ticket |-> Nobody]
    /\ ticketKey = [t \in Ticket |-> Nobody]
    /\ userKey = [u \in User |-> {}]
    /\ lock = [k \in LockKey |-> Nobody]
    /\ step = [w \in Worker |-> "idle"]
    /\ job = [w \in Worker |-> IF w \in Request THEN w ELSE Nobody]
    /\ answer = [p \in Request |-> "none"]
    /\ faults = 0

-----------------------------------------------------------------------------
(***************************************************************************)
(* How a process leaves a step.                                            *)
(***************************************************************************)

Respond(p, a) == answer' = [answer EXCEPT ![p] = a]

\* every caller of reconcilePurchase is taken for the job
AfterReconcile_Faulty(w) == "idle"

\* where reconcilePurchase returns to: the request, or the job's next record
AfterReconcile(w) == IF w \in Request THEN "unlock" ELSE "idle"

GoTo(w, s) ==
    /\ step' = [step EXCEPT ![w] = s]
    /\ job' = IF s = "idle" THEN [job EXCEPT ![w] = Nobody] ELSE job

\* the step that follows when the call of the current one throws
OnError(w) ==
    CASE step[w] \in {"lookup", "acquire", "unlock"} -> "answered"
      [] step[w] \in (EntrySteps \ {"lookup", "acquire"}) \union {"cleanup", "compensate"}
            -> "unlock"
      [] step[w] = "bind" -> "revoke"
      [] step[w] \in AttemptSteps \ {"bind"} -> "compensate"
      [] step[w] = "release" -> "refundOnly"
      [] step[w] \in {"refund", "refundOnly", "mark"} -> "yield"
      [] step[w] = "yield" -> AfterReconcile(w)
      [] step[w] \in SettleSteps \union StoppedSteps -> "idle"

\* the call returned
Proceed(w, s) == GoTo(w, s) /\ UNCHANGED <<answer, faults>>

\* the call returned, and the request fails on what it says
Abort(p, s) == GoTo(p, s) /\ Respond(p, "failed") /\ UNCHANGED faults

\* the call threw; an error of the cleanup after the sale is swallowed, every
\* other one is what the request answers
Throw(w) ==
    /\ faults < MaxFaults
    /\ faults' = faults + 1
    /\ GoTo(w, OnError(w))
    /\ IF w \in Request
          THEN Respond(w, IF step[w] = "cleanup" THEN "completed" ELSE "failed")
          ELSE UNCHANGED answer

\* the write took effect; its reply came back or was lost
Reply(w, s) == Proceed(w, s) \/ Throw(w)

-----------------------------------------------------------------------------
(***************************************************************************)
(* Ticket holds in Redis.                                                  *)
(***************************************************************************)

\* HOLD_TICKETS_SCRIPT, called by a customer who is choosing seats
HoldTickets(u, S) ==
    /\ \A t \in S : ticketKey[t] \in {Nobody, u}
    /\ ticketKey' = [t \in Ticket |->
                        IF t \in S THEN u
                        ELSE IF t \in userKey[u] /\ ticketKey[t] = u THEN Nobody
                        ELSE ticketKey[t]]
    /\ userKey' = [userKey EXCEPT ![u] = S]
    /\ UNCHANGED <<recordVars, payment, soldTo, lock, processVars>>

Claimable(p) == \A t \in ItemsOf[p] : ticketKey[t] = UserOf[p]

\* deletes the keys without comparing their owner
Released_Faulty(p) == [t \in Ticket |-> IF t \in ItemsOf[p] THEN Nobody ELSE ticketKey[t]]

\* what RELEASE_PURCHASE_CLAIM_SCRIPT leaves: only the purchase's own keys go
Released(p) ==
    [t \in Ticket |-> IF t \in ItemsOf[p] /\ ticketKey[t] = p THEN Nobody ELSE ticketKey[t]]

\* A key reaches its TTL.  The claim a purchase confirmed was renewed after its
\* completion lease was taken and lasts as long, so it outlives that lease.
TicketKeyExpires(t) ==
    /\ ticketKey[t] # Nobody
    /\ \A p \in Request :
          ticketKey[t] = p /\ status[p] = "completing" /\ step[p] = "commit"
              => leaseExpired[p]
    /\ ticketKey' = [ticketKey EXCEPT ![t] = Nobody]
    /\ UNCHANGED <<recordVars, payment, soldTo, userKey, lock, processVars>>

UserKeyExpires(u) ==
    /\ userKey[u] # {}
    /\ userKey' = [userKey EXCEPT ![u] = {}]
    /\ UNCHANGED <<recordVars, payment, soldTo, ticketKey, lock, processVars>>

-----------------------------------------------------------------------------
(***************************************************************************)
(* Admission: idempotency lookup, lock, checks, the durable pending row.   *)
(***************************************************************************)

SameOperation(p, q) == UserOf[p] = UserOf[q] /\ KeyOf[p] = KeyOf[q]

\* findByIdempotencyKey: the record the unique index (userId, key) admits
Recorded(p) == {q \in Request : SameOperation(p, q) /\ status[q] # "none"}

\* does not compare the fingerprints
ReplayOf_Faulty(p, q) ==
    CASE status[q] = "completed" -> "completed"
      [] status[q] \in Open -> "inProgress"
      [] status[q] = "cancelled" -> IF storedError[q] THEN "storedError" ELSE "operationFailed"

\* replayIdempotencyOperation
ReplayOf(p, q) ==
    CASE ItemsOf[p] # ItemsOf[q] -> "keyReused"
      [] ItemsOf[p] = ItemsOf[q] /\ status[q] = "completed" -> "completed"
      [] ItemsOf[p] = ItemsOf[q] /\ status[q] \in Open -> "inProgress"
      [] ItemsOf[p] = ItemsOf[q] /\ status[q] = "cancelled" ->
            IF storedError[q] THEN "storedError" ELSE "operationFailed"

Submit(p) ==
    /\ step[p] = "idle"
    /\ Proceed(p, "lookup")
    /\ UNCHANGED <<recordVars, payment, soldTo, holdVars, lock>>

\* An operation with this key exists: before the lock, under it, or because
\* the insert of the record lost against it.
Replay(p) ==
    /\ step[p] \in {"lookup", "recheck", "winner"}
    /\ \E q \in Recorded(p) : Respond(p, ReplayOf(p, q))
    /\ GoTo(p, IF step[p] = "lookup" THEN "answered" ELSE "unlock")
    /\ UNCHANGED <<recordVars, payment, soldTo, holdVars, lock, faults>>

LookupNothing(p) ==
    /\ step[p] \in {"lookup", "recheck"}
    /\ Recorded(p) = {}
    /\ Proceed(p, IF step[p] = "lookup" THEN "acquire" ELSE "available")
    /\ UNCHANGED <<recordVars, payment, soldTo, holdVars, lock>>

AcquireLock(p) ==
    /\ step[p] = "acquire"
    /\ lock[ItemsOf[p]] = Nobody
    /\ lock' = [lock EXCEPT ![ItemsOf[p]] = p]
    /\ Reply(p, "recheck")
    /\ UNCHANGED <<recordVars, payment, soldTo, holdVars>>

LockWaitTimesOut(p) ==
    /\ step[p] = "acquire"
    /\ lock[ItemsOf[p]] # Nobody
    /\ Abort(p, "answered")
    /\ UNCHANGED <<recordVars, payment, soldTo, holdVars, lock>>

CheckAvailable(p) ==
    /\ step[p] = "available"
    /\ \A t \in ItemsOf[p] : soldTo[t] = Nobody
    /\ Proceed(p, "validate")
    /\ UNCHANGED <<recordVars, payment, soldTo, holdVars, lock>>

\* validatePurchase reads the user's list, not the ticket keys
Validate(p) ==
    /\ step[p] = "validate"
    /\ ItemsOf[p] \subseteq userKey[UserOf[p]]
    /\ Proceed(p, "create")
    /\ UNCHANGED <<recordVars, payment, soldTo, holdVars, lock>>

\* 409 already sold; 400 not held, a wrong price, too many tickets or the
\* purchase window has closed: the last three may refuse any request
Reject(p) ==
    /\ \/ step[p] = "available" /\ \E t \in ItemsOf[p] : soldTo[t] # Nobody
       \/ step[p] = "validate"
    /\ Respond(p, "rejected")
    /\ GoTo(p, "unlock")
    /\ UNCHANGED <<recordVars, payment, soldTo, holdVars, lock, faults>>

\* without the unique index on (userId, idempotencyKey)
CreateRecord_Faulty(p) ==
    /\ step[p] = "create"
    /\ status' = [status EXCEPT ![p] = "pending"]
    /\ Reply(p, "claim")
    /\ UNCHANGED <<completionId, reconciliationId, leaseExpired, storedError>>
    /\ UNCHANGED <<payment, soldTo, holdVars, lock>>

CreateRecord(p) ==
    /\ step[p] = "create"
    /\ Recorded(p) = {}
    /\ status' = [status EXCEPT ![p] = "pending"]
    /\ Reply(p, "claim")
    /\ UNCHANGED <<completionId, reconciliationId, leaseExpired, storedError>>
    /\ UNCHANGED <<payment, soldTo, holdVars, lock>>

DuplicateKey(p) ==
    /\ step[p] = "create"
    /\ Recorded(p) # {}
    /\ Proceed(p, "winner")
    /\ UNCHANGED <<recordVars, payment, soldTo, holdVars, lock>>

\* the token-checked release; when it throws, its error replaces the answer
ReleaseLock(p) ==
    /\ step[p] = "unlock"
    /\ lock' = [lock EXCEPT ![ItemsOf[p]] = IF @ = p THEN Nobody ELSE @]
    /\ Reply(p, "answered")
    /\ UNCHANGED <<recordVars, payment, soldTo, holdVars>>

-----------------------------------------------------------------------------
(***************************************************************************)
(* The attempt: claim the seats, charge, take the completion lease, sell.  *)
(***************************************************************************)

ClaimTickets(p) ==
    /\ step[p] = "claim"
    /\ Claimable(p)
    /\ ticketKey' = [t \in Ticket |-> IF t \in ItemsOf[p] THEN p ELSE ticketKey[t]]
    /\ userKey' = [userKey EXCEPT ![UserOf[p]] =
                      {t \in @ \ ItemsOf[p] : ticketKey[t] = UserOf[p]}]
    /\ Reply(p, "pay")
    /\ UNCHANGED <<recordVars, payment, soldTo, lock>>

\* the upsert keyed by purchaseRecordId
CreatePayment(p) ==
    /\ step[p] = "pay"
    /\ payment' = [payment EXCEPT ![p] = IF @ = "none" THEN "unresolved" ELSE @]
    /\ Reply(p, "bind")
    /\ UNCHANGED <<recordVars, soldTo, holdVars, lock>>

SetPaymentId(p) ==
    /\ step[p] = "bind"
    /\ status[p] = "pending"
    /\ leaseExpired' = [leaseExpired EXCEPT ![p] = FALSE]
    /\ Reply(p, "lease")
    /\ UNCHANGED <<status, completionId, reconciliationId, storedError>>
    /\ UNCHANGED <<payment, soldTo, holdVars, lock>>

\* cancelByPurchaseRecordId
Cancelled(p) == [payment EXCEPT ![p] = IF @ = "none" THEN @ ELSE "cancelled"]

\* the reconciler won, or the reply of setPaymentId was lost
CancelLatePayment(p) ==
    /\ step[p] = "revoke"
    /\ payment' = Cancelled(p)
    /\ Reply(p, "compensate")
    /\ UNCHANGED <<recordVars, soldTo, holdVars, lock>>

ClaimForCompletion(p) ==
    /\ step[p] = "lease"
    /\ status[p] = "pending"
    /\ status' = [status EXCEPT ![p] = "completing"]
    /\ completionId' = [completionId EXCEPT ![p] = p]
    /\ leaseExpired' = [leaseExpired EXCEPT ![p] = FALSE]
    /\ Reply(p, "confirm")
    /\ UNCHANGED <<reconciliationId, storedError, payment, soldTo, holdVars, lock>>

Confirmed(p) == \A t \in ItemsOf[p] : ticketKey[t] = p

ConfirmClaims(p) ==
    /\ step[p] = "confirm"
    /\ Confirmed(p)
    /\ Proceed(p, "commit")
    /\ UNCHANGED <<recordVars, payment, soldTo, holdVars, lock>>

\* the ticket's status is only checked before the lock is taken
Sellable_Faulty(p) == TRUE

\* the filter of sellAvailableForPurchase
Sellable(p) == \A t \in ItemsOf[p] : soldTo[t] = Nobody

\* completes by id, whoever has taken the record over meanwhile
OwnsCompletion_Faulty(p) == status[p] # "none"

\* the filter of markCompleted
OwnsCompletion(p) == status[p] = "completing" /\ completionId[p] = p

\* One transaction.  Every document its filters match it also writes, so a
\* concurrent writer of one of them conflicts with it: it is one step.
CommitPurchase(p) ==
    /\ step[p] = "commit"
    /\ Sellable(p)
    /\ OwnsCompletion(p)
    /\ soldTo' = [t \in Ticket |-> IF t \in ItemsOf[p] THEN p ELSE soldTo[t]]
    /\ status' = [status EXCEPT ![p] = "completed"]
    /\ completionId' = [completionId EXCEPT ![p] = Nobody]
    /\ reconciliationId' = [reconciliationId EXCEPT ![p] = Nobody]
    /\ leaseExpired' = [leaseExpired EXCEPT ![p] = FALSE]
    /\ payment' = [payment EXCEPT ![p] = IF @ = "unresolved" THEN "resolved" ELSE @]
    /\ Reply(p, "cleanup")
    /\ UNCHANGED <<storedError, holdVars, lock>>

\* claim, setPaymentId, claimForCompletion, confirm and the transaction throw
\* when their condition fails
AttemptRefused(p) ==
    /\ \/ step[p] = "claim" /\ ~Claimable(p)
       \/ step[p] = "bind" /\ status[p] # "pending"
       \/ step[p] = "lease" /\ status[p] # "pending"
       \/ step[p] = "confirm" /\ ~Confirmed(p)
       \/ step[p] = "commit" /\ ~(Sellable(p) /\ OwnsCompletion(p))
    /\ Abort(p, IF step[p] = "bind" THEN "revoke" ELSE "compensate")
    /\ UNCHANGED <<recordVars, payment, soldTo, holdVars, lock>>

CleanupClaims(p) ==
    /\ step[p] = "cleanup"
    /\ ticketKey' = Released(p)
    /\ Respond(p, "completed")
    /\ \/ GoTo(p, "unlock") /\ UNCHANGED faults
       \/ Throw(p)
    /\ UNCHANGED <<recordVars, payment, soldTo, userKey, lock>>

-----------------------------------------------------------------------------
(***************************************************************************)
(* Reconciliation: reconcilePurchase, called by the failed request itself  *)
(* and by the periodic job, and the job's sweep of unresolved payments.    *)
(***************************************************************************)

\* a compensation whose reconciler died is not a candidate
Reclaimable_Abandons_Faulty(w, p) ==
    \/ status[p] \in {"pending", "completing"} /\ leaseExpired[p]
    \/ w = p /\ status[p] = "pending"
    \/ w = p /\ status[p] = "completing" /\ completionId[p] = p

\* a failed request compensates its own record whatever its status
Reclaimable_Faulty(w, p) == (status[p] \in Open /\ leaseExpired[p]) \/ w = p

\* the filter of claimForReconciliation.  A request passes the current time
\* and its own completion id, so its own open record is never too young.
Reclaimable(w, p) ==
    \/ status[p] \in Open /\ leaseExpired[p]
    \/ w = p /\ status[p] = "pending"
    \/ w = p /\ status[p] = "completing" /\ completionId[p] = p

TakeOver(w, p) ==
    /\ status' = [status EXCEPT ![p] = "compensating"]
    /\ completionId' = [completionId EXCEPT ![p] = Nobody]
    /\ reconciliationId' = [reconciliationId EXCEPT ![p] = w]
    /\ leaseExpired' = [leaseExpired EXCEPT ![p] = FALSE]

ClaimOwn(p) ==
    /\ step[p] = "compensate"
    /\ Reclaimable(p, p)
    /\ TakeOver(p, p)
    /\ storedError' = [storedError EXCEPT ![p] = TRUE]
    /\ Reply(p, "release")
    /\ UNCHANGED <<payment, soldTo, holdVars, lock>>

NothingToReconcile(p) ==
    /\ step[p] = "compensate"
    /\ ~Reclaimable(p, p)
    /\ Proceed(p, "unlock")
    /\ UNCHANGED <<recordVars, payment, soldTo, holdVars, lock>>

\* findPendingBefore lists what this claim's filter accepts; the claim decides
SweepRecord(s, p) ==
    /\ step[s] = "idle"
    /\ Reclaimable(s, p)
    /\ TakeOver(s, p)
    /\ \/ /\ step' = [step EXCEPT ![s] = "release"]
          /\ job' = [job EXCEPT ![s] = p]
          /\ UNCHANGED <<answer, faults>>
       \/ Throw(s)
    /\ UNCHANGED <<storedError, payment, soldTo, holdVars, lock>>

ReleaseClaims(w) ==
    /\ step[w] = "release"
    /\ ticketKey' = Released(job[w])
    /\ Reply(w, "refund")
    /\ UNCHANGED <<recordVars, payment, soldTo, userKey, lock>>

CancelPayment(w) ==
    /\ step[w] \in {"refund", "refundOnly"}
    /\ payment' = Cancelled(job[w])
    /\ Reply(w, IF step[w] = "refund" THEN "mark" ELSE "yield")
    /\ UNCHANGED <<recordVars, soldTo, holdVars, lock>>

OwnsReconciliation(w) ==
    status[job[w]] = "compensating" /\ reconciliationId[job[w]] = w

\* a reconciler whose lease was taken over finds no record to mark
MarkCancelled_Faulty(w) ==
    /\ step[w] = "mark"
    /\ OwnsReconciliation(w)
    /\ status' = [status EXCEPT ![job[w]] = "cancelled"]
    /\ reconciliationId' = [reconciliationId EXCEPT ![job[w]] = Nobody]
    /\ leaseExpired' = [leaseExpired EXCEPT ![job[w]] = FALSE]
    /\ Reply(w, AfterReconcile(w))
    /\ UNCHANGED <<completionId, storedError, payment, soldTo, holdVars, lock>>

\* a reconciler whose lease was taken over matches nothing and does not notice
MarkCancelled(w) ==
    /\ step[w] = "mark"
    /\ IF OwnsReconciliation(w)
          THEN /\ status' = [status EXCEPT ![job[w]] = "cancelled"]
               /\ reconciliationId' = [reconciliationId EXCEPT ![job[w]] = Nobody]
               /\ leaseExpired' = [leaseExpired EXCEPT ![job[w]] = FALSE]
          ELSE UNCHANGED <<status, reconciliationId, leaseExpired>>
    /\ Reply(w, AfterReconcile(w))
    /\ UNCHANGED <<completionId, storedError, payment, soldTo, holdVars, lock>>

YieldReconciliation(w) ==
    /\ step[w] = "yield"
    /\ leaseExpired' = IF OwnsReconciliation(w)
                          THEN [leaseExpired EXCEPT ![job[w]] = TRUE] ELSE leaseExpired
    /\ Reply(w, AfterReconcile(w))
    /\ UNCHANGED <<status, completionId, reconciliationId, storedError>>
    /\ UNCHANGED <<payment, soldTo, holdVars, lock>>

\* only completed purchases are looked at
SweepPayment_Faulty(s, p) ==
    /\ step[s] = "idle"
    /\ payment[p] = "unresolved"
    /\ status[p] = "completed"
    /\ step' = [step EXCEPT ![s] = "resolve"]
    /\ job' = [job EXCEPT ![s] = p]
    /\ UNCHANGED <<recordVars, payment, soldTo, holdVars, lock, answer, faults>>

\* findUnresolvedBefore and getStatusById; the age filter only delays it
SweepPayment(s, p) ==
    /\ step[s] = "idle"
    /\ payment[p] = "unresolved"
    /\ status[p] \in Terminal
    /\ step' = [step EXCEPT ![s] = IF status[p] = "completed" THEN "resolve" ELSE "cancel"]
    /\ job' = [job EXCEPT ![s] = p]
    /\ UNCHANGED <<recordVars, payment, soldTo, holdVars, lock, answer, faults>>

SettlePayment(s) ==
    /\ step[s] \in SettleSteps
    /\ payment' = [payment EXCEPT ![job[s]] =
                      IF step[s] = "cancel" THEN "cancelled"
                      ELSE IF @ = "unresolved" THEN "resolved" ELSE @]
    /\ Reply(s, "idle")
    /\ UNCHANGED <<recordVars, soldTo, holdVars, lock>>

-----------------------------------------------------------------------------
(***************************************************************************)
(* Faults and time.                                                        *)
(***************************************************************************)

\* the call of this step never reached the store
CallFails(w) ==
    /\ step[w] \notin StoppedSteps
    /\ Throw(w)
    /\ UNCHANGED <<recordVars, payment, soldTo, holdVars, lock>>

\* A killed replica: its requests never answer, its job starts again.
Crash(w) ==
    /\ step[w] \notin StoppedSteps
    /\ faults < MaxFaults
    /\ faults' = faults + 1
    /\ GoTo(w, IF w \in Request THEN "crashed" ELSE "idle")
    /\ UNCHANGED <<recordVars, payment, soldTo, holdVars, lock, answer>>

\* the process that owns the current lease of p's record is still at work
Attended(p) ==
    \/ status[p] \in {"pending", "completing"} /\ step[p] \notin StoppedSteps
    \/ \E w \in Worker : /\ status[p] = "compensating"
                         /\ reconciliationId[p] = w
                         /\ job[w] = p
                         /\ step[w] \in ReconcileSteps

\* waiting costs a fault when the one waited for is alive but stalled
Elapse(stalled) ==
    IF stalled THEN faults < MaxFaults /\ faults' = faults + 1 ELSE UNCHANGED faults

\* a pending row gets ten minutes old, or the lease of an open one runs out
LeaseExpires(p) ==
    /\ status[p] \in Open
    /\ ~leaseExpired[p]
    /\ leaseExpired' = [leaseExpired EXCEPT ![p] = TRUE]
    /\ Elapse(Attended(p))
    /\ UNCHANGED <<status, completionId, reconciliationId, storedError>>
    /\ UNCHANGED <<payment, soldTo, holdVars, lock, step, job, answer>>

Guarded(k) == lock[k] # Nobody /\ step[lock[k]] \notin StoppedSteps

LockExpires(k) ==
    /\ lock[k] # Nobody
    /\ lock' = [lock EXCEPT ![k] = Nobody]
    /\ Elapse(Guarded(k))
    /\ UNCHANGED <<recordVars, payment, soldTo, holdVars, step, job, answer>>

-----------------------------------------------------------------------------
RequestStep(p) ==
    \/ Replay(p) \/ LookupNothing(p) \/ AcquireLock(p) \/ LockWaitTimesOut(p)
    \/ CheckAvailable(p) \/ Validate(p) \/ Reject(p) \/ CreateRecord(p) \/ DuplicateKey(p)
    \/ ClaimTickets(p) \/ CreatePayment(p) \/ SetPaymentId(p) \/ CancelLatePayment(p)
    \/ ClaimForCompletion(p) \/ ConfirmClaims(p) \/ CommitPurchase(p) \/ AttemptRefused(p)
    \/ CleanupClaims(p) \/ ClaimOwn(p) \/ NothingToReconcile(p) \/ ReleaseLock(p)

ReconcileStep(w) ==
    ReleaseClaims(w) \/ CancelPayment(w) \/ MarkCancelled(w) \/ YieldReconciliation(w)

SweeperStep(s) ==
    \/ \E p \in Request : SweepRecord(s, p) \/ SweepPayment(s, p)
    \/ SettlePayment(s)
    \/ ReconcileStep(s)

Next ==
    \/ \E p \in Request : Submit(p) \/ RequestStep(p) \/ ReconcileStep(p) \/ LeaseExpires(p)
    \/ \E s \in Sweeper : SweeperStep(s)
    \/ \E w \in Worker : CallFails(w) \/ Crash(w)
    \/ \E u \in User : UserKeyExpires(u) \/ \E S \in SeatsOf[u] : HoldTickets(u, S)
    \/ \E t \in Ticket : TicketKeyExpires(t)
    \/ \E k \in LockKey : LockExpires(k)

Spec == Init /\ [][Next]_vars

\* A live process takes its next step, the job of a live replica keeps running,
\* and time passes.  Nothing obliges a customer to hold seats or to submit.
Fairness ==
    /\ \A p \in Request : WF_vars(RequestStep(p) \/ ReconcileStep(p))
    /\ \A s \in Sweeper : WF_vars(SweeperStep(s))
    /\ \A p \in Request : WF_vars(~Attended(p) /\ LeaseExpires(p))
    /\ \A k \in LockKey : WF_vars(~Guarded(k) /\ LockExpires(k))

FairSpec == Spec /\ Fairness

-----------------------------------------------------------------------------
(***************************************************************************)
(* Safety.                                                                 *)
(***************************************************************************)

\* A ticket is sold to a purchase exactly when that purchase is completed: no
\* ticket is sold twice, a completed purchase has every ticket it paid for, and
\* no stalled or crashed request leaves one without the other (commitPurchase,
\* sellAvailableForPurchase).
SaleIsAtomic ==
    /\ \A t \in Ticket : soldTo[t] # Nobody => /\ status[soldTo[t]] = "completed"
                                               /\ t \in ItemsOf[soldTo[t]]
    /\ \A p \in Request : status[p] = "completed" => \A t \in ItemsOf[p] : soldTo[t] = p

\* The money follows the sale: a completed purchase keeps its charge, and a
\* charge leaves the sweep's reach (requiresPurchaseResolution) without being
\* cancelled only through the sale.  A late refund by a reconciler that lost its
\* lease, or a late charge after a cancellation, breaks it.
ChargeMatchesOutcome ==
    \A p \in Request : status[p] = "completed" <=> payment[p] = "resolved"

\* Retries with one Idempotency-Key are charged at most once, whatever the
\* lookups, the lock and the insert interleave to.
OneChargePerOperation ==
    \A p, q \in Request :
        p # q /\ SameOperation(p, q) => payment[p] = "none" \/ payment[q] = "none"

\* What an answered request was told stays true.  A success means that the
\* purchase of this body is completed, a failure that is replayed that it was
\* cancelled for good, keyReused that the key has another body.  A refusal means
\* that this request has left neither a record nor a charge, not that a retry is
\* refused (RetryGetsFirstResult); and another failure means that this request has
\* bought nothing, unless a fault, like a lost reply, made it look so.
AnswersStayTrue ==
    \A p \in Request : step[p] = "answered" =>
        /\ answer[p] = "completed" =>
              \E q \in Recorded(p) : status[q] = "completed" /\ ItemsOf[q] = ItemsOf[p]
        /\ answer[p] \in {"storedError", "operationFailed"} =>
              \E q \in Recorded(p) : status[q] = "cancelled" /\ ItemsOf[q] = ItemsOf[p]
        /\ answer[p] = "keyReused" => \E q \in Recorded(p) : ItemsOf[q] # ItemsOf[p]
        /\ answer[p] = "rejected" => status[p] = "none" /\ payment[p] = "none"
        /\ answer[p] = "failed" /\ status[p] = "completed" => faults > 0

\* the transitions of the state machine of a purchase record
Advance ==
    {<<"none", "pending">>, <<"pending", "completing">>, <<"completing", "completed">>,
     <<"pending", "compensating">>, <<"completing", "compensating">>,
     <<"compensating", "cancelled">>}

\* Compensation is a point of no return: a record that one reconciler has begun
\* to compensate is never completed by the request it fenced off, and no step
\* leaves a terminal status.
StatusAdvances ==
    [][\A p \in Request :
          status'[p] # status[p] => <<status[p], status'[p]>> \in Advance]_vars

\* No step of a purchase or of a reconciler takes a seat from somebody else: it
\* claims only what its own customer holds and releases only its own claims,
\* however late it runs.
HoldsAreRespected ==
    [][\A t \in Ticket : step' # step /\ ticketKey'[t] # ticketKey[t] =>
          IF ticketKey'[t] = Nobody
             THEN \E w \in Worker : step'[w] # step[w] /\ job[w] = ticketKey[t]
             ELSE ticketKey[t] = UserOf[ticketKey'[t]]]_vars

\* The purchase implements its contract.
Outcome == [p \in Request |-> IF status[p] \in Open THEN "open" ELSE status[p]]
ChargeOf(c) ==
    CASE c = "none" -> "none" [] c = "unresolved" -> "held"
      [] c = "resolved" -> "kept" [] c = "cancelled" -> "returned"
Charges == [p \in Request |-> ChargeOf(payment[p])]

Contract == INSTANCE PurchaseContract WITH
    outcome <- Outcome,
    charge <- Charges,
    buyer <- soldTo

ImplementsContract == Contract!ContractSpec

(***************************************************************************)
(* Liveness, under Fairness.                                               *)
(***************************************************************************)

\* Every purchase that left a record converges to completed or cancelled,
\* whichever processes crash, stall or lose their replies on the way.
EveryPurchaseSettles ==
    \A p \in Request : status[p] # "none" ~> status[p] \in Terminal

\* No charge stays in doubt: also one made after its purchase was cancelled is
\* given back in the end.
EveryChargeSettles ==
    \A p \in Request : payment[p] = "unresolved" ~> payment[p] \in {"resolved", "cancelled"}

\* Whoever submits is answered unless the replica dies: neither a lock left
\* behind nor a lost lease hangs a request.
EveryRequestIsAnswered ==
    \A p \in Request : step[p] = "lookup" ~> step[p] \in {"answered", "crashed"}

(***************************************************************************)
(* Statements of the repository's comments and docs that the code does not *)
(* fulfil: each is the property of a run that TLC refutes.                 *)
(***************************************************************************)

\* "the Mongo sale does not take another customer's new hold" (the comment of
\* completePurchase)
SaleRespectsHolds ==
    [][\A t \in Ticket : soldTo'[t] # soldTo[t] =>
          ticketKey[t] \in {Nobody, soldTo'[t], UserOf[soldTo'[t]]}]_vars

\* "a retry with the same key and body converges to the first result" (apps.md):
\* a purchase that was refused is not made by a retry of it.  The lock keeps
\* requests with one body apart, so the one that was refused came first.
RetryGetsFirstResult ==
    \A p, q \in Request :
        /\ SameOperation(p, q) /\ ItemsOf[p] = ItemsOf[q]
        /\ step[p] = "answered" /\ step[q] = "answered"
        => ~(answer[p] = "rejected" /\ answer[q] = "completed")

=============================================================================
