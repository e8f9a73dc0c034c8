# A TLA+ verification of nest-templates

`nest-templates` is a ticket-selling system: a NestJS API (`src/apps/api`) that
runs in several replicas over MongoDB (replica set), Redis (cluster), NATS
JetStream, Restate and S3, and two web front ends with servers of their own
(`src/apps/console`, `src/apps/user-app`). This directory holds TLA+ models of
its protocols, TLC instances that check them, and proofs for every value of the
constants. File and line references are relative to the repository; `S` stands
for `src/apps/api/src/services` and `L` for `src/libs/common/src`.

`PROJECT.json` lists the components, the runs, a faulty variant for every checked
property, the source lines of every definition, the hazards and the theorems.

## 1. Inventory

| Component | State it keeps | Operations | What is hard | Modules |
| --- | --- | --- | --- | --- |
| **Purchase** (`S/application/purchase`, `S/core/purchase-records`) | purchase record: status, completion and reconciliation lease, idempotency key, fingerprint, stored answer | `processPurchase`, `reconcilePurchase`, the job `reconcileStalePurchases` (every minute, every replica) | no transaction spans the payment, Redis and MongoDB; requests stall, crash and lose replies anywhere; requests, retries and jobs interleave | `PurchaseContract`, `Purchase` |
| **Payments** (`S/infrastructure/payments`) | status and `requiresPurchaseResolution`, one per record | upsert, cancel, resolve, find unresolved | a charge may arrive after its own cancellation | `Purchase` |
| **Tickets** (`S/core/tickets`) | `Available`/`Sold`, `purchaseRecordId` | creation with the showtimes, `sellForPurchase`, sales per showtime | overlapping sets of tickets; a theater edited while its tickets are made | `Purchase`, `Booking` |
| **Ticket holding** (`S/core/ticket-holding`) | Redis: the owner of each ticket, the list of each user, TTLs | Lua scripts HOLD, CLAIM, CONFIRM, RELEASE, ROLLBACK | keys expire one by one; a purchase over several showtimes is several scripts | `TicketHolding`, `Purchase` |
| **Distributed lock** (`L/cache`) | Redis key with a token and a TTL | `withLock`, `withLockBlocking` | the holder dies or outlives the TTL | `Purchase`, `MovieAssets` |
| **Outbox and notifications** (`purchase.events.ts`, `purchase-notification.service.ts`) | `purchaseEventStatus`, publication lease, JetStream stream and consumer | `publishPurchaseEvent`, the consumer's ack, nak | publishing and marking are not atomic; a full stream; loops that end | `PurchaseOutbox` |
| **Showtime creation** (`S/application/showtime-creation`) | submission row with a claim lease, Restate workflow, operation row, showtimes, tickets, theater guards | accept, start the workflow, validate and create in one transaction, status events | lost replies of the submission, re-executed steps, write skew between sagas | `ShowtimeSubmission`, `ShowtimeWorkflow`, `ShowtimeCreation` |
| **Restate endpoint** (`worker/restate-endpoint.service.ts`) | HTTP/2 sessions | listen, shut down | a call that never ends | `RestateEndpoint` |
| **Events between replicas** (`L/nats`) | subscriptions and their handlers | publish, subscribe, unsubscribe | NATS forgets what nobody has subscribed to yet | `NatsPubSub` |
| **Catalog deletion** (`S/application/catalog-management`) | movies, theaters | check for showtimes, then delete | race with showtime creation (`src/_todo`) | `CatalogDeletion`, `Booking` |
| **Theaters and seatmaps** (`S/core/theaters`) | theater with its seatmap | edit, guard, delete; iterate and count the seats | counted and generated by two walks, at two times | `Seatmap`, `Booking` |
| **Booking and home view** (`S/application/booking`, `home-view`) | none: pages put together from several reads | search theaters, dates, showtimes, home | what one read has shown is gone before the next | `Booking` |
| **Movies** (`S/core/movies`) | draft or published movie with a version | create, update, publish, delete | compare-and-set loop against a check that is older than the write | `MovieCatalog` |
| **Movie files** (`S/core/movies`, `S/infrastructure/assets`) | asset rows, S3 objects, list and pending list of the movie | create, complete, delete, cleanup job | four stores, no transaction | `MovieAssets` |
| **JWT sessions** (`L/auth`) | Redis: token, family, tombstone, fence, index; account version in MongoDB | login, refresh, logout, logout from everywhere | concurrent refreshes, revocation during a refresh | `JwtAuth` |
| **Accounts** (`S/core/users`, `S/core/admins`) | account with password and `authVersion`, a unique index | sign up, update, delete, log in, start | comparing a password takes time; indexes are created at start | `Accounts` |
| **BFF** (`api/[...path]/route.ts` of both front ends) | the browser's cookies, refreshes under way | proxy, shared rotation, one retry | parallel tabs, several instances, responses out of order | `BffSession`, `Gateway` |
| **Guards and routes** (`S/gateway`, `L/auth`) | none | authenticate, authorize, handle | a request repeated by the BFF | `Gateway` |
| **Login rate limiter** (`S/gateway`) | counters with a window | check, count, reset | concurrent logins | `LoginRateLimiter` |
| **Recommendation, watch records** | watch records | recommend | scores made of ranks | `Recommendation` |
| **CRUD repository** (`L/mongodb`) | documents, soft deletion | lists by page, deletions | pages are cut by number while documents come and go | `CrudRepository` |
| **Web forms** (console, user-app) | what the user typed, the draft made | save and publish, sign up | lost answers, the form sent again | `WebForms` |
| Configuration, logging, health, request validation; deployment, tests, tools | none | | nothing that interleaves | not modelled |

How they interact: a customer holds seats (booking to ticket holding), submits a
purchase (browser to BFF to gateway to purchase), which takes the lock, writes its
record, claims the seats in Redis, creates a payment, takes the completion lease, and
sells the tickets in one MongoDB transaction with its record and its payment. Whatever
stops on the way is compensated, by the request itself or by the job of any replica.
Completed records are the outbox of the notification event. Showtime creation makes
the tickets, through a workflow that Restate carries out on any replica, and tells the
console of its progress through NATS; catalog deletion may remove what a showtime refers
to. Every request passes the BFF, which keeps the session alive, and the guard, which
looks the account up.

What makes each correct, in a sentence:

- Purchase: a ticket is sold once, to a completed purchase; a charge is kept exactly
  by a completed purchase; compensation is final; every purchase, charge and request
  comes to an end; one key, one charge.
- Ticket holding: nobody's seat is taken by a late purchase or compensation; a
  rollback gives back what the customer held and no longer than they held it.
- Outbox: every completed purchase is announced at least once, no marked event
  is lost, and nobody is told twice without a fault.
- Showtime creation: one key makes one saga, one saga one set of showtimes, and no
  two showtimes of a theater overlap.
- Catalog and booking: a showtime has exactly the seats of its theater; pages fail only for
  showtimes that lost the race with a deletion or whose theater has no seats, and a search only
  if what was listed has ended.
- Sessions: a token is exchanged once, a revoked family never comes back, a user is not
  logged out by their own tabs, and a token is good only for the password it was given for.
- Movies: what readers see is complete; no file is forgotten or deleted by a stranger.
- Smaller services: see the properties in section 9.

The hazards, each at its line, are in `PROJECT.json`.

## 2. Plan

Done: all modules of the table above, the composition of submission, workflow and
deletion (`ShowtimeCreation`), the contract of purchases and its refinement, and the
proofs of section 10: every safety property a run checks is stated by a theorem.

Left, in this order:

1. More of the code: the status stream to the browser (SSE), and sessions that outlast an
   access token, beside `BffSession`.
2. An abstract specification of sessions, which `JwtAuth` implements: what a token
   family promises to the guards, with the refinement proved as for `PurchaseContract`.

## 3. Runs

| Run | Module | Distinct states | Shows |
| --- | --- | --- | --- |
| `Purchases` | `MCPurchase` | 621,000 | two customers with overlapping tickets, or one key sent twice or with another body, beside the job and one fault: the safety properties of section 4 |
| `Recovery` | `MCRecovery` | 85,000 | liveness of purchases and the refinement of the contract: one purchase, two jobs, three faults; or two purchases in the queue for one lock |
| `Outbox` | `MCOutbox` | 203,000 | the outbox with two faults |
| `Creation` | `MCCreation` | 366,000 | submission, workflow and deletion together |
| `Progress` | `MCProgress` | 231,000 | liveness of showtime creation, announcements, uploads, lockouts and the shutdown |
| `Sessions` | `MCSessions` | 429,000 | `JwtAuth`, `BffSession`, `Gateway`, `Accounts` |
| `Movies` | `MCMovies` | 1,090,000 | `MovieAssets`, `MovieCatalog` |
| `Seats` | `MCSeats` | 504,000 | `TicketHolding`, `Booking`, `Seatmap` |
| `Services` | `MCServices` | 305,000 | `LoginRateLimiter`, `NatsPubSub`, `Recommendation`, `CrudRepository`, `WebForms` |
| `LateSale`, `FirstResult` | `MCPurchase` | | a comment and a statement of the docs are refuted, section 4 |
| `CleanupRace` | `MCMovies` | | a comment is refuted, section 8 |

**Scenarios.** Components that do not interact share a run: the variable `scenario` names
the one that moves, and those of the others keep their initial values. Such a run is the union of its
instances, and each property speaks of the one it belongs to. Where the components do
interact they are composed: `ShowtimeCreation` runs submission, workflow and deletion in
one state space.

**Casts.** An instance with every kind of request at once is too big, so some MC modules
say which of them meet: `OneCast` (purchases; showtime creations; refreshes with logouts or with
revocations), `InCast` (two servers and one file, one server and two files, or one file and two
movies), `OneGuest` (one request of any kind beside two that end sessions), `Likely` (bodies and foreign
origins with few paths: those checks come before the path matters), `AtEase` (a
session that was disturbed goes on with one request at a time), `Started` (accounts change before all
repositories have started, or after), `Rival` (the second customer wants seats of the first
purchase), `WhileWalking` (documents change while a client walks through them). Each drops combinations,
never a step of the code: every action of every module is taken in some run. `MCPurchase` restricts
with a constraint on states; the others with a conjunct of the next-state relation. In `MCCreation`
and `MCMovies` the faults of a cast are bounded too.

**Bounds.** Two parties suffice for a conflict, and a third for what a conflict does to a bystander: two
customers, two sagas, two servers; three refreshes of one token; two BFF instances. One fault is
what it takes to lose a reply, to stall past a lease or to die half-way; two let one party stall while the
other loses its reply; three let a crashed request be followed by two failing ones. Faults are counted only
for live processes: leases of dead ones expire without limit. Clocks (`MaxTime`, `MaxNow`) reach past
every expiry they are compared with. Every bound is a constant of the module that declares it, with a comment.
In `TicketHolding` the clock reaches 3 with durations of 2: the shortest in which a claim outlives a
first hold, is given up and meets the hold of somebody else.

**Symmetry** is used in `Outbox`, `Sessions`, `Movies` and `Services`, for parties that
have the same parameters, and never together with a liveness property. `PicksAreFair` is an action property
without symmetric values in it.

**Deadlock** is checked in the runs of `Purchase`: a customer can always hold seats anew, so every
state has a successor; what matters, that nobody is stuck, is what the liveness properties state.
In the other runs requests happen once, and nothing is left to do when all are answered.

**Fairness** is stated in each module and explained in its section. In `Progress` each property
carries the fairness of its own component as a premise, for the scenarios need different ones.

## 4. The purchase model

`Purchase.tla` is the detailed model and `PurchaseContract.tla` what it promises.

**Processes.** A `Request` is one POST /purchases, a `Sweeper` one run of the periodic job.
`@Interval` does not wait for an unfinished run, and every replica has one, so several
`Sweeper`s overlap. `step[w]` is the awaited call a process is about to make; every action
is one such call with the code around it up to the next. `job[w]` is the record it works on.
Record names are request names: a request creates at most one. A process attempts one
completion or reconciliation at a time, so its name stands for its random token.

| Model | Code |
| --- | --- |
| `status`, `completionId`, `reconciliationId`, `storedError` | the purchase record (`models/purchase-record.ts`) |
| `leaseExpired` | `updatedAt`, `completionLeaseUntil` or `reconciliationLeaseUntil` of an open record has passed the time that makes it stale |
| `payment` | status of the payment and `requiresPurchaseResolution` ("unresolved") |
| `soldTo` | `status` and `purchaseRecordId` of a ticket |
| `ticketKey`, `userKey` | the Redis keys `Ticket:{showtime}:id` and `User:{showtime}:id` |
| `lock` | the Redis key of `withLock` |
| `Submit` ... `DuplicateKey`, `ReleaseLock` | `processPurchase`, `processPurchaseLocked` up to the pending record |
| `ClaimTickets` ... `CleanupClaims` | the try block of `processPurchaseLocked` and `completePurchase` |
| `CommitPurchase` | the transaction of `commitPurchase`. Every document its filters match it also writes, so a concurrent writer conflicts with it: one step |
| `ClaimOwn`, `SweepRecord`, `ReleaseClaims` ... `YieldReconciliation` | `reconcilePurchase`, from a failed request or from the job |
| `SweepPayment`, `SettlePayment` | `reconcileUnresolvedPayments` |
| `OnError` | the catch blocks: where each call leads when it throws |
| `CallFails`, `Throw`, `Crash`, `Elapse` | a call that never arrives, a reply that is lost after the write, a killed replica, a stall past a lease |
| `TicketKeyExpires`, `UserKeyExpires`, `LeaseExpires`, `LockExpires` | time |

Choices to know about:

- All tickets of the model belong to one showtime, so a claim is one Lua call. The loop
  over showtimes and its rollback belong to `TicketHolding`.
- `findPendingBefore` and the claim that follows it are one action: the claim's filter is
  the same one and decides; a stale list only makes it fail.
- A read that cannot matter before the write that follows it in the same call
  (`findByPurchaseRecordId` and `cancel`, `createPayment`'s upsert and read) is merged with it.
- A failed request passes the current time as `before`, and its own completion id, to
  `claimForReconciliation`: its own open record always qualifies (`Reclaimable`).
- Redis keys may expire at any time, with one exception taken from the code: a claim that
  was confirmed is renewed for ten minutes after the ten-minute completion lease began, so
  while its request stands before the commit it outlives that lease.
- Redis does not lose data other than by expiry, and clocks do not go backwards.
- The event published after the sale is the subject of `PurchaseOutbox`: it changes neither
  the status nor the money.
- The branch of the payment sweep that resolves the payment of a completed purchase is kept
  although the transaction always resolves it; the invariant shows it is a safety net.
- `Reject` may refuse any request, for the purchase window and the price are not modelled.

`PurchaseContract.tla` has three variables: the outcome of an operation (none, open,
completed, cancelled), its charge (none, held, kept, returned) and the buyer of each ticket.
`Purchase` implements it with `outcome` the status without its three open stages, `charge` the
payment, and `buyer` the tickets.

### Properties

- `SaleIsAtomic`: a ticket is sold to a purchase exactly when the purchase is completed.
- `ChargeMatchesOutcome`: a charge is kept exactly by a completed purchase; a late refund or a
  late charge would break it.
- `OneChargePerOperation`: one charge per (customer, Idempotency-Key).
- `AnswersStayTrue`: what an answered request was told remains true. A success: completed, with this body; a replayed
  failure: cancelled for good; a refusal: no record and no charge of this request; another failure: nothing bought by
  this request, unless there was a fault (the reply of a commit that is lost looks like a failure). None of these says
  that a retry is refused as well: that is `RetryGetsFirstResult`, which `FirstResult` refutes.
- `StatusAdvances`: records move only along the state machine of `src/docs/apps.md` section 2.3.
- `HoldsAreRespected`: a step claims only its own customer's seats and frees only its own claims.
- `ImplementsContract`: the refinement.
- `EveryPurchaseSettles`, `EveryChargeSettles`, `EveryRequestIsAnswered`: liveness.

### Instances

`MCPurchase` has four requests, of two customers, over tickets t1 and t2: r1 buys both, the others t2;
r2 is another customer, r3 and r4 send the same body with r1's key. One job runs beside them and one
fault may happen. Its casts are {r1, r2}, different locks with a ticket in common; {r3, r4}, a request and
its retry; {r1, r3}, two bodies under one key. `MCRecovery` has one seat: one purchase
with two overlapping jobs and three faults, or two purchases, which wait for one lock, with one job and
one fault. The proofs need none of these bounds. A record is never deleted and a request runs once, so
nothing else grows.

### Fairness

`Fairness` asks for weak fairness of each request's steps together (an async function that is not
killed goes on), of each job's steps together (`@Interval` starts it every minute for as long as a
replica lives; `Crash` of a job stands for a replica being replaced), and of the expiry of leases and
locks whose owner has stopped (time passes). A stall of a live owner is possible but never required,
and costs a fault. Nothing obliges a customer to hold seats or to submit, and Redis keys need not expire.
The job may pick any stale record: with the finite set of records of an instance the limit of 100
per run, oldest first, is not an obstacle.

### Where the code and its documentation differ

1. `LateSale` (`SaleRespectsHolds`): the comment at `S/application/purchase/internal/ticket-purchase.service.ts:57-58` says
   that confirming the claim keeps the sale from taking another customer's new hold. The claim and
   the lease both last ten minutes and the transaction looks at neither: after a longer stall, with
   no reconciler in between, the sale goes through and the other customer holds a sold seat. The
   sale itself stays atomic.
2. `FirstResult` (`RetryGetsFirstResult`): `src/docs/apps.md:126` and `134-135` say that a retry with the same key and body
   returns the first result. Refusals before the record exists (`purchase.service.ts:94-100`) are
   not stored, so a retry is executed anew and may complete. The trace needs no fault.

## 5. The outbox model

`PurchaseOutbox.tla` begins where a purchase is sold and ends where its customer is told. A completed
record whose `purchaseEventStatus` is pending is the outbox entry. The two models share the transaction
`commitPurchase` (`CommitPurchase` there, `Sell` here) and nothing else: publishing reads no other state of
the purchase, and the purchase none of the outbox.

| Model | Code |
| --- | --- |
| `completed`, `published` | `status` and `purchaseEventStatus` of the record |
| `publicationId`, `lease` | `purchaseEventPublicationId`; its `...LeaseUntil` null, ahead or passed |
| `stored`, `acked`, `inFlight`, `remembered` | the JetStream stream, the state of its durable consumer, the message ids inside `duplicate_window` |
| `copies`, `announced` | history: how often the stream stored an event, which confirmations were sent |
| `step`, `job` | where each caller of `publishPurchaseEvent` is, and its record |
| `held`, `stopped` | the message each `consume` loop processes (`max_messages: 1`), the loops that ended |
| `Claim` ... `ReleaseClaim` | `publishPurchaseEvent`, from a request or from `publishPendingPurchaseEvents` |
| `Deliver`, `Process`, `ProcessFails`, `LoopEnds` | `consume`, `process` |
| `CallFails`, `Crash`, `ConsumerRestarts`, `LeaseExpires`, `WindowExpires`, `AckWaitElapses`, `AgesOut` | failures and time |

Choices: a retry of the job finds and claims in one action, for the filters are the same; that both skip
records updated since `before` only delays a claim. The broker's answer "duplicate" is an answer like any
other, as for the client's `publish`. `process` writes a log line where a confirmation will be sent; the
model takes it for the sending. It does not await `ack`, which may get lost. JetStream is external and
modelled by how `createResources` configures it: `Limits` retention (acknowledged messages keep their
place), `DiscardPolicy.New` (a full stream refuses), explicit acknowledgement with an `ack_wait`. Assumed:
JetStream does not lose a stored message other than by age, and no message waits seven days for its first
acknowledgement. That would take every `consume` loop of every replica to have ended, unnoticed, for a week;
the event would then be lost although it is marked.

Properties:

- `NothingIsLost`: an event marked as published was announced or waits in the stream.
- `DuplicatesAreFaults`: each extra copy of an event costs a fault; leases, message ids and the window
  hold without one.
- `SalesAreAnnounced` (run `Progress`): every completed purchase is announced in the end.

`Outbox` has two purchases, one job, two replicas, room for two messages and two faults, with requests and
loops symmetric. `Progress` has room for one message and one fault, so that the stream is full whenever one
event is in it. Two purchases are what it takes for one to keep the other out of the stream; two publishers
of one record (its request and the job) for a lease to be lost; two consume loops for a delivery to overlap a
redelivery or for one of them to end for good. With as many faults as replicas in `Progress` all loops
could end, and nothing would be announced before a restart: no fairness requires one, as the code only logs
the end of a loop. Leases, window and ack waits of parties that are gone elapse without limit.

Fairness: a call of `publishPurchaseEvent` goes on until it returns or its replica dies, and the job is started
every minute; a `consume` loop that has not ended goes on; leases and ack waits elapse and acknowledged
messages age out. Nobody is obliged to buy, nor a replica to restart.

## 6. Showtime creation and catalog deletion

`ShowtimeSubmission` is the HTTP side: a row per Idempotency-Key, a claim with a lease while a server
submits the workflow, the acceptance. `ShowtimeWorkflow` is what Restate executes. `CatalogDeletion` extends
it with the deletion of movies and theaters, and `ShowtimeCreation` puts the three together: the input of
a saga is the body of the request that inserted the row, and a workflow exists from its submission on.

| Model | Code |
| --- | --- |
| `sagaOf`, `inputOf`, `claim`, `lease`, `accepted` | the submission row: `sagaId`, `inputHash`, `claimId`, `claimUntil`, `acceptedAt` |
| `started` (`workflow` in the submission) | the workflows Restate knows; a second submission with the same key joins the first |
| `Insert`, `Find`, `TakeOver` | `acquire` |
| `StartWorkflow`, `MarkAccepted`, `Release` | `ensureShowtimeCreationJobStarted`, `markAccepted`, `release` |
| `phase`, `tries`, `outcome` | the journal of a workflow |
| `alive`, `at`, `snapshot`, `changed`, `lockedBy` | the attempts of the durable step and their MongoDB transactions: what each sees, what was written since, who has an uncommitted write |
| `operation` | the operation row with its unique `sagaId` |
| `Begin`, `AcquireGuards`, `Validate`, `Commit` | `validateAndCreate`: find the operation, guard the theaters, validate against the snapshot, create and commit |
| `StartAttempt`, `GiveUp`, `AttemptFails` | `VALIDATE_AND_CREATE_RETRY`; an attempt that is believed dead may go on beside the next |
| `Emit`, `EmitTimesOut`, `FlushDelayed`, `EmitGivesUp` | the status events |
| `Check`, `Delete` | `deleteMovie`, `deleteTheater`: the check for showtimes and the deletion |

Choices: MongoDB's snapshot isolation is what the code relies on: a transaction reads its snapshot and the first
writer of a document wins; the driver repeats a transaction that met a conflict. The lookup of existing showtimes
is modelled with its range (showtimes that end after the first new start and begin before the last new end, and
not before the range). Tickets and their limit are in `Booking`.

Properties: `OneCreationPerKey` (one saga per key; whoever is answered 202 was given a saga that runs their
body; all showtimes under a key are of its saga), `NoOverlap`, `AllOrNothing`, `ReportIsCommitted` (a result
that is reported is the committed one, whichever attempt reports it), `TheatersOutliveCreation` (nothing is
created in a deleted theater: the guard write sees to that), `CreationsEnd` (liveness).

Fairness: a request is handled until it is answered or its server dies; a client sends it again until it
is accepted or refused for good (the console offers that; without it an unaccepted row stays); the lease of a
dead server expires; Restate goes on with each workflow it has (`EVENT_RETRY` and `VALIDATE_AND_CREATE_RETRY` bound
the attempts, and giving up is an end too). Casts of `Creation`: three clients of one key who send again; a request
and its retry with the saga they start; two sagas that collide in a theater; these with the theater deleted; one
saga with its movie and its theater deleted.

What the model shows the code may do, without a property against it:

- A deletion that checked first and a creation that committed after the check may both succeed, and the showtime
  refers to something deleted. `src/_todo/catalog-deletion-showtime-creation-race.md` documents it as open. Its
  direction that cannot happen for theaters is `TheatersOutliveCreation`; what readers get is in section 9.
- A status event that fails in all its attempts (`maxRetryAttempts: 3`, `worker/workflow.ts:15`) ends the workflow
  (`worker/workflow.ts:50`): nothing catches it, and a
  `waiting` that cannot be sent ends the saga before anything was created, although it was accepted and
  `src/docs/apps.md:100` calls the events best effort.
- An attempt to emit that was given up after its timeout (`worker/workflow.ts:131`) has published into the client's
  buffer: `waiting` may arrive after `processing` or after the end, while the comment at
  `internal/showtime-creation-orchestrator.service.ts:17-18` expects the workflow to keep the order.

`RestateEndpoint` is the HTTP/2 server through which Restate calls: `ShutdownEnds` (in `WaitsEnd`) says that the
API stops although calls are under way, because the timer ends their sessions.

`NatsPubSub` has the status events between replicas: one connection per replica, whose commands the server
takes in order, a subscription shared by its handlers, and the loop that visits them. `EventsAreHeard`: who has
subscribed before a message is published, and stays, hears it. `ApartAssumption` says that a replica has one handler, as
in the program (the status stream subscribes once per process); a second handler that joins while the first still waits
for `flush` would return before the server knows the subscription (`nats-pubsub.service.ts:52-61`). The loop of a
subscription ends here only with its last handler: that it also ends, with a line in the log, when its iterator fails
(`nats-pubsub.service.ts:93-98`) is left out, and as a safety property `EventsAreHeard` would not notice a loop that has
stopped.

## 7. Sessions and accounts

Four modules look at one session from its layers.

**`JwtAuth`**: the Redis keys and the account version, every call a step. `stored`, `members`, `fence`, `tombstone`,
`index` are the token keys, the family sets, the revocation fences, the tombstones of consumed tokens and the
index of a user's families; `version` is `authVersion`. `LogIn`, `Present` ... `Confirm` are login and refresh
(lookup, `CONSUME_TOKEN_SCRIPT`, index, `STORE_TOKEN_SCRIPT`, recheck of the account); `SetFence` ... `Unindex` is
`revokeFamily`; `RevokeAll` ... `DropIndex` is what logout from everywhere, a new password or a deletion do. The week that tokens and
keys last is not reached, signatures are sound, and only the two seconds of a tombstone pass.
`RotationIsSafe`: one of several refreshes with a token wins, and no family is fenced by parallel
refreshes alone. `RevocationIsFinal`: the family set lists the stored tokens, a revoked family stays empty although
a refresh was on its way, and when all requests have ended without a fault no stored token is older than the first revocation.
Two comments promise more than the code does, and the properties are worded so as not to: reuse is only noticed while the family has a member
(`jwt-auth.service.ts:231` against `:57`), and between consuming a token and storing its successor it has none; and
`revokeAllForUser` deletes the whole index at the end (`:201`), which may drop a family that a login registered after
it was read (`:409-410` expects to be found), so that a later revocation misses that family's keys, though not
its tokens, which the account version makes worthless.

**`BffSession`**: one browser, tabs that carry the pair of tokens the jar held when they were sent, several BFF
instances with their `refreshFlights` (shared for a second after they land), responses in any order.
`SessionSurvives`: nobody who did not log out is logged out by their own parallel requests, and when all
responses have arrived the jar holds the pair the API expects. Three things are excepted, as the code cannot help
them: a logout, a request for a token slower than the tombstone's two seconds, and a rotation whose reply was lost. A request
is assumed shorter than an access token lives (30 minutes). A response rotated before a logout that arrives after it
puts its cookies back into the jar; their tokens are revoked.

**`Gateway`**: the way of one request through origin check, body limit, proxy, guard, account check and
handler, with the one repetition after a rotation, while others end the sessions.
`RequestsRunOnce`: a repeated request has its effect once, answers are true, and nothing has an
effect in a session whose end had been acknowledged when the request was sent. The proxies of console and user-app are the same file but
for the cookie names and `AUTH_PREFIX`; `Gateway` maps user-app's, `BffSession` console's.

**`Accounts`**: sign-up, update, deletion, logout from everywhere, and login as read, compare, make tokens; the unique
index and its creation at start, which the repositories of one client share (`initializationByClient`).
`AccountsAreSound`: a token that is good for an account was given for the password the account has now, and no two
active accounts share an email. A deleted account keeps its email with its `deletedAt`: two accounts with one email
deleted in the same millisecond collide in the index, and the second deletion is answered 500.

Instances: three refreshes and a logout, or a refresh and two revocations; three tabs, two instances, two
rotations; two requests of two apps; three accounts with two emails in two processes. Safety only; the
components wait for nobody.

## 8. Movies and their files

**`MovieCatalog`**: a draft with its required fields unset, zero or set (a duration of zero passes `publish`'s own check
for missing fields and is refused by the validation of the repository), two requests and a deletion. `updateWithCas` is `Read` (with
validation) and `Write`, repeated `MOVIE_CAS_ATTEMPTS` times; `TouchAssets` is any other write that counts up
the version. `PublishedIsComplete`: what readers see is complete, and an update is given up only when others wrote
once for each of its attempts.

**`MovieAssets`**: the row, the S3 object, the movie's list and pending list of each upload; every handler as
its sequence of calls (`createAsset`, `finalizeUpload`, `deleteAsset`, `deleteMany`, the job), a request that may die
between any two, deletions that S3 refuses in part. The job takes its lock with `withLock`, so one replica at a time runs it.
`FilesAreAccounted`: an object without a row was uploaded after somebody decided to delete it, and a file with an owner
can be reached from the movie. `DeletionStaysHome`: a request deletes files of its own movie. `UploadsEnd` (run
`Progress`): an upload that expires without an owner is deleted in the end; fairness: a request goes on and the job, every
ten minutes, gets the lock again and again (strong fairness, as the lock is free between runs).

`CleanupRace` (`OwnedSurvivesCleanup`) refutes the comment at `S/infrastructure/assets/assets.repository.ts:23-24`:
the job never deletes an asset whose owner was assigned. The threshold of the conditional update is computed by the server
before the call (`assets.service.ts:108-112`), and the job finds rows, deletes objects and deletes rows in three
calls: an upload that expires between the computation and the update gets its owner and loses its file.

Two comments are stricter than what happens: a completion that fails on expiry deletes the file by id
(`assets.service.ts:117`), also when a repeated completion had assigned the owner before, which
`movies.service.ts:150-151` counts on; and a movie may list a file that is gone when a
completion attaches it (`movies.service.ts:152`) after a `deleteAsset` that crossed it (`:71-72` wants to rule that out). A file completed while its movie is being deleted
keeps its owner, who is gone; the `_todo` page names this too.

## 9. Seats, pages and the smaller services

**`TicketHolding`** is Redis with a clock: `owner` and `until` of each ticket key, the lists and their expiry, purchases that
claim, confirm, roll back and release showtime by showtime. `granted` remembers how long HOLD promised a seat.
`HoldsAreKept`: what a user holds is in their list as long, no detour over a claim makes a hold last longer, a refused
claim leaves nothing. `ClaimsAreSound`: a seat is lost only together with its entry in the list, or by the clock, and
a confirmed purchase has all its seats. HOLD is limited to one showtime, as in the code. Who compensates when is in `Purchase`.

**`Booking`**: sagas create showtimes with tickets for the seats of their theaters, while theaters are edited and
movies and theaters deleted; pages read showtimes, sales, theaters and movies without a transaction. A search for showtimes
names a date, one that was listed before (`PickDate`) or any other.
`SeatsAddUp`: a showtime comes with exactly the seats its theater has at that moment (the guard keeps the edit out), and as many seats are
generated as were counted. `OnlyKnownFailures`: a page answers 404 only for a showtime that won the race of section 6; a search answers 500 only for a
theater without seats, for which there are no sales to show (`booking.utils.ts:16`), and 400 only when it has found nothing. A
search that finds no showtimes does not come back empty: it asks for the sales of no showtimes, which `build` refuses as a
query without a filter (`booking.service.ts:97`, `mongo.util.ts:152-155`). The property says that of a date that was listed this happens
only when all that it was listed for has ended. A movie or theater that has showtimes
is never deleted otherwise, not even when they are over.

**`Seatmap`**: the iterator over blocks, rows and layouts against the count, for every layout within the
bounds. Names are not unique (`seatmap.ts:17`), so two seats may have one name, although `src/docs/apps.md:161` identifies seats by it.

**`LoginRateLimiter`**: check, compare, count, reset of concurrent logins, for account and address. `LoginsAreBounded`: while
a counter lasts no more logins are told "wrong password" than its limit. `WaitsEnd`: who is locked out is let in
again; fairness: Redis expires keys.

**`Recommendation`**: ranks of genres, points, order, over every history and programme of five movies.
`PicksAreFair`: movies of more frequent genres come first, and watching a movie of one genre does not push others of that genre alone
back. It may push them behind a movie that names the genre twice, which nothing forbids (`S/core/movies/movies.repository.ts:22`): such a list gets
the points of the genre for each mention. The instance has one (`Lists`).
Watch records have no route; only tests create them.

**`CrudRepository`**: a walk by page number beside insertions, changes and deletions. `PagesAreSound`: a walk in a strict
order until a short page misses nothing that stayed unless something left, repeats nothing unless something came, and deletions
of one document count once. An order in a field with equal values has no tie-breaker and promises nothing, and a walk that trusts `total` stops
early when it shrinks.

**`WebForms`**: the forms that create a movie (saved, then published), a theater or an account, with calls that are
lost, answered late, or done after their page gave up. `FormsEndWell`: one movie is published however often the form is sent,
leftovers cost a lost call or answer each, no two accounts have one email, and a page that says it is done has created
what was sent last: the account or the theater is there, the movie is published with it unless a late call came in between. Emails
are unique, accounts are not: who corrects the email after a lost answer has two (`signup/page.tsx:22`,
`users.repository.ts:36`), and the run reaches this. The unique index is taken as built; `Accounts` has how it comes to be. Calls go on when
the user leaves the page. A publication whose answer was lost and whose form is then cancelled leaves a published movie.

## 10. Proofs

Every theorem holds for all values of the constants that satisfy the named assumptions of its modules:
any numbers of requests, jobs, replicas, seats, tokens, movies and faults. The assumptions say that names of different things
differ and that bounds are numbers; those that say more are named below, with what in the code
justifies them. A component has an inductive invariant, a conjunction of named parts, a lemma for each action (or for each
conjunct that the action can disturb) and a theorem `Spec => []...`; the properties follow from it. TLC checked every
inductive invariant on the instance of its run before it was proved.

| Module | Theorems | Properties proved |
| --- | --- | --- |
| `PurchaseProofs` | `Invariance`, `TypeCorrect`, `SaleAtomicity`, `ChargeFollowsOutcome`, `SingleCharge`, `StatusMachine`, `HoldsRespected`, `AnswersStand`, `ImplementsItsContract` | all safety properties of section 4 and the refinement |
| `PurchaseOutboxProofs` | `OutboxInvariant`, `OutboxTypeCorrect`, `PublishedIsNeverLost`, `DuplicatesCostFaults` | `NothingIsLost`, `DuplicatesAreFaults` |
| `ShowtimeCreationProofs` | `CreationInvariant`, `NoOverlapAlways`, `AllOrNothingAlways`, `ReportIsCommittedAlways`, `OneCreationPerKeyAlways`, `TheatersOutliveCreationAlways` | all safety properties of section 6 but `EventsAreHeard` |
| `JwtAuthProofs` | `JwtAuthInvariant`, `RotationIsSafeAlways`, `RevocationIsFinalAlways` | `RotationIsSafe`, `RevocationIsFinal` |
| `SeatsProofs` | `TicketHoldingInvariant`, `HoldsAreKeptAlways`, `ClaimsAreSoundAlways`, `SalesInvariant`, `OnlyKnownFailuresAlways`, `WalkInvariant`, `SeatsAddUpAlways` | `HoldsAreKept`, `ClaimsAreSound`, `OnlyKnownFailures`, `SeatsAddUp` |
| `SessionsProofs` | `BrowserInvariant`, `SessionSurvivesAlways`, `WayInvariant`, `RequestsRunOnceAlways`, `PeopleInvariant`, `AccountsAreSoundAlways` | `SessionSurvives`, `RequestsRunOnce`, `AccountsAreSound` |
| `MoviesProofs` | `MovieAssetsInvariant`, `FilesAreAccountedAlways`, `DeletionStaysHomeAlways`, `CatalogInvariant`, `PublishedIsCompleteAlways` | all safety properties of section 8 |
| `ServicesProofs` | `LimiterInvariant`, `LoginsAreBoundedAlways`, `FormInvariant`, `FormsEndWellAlways`, `EventInvariant`, `EventsAreHeardAlways`, `PageInvariant`, `PagesAreSoundAlways`, `PicksAreFairAlways` | `LoginsAreBounded`, `FormsEndWell`, `EventsAreHeard`, `PagesAreSound`, `PicksAreFair` |

### The arguments

**Purchases** (`RequestAssumption`, `NameAssumption`, `BoundAssumption`). None of the safety invariants is inductive alone:
whether a commit may charge depends on where a process stands and on who owns the record. The inductive invariant `IInv` adds `ControlFits`:

- `StepFitsStatus`: at each step of a request its record is in one of the statuses that can hold there,
  also when somebody else has taken it over;
- `ReconcilerFitsStatus`: a process inside `reconcilePurchase` works on a record that is compensating
  or cancelled, never on one that is pending or completed. This is why a late refund is harmless;
- `SettlerFitsStatus`: the payment sweep acts on terminal records, with the branch that fits;
- `ChargeFitsStep`: a request that reached the lease with its record still its own has a payment that
  is still unresolved. This is why the commit never keeps a cancelled charge;

and `OneRecordPerOperation`, from which one charge per key follows. `NextInvariant` has a step per action; the lemmas before it say
how a process leaves a step (`ProceedMoves`, `ThrowMoves`, `ErrorLeads`, ...) once for all actions, and what
stays true of a record while others move (`StatusStep`, `OutcomesStandStep`, `ReconcilersStay`). `AnswersStayTrue` is strengthened to
requests that know their answer but have not told it yet (`AnswerHolds`), and rests on three facts: terminal
statuses stay, a request cleans up only after its own sale (`CleanupFollowsSale`), and only the request itself inserts its
record and commits it, so a request that is done has decided what its failure means; the rest of `AnswerHolds` says that one
that is failing holds no completed record unless a fault was spent. The
refinement maps `Init` to `ContractInit` (`ContractInitially`), and each step to a step of the contract
or a stutter (`ContractStep`), where a step that changes an outcome changes one (`OutcomeChanges`) and
a step that changes a charge one (`ChargeChanges`).

**Outbox** (`NameAssumption`, `BoundAssumption`). `NothingIsLost` is not inductive: marking is safe because the publisher was answered by the broker
(`MarkersKnow`), the answer "duplicate" because a remembered id belongs to an event in good hands
(`RememberedInGoodHands`), and losing sight of an acknowledged message because it was announced
(`AckedAreAnnounced`); `CopiesAreNumbered` makes a newly stored copy one that nobody has acknowledged.
`DuplicatesAreFaults` is an account (`Paid`): the copies of an event, the publishers that will store another although
they lost their lease (`Stragglers`), and the copy still due are together at most one more than the faults.

**Showtime creation** (`StartsAssumption`: what `assertStartTimesDoNotOverlap` lets pass; `NobodyAssumption`; at least one attempt).
`NoOverlap` rests on the guards: an attempt that passed them has written every theater of its saga (`GuardsAreHeld`), so its snapshot
shows these theaters as they are (`GuardedIsCurrent`, from `SnapshotsAreTracked`), and a verdict speaks of this
snapshot (`VerdictsAreSound`). `ConflictsAreFound` and `StartsAreApart` are the lemmas about the code's two shortcuts: existing
showtimes are fetched only around the new ones, and start times are compared only with the one before.
`OneCreationPerKey` is the claim's: who may start a workflow has inserted the row or taken it over, with the row's own body
(`RequestsFitTheirRow`, `RowsAreInserted`, `AcceptedRowsAreStarted`); composed, nothing is created but by a
saga Restate was given (`CreatedIsStarted`). `TheatersOutliveCreation` follows for each step from `GuardedIsCurrent`.

**Token families** (`RequestAssumption`: finitely many revocations; `NobodyAssumption`, `FaultAssumption`). `OneWinner`: a token that was consumed never comes back. From its fence on
a family only loses tokens, and a `store` that crossed it knows it must undo itself (`FencedFamiliesShrink`). `AlarmsAreJustified` says
why parallel refreshes revoke nothing: a delivered token is stored, or has a tombstone, or its family is fenced.
`RevocationsReachTokens`, the hardest part, holds while no request has died: each token older than the version is
on somebody's list to be deleted, and before there is a new version the index names the family of every token.

**Browser** (`CookieAssumption`, `RotationAssumption`). As long as nobody logged out, no call was slow and no answer was lost: a pair is rotated
again only when nothing older is on its way (`OnlyTheLastRotated`), since a request is shorter than an access token lives;
so what a request carries or brings is the live pair or the one before it (`RequestsAreRecent`), and so is what the jar holds
(`JarIsRecent`). `FlightsAreAwaited`: a rotation under way has a request that waits for it.

**Requests** (`BodyAssumption`, `NameAssumption`). `Sound` says for one request at each of its steps what it has run and
what its answer may be. Versions of accounts only grow, so a request that was stale when it was sent never meets the version it
carries: the guard's second look at the account stops it.

**Accounts** (`ProcessAssumption`: finitely many repositories; `NameAssumption`, `BoundAssumption`). While a repository may still start, the unique index
exists or is on its way: every attempt to create it that has not failed is awaited (`AttemptsAreAwaited`). A login signs the version of
the document it compared, so it is enough that an account with the same version has the same password (`LoginsWereTrue`).

**Ticket holding** (`ItemAssumption`: a purchase has finitely many tickets, one at least; `TimeAssumption`: times to live are positive). `ClaimsFollowTheLoop` says how
far the loop over the showtimes has come when a purchase owns a seat, `ConfirmedLastsLonger` that
a claim confirmed early outlives one that is confirmed later, which makes a purchase whole when the last one is
confirmed, and `ExpiriesAreBounded` that nothing lasts longer than it was promised.

**Booking** (`InputAssumption`, `DayAssumption`, `BoundAssumption`). What a saga has planned is what the theater looks like when it commits, or its guard fails
(`PlansAreCurrent`); tickets are planned ones (`TicketsArePlanned`), so only a theater without seats leaves a showtime without.
What is gone was deleted (`GoneWereDeleted`), and whoever deleted it beside a showtime of it is known to have raced (`PassedHaveRaced`);
`PagesAreInOrder`: a page has an answer only at its end, has read nothing at its beginning, and has listed the dates of one movie
in one theater. So a search for a listed date that finds nothing has lost what was listed to the clock, since nothing deletes a
showtime (`DayAssumption`: a day has a length).

**Seat maps** (`BoundAssumption`). After each step of the iterator as many seats were generated as there are among
the places before the one it has reached; when it is done these are all places.

**Movie files** (`NobodyAssumption`, `BoundAssumption`). A request reads one store and acts on another later. `OneHome` says which movie may act on
a file, by the lists, the owner or the request under way; `CondemnedFirst` that it was decided to delete what is being
deleted; `FilesStayReachable` that the list that names a file is changed by a completion only after the next one names it.

**Catalog** (`FieldAssumption`, `BoundAssumption`). What an editor read is a past state of the movie, the present one if the version is still the same
(`ReadsArePast`), and so a write that the version lets through was validated against it (`WritesAreValidated`);
`AttemptsCostWrites` counts the writes of others.

**Login limiter** (`LoginAssumption`: finitely many logins at a time). The check and the count are apart, so the limit rests on the count alone:
it numbers the logins it has seen (`CountsAreNumbers`), and all beyond the limit know it (`LateOnesKnow`).

**Forms** (`ContentAssumption`, `BoundAssumption`). A form has one draft and publishes no other (`OneDraft`); what a call carries is what was sent last, or a late call came
in between (`SavesWhatWasSent`), and what a finished page has created stays (`HomeIsTrue`); `CreationsArePaid` is an account: what was or may still be created, but for the draft
that the form keeps, has cost a lost call or answer each. `EmailsDiffer`: an account is created only with an email that no other has, and none is
changed afterwards.

**Events** (`HomeAssumption`, `NameAssumption`, `ApartAssumption`). `flush` waits for a ping that follows a command in the same connection, and the server takes
a connection's commands in order (`PingsFollow`): when a handler's ping is next, its subscription is known; when a message's
is, the message has reached all who were subscribed (`AudienceIsKnown`), since each of them was known to the server
(`HandlersFit`) and no command still under way ends a subscription in use (`CommandsFit`). Without `ApartAssumption`
the property is false, as section 6 says.

**Pages** (`DocumentAssumption`: finitely many documents, keys are numbers; `BoundAssumption`, `NullAssumption`). Nothing remembers where a client is but the
number of its page. The rank of a document is how many come before it, and where keys differ a page has the documents of its ranks
(`PageHasItsRanks`). Ranks only grow while nothing leaves, so what stayed and has a rank before the place that is reached was
found before; they only shrink while nothing comes, so what has been found has such a rank and is not found again. `CountsAddUp`: each document
that is gone was counted by one remover.

**Recommendation** (`MovieAssumption`: finitely many movies and genres; `BoundAssumption`). The favorite genres are in a strict order, for the first places of
two genres differ (`PreferringIsAnOrder`), so their points are the numbers from 1 to as many as there are (`PointsAreRanks`): the map of genres to points is
injective and a set of that size has no room left. A movie that wins at each place wins in sum (`FavoritesComeFirst`). Watching one more movie of a single
genre raises that genre and, if it had points, no other (`WatchingRaisesItsGenre`), so the other movie gains at most what the rise gives at the
places where it has the genre (`OthersGainLess`). Points and scores are cardinalities, since a sum defined by recursion
cannot be reasoned about here.

### What is only model-checked

Liveness under fairness and ENABLED are out of the prover's reach: all liveness properties
(`EveryPurchaseSettles` to `CreationsEnd`, the run `Progress`) stay with TLC, as do the three refutations. Induction over data is out of reach too; no
proof needs it, since ranks, counts and sums are stated as cardinalities of sets and minima are found by `WFMin` over finite sets. What
`SetToSeqs` yields is only used through its definition. No module uses RECURSIVE operators.

## 11. Not modelled

- Configuration, logging, health checks, request schemas, error wording: reading and formatting, no protocol.
- The HTTP stream (SSE) of status events to one browser; the pages that only show data, login and logout of the
  front ends; the home page's layout.
- Signature and expiry of JWTs, and the week after which Redis forgets a session; password hashing.
- `rejectInvalid` of the notification consumer (term): only this code publishes to the subject, and its payloads fit
  the schema.
- The contents of S3 objects and the presigned form, beyond its expiry and its conditions.
- Deployment files, load and race tests, build tools. The tests were read for what they expect.

MongoDB and Redis are modelled by what the code relies on: one document update, one Lua script and one
transaction are atomic, transactions have snapshots; NATS and Restate by how the code configures and calls them.

## 12. Running

    tlc -workers 2 -config Purchases.cfg MCPurchase
    tlc -workers 2 -config Recovery.cfg MCRecovery
    tlc -workers 2 -config Outbox.cfg MCOutbox
    tlc -workers 2 -config Creation.cfg MCCreation
    tlc -workers 2 -config Progress.cfg MCProgress
    tlc -workers 2 -config Sessions.cfg MCSessions
    tlc -workers 2 -config Movies.cfg MCMovies
    tlc -workers 2 -config Seats.cfg MCSeats
    tlc -workers 2 -config Services.cfg MCServices
    tlc -workers 2 -config LateSale.cfg MCPurchase      # refutes a comment
    tlc -workers 2 -config FirstResult.cfg MCPurchase   # refutes a statement of the docs
    tlc -workers 2 -config CleanupRace.cfg MCMovies     # refutes a comment
    tlapm PurchaseProofs.tla
    tlapm PurchaseOutboxProofs.tla
    tlapm ShowtimeCreationProofs.tla
    tlapm JwtAuthProofs.tla
    tlapm SeatsProofs.tla
    tlapm SessionsProofs.tla
    tlapm MoviesProofs.tla
    tlapm ServicesProofs.tla
