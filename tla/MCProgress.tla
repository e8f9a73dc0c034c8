----------------------------- MODULE MCProgress -----------------------------
(***************************************************************************)
(* Instances for TLC's liveness checking: the retry of a showtime          *)
(* creation, the announcement of purchases, an upload that expires,        *)
(* accounts that are locked out, and the shutdown of the endpoint for      *)
(* Restate.  A behaviour is one of one of these components; the variables  *)
(* of the others keep their initial values.                                *)
(***************************************************************************)
EXTENDS ShowtimeCreation

CONSTANTS
    r1, r2, t1, m1, k1, b1,                          \* showtime creation
    p1, p2, j1, c1, c2, Buyer, Sweeper, Consumer, Capacity,              \* purchases, see PurchaseOutbox
    s1, s2, f1, u1, Server, Film, Asset,                   \* see MovieAssets
    l1, l2, l3, a1, a2, i1, Login, Account, Ip,      \* see LoginRateLimiter
    h1, h2, Connection                               \* see RestateEndpoint

Keys == [r \in Saga |-> k1]
Bodies == [r \in Saga |-> b1]
Theaters == [r \in Saga |-> {t1}]
Starts == [r \in Saga |-> {1}]
Durations == [r \in Saga |-> 2]
SameMovie == [r \in Saga |-> m1]
Targets == [d \in Deletion |-> t1]

\* l1 and l2 are to one account, and all logins are from one address
Accounts == [l \in Login |-> IF l = l3 THEN a2 ELSE a1]
Addresses == [l \in Login |-> i1]

VARIABLES
    scenario,
    completed, published, publicationId, publicationLease, copies, stored, acked,
    inFlight, remembered, publisher, job, held, stopped, announced, callFaults,
    row, owner, expired, objects, forms, films, attached, pending, task, server,
    film, batch, listed, known, condemned, late, deaths, updates,
    count, expires, login, toCount, over, verdictOf, counted,
    endpoint, sessions, closing, calls, elapsed

outboxVars ==
    <<completed, published, publicationId, publicationLease, copies, stored, acked,
      inFlight, remembered, publisher, job, held, stopped, announced, callFaults>>
assetVars ==
    <<row, owner, expired, objects, forms, films, attached, pending, task, server,
      film, batch, listed, known, condemned, late, deaths, updates>>
limiterVars == <<count, expires, login, toCount, over, verdictOf, counted>>
endpointVars == <<endpoint, sessions, closing, calls, elapsed>>

Outbox == INSTANCE PurchaseOutbox WITH
    Request <- Buyer, MaxFaults <- 1,
    lease <- publicationLease, step <- publisher, faults <- callFaults
Assets == INSTANCE MovieAssets WITH
    Movie <- Film, MaxFaults <- 1, MaxExpired <- 1, MaxUpdates <- 0,
    movies <- films, job <- task, step <- server, movie <- film, faults <- deaths
Limiter == INSTANCE LoginRateLimiter WITH
    AccountOf <- Accounts, IpOf <- Addresses, AccountLimit <- 1, IpLimit <- 2,
    step <- login, answer <- verdictOf
Endpoint == INSTANCE RestateEndpoint WITH server <- endpoint

ASSUME OutboxAssumption == Outbox!NameAssumption /\ Outbox!BoundAssumption
ASSUME AssetAssumption == Assets!NobodyAssumption /\ Assets!BoundAssumption
ASSUME LimiterAssumption ==
    Limiter!LoginAssumption /\ Limiter!CounterAssumption /\ Limiter!LimitAssumption

MCInit ==
    /\ scenario \in {"creation", "outbox", "assets", "limiter", "endpoint"}
    /\ CreationInit /\ Outbox!Init /\ Assets!Init /\ Limiter!Init /\ Endpoint!Init

MCNext ==
    /\ UNCHANGED scenario
    /\ \/ /\ scenario = "creation" /\ CreationNext
          /\ UNCHANGED <<outboxVars, assetVars, limiterVars, endpointVars>>
       \/ /\ scenario = "outbox" /\ Outbox!Next
          /\ UNCHANGED <<creationVars, assetVars, limiterVars, endpointVars>>
       \/ /\ scenario = "assets" /\ Assets!Next
          /\ UNCHANGED <<creationVars, outboxVars, limiterVars, endpointVars>>
       \/ /\ scenario = "limiter" /\ Limiter!Next
          /\ UNCHANGED <<creationVars, outboxVars, assetVars, endpointVars>>
       \/ /\ scenario = "endpoint" /\ Endpoint!Next
          /\ UNCHANGED <<creationVars, outboxVars, assetVars, limiterVars>>

MCSpec ==
    MCInit
    /\ [][MCNext]_<<scenario, creationVars, outboxVars, assetVars, limiterVars, endpointVars>>

-----------------------------------------------------------------------------
(***************************************************************************)
(* What each component promises under its own fairness.                    *)
(***************************************************************************)

\* A showtime creation that left a row is accepted, and its saga comes to an
\* end, although servers die and stall, as long as its clients try again.
CreationsEnd ==
    scenario = "creation" /\ CreationFairness => EveryRequestIsCarriedOut

\* Every completed purchase is announced, although the stream fills up,
\* publishers crash with the lease and all consume loops but one end.
SalesAreAnnounced ==
    scenario = "outbox" /\ Outbox!Fairness => Outbox!EverySaleIsAnnounced

\* An upload that expires without an owner is deleted in the end, or it was
\* being completed just then, although deletions fail and requests die.
UploadsEnd ==
    scenario = "assets" /\ Assets!Fairness => Assets!ExpiredUploadsEnd

\* Whoever is locked out is let in again when the window of the counter ends,
\* and the shutdown of the API does not wait for ever for a call from Restate.
WaitsEnd ==
    /\ scenario = "limiter" /\ Limiter!Fairness => Limiter!LockoutEnds
    /\ scenario = "endpoint" /\ Endpoint!Fairness => Endpoint!ShutdownEnds
=============================================================================
