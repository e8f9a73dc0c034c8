--------------------------- MODULE PurchaseOutbox ---------------------------
(***************************************************************************)
(* The announcement of a completed purchase: the record itself is the      *)
(* outbox, requests and the periodic job publish it to a JetStream stream  *)
(* under a lease, and the replicas consume it as one durable consumer.     *)
(*                                                                         *)
(* Neither publishing and marking, nor notifying and acknowledging, are    *)
(* one atomic step, so an event may be stored and announced repeatedly.    *)
(* A failed call, a lost reply, a crash and a stall each consume one of    *)
(* the MaxFaults faults.                                                   *)
(*                                                                         *)
(* A definition whose name ends in _Faulty is a variant with a plausible   *)
(* bug, named in PROJECT.json with the property that it would violate.     *)
(***************************************************************************)
EXTENDS Naturals, FiniteSets

CONSTANTS
    Request,    \* purchase requests; a record has the name of its request
    Sweeper,    \* runs of the periodic job
    Consumer,   \* the consume loop of each replica
    Nobody,     \* null
    Capacity,   \* max_bytes of the stream, in messages
    MaxFaults   \* bound on failed calls, lost replies, crashes and stalls

ASSUME NameAssumption == Nobody \notin Request \union Sweeper

ASSUME BoundAssumption == Capacity \in Nat \ {0} /\ MaxFaults \in Nat

VARIABLES
    completed,      \* the purchases that are completed
    published,      \* those whose purchaseEventStatus is published
    publicationId,  \* the owner of each record's publication lease
    lease,          \* and whether that lease is running
    copies,         \* how often the event of each record was stored
    stored,         \* the messages in the stream
    acked,          \* those the durable consumer is done with
    inFlight,       \* those delivered, with the ack wait running
    remembered,     \* the message ids inside the duplicate window
    step, job,      \* where each publisher is, and the record it works on
    held,           \* the message each consume loop is processing
    stopped,        \* the consume loops that have ended
    announced,      \* the purchases whose confirmation was sent
    faults

recordVars == <<completed, published, publicationId, lease>>
streamVars == <<copies, stored, acked, inFlight, remembered>>
consumerVars == <<held, stopped, announced>>
vars == <<recordVars, streamVars, step, job, consumerVars, faults>>

-----------------------------------------------------------------------------
Publisher == Request \union Sweeper

\* the n-th copy of a record's event; NoMessage is no copy of any
Message == Request \X Nat
NoMessage == <<Nobody, 0>>

Step == {"selling", "claim", "emit", "mark", "release", "idle", "done"}

TypeOK ==
    /\ completed \subseteq Request
    /\ published \subseteq Request
    /\ publicationId \in [Request -> Publisher \union {Nobody}]
    /\ lease \in [Request -> {"none", "live", "expired"}]
    /\ copies \in [Request -> Nat]
    /\ stored \subseteq Message
    /\ acked \subseteq stored
    /\ inFlight \subseteq stored
    /\ remembered \subseteq Request
    /\ step \in [Publisher -> Step]
    /\ job \in [Publisher -> Request \union {Nobody}]
    /\ \A p \in Request : job[p] = p
    /\ held \in [Consumer -> Message \union {NoMessage}]
    /\ stopped \subseteq Consumer
    /\ announced \subseteq Request
    /\ faults \in Nat

Init ==
    /\ completed = {} /\ published = {}
    /\ publicationId = [r \in Request |-> Nobody]
    /\ lease = [r \in Request |-> "none"]
    /\ copies = [r \in Request |-> 0]
    /\ stored = {} /\ acked = {} /\ inFlight = {} /\ remembered = {}
    /\ step = [w \in Publisher |-> IF w \in Request THEN "selling" ELSE "idle"]
    /\ job = [w \in Publisher |-> IF w \in Request THEN w ELSE Nobody]
    /\ held = [c \in Consumer |-> NoMessage]
    /\ stopped = {} /\ announced = {}
    /\ faults = 0

-----------------------------------------------------------------------------
(***************************************************************************)
(* publishPurchaseEvent.  It swallows every error: the request has been    *)
(* sold its tickets, and the job goes on with the next record.             *)
(***************************************************************************)

\* every caller of publishPurchaseEvent is taken for the job
Returned_Faulty(w) == "idle"

\* publishPurchaseEvent returns
Returned(w) == IF w \in Request THEN "done" ELSE "idle"

GoTo(w, s) ==
    /\ step' = [step EXCEPT ![w] = s]
    /\ job' = IF s = "idle" THEN [job EXCEPT ![w] = Nobody] ELSE job

\* an error of emitTicketPurchased does not keep the event from being marked
OnError_Faulty(w) ==
    CASE step[w] = "emit" -> "mark"
      [] step[w] \in {"claim", "mark"} -> "release"
      [] step[w] \notin {"claim", "emit", "mark"} -> Returned(w)

OnError(w) == IF step[w] \in {"claim", "emit", "mark"} THEN "release" ELSE Returned(w)

Fault == faults < MaxFaults /\ faults' = faults + 1

\* the call took effect; its reply came back or was lost
Reply(w, s) ==
    \/ GoTo(w, s) /\ UNCHANGED faults
    \/ GoTo(w, OnError(w)) /\ Fault

\* commitPurchase: when its reply is lost the request does not publish
Sell(p) ==
    /\ step[p] = "selling"
    /\ completed' = completed \union {p}
    /\ Reply(p, "claim")
    /\ UNCHANGED <<published, publicationId, lease, streamVars, consumerVars>>

\* the filter of findUnpublishedBefore and claimEventPublication without the
\* status of the event
Publishable_Faulty(r) == r \in completed /\ lease[r] # "live"

\* a lease that ran out is not taken over
Publishable_Abandons_Faulty(r) == r \in completed /\ r \notin published /\ lease[r] = "none"

\* the filter of findUnpublishedBefore and claimEventPublication; that it skips
\* records updated since `before' only delays the claim of the job
Publishable(r) == r \in completed /\ r \notin published /\ lease[r] # "live"

\* claimEventPublication, by the request of r or by the job
Claim(w, r) ==
    /\ \/ step[w] = "claim" /\ r = job[w]
       \/ step[w] = "idle"
    /\ Publishable(r)
    /\ publicationId' = [publicationId EXCEPT ![r] = w]
    /\ lease' = [lease EXCEPT ![r] = "live"]
    /\ job' = [job EXCEPT ![w] = r]
    /\ \/ step' = [step EXCEPT ![w] = "emit"] /\ UNCHANGED faults
       \/ step' = [step EXCEPT ![w] = "release"] /\ Fault
    /\ UNCHANGED <<completed, published, streamVars, consumerVars>>

\* The claim of a request may also fail because the job has touched the record
\* since `before'; which of the two was first is left to time.
NothingToPublish(w) ==
    /\ step[w] = "claim"
    /\ GoTo(w, Returned(w))
    /\ UNCHANGED <<recordVars, streamVars, consumerVars, faults>>

\* the stream refuses new messages when it is full (DiscardPolicy.New)
Full == Cardinality(stored) >= Capacity

\* client.publish with the record's id as msgID: stored, or acknowledged as a
\* duplicate of a message inside the window
Emit(w) ==
    /\ step[w] = "emit"
    /\ LET r == job[w] IN
       IF r \in remembered
          THEN UNCHANGED streamVars
          ELSE /\ ~Full
               /\ copies' = [copies EXCEPT ![r] = @ + 1]
               /\ stored' = stored \union {<<r, copies[r] + 1>>}
               /\ remembered' = remembered \union {r}
               /\ UNCHANGED <<acked, inFlight>>
    /\ Reply(w, "mark")
    /\ UNCHANGED <<recordVars, consumerVars>>

EmitRefused(w) ==
    /\ step[w] = "emit"
    /\ job[w] \notin remembered /\ Full
    /\ GoTo(w, OnError(w))
    /\ UNCHANGED <<recordVars, streamVars, consumerVars, faults>>

\* the filter of markEventPublished and releaseEventPublicationClaim
OwnsPublication(w) == publicationId[job[w]] = w /\ job[w] \notin published

EndLease(w) ==
    /\ publicationId' = [publicationId EXCEPT ![job[w]] = Nobody]
    /\ lease' = [lease EXCEPT ![job[w]] = "none"]

MarkPublished(w) ==
    /\ step[w] = "mark"
    /\ OwnsPublication(w)
    /\ published' = published \union {job[w]}
    /\ EndLease(w)
    /\ Reply(w, Returned(w))
    /\ UNCHANGED <<completed, streamVars, consumerVars>>

LeaseLost(w) ==
    /\ step[w] = "mark"
    /\ ~OwnsPublication(w)
    /\ GoTo(w, "release")
    /\ UNCHANGED <<recordVars, streamVars, consumerVars, faults>>

ReleaseClaim(w) ==
    /\ step[w] = "release"
    /\ IF OwnsPublication(w) THEN EndLease(w) ELSE UNCHANGED <<publicationId, lease>>
    /\ Reply(w, Returned(w))
    /\ UNCHANGED <<completed, published, streamVars, consumerVars>>

-----------------------------------------------------------------------------
(***************************************************************************)
(* The durable consumer, shared by the replicas.                           *)
(***************************************************************************)

Processing(c) == held[c] # NoMessage

Deliver(c, m) ==
    /\ c \notin stopped
    /\ ~Processing(c)
    /\ m \in stored \ (acked \union inFlight)
    /\ held' = [held EXCEPT ![c] = m]
    /\ inFlight' = inFlight \union {m}
    /\ UNCHANGED <<recordVars, copies, stored, acked, remembered>>
    /\ UNCHANGED <<step, job, stopped, announced, faults>>

Acknowledge(m) ==
    /\ acked' = acked \union ({m} \intersect stored)
    /\ inFlight' = inFlight \ {m}

Forget(c) == held' = [held EXCEPT ![c] = NoMessage]

\* process: the confirmation is sent, then acknowledged.  The acknowledgement
\* is not awaited and may get lost.
Process(c) ==
    /\ Processing(c)
    /\ announced' = announced \union {held[c][1]}
    /\ \/ Acknowledge(held[c]) /\ UNCHANGED faults
       \/ UNCHANGED <<acked, inFlight>> /\ Fault
    /\ Forget(c)
    /\ UNCHANGED <<recordVars, copies, stored, remembered, step, job, stopped>>

\* sending fails: nak, to be delivered again
ProcessFails(c) ==
    /\ Processing(c)
    /\ inFlight' = inFlight \ {held[c]}
    /\ Forget(c)
    /\ Fault
    /\ UNCHANGED <<recordVars, copies, stored, acked, remembered>>
    /\ UNCHANGED <<step, job, stopped, announced>>

\* the iteration over the messages throws or ends; nothing starts it again
LoopEnds(c) ==
    /\ c \notin stopped
    /\ stopped' = stopped \union {c}
    /\ Forget(c)
    /\ Fault
    /\ UNCHANGED <<recordVars, streamVars, step, job, announced>>

-----------------------------------------------------------------------------
(***************************************************************************)
(* Faults and time.                                                        *)
(***************************************************************************)

CallFails(w) ==
    /\ step[w] \in {"claim", "emit", "mark", "release"}
    /\ GoTo(w, OnError(w))
    /\ Fault
    /\ UNCHANGED <<recordVars, streamVars, consumerVars>>

\* a killed replica: its request is gone, its job starts again
Crash(w) ==
    /\ step[w] \in {"claim", "emit", "mark", "release"}
    /\ GoTo(w, Returned(w))
    /\ Fault
    /\ UNCHANGED <<recordVars, streamVars, consumerVars>>

\* a killed replica comes back with a new consume loop
ConsumerRestarts(c) ==
    /\ c \in stopped \/ Processing(c)
    /\ stopped' = stopped \ {c}
    /\ Forget(c)
    /\ IF c \in stopped THEN UNCHANGED faults ELSE Fault
    /\ UNCHANGED <<recordVars, streamVars, step, job, announced>>

Elapse(stalled) == IF stalled THEN Fault ELSE UNCHANGED faults

Attended(r) ==
    LET w == publicationId[r] IN
    w # Nobody /\ job[w] = r /\ step[w] \in {"emit", "mark", "release"}

LeaseExpires(r) ==
    /\ lease[r] = "live"
    /\ lease' = [lease EXCEPT ![r] = "expired"]
    /\ Elapse(Attended(r))
    /\ UNCHANGED <<completed, published, publicationId, streamVars, step, job, consumerVars>>

\* ten minutes after a message was stored its id is forgotten
WindowExpires(r) ==
    /\ r \in remembered
    /\ remembered' = remembered \ {r}
    /\ Elapse(Attended(r))
    /\ UNCHANGED <<recordVars, copies, stored, acked, inFlight, step, job, consumerVars>>

\* thirty seconds after its delivery a message may be delivered again
AckWaitElapses(m) ==
    /\ m \in inFlight
    /\ inFlight' = inFlight \ {m}
    /\ Elapse(\E c \in Consumer : held[c] = m)
    /\ UNCHANGED <<recordVars, copies, stored, acked, remembered, step, job, consumerVars>>

\* max_age: acknowledged messages keep their place for seven days.  That no
\* message waits that long for its first acknowledgement is assumed.
AgesOut(m) ==
    /\ m \in acked
    /\ stored' = stored \ {m}
    /\ acked' = acked \ {m}
    /\ inFlight' = inFlight \ {m}
    /\ UNCHANGED <<recordVars, copies, remembered, step, job, consumerVars, faults>>

-----------------------------------------------------------------------------
PublisherStep(w) ==
    \/ (\E r \in Request : Claim(w, r)) \/ NothingToPublish(w)
    \/ Emit(w) \/ EmitRefused(w) \/ MarkPublished(w) \/ LeaseLost(w) \/ ReleaseClaim(w)

ConsumerStep(c) == (\E m \in stored : Deliver(c, m)) \/ Process(c)

Next ==
    \/ \E p \in Request : Sell(p)
    \/ \E w \in Publisher : PublisherStep(w) \/ CallFails(w) \/ Crash(w)
    \/ \E c \in Consumer : ConsumerStep(c) \/ ProcessFails(c) \/ LoopEnds(c) \/ ConsumerRestarts(c)
    \/ \E r \in Request : LeaseExpires(r) \/ WindowExpires(r)
    \/ \E m \in stored : AckWaitElapses(m) \/ AgesOut(m)

Spec == Init /\ [][Next]_vars

\* A call of publishPurchaseEvent goes on until it returns or its replica dies,
\* the job is started every minute, a consume loop that has not ended goes on,
\* and time passes.  Nobody is obliged to buy, and no replica whose loop has
\* ended is obliged to restart.
Fairness ==
    /\ \A w \in Publisher : WF_vars(PublisherStep(w))
    /\ \A c \in Consumer : WF_vars(ConsumerStep(c))
    /\ \A r \in Request : WF_vars(~Attended(r) /\ LeaseExpires(r))
    /\ \A r \in Request : \A n \in 1..(MaxFaults + 1) :
          WF_vars(<<r, n>> \in stored /\ (AckWaitElapses(<<r, n>>) \/ AgesOut(<<r, n>>)))

FairSpec == Spec /\ Fairness

-----------------------------------------------------------------------------
(***************************************************************************)
(* Properties.                                                             *)
(***************************************************************************)

\* A copy of r's event that some consumer will still be given.
Waiting(r) == \E m \in stored \ acked : m[1] = r

\* An event marked as published is not forgotten: its confirmation was sent, or
\* a message that will cause it waits in the stream.  Marking before the broker
\* has the message, acknowledging before the confirmation is sent, or taking a
\* refusal for a success loses it without a trace (publishPurchaseEvent, process).
NothingIsLost == \A r \in published : r \in announced \/ Waiting(r)

\* Every extra copy of an event is the price of a fault: without one, publishers,
\* leases and the duplicate window make it exactly one.
DuplicatesAreFaults == \A r \in Request : copies[r] <= 1 + faults

\* Every completed purchase is announced in the end, although the stream may be
\* full, publishers crash with the lease and all consume loops but one end.
EverySaleIsAnnounced == \A r \in Request : r \in completed ~> r \in announced

=============================================================================
