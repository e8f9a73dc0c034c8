------------------------- MODULE ShowtimeSubmission -------------------------
(***************************************************************************)
(* POST /showtime-creation/showtimes: an Idempotency-Key is tied to one    *)
(* saga by a row of its own, and a server that submits the workflow holds  *)
(* a claim on the row with a lease.  Submitting and recording that it was  *)
(* accepted are two calls, and either may fail, lose its reply or come too *)
(* late; a retry takes an expired claim over and submits the same saga.    *)
(*                                                                         *)
(* All keys are those of one principal.  A Request is a client that sends  *)
(* one body with one key, again and again if it likes; its name stands for *)
(* the random claimId of its current attempt and, in the row it inserts,   *)
(* for the sagaId.                                                         *)
(***************************************************************************)
EXTENDS Naturals

CONSTANTS Request, Key, Body, Nobody,
    KeyOf, BodyOf,   \* the key and the body a request sends
    MaxFaults        \* bound on failed calls, lost replies, crashes and stalls

RequestAssumption == KeyOf \in [Request -> Key] /\ BodyOf \in [Request -> Body]
NameAssumption == Nobody \notin Request \union Body
BoundAssumption == MaxFaults \in Nat

VARIABLES
    sagaOf, inputOf,   \* each key's row: sagaId and inputHash; Nobody without a row
    claim, lease,      \* its claimId, and whether claimUntil has passed
    accepted,          \* the keys with acceptedAt
    workflow,          \* the input each saga was started with in Restate
    step, saga,        \* where each request is, and the saga it submits
    answer,            \* the last answer of each request
    faults

row == <<sagaOf, inputOf, claim, lease, accepted>>
vars == <<row, workflow, step, saga, answer, faults>>

Step == {"idle", "insert", "find", "takeover", "start", "accept", "release"}
Answer == {"none", "accepted", "in-progress", "key-reused", "error"}

\* only a submission that was not accepted has a claim, and a lease with it
TypeOK ==
    /\ sagaOf \in [Key -> Request \union {Nobody}]
    /\ inputOf \in [Key -> Body \union {Nobody}]
    /\ claim \in [Key -> Request \union {Nobody}]
    /\ lease \in [Key -> {"none", "live", "expired"}]
    /\ accepted \subseteq {k \in Key : claim[k] = Nobody}
    /\ \A k \in Key : claim[k] = Nobody <=> lease[k] = "none"
    /\ workflow \in [Request -> Body \union {Nobody}]
    /\ step \in [Request -> Step]
    /\ saga \in [Request -> Request \union {Nobody}]
    /\ answer \in [Request -> Answer]
    /\ faults \in 0..MaxFaults

Init ==
    /\ sagaOf = [k \in Key |-> Nobody] /\ inputOf = [k \in Key |-> Nobody]
    /\ claim = [k \in Key |-> Nobody] /\ lease = [k \in Key |-> "none"]
    /\ accepted = {}
    /\ workflow = [r \in Request |-> Nobody]
    /\ step = [r \in Request |-> "idle"]
    /\ saga = [r \in Request |-> Nobody]
    /\ answer = [r \in Request |-> "none"]
    /\ faults = 0

-----------------------------------------------------------------------------
Fault == faults < MaxFaults /\ faults' = faults + 1

GoTo(r, s) == step' = [step EXCEPT ![r] = s] /\ UNCHANGED answer

Reply(r, a) ==
    /\ step' = [step EXCEPT ![r] = "idle"]
    /\ answer' = [answer EXCEPT ![r] = a]

\* the catch block releases the claim; before it an error is just thrown
OnError(r) ==
    IF step[r] \in {"start", "accept"} THEN GoTo(r, "release") ELSE Reply(r, "error")

\* the call took effect; its reply came back or was lost
Continue(r, s) ==
    \/ GoTo(r, s) /\ UNCHANGED faults
    \/ OnError(r) /\ Fault

Submit(r) ==
    /\ step[r] = "idle"
    /\ step' = [step EXCEPT ![r] = "insert"]
    /\ answer' = [answer EXCEPT ![r] = "none"]
    /\ saga' = [saga EXCEPT ![r] = Nobody]
    /\ UNCHANGED <<row, workflow, faults>>

SetClaim(k, r, l) ==
    /\ claim' = [claim EXCEPT ![k] = r]
    /\ lease' = [lease EXCEPT ![k] = l]

\* acquire: the insert, refused by the unique index when the key has a row
Insert(r) ==
    /\ step[r] = "insert"
    /\ LET k == KeyOf[r] IN
       IF sagaOf[k] # Nobody
          THEN GoTo(r, "find") /\ UNCHANGED <<row, saga, faults>>
          ELSE /\ sagaOf' = [sagaOf EXCEPT ![k] = r]
               /\ inputOf' = [inputOf EXCEPT ![k] = BodyOf[r]]
               /\ SetClaim(k, r, "live")
               /\ saga' = [saga EXCEPT ![r] = r]
               /\ UNCHANGED accepted
               /\ Continue(r, "start")
    /\ UNCHANGED workflow

SameInput(r) == inputOf[KeyOf[r]] = BodyOf[r]

\* acquire: what the existing row says
Find(r) ==
    /\ step[r] = "find"
    /\ LET k == KeyOf[r] IN
       IF ~SameInput(r) THEN Reply(r, "key-reused") /\ UNCHANGED saga
       ELSE IF k \in accepted
          THEN Reply(r, "accepted") /\ saga' = [saga EXCEPT ![r] = sagaOf[k]]
       ELSE /\ IF lease[k] = "live" THEN Reply(r, "in-progress") ELSE GoTo(r, "takeover")
            /\ UNCHANGED saga
    /\ UNCHANGED <<row, workflow, faults>>

\* a claim that ran out is not taken over, only one that was released
Claimable_Faulty(k) == k \notin accepted /\ lease[k] = "none"

\* the filter of acquire's findOneAndUpdate
Claimable(k) == k \notin accepted /\ lease[k] # "live"

\* whoever takes a claim over starts a saga of its own
SagaTakenOver_Faulty(r) == r

SagaTakenOver(r) == sagaOf[KeyOf[r]]

TakeOver(r) ==
    /\ step[r] = "takeover"
    /\ LET k == KeyOf[r] IN
       IF Claimable(k)
          THEN /\ SetClaim(k, r, "live")
               /\ saga' = [saga EXCEPT ![r] = SagaTakenOver(r)]
               /\ Continue(r, "start")
          ELSE Reply(r, "in-progress") /\ UNCHANGED <<claim, lease, saga, faults>>
    /\ UNCHANGED <<sagaOf, inputOf, accepted, workflow>>

\* workflowSubmit: the saga is the workflow's key, a second submission joins
\* the first
StartWorkflow(r) ==
    /\ step[r] = "start"
    /\ workflow' = [workflow EXCEPT ![saga[r]] = IF @ = Nobody THEN BodyOf[r] ELSE @]
    /\ Continue(r, "accept")
    /\ UNCHANGED <<row, saga>>

OwnsClaim(r) == claim[KeyOf[r]] = r /\ KeyOf[r] \notin accepted

ClaimAfter(k) == SetClaim(k, Nobody, "none")

MarkAccepted(r) ==
    /\ step[r] = "accept"
    /\ IF OwnsClaim(r)
          THEN /\ accepted' = accepted \union {KeyOf[r]}
               /\ ClaimAfter(KeyOf[r])
               /\ \/ Reply(r, "accepted") /\ UNCHANGED faults
                  \/ OnError(r) /\ Fault
          ELSE OnError(r) /\ UNCHANGED <<accepted, claim, lease, faults>>
    /\ UNCHANGED <<sagaOf, inputOf, workflow, saga>>

Release(r) ==
    /\ step[r] = "release"
    /\ IF OwnsClaim(r) THEN SetClaim(KeyOf[r], Nobody, "none") ELSE UNCHANGED <<claim, lease>>
    /\ Reply(r, "error")
    /\ UNCHANGED <<sagaOf, inputOf, accepted, workflow, saga, faults>>

-----------------------------------------------------------------------------
CallFails(r) ==
    /\ step[r] # "idle"
    /\ OnError(r)
    /\ Fault
    /\ UNCHANGED <<row, workflow, saga>>

\* the server dies; its client is not answered
Crash(r) ==
    /\ step[r] # "idle"
    /\ Reply(r, "none")
    /\ Fault
    /\ UNCHANGED <<row, workflow, saga>>

Attended(k) == claim[k] # Nobody /\ step[claim[k]] \in {"start", "accept", "release"}

\* five minutes pass; for a server that still works on it, that is a stall
LeaseExpires(k) ==
    /\ lease[k] = "live"
    /\ lease' = [lease EXCEPT ![k] = "expired"]
    /\ IF Attended(k) THEN Fault ELSE UNCHANGED faults
    /\ UNCHANGED <<sagaOf, inputOf, claim, accepted, workflow, step, saga, answer>>

Handle(r) ==
    Insert(r) \/ Find(r) \/ TakeOver(r) \/ StartWorkflow(r) \/ MarkAccepted(r) \/ Release(r)

Next ==
    \/ \E r \in Request : Submit(r) \/ Handle(r) \/ CallFails(r) \/ Crash(r)
    \/ \E k \in Key : LeaseExpires(k)

Spec == Init /\ [][Next]_vars

\* A request is handled until it is answered or its server dies, time passes,
\* and a client sends its request again until it is accepted or refused for good.
Fairness ==
    /\ \A r \in Request : WF_vars(Handle(r))
    /\ \A r \in Request : WF_vars(answer[r] \notin {"accepted", "key-reused"} /\ Submit(r))
    /\ \A k \in Key : WF_vars(~Attended(k) /\ LeaseExpires(k))

FairSpec == Spec /\ Fairness

-----------------------------------------------------------------------------
(***************************************************************************)
(* Properties.                                                             *)
(***************************************************************************)

\* One key never has two sagas, whoever submits it and however often the
\* claim changes hands (acquire hands the existing saga over).
OneSagaPerKey ==
    \A r1, r2 \in Request :
        workflow[r1] # Nobody /\ workflow[r2] # Nobody /\ KeyOf[r1] = KeyOf[r2] => r1 = r2

\* Whoever is answered 202 was given a saga that runs their very request, the
\* one of their key (ensureShowtimeCreationJobStarted before markAccepted).
AcceptedIsStarted ==
    \A r \in Request :
        answer[r] = "accepted" => saga[r] = sagaOf[KeyOf[r]] /\ workflow[saga[r]] = BodyOf[r]

=============================================================================
