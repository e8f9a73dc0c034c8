-------------------------- MODULE ShowtimeCreation --------------------------
(***************************************************************************)
(* The whole of showtime creation: requests and their rows (module         *)
(* ShowtimeSubmission) start the sagas that ShowtimeWorkflow carries out,  *)
(* beside the deletions of CatalogDeletion.  A saga has the name of the    *)
(* request that inserted the row, and its input is that request's body.    *)
(***************************************************************************)
EXTENDS CatalogDeletion

CONSTANTS
    Key, Body, KeyOf, BodyOf   \* see ShowtimeSubmission, whose requests are Saga

VARIABLES
    sagaOf, inputOf, claim, lease, accepted, started, step, saga, answer

Submission == INSTANCE ShowtimeSubmission WITH Request <- Saga, workflow <- started

ASSUME SubmissionAssumption ==
    Submission!RequestAssumption /\ Submission!NameAssumption /\ Submission!BoundAssumption

submissionVars ==
    <<sagaOf, inputOf, claim, lease, accepted, started, step, saga, answer>>
carriedOutVars == <<catalog, database, workflow, transaction, events, stage>>
creationVars == <<submissionVars, carriedOutVars, faults>>

CreationInit == DeletionInit /\ Submission!Init

\* Restate has the workflow from the moment it was started
SagaStep(s) ==
    /\ started[s] # Nobody
    /\ Emits(s) \/ StartAttempt(s) \/ GiveUp(s) \/ \E a \in Attempt :
          SagaOf(a) = s /\ (Work(a) \/ AttemptFails(a))

CreationNext ==
    \/ Submission!Next /\ UNCHANGED carriedOutVars
    \/ \E s \in Saga : SagaStep(s) /\ UNCHANGED <<stage, submissionVars>>
    \/ \E d \in Deletion : (Check(d) \/ Delete(d)) /\ UNCHANGED submissionVars

CreationSpec == CreationInit /\ [][CreationNext]_creationVars

\* The Fairness of both parts: clients go on until they are accepted or refused
\* for good, and Restate goes on with every workflow it has.
CreationFairness ==
    /\ Submission!Fairness
    /\ \A s \in Saga :
          /\ WF_vars(started[s] # Nobody /\ Emit(s))
          /\ WF_vars(started[s] # Nobody /\ ~Running(s) /\ StartAttempt(s))
          /\ WF_vars(started[s] # Nobody /\ GiveUp(s))
    /\ \A a \in Attempt : WF_vars(started[SagaOf(a)] # Nobody /\ Work(a))

-----------------------------------------------------------------------------
(***************************************************************************)
(* Properties.                                                             *)
(***************************************************************************)

\* However often a request is sent, taken over and carried out: its key has one
\* saga, an accepted request is that saga's, and all the showtimes that were
\* created under the key are that saga's too (acquire, ensureShowtimeCreation-
\* JobStarted, validateAndCreate).
OneCreationPerKey ==
    /\ Submission!TypeOK /\ TypeOK
    /\ Submission!OneSagaPerKey
    /\ Submission!AcceptedIsStarted
    /\ \A x \in showtimes : x.saga = sagaOf[KeyOf[x.saga]]

\* A request that left a row is accepted, and its saga comes to an end, although
\* servers die, stall and lose the answers of Restate and of the database.
EveryRequestIsCarriedOut ==
    \A k \in Key : sagaOf[k] # Nobody ~>
        k \in accepted /\ phase[sagaOf[k]] = "over"
=============================================================================
