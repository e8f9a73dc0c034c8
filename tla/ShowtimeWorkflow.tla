-------------------------- MODULE ShowtimeWorkflow --------------------------
(***************************************************************************)
(* The Restate workflow that creates the showtimes of a saga: two status   *)
(* events, one durable step that validates and creates in a snapshot       *)
(* transaction, and a terminal event.                                      *)
(*                                                                         *)
(* Restate repeats a step whose result it did not get, even while an       *)
(* earlier attempt is still running somewhere.  What keeps a saga from     *)
(* running twice is its operation row, and what keeps two sagas from       *)
(* booking a theater twice is a write to the theater before the reads.     *)
(***************************************************************************)
EXTENDS Naturals

CONSTANTS
    Saga, Theater, Movie, Nobody,
    TheatersOf, StartsOf, DurationOf, MovieOf,   \* the input of each saga
    MaxAttempts,   \* maxRetryAttempts of the durable step, the first included
    MaxFaults      \* bound on failed calls, lost replies, crashes and stalls

ASSUME InputAssumption ==
    /\ TheatersOf \in [Saga -> SUBSET Theater]
    /\ StartsOf \in [Saga -> SUBSET Nat \ {{}}]
    /\ DurationOf \in [Saga -> Nat \ {0}]
    /\ MovieOf \in [Saga -> Movie]

\* assertStartTimesDoNotOverlap: no start time comes too close to the one before
StartTimesDoNotOverlap(s) ==
    \A b, c \in StartsOf[s] :
        b < c /\ ~(\E e \in StartsOf[s] : b < e /\ e < c) => c - b >= DurationOf[s]

\* requestShowtimeCreation refuses any other body before it has a saga
ASSUME StartsAssumption == \A s \in Saga : StartTimesDoNotOverlap(s)

ASSUME BoundAssumption == MaxAttempts \in Nat \ {0} /\ MaxFaults \in Nat

VARIABLES
    movies, theaters,       \* those that are not deleted
    showtimes,              \* committed showtimes, with their tickets
    operation,              \* the committed operation row of each saga
    lockedBy,               \* the transaction with an uncommitted write to a theater
    phase, tries, outcome,  \* each workflow: where it is, attempts so far, output
    alive,                  \* the attempts that run
    at, snapshot, changed,  \* each attempt's transaction: where it is, what it
                            \* sees, and the theaters written since
    verdict,                \* what its validation found
    delayed, heard,         \* events stuck in a client's buffer; those heard, in order
    faults

catalog == <<movies, theaters>>
database == <<showtimes, operation, lockedBy>>
workflow == <<phase, tries, outcome>>
transaction == <<alive, at, snapshot, changed, verdict>>
events == <<delayed, heard>>
vars == <<catalog, database, workflow, transaction, events, faults>>

-----------------------------------------------------------------------------
Attempt == Saga \X (1..MaxAttempts)
SagaOf(a) == a[1]

ASSUME NobodyAssumption == Nobody \notin Attempt

\* what createDto asks for
Planned(s) == [saga : {s}, theater : TheatersOf[s], start : StartsOf[s]]
End(x) == x.start + DurationOf[x.saga]

\* the half-open intervals of two showtimes meet
Overlap(x, y) == x.start < End(y) /\ y.start < End(x)

Snapshot == [movies : SUBSET Movie, theaters : SUBSET Theater,
             showtimes : SUBSET UNION {Planned(s) : s \in Saga}]
NoSnapshot == [movies |-> {}, theaters |-> {}, showtimes |-> {}]

Phase == {"emit waiting", "emit processing", "run", "emit terminal", "over"}
Status == <<"waiting", "processing", "terminal">>

\* a theater is locked by the running transactions that passed its guard
TypeOK ==
    /\ movies \subseteq Movie /\ theaters \subseteq Theater
    /\ showtimes \subseteq UNION {Planned(s) : s \in Saga}
    /\ operation \in [Saga -> {"none", "succeeded", "failed"}]
    /\ lockedBy \in [Theater -> Attempt \union {Nobody}]
    /\ \A t \in Theater : lockedBy[t] # Nobody => at[lockedBy[t]] \in {"guarded", "ready"}
    /\ phase \in [Saga -> Phase]
    /\ tries \in [Saga -> 0..MaxAttempts]
    /\ outcome \in [Saga -> {"none", "succeeded", "failed", "error"}]
    /\ alive \subseteq Attempt
    /\ at \in [Attempt -> {"off", "begun", "guarded", "ready"}]
    /\ snapshot \in [Attempt -> Snapshot]
    /\ changed \in [Attempt -> SUBSET Theater]
    /\ verdict \in [Attempt -> {"none", "succeeded", "failed"}]
    /\ delayed \in [Saga -> SUBSET (1..3)]
    /\ heard \in [Saga -> 0..3]
    /\ faults \in 0..MaxFaults

Init ==
    /\ movies = Movie /\ theaters = Theater
    /\ showtimes = {}
    /\ operation = [s \in Saga |-> "none"]
    /\ lockedBy = [t \in Theater |-> Nobody]
    /\ phase = [s \in Saga |-> "emit waiting"]
    /\ tries = [s \in Saga |-> 0]
    /\ outcome = [s \in Saga |-> "none"]
    /\ alive = {}
    /\ at = [a \in Attempt |-> "off"]
    /\ snapshot = [a \in Attempt |-> NoSnapshot]
    /\ changed = [a \in Attempt |-> {}]
    /\ verdict = [a \in Attempt |-> "none"]
    /\ delayed = [s \in Saga |-> {}] /\ heard = [s \in Saga |-> 0]
    /\ faults = 0

Fault == faults < MaxFaults /\ faults' = faults + 1

-----------------------------------------------------------------------------
(***************************************************************************)
(* Status events: durable steps, published over Core NATS.                 *)
(***************************************************************************)

Rank(s) == CASE phase[s] = "emit waiting" -> 1 [] phase[s] = "emit processing" -> 2
             [] OTHER -> 3

AfterEmit(s) == CASE Rank(s) = 1 -> "emit processing" [] Rank(s) = 2 -> "run" [] OTHER -> "over"

Emitting(s) == phase[s] \notin {"run", "over"}

\* The event is out.  When the journal misses it, it is published again.
Emit(s) ==
    /\ Emitting(s)
    /\ heard' = [heard EXCEPT ![s] = Rank(s)]
    /\ \/ phase' = [phase EXCEPT ![s] = AfterEmit(s)] /\ UNCHANGED faults
       \/ UNCHANGED phase /\ Fault
    /\ UNCHANGED <<catalog, database, tries, outcome, transaction, delayed>>

\* withEventAttemptTimeout: the flush takes too long and the attempt is given
\* up, but what was published stays in the client's buffer; the next attempt
\* may be made by another replica
EmitTimesOut(s) ==
    /\ Emitting(s)
    /\ delayed' = [delayed EXCEPT ![s] = @ \union {Rank(s)}]
    /\ Fault
    /\ UNCHANGED <<catalog, database, workflow, transaction, heard>>

FlushDelayed(s, i) ==
    /\ i \in delayed[s]
    /\ delayed' = [delayed EXCEPT ![s] = @ \ {i}]
    /\ heard' = [heard EXCEPT ![s] = i]
    /\ UNCHANGED <<catalog, database, workflow, transaction, faults>>

\* EVENT_RETRY is used up: ctx.run throws, and nothing in `run' catches it
EmitGivesUp(s) ==
    /\ Emitting(s)
    /\ phase' = [phase EXCEPT ![s] = "over"]
    /\ outcome' = [outcome EXCEPT ![s] = "none"]
    /\ Fault
    /\ UNCHANGED <<catalog, database, tries, transaction, events>>

-----------------------------------------------------------------------------
(***************************************************************************)
(* The durable step `validate and create'.                                 *)
(***************************************************************************)

Current(a) == phase[SagaOf(a)] = "run" /\ a[2] = tries[SagaOf(a)]

Running(s) == tries[s] > 0 /\ <<s, tries[s]>> \in alive

\* Restate starts the step, and again when an attempt has failed or is believed
\* to have
StartAttempt(s) ==
    /\ phase[s] = "run" /\ tries[s] < MaxAttempts
    /\ tries' = [tries EXCEPT ![s] = @ + 1]
    /\ alive' = alive \union {<<s, tries[s] + 1>>}
    /\ IF Running(s) THEN Fault ELSE UNCHANGED faults
    /\ UNCHANGED <<catalog, database, phase, outcome, at, snapshot, changed, verdict, events>>

\* an error that was retried too often is reported as a conflict
Exhausted_Faulty == "failed"

\* what the workflow makes of a durable step that ended with an error
Exhausted == "error"

GiveUp(s) ==
    /\ phase[s] = "run" /\ tries[s] = MaxAttempts /\ ~Running(s)
    /\ phase' = [phase EXCEPT ![s] = "emit terminal"]
    /\ outcome' = [outcome EXCEPT ![s] = Exhausted]
    /\ UNCHANGED <<catalog, database, tries, transaction, events, faults>>

\* the attempt ends; only the result of the current one counts
Return(a, result) ==
    /\ alive' = alive \ {a}
    /\ IF Current(a)
          THEN /\ phase' = [phase EXCEPT ![SagaOf(a)] = "emit terminal"]
               /\ outcome' = [outcome EXCEPT ![SagaOf(a)] = result]
          ELSE UNCHANGED <<phase, outcome>>
    /\ UNCHANGED tries

\* the transaction of a ends, committed or aborted
Unlocked(a) == [t \in Theater |-> IF lockedBy[t] = a THEN Nobody ELSE lockedBy[t]]

EndTransaction(a) ==
    /\ at' = [at EXCEPT ![a] = "off"]
    /\ snapshot' = [snapshot EXCEPT ![a] = NoSnapshot]
    /\ verdict' = [verdict EXCEPT ![a] = "none"]

\* withTransaction starts the callback, which reads the operation first
Begin(a) ==
    /\ a \in alive /\ at[a] = "off"
    /\ IF operation[SagaOf(a)] # "none"
          THEN /\ Return(a, operation[SagaOf(a)])
               /\ UNCHANGED <<at, snapshot, changed>>
          ELSE /\ at' = [at EXCEPT ![a] = "begun"]
               /\ snapshot' = [snapshot EXCEPT ![a] =
                     [movies |-> movies, theaters |-> theaters, showtimes |-> showtimes]]
               /\ changed' = [changed EXCEPT ![a] = {}]
               /\ UNCHANGED <<workflow, alive>>
    /\ UNCHANGED <<catalog, database, verdict, events, faults>>

\* MongoDB lets the first writer win: a theater somebody has written since the
\* snapshot, or is writing, cannot be written
WriteConflict(a) ==
    \E t \in TheatersOf[SagaOf(a)] : lockedBy[t] # Nobody \/ t \in changed[a]

GuardsAcquired(a) == TheatersOf[SagaOf(a)] \subseteq snapshot[a].theaters

\* acquireShowtimeScheduleGuards: on a conflict the driver starts again with a
\* new snapshot; without all theaters the saga ends with a terminal error
AcquireGuards(a) ==
    /\ at[a] = "begun" /\ a \in alive
    /\ IF WriteConflict(a)
          THEN EndTransaction(a) /\ UNCHANGED <<workflow, alive, lockedBy>>
       ELSE IF GuardsAcquired(a)
          THEN /\ lockedBy' = [t \in Theater |->
                     IF t \in TheatersOf[SagaOf(a)] THEN a ELSE lockedBy[t]]
               /\ at' = [at EXCEPT ![a] = "guarded"]
               /\ UNCHANGED <<workflow, alive, snapshot, verdict>>
       ELSE Return(a, "error") /\ EndTransaction(a) /\ UNCHANGED lockedBy
    /\ UNCHANGED <<catalog, showtimes, operation, changed, events, faults>>

\* showtimes that began before the range of the new ones are not looked at
Existing_Faulty(a) ==
    LET s == SagaOf(a) IN
    {x \in snapshot[a].showtimes : x.theater \in TheatersOf[s] /\ \E b \in StartsOf[s] : x.start >= b}

\* fetchExistingByTheater: what ends after the earliest new start and begins
\* before the latest new end
Existing(a) ==
    LET s == SagaOf(a) IN
    {x \in snapshot[a].showtimes :
        /\ x.theater \in TheatersOf[s]
        /\ \E b \in StartsOf[s] : End(x) >= b
        /\ \E b \in StartsOf[s] : x.start <= b + DurationOf[s]}

Conflicting(a) ==
    {x \in Existing(a) : \E y \in Planned(SagaOf(a)) : x.theater = y.theater /\ Overlap(x, y)}

\* validate; a movie that does not exist ends the saga with a terminal error
Validate(a) ==
    /\ at[a] = "guarded" /\ a \in alive
    /\ IF MovieOf[SagaOf(a)] \in snapshot[a].movies
          THEN /\ verdict' = [verdict EXCEPT ![a] =
                     IF Conflicting(a) = {} THEN "succeeded" ELSE "failed"]
               /\ at' = [at EXCEPT ![a] = "ready"]
               /\ UNCHANGED <<workflow, alive, lockedBy, snapshot>>
          ELSE Return(a, "error") /\ EndTransaction(a) /\ lockedBy' = Unlocked(a)
    /\ UNCHANGED <<catalog, showtimes, operation, changed, events, faults>>

\* the showtimes that do not conflict are created, the others reported
Created_Faulty(a) ==
    {y \in Planned(SagaOf(a)) : \A x \in Existing(a) : x.theater = y.theater => ~Overlap(x, y)}

\* ShowtimeBulkCreatorService.create
Created(a) == IF verdict[a] = "succeeded" THEN Planned(SagaOf(a)) ELSE {}

\* The inserts and the commit.  The unique index on sagaId refuses a second
\* operation row.  The reply of the commit may be lost.
Commit(a) ==
    /\ at[a] = "ready"
    /\ IF operation[SagaOf(a)] # "none"
          THEN UNCHANGED <<showtimes, operation, changed, workflow, alive, faults>>
          ELSE /\ showtimes' = showtimes \union Created(a)
               /\ operation' = [operation EXCEPT ![SagaOf(a)] = verdict[a]]
               /\ changed' = [b \in Attempt |-> changed[b] \union
                     (IF b # a /\ at[b] # "off" THEN TheatersOf[SagaOf(a)] ELSE {})]
               /\ \/ Return(a, verdict[a]) /\ UNCHANGED faults
                  \/ alive' = alive \ {a} /\ UNCHANGED workflow /\ Fault
    /\ EndTransaction(a)
    /\ lockedBy' = Unlocked(a)
    /\ UNCHANGED <<catalog, events>>

\* a call fails, the attempt is cancelled or its replica dies; the transaction
\* is aborted
AttemptFails(a) ==
    /\ a \in alive
    /\ alive' = alive \ {a}
    /\ EndTransaction(a)
    /\ lockedBy' = Unlocked(a)
    /\ Fault
    /\ UNCHANGED <<catalog, showtimes, operation, workflow, changed, events>>

-----------------------------------------------------------------------------
Emits(s) == Emit(s) \/ EmitTimesOut(s) \/ EmitGivesUp(s) \/ \E i \in 1..3 : FlushDelayed(s, i)

Work(a) == Begin(a) \/ AcquireGuards(a) \/ Validate(a) \/ Commit(a)

Next ==
    \/ \E s \in Saga : Emits(s) \/ StartAttempt(s) \/ GiveUp(s)
    \/ \E a \in Attempt : Work(a) \/ AttemptFails(a)

Spec == Init /\ [][Next]_vars

\* Restate goes on with every workflow, and an attempt that has not failed with
\* its transaction
Fairness ==
    /\ \A s \in Saga : WF_vars(Emit(s)) /\ WF_vars(~Running(s) /\ StartAttempt(s)) /\ WF_vars(GiveUp(s))
    /\ \A a \in Attempt : WF_vars(Work(a))

FairSpec == Spec /\ Fairness

-----------------------------------------------------------------------------
(***************************************************************************)
(* Properties.                                                             *)
(***************************************************************************)

\* No theater shows two films at once, although sagas are validated against
\* snapshots and side by side (the guards of validateAndCreate).
NoOverlap ==
    \A x, y \in showtimes : x # y /\ x.theater = y.theater => ~Overlap(x, y)

\* A saga creates all of its showtimes or none, as its operation says, however
\* often the step is executed.
AllOrNothing ==
    \A s \in Saga :
        {x \in showtimes : x.saga = s} = IF operation[s] = "succeeded" THEN Planned(s) ELSE {}

\* A result that the workflow reports is the one that was committed, also when
\* the attempt that committed it was not the one to report it.
ReportIsCommitted ==
    \A s \in Saga : outcome[s] \in {"succeeded", "failed"} => operation[s] = outcome[s]

=============================================================================
