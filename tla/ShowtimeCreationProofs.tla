----------------------- MODULE ShowtimeCreationProofs -----------------------
(***************************************************************************)
(* Theorems about ShowtimeCreation for any requests, sagas, deletions,     *)
(* theaters, start times, attempts and faults: first the transactions that *)
(* validate and create, then the rows that tie a key to its saga, then the *)
(* two together.                                                           *)
(***************************************************************************)
EXTENDS ShowtimeCreation, WellFoundedInduction, TLAPS

-----------------------------------------------------------------------------
(***************************************************************************)
(* What is planned and what overlaps.                                      *)
(***************************************************************************)

\* A set of numbers that is not empty has a least one.
LEMMA LeastNumber ==
    ASSUME NEW S, S \subseteq Nat, S # {}
    PROVE  \E n \in S : \A e \in S : n <= e
<1>1. PICK n \in S : \A e \in S : <<e, n>> \notin OpToRel(<, Nat)
    BY WFMin, NatLessThanWellFounded, Zenon
<1>2. \A e \in S : ~(e < n)
    BY <1>1 DEF OpToRel
<1> QED
    BY <1>2

\* The starts that assertStartTimesDoNotOverlap lets pass are pairwise a duration
\* apart, although it compares each with the one before only.
LEMMA StartsAreApart ==
    ASSUME NEW s \in Saga, NEW b \in StartsOf[s], NEW c \in StartsOf[s], b < c
    PROVE  c - b >= DurationOf[s]
<1> DEFINE Later == {e \in StartsOf[s] : b < e}
<1> StartsOf[s] \subseteq Nat /\ DurationOf[s] \in Nat
    BY InputAssumption
<1>1. PICK n \in Later : \A e \in Later : n <= e
    <2> Later \subseteq Nat /\ Later # {}
        OBVIOUS
    <2> HIDE DEF Later
    <2> QED
        BY LeastNumber
<1>2. n - b >= DurationOf[s]
    BY <1>1, StartsAssumption DEF StartTimesDoNotOverlap
<1> QED
    BY <1>1, <1>2

\* A planned showtime that overlaps one of the snapshot is found, although only
\* the showtimes around the new ones are fetched (fetchExistingByTheater).
LEMMA ConflictsAreFound ==
    ASSUME TypeOK, NEW a \in Attempt, NEW x \in snapshot[a].showtimes,
           NEW y \in Planned(SagaOf(a)), x.theater = y.theater, Overlap(x, y)
    PROVE  x \in Conflicting(a)
<1>1. PICK s \in Saga : x \in Planned(s)
    BY DEF TypeOK, Snapshot
<1>2. /\ SagaOf(a) \in Saga
      /\ y.start \in StartsOf[SagaOf(a)]
      /\ y.theater \in TheatersOf[SagaOf(a)]
      /\ y.saga = SagaOf(a)
    BY DEF Attempt, SagaOf, Planned
<1>3. End(x) >= y.start /\ x.start <= y.start + DurationOf[SagaOf(a)]
    BY <1>1, <1>2, InputAssumption DEF Overlap, End, Planned
<1> QED
    BY <1>2, <1>3 DEF Conflicting, Existing

\* No two showtimes of one saga overlap in a theater.
LEMMA PlannedDoNotOverlap ==
    ASSUME NEW s \in Saga, NEW x \in Planned(s), NEW y \in Planned(s),
           x # y, x.theater = y.theater
    PROVE  ~Overlap(x, y)
<1>1. /\ x.saga = s /\ x.start \in StartsOf[s] /\ y.saga = s /\ y.start \in StartsOf[s]
      /\ x.start # y.start
    BY DEF Planned
<1>2. x.start \in Nat /\ y.start \in Nat /\ DurationOf[s] \in Nat
    BY <1>1, InputAssumption
<1>3. CASE x.start < y.start
    BY <1>1, <1>2, <1>3, StartsAreApart DEF Overlap, End
<1>4. CASE y.start < x.start
    BY <1>1, <1>2, <1>4, StartsAreApart DEF Overlap, End
<1> QED
    BY <1>1, <1>2, <1>3, <1>4

-----------------------------------------------------------------------------
(***************************************************************************)
(* The transactions that validate and create: the inductive invariant.     *)
(***************************************************************************)

Guarded(a) == at[a] \in {"guarded", "ready"}

\* A transaction that passed its guard has written every theater of its saga.
GuardsAreHeld ==
    \A a \in Attempt : Guarded(a) => \A t \in TheatersOf[SagaOf(a)] : lockedBy[t] = a

\* What a snapshot does not show was written since.
SnapshotsAreTracked ==
    \A a \in Attempt : at[a] # "off" =>
        /\ snapshot[a].showtimes \subseteq showtimes
        /\ \A x \in showtimes \ snapshot[a].showtimes : x.theater \in changed[a]
        /\ snapshot[a].theaters \ theaters \subseteq changed[a]

\* Behind its guard a transaction sees its theaters as they are.
GuardedIsCurrent ==
    \A a \in Attempt : Guarded(a) =>
        \A t \in TheatersOf[SagaOf(a)] : t \in snapshot[a].theaters /\ t \notin changed[a]

\* A verdict speaks of the snapshot the transaction still has.
VerdictsAreSound ==
    \A a \in Attempt : at[a] = "ready" =>
        /\ verdict[a] \in {"succeeded", "failed"}
        /\ verdict[a] = "succeeded" => Conflicting(a) = {}

WorkflowInv ==
    /\ TypeOK
    /\ GuardsAreHeld
    /\ SnapshotsAreTracked
    /\ GuardedIsCurrent
    /\ VerdictsAreSound
    /\ NoOverlap
    /\ AllOrNothing
    /\ ReportIsCommitted

\* the variables that WorkflowInv relates, but for the reported outcomes
core == <<theaters, showtimes, operation, lockedBy, at, snapshot, changed, verdict>>

LEMMA WorkflowInit == Init => WorkflowInv
<1> SUFFICES ASSUME Init PROVE WorkflowInv
    OBVIOUS
<1>1. TypeOK
    <2>1. snapshot \in [Attempt -> Snapshot]
        BY DEF Init, Snapshot, NoSnapshot
    <2>2. phase \in [Saga -> Phase]
        BY DEF Init, Phase
    <2>3. tries \in [Saga -> 0..MaxAttempts] /\ faults \in 0..MaxFaults
        <3>1. 0 \in 0..MaxAttempts /\ 0 \in 0..MaxFaults
            BY BoundAssumption
        <3> QED
            BY <3>1 DEF Init
    <2>4. /\ lockedBy \in [Theater -> Attempt \union {Nobody}]
          /\ \A t \in Theater : lockedBy[t] = Nobody
        BY DEF Init
    <2>5. delayed \in [Saga -> SUBSET (1..3)] /\ heard \in [Saga -> 0..3]
        <3>1. 0 \in 0..3 /\ {} \in SUBSET (1..3)
            OBVIOUS
        <3> QED
            BY <3>1 DEF Init
    <2> QED
        BY <2>1, <2>2, <2>3, <2>4, <2>5 DEF Init, TypeOK
<1>2. AllOrNothing /\ ReportIsCommitted /\ NoOverlap
    BY DEF Init, AllOrNothing, ReportIsCommitted, NoOverlap
<1>3. GuardsAreHeld /\ SnapshotsAreTracked /\ GuardedIsCurrent /\ VerdictsAreSound
    BY DEF Init, GuardsAreHeld, SnapshotsAreTracked, GuardedIsCurrent, VerdictsAreSound, Guarded
<1> QED
    BY <1>1, <1>2, <1>3 DEF WorkflowInv

\* Steps that leave the transactions and what they write alone.
LEMMA QuietStep ==
    ASSUME WorkflowInv, UNCHANGED core, TypeOK', ReportIsCommitted'
    PROVE  WorkflowInv'
<1>1. GuardsAreHeld' /\ SnapshotsAreTracked' /\ GuardedIsCurrent'
    BY DEF WorkflowInv, GuardsAreHeld, SnapshotsAreTracked, GuardedIsCurrent, Guarded, core
<1>2. VerdictsAreSound'
    BY DEF WorkflowInv, VerdictsAreSound, Conflicting, Existing, core
<1>3. NoOverlap' /\ AllOrNothing'
    BY DEF WorkflowInv, NoOverlap, AllOrNothing, core
<1> QED
    BY <1>1, <1>2, <1>3 DEF WorkflowInv

LEMMA RankIsAStatus ==
    ASSUME NEW s \in Saga
    PROVE  Rank(s) \in 1..3
<1>1. Rank(s) \in {1, 2, 3}
    BY DEF Rank
<1> QED
    BY <1>1

LEMMA StepEmits ==
    ASSUME WorkflowInv, NEW s \in Saga, Emits(s)
    PROVE  WorkflowInv'
<1> TypeOK /\ ReportIsCommitted
    BY DEF WorkflowInv
<1> USE DEF catalog, database, workflow, transaction, events, core, Fault
<1>1. CASE Emit(s)
    <2>1. TypeOK'
        <3>1. faults' \in 0..MaxFaults
            BY <1>1, BoundAssumption DEF Emit, TypeOK
        <3>2. phase' \in [Saga -> Phase]
            BY <1>1 DEF Emit, TypeOK, Rank, AfterEmit, Phase
        <3>3. heard' \in [Saga -> 0..3]
            BY <1>1, RankIsAStatus DEF Emit, TypeOK
        <3> QED
            BY <1>1, <3>1, <3>2, <3>3 DEF Emit, TypeOK
    <2>2. ReportIsCommitted' /\ UNCHANGED core
        BY <1>1 DEF Emit, ReportIsCommitted
    <2> QED
        BY <2>1, <2>2, QuietStep
<1>2. CASE EmitTimesOut(s)
    <2>1. TypeOK'
        <3>1. faults' \in 0..MaxFaults
            BY <1>2, BoundAssumption DEF EmitTimesOut, TypeOK
        <3>2. delayed' \in [Saga -> SUBSET (1..3)]
            BY <1>2, RankIsAStatus DEF EmitTimesOut, TypeOK
        <3> QED
            BY <1>2, <3>1, <3>2 DEF EmitTimesOut, TypeOK
    <2>2. ReportIsCommitted' /\ UNCHANGED core
        BY <1>2 DEF EmitTimesOut, ReportIsCommitted
    <2> QED
        BY <2>1, <2>2, QuietStep
<1>3. CASE EmitGivesUp(s)
    <2>1. TypeOK'
        <3>1. faults' \in 0..MaxFaults
            BY <1>3, BoundAssumption DEF EmitGivesUp, TypeOK
        <3>2. phase' \in [Saga -> Phase]
            BY <1>3 DEF EmitGivesUp, TypeOK, Phase
        <3> QED
            BY <1>3, <3>1, <3>2 DEF EmitGivesUp, TypeOK
    <2>2. ReportIsCommitted' /\ UNCHANGED core
        BY <1>3 DEF EmitGivesUp, ReportIsCommitted, TypeOK
    <2> QED
        BY <2>1, <2>2, QuietStep
<1>4. ASSUME NEW i \in 1..3, FlushDelayed(s, i) PROVE WorkflowInv'
    <2>1. TypeOK'
        BY <1>4 DEF FlushDelayed, TypeOK
    <2>2. ReportIsCommitted' /\ UNCHANGED core
        BY <1>4 DEF FlushDelayed, ReportIsCommitted
    <2> QED
        BY <2>1, <2>2, QuietStep
<1> QED
    BY <1>1, <1>2, <1>3, <1>4 DEF Emits

LEMMA StepSchedule ==
    ASSUME WorkflowInv, NEW s \in Saga, StartAttempt(s) \/ GiveUp(s)
    PROVE  WorkflowInv'
<1> TypeOK /\ ReportIsCommitted
    BY DEF WorkflowInv
<1> USE DEF catalog, database, workflow, transaction, events, core
<1>1. CASE StartAttempt(s)
    <2>1. TypeOK'
        <3>1. faults' \in 0..MaxFaults
            BY <1>1, BoundAssumption DEF StartAttempt, Fault, TypeOK
        <3>2. tries' \in [Saga -> 0..MaxAttempts] /\ alive' \subseteq Attempt
            BY <1>1, BoundAssumption DEF StartAttempt, TypeOK, Attempt
        <3> QED
            BY <1>1, <3>1, <3>2 DEF StartAttempt, TypeOK
    <2>2. ReportIsCommitted' /\ UNCHANGED core
        BY <1>1 DEF StartAttempt, ReportIsCommitted
    <2> QED
        BY <2>1, <2>2, QuietStep
<1>2. CASE GiveUp(s)
    <2>1. TypeOK'
        BY <1>2 DEF GiveUp, TypeOK, Phase, Exhausted
    <2>2. ReportIsCommitted' /\ UNCHANGED core
        BY <1>2 DEF GiveUp, ReportIsCommitted, Exhausted, TypeOK
    <2> QED
        BY <2>1, <2>2, QuietStep
<1> QED
    BY <1>1, <1>2

\* An attempt that comes to an end, with a result that fits the operation.
LEMMA ReturnFits ==
    ASSUME TypeOK, ReportIsCommitted, NEW a \in Attempt,
           NEW result \in {"succeeded", "failed", "error"},
           Return(a, result), UNCHANGED operation,
           result = "error" \/ operation[SagaOf(a)] = result
    PROVE  /\ alive' \subseteq Attempt
           /\ phase' \in [Saga -> Phase]
           /\ tries' \in [Saga -> 0..MaxAttempts]
           /\ outcome' \in [Saga -> {"none", "succeeded", "failed", "error"}]
           /\ ReportIsCommitted'
<1> SagaOf(a) \in Saga
    BY DEF Attempt, SagaOf
<1>1. alive' \subseteq Attempt /\ tries' \in [Saga -> 0..MaxAttempts]
    BY DEF Return, TypeOK
<1>2. phase' \in [Saga -> Phase]
    BY DEF Return, TypeOK, Phase
<1>3. outcome' \in [Saga -> {"none", "succeeded", "failed", "error"}]
    BY DEF Return, TypeOK
<1>4. ReportIsCommitted'
    BY DEF Return, ReportIsCommitted, TypeOK
<1> QED
    BY <1>1, <1>2, <1>3, <1>4

LEMMA StepBegin ==
    ASSUME WorkflowInv, NEW a \in Attempt, Begin(a)
    PROVE  WorkflowInv'
<1> TypeOK /\ ReportIsCommitted
    BY DEF WorkflowInv
<1> SagaOf(a) \in Saga
    BY DEF Attempt, SagaOf
<1> USE DEF catalog, database, workflow, transaction, events
<1>1. CASE operation[SagaOf(a)] # "none"
    <2>1. Return(a, operation[SagaOf(a)]) /\ UNCHANGED <<core, movies, delayed, heard, faults>>
        BY <1>1 DEF Begin, core
    <2>2. operation[SagaOf(a)] \in {"succeeded", "failed"} /\ UNCHANGED operation
        BY <1>1, <2>1 DEF TypeOK, core
    <2>3. TypeOK' /\ ReportIsCommitted'
        BY <2>1, <2>2, ReturnFits DEF TypeOK, core
    <2> QED
        BY <2>1, <2>3, QuietStep
<1>2. CASE operation[SagaOf(a)] = "none"
    <2>1. /\ at' = [at EXCEPT ![a] = "begun"]
          /\ snapshot' = [snapshot EXCEPT ![a] =
                [movies |-> movies, theaters |-> theaters, showtimes |-> showtimes]]
          /\ changed' = [changed EXCEPT ![a] = {}]
          /\ at[a] = "off"
          /\ UNCHANGED <<catalog, database, workflow, alive, verdict, events, faults>>
        BY <1>2 DEF Begin
    <2>2. TypeOK'
        <3>1. snapshot' \in [Attempt -> Snapshot]
            BY <2>1 DEF TypeOK, Snapshot
        <3> QED
            BY <2>1, <3>1 DEF TypeOK
    <2>3. GuardsAreHeld' /\ GuardedIsCurrent'
        BY <2>1 DEF WorkflowInv, TypeOK, GuardsAreHeld, GuardedIsCurrent, Guarded
    <2>4. SnapshotsAreTracked'
        BY <2>1 DEF WorkflowInv, TypeOK, SnapshotsAreTracked
    <2>5. VerdictsAreSound'
        BY <2>1 DEF WorkflowInv, TypeOK, VerdictsAreSound, Conflicting, Existing
    <2>6. NoOverlap' /\ AllOrNothing' /\ ReportIsCommitted'
        BY <2>1 DEF WorkflowInv, NoOverlap, AllOrNothing, ReportIsCommitted
    <2> QED
        BY <2>2, <2>3, <2>4, <2>5, <2>6 DEF WorkflowInv
<1> QED
    BY <1>1, <1>2

\* A transaction that wrote no showtime ends: its theaters are free again.
LEMMA StepAborts ==
    ASSUME WorkflowInv, NEW a \in Attempt, EndTransaction(a),
           lockedBy' = Unlocked(a),
           UNCHANGED <<catalog, showtimes, operation, changed, events>>,
           alive' \subseteq Attempt, phase' \in [Saga -> Phase],
           tries' \in [Saga -> 0..MaxAttempts],
           outcome' \in [Saga -> {"none", "succeeded", "failed", "error"}],
           faults' \in 0..MaxFaults, ReportIsCommitted'
    PROVE  WorkflowInv'
<1> TypeOK
    BY DEF WorkflowInv
<1> USE DEF catalog, events
<1>1. /\ at' = [at EXCEPT ![a] = "off"]
      /\ snapshot' = [snapshot EXCEPT ![a] = NoSnapshot]
      /\ verdict' = [verdict EXCEPT ![a] = "none"]
      /\ \A t \in Theater : lockedBy'[t] = IF lockedBy[t] = a THEN Nobody ELSE lockedBy[t]
    BY DEF EndTransaction, Unlocked
<1>2. TypeOK'
    <2>1. snapshot' \in [Attempt -> Snapshot] /\ verdict' \in [Attempt -> {"none", "succeeded", "failed"}]
        BY <1>1 DEF TypeOK, Snapshot, NoSnapshot
    <2>2. lockedBy' \in [Theater -> Attempt \union {Nobody}]
        BY DEF Unlocked, TypeOK
    <2>3. \A t \in Theater : lockedBy'[t] # Nobody => at'[lockedBy'[t]] \in {"guarded", "ready"}
        BY <1>1 DEF TypeOK
    <2> QED
        BY <1>1, <2>1, <2>2, <2>3 DEF TypeOK
<1>3. GuardsAreHeld' /\ GuardedIsCurrent'
    BY <1>1, InputAssumption
       DEF WorkflowInv, TypeOK, GuardsAreHeld, GuardedIsCurrent, Guarded, Attempt, SagaOf
<1>4. SnapshotsAreTracked'
    BY <1>1 DEF WorkflowInv, TypeOK, SnapshotsAreTracked
<1>5. VerdictsAreSound'
    BY <1>1 DEF WorkflowInv, TypeOK, VerdictsAreSound, Conflicting, Existing
<1>6. NoOverlap' /\ AllOrNothing'
    BY DEF WorkflowInv, NoOverlap, AllOrNothing
<1> QED
    BY <1>2, <1>3, <1>4, <1>5, <1>6 DEF WorkflowInv

\* A transaction that holds no guard holds no theater.
LEMMA UnguardedHoldsNothing ==
    ASSUME TypeOK, NEW a \in Attempt, ~Guarded(a)
    PROVE  Unlocked(a) = lockedBy
<1>1. \A t \in Theater : lockedBy[t] # a
    BY NobodyAssumption DEF TypeOK, Guarded
<1> QED
    BY <1>1 DEF Unlocked, TypeOK

LEMMA StepAcquireGuards ==
    ASSUME WorkflowInv, NEW a \in Attempt, AcquireGuards(a)
    PROVE  WorkflowInv'
<1> TypeOK /\ ReportIsCommitted
    BY DEF WorkflowInv
<1> SagaOf(a) \in Saga /\ TheatersOf[SagaOf(a)] \subseteq Theater
    BY InputAssumption DEF Attempt, SagaOf
<1> USE DEF catalog, events, workflow
<1>1. /\ at[a] = "begun" /\ lockedBy = Unlocked(a)
      /\ UNCHANGED <<catalog, showtimes, operation, changed, events, faults>>
    BY UnguardedHoldsNothing DEF AcquireGuards, Guarded
<1>2. CASE EndTransaction(a) /\ UNCHANGED <<workflow, alive, lockedBy>>
    <2>1. ReportIsCommitted'
        BY <1>1, <1>2 DEF ReportIsCommitted
    <2> QED
        BY <1>1, <1>2, <2>1, StepAborts DEF TypeOK
<1>3. CASE Return(a, "error") /\ EndTransaction(a) /\ UNCHANGED lockedBy
    <2>1. /\ alive' \subseteq Attempt /\ phase' \in [Saga -> Phase]
          /\ tries' \in [Saga -> 0..MaxAttempts]
          /\ outcome' \in [Saga -> {"none", "succeeded", "failed", "error"}]
          /\ ReportIsCommitted'
        BY <1>1, <1>3, ReturnFits
    <2> QED
        BY <1>1, <1>3, <2>1, StepAborts DEF TypeOK
<1>4. CASE /\ ~WriteConflict(a) /\ GuardsAcquired(a)
           /\ lockedBy' = [t \in Theater |->
                 IF t \in TheatersOf[SagaOf(a)] THEN a ELSE lockedBy[t]]
           /\ at' = [at EXCEPT ![a] = "guarded"]
           /\ UNCHANGED <<workflow, alive, snapshot, verdict>>
    <2>1. \A t \in TheatersOf[SagaOf(a)] :
              lockedBy[t] = Nobody /\ t \notin changed[a] /\ t \in snapshot[a].theaters
        BY <1>4 DEF WriteConflict, GuardsAcquired
    <2>2. TypeOK'
        <3>1. /\ lockedBy' \in [Theater -> Attempt \union {Nobody}]
              /\ at' \in [Attempt -> {"off", "begun", "guarded", "ready"}]
            BY <1>4 DEF TypeOK
        <3>2. \A t \in Theater : lockedBy'[t] # Nobody => at'[lockedBy'[t]] \in {"guarded", "ready"}
            BY <1>4 DEF TypeOK
        <3> QED
            BY <1>1, <1>4, <3>1, <3>2 DEF TypeOK
    <2>3. GuardsAreHeld'
        <3> SUFFICES ASSUME NEW b \in Attempt, Guarded(b)', NEW t \in TheatersOf[SagaOf(b)]
                     PROVE  lockedBy'[t] = b
            BY DEF GuardsAreHeld
        <3>1. t \in Theater
            BY InputAssumption DEF Attempt, SagaOf
        <3>2. CASE b = a
            BY <1>4, <3>1, <3>2
        <3>3. CASE b # a
            <4>1. lockedBy[t] = b
                BY <1>4, <3>3 DEF WorkflowInv, TypeOK, GuardsAreHeld, Guarded
            <4> QED
                BY <1>4, <2>1, <3>1, <4>1, NobodyAssumption
        <3> QED
            BY <3>2, <3>3
    <2>4. GuardedIsCurrent'
        BY <1>1, <1>4, <2>1 DEF WorkflowInv, TypeOK, GuardedIsCurrent, Guarded
    <2>5. SnapshotsAreTracked'
        BY <1>1, <1>4 DEF WorkflowInv, TypeOK, SnapshotsAreTracked
    <2>6. VerdictsAreSound'
        BY <1>1, <1>4 DEF WorkflowInv, TypeOK, VerdictsAreSound, Conflicting, Existing
    <2>7. NoOverlap' /\ AllOrNothing' /\ ReportIsCommitted'
        BY <1>1, <1>4 DEF WorkflowInv, NoOverlap, AllOrNothing, ReportIsCommitted
    <2> QED
        BY <2>2, <2>3, <2>4, <2>5, <2>6, <2>7 DEF WorkflowInv
<1> QED
    BY <1>2, <1>3, <1>4 DEF AcquireGuards

LEMMA StepValidate ==
    ASSUME WorkflowInv, NEW a \in Attempt, Validate(a)
    PROVE  WorkflowInv'
<1> TypeOK /\ ReportIsCommitted
    BY DEF WorkflowInv
<1> USE DEF catalog, events, workflow
<1>1. /\ at[a] = "guarded"
      /\ UNCHANGED <<catalog, showtimes, operation, changed, events, faults>>
    BY DEF Validate
<1>2. CASE Return(a, "error") /\ EndTransaction(a) /\ lockedBy' = Unlocked(a)
    <2>1. /\ alive' \subseteq Attempt /\ phase' \in [Saga -> Phase]
          /\ tries' \in [Saga -> 0..MaxAttempts]
          /\ outcome' \in [Saga -> {"none", "succeeded", "failed", "error"}]
          /\ ReportIsCommitted'
        BY <1>1, <1>2, ReturnFits
    <2> QED
        BY <1>1, <1>2, <2>1, StepAborts DEF TypeOK
<1>3. CASE /\ verdict' = [verdict EXCEPT ![a] =
                 IF Conflicting(a) = {} THEN "succeeded" ELSE "failed"]
           /\ at' = [at EXCEPT ![a] = "ready"]
           /\ UNCHANGED <<workflow, alive, lockedBy, snapshot>>
    <2>1. TypeOK'
        <3>1. /\ verdict' \in [Attempt -> {"none", "succeeded", "failed"}]
              /\ at' \in [Attempt -> {"off", "begun", "guarded", "ready"}]
            BY <1>3 DEF TypeOK
        <3>2. \A t \in Theater : lockedBy'[t] # Nobody => at'[lockedBy'[t]] \in {"guarded", "ready"}
            BY <1>3 DEF TypeOK
        <3> QED
            BY <1>1, <1>3, <3>1, <3>2 DEF TypeOK
    <2>2. GuardsAreHeld' /\ GuardedIsCurrent' /\ SnapshotsAreTracked'
        BY <1>1, <1>3
           DEF WorkflowInv, TypeOK, GuardsAreHeld, GuardedIsCurrent, SnapshotsAreTracked, Guarded
    <2>3. VerdictsAreSound'
        <3>1. \A b \in Attempt : Conflicting(b)' = Conflicting(b)
            BY <1>3 DEF Conflicting, Existing
        <3> QED
            BY <1>3, <3>1 DEF WorkflowInv, TypeOK, VerdictsAreSound
    <2>4. NoOverlap' /\ AllOrNothing' /\ ReportIsCommitted'
        BY <1>1, <1>3 DEF WorkflowInv, NoOverlap, AllOrNothing, ReportIsCommitted
    <2> QED
        BY <2>1, <2>2, <2>3, <2>4 DEF WorkflowInv
<1> QED
    BY <1>2, <1>3 DEF Validate

\* A showtime that is created is planned, in a theater whose showtimes its
\* transaction all knows, and none of those overlaps it.
LEMMA CreatedFits ==
    ASSUME WorkflowInv, NEW a \in Attempt, at[a] = "ready", NEW y \in Created(a)
    PROVE  /\ y \in Planned(SagaOf(a))
           /\ y.theater \in theaters
           /\ \A x \in showtimes : x.theater = y.theater => ~Overlap(x, y) /\ ~Overlap(y, x)
<1>1. verdict[a] = "succeeded" /\ y \in Planned(SagaOf(a)) /\ Conflicting(a) = {}
    BY DEF Created, WorkflowInv, VerdictsAreSound
<1>2. y.theater \in TheatersOf[SagaOf(a)]
    BY <1>1 DEF Planned
<1>3. y.theater \in snapshot[a].theaters /\ y.theater \notin changed[a]
    BY <1>2 DEF WorkflowInv, GuardedIsCurrent, Guarded
<1>4. y.theater \in theaters
    BY <1>3 DEF WorkflowInv, SnapshotsAreTracked
<1>5. ASSUME NEW x \in showtimes, x.theater = y.theater
      PROVE  ~Overlap(x, y) /\ ~Overlap(y, x)
    <2>1. x \in snapshot[a].showtimes
        BY <1>3, <1>5 DEF WorkflowInv, SnapshotsAreTracked
    <2>2. ~Overlap(x, y)
        BY <1>1, <1>5, <2>1, ConflictsAreFound DEF WorkflowInv
    <2> QED
        BY <2>2 DEF Overlap
<1> QED
    BY <1>1, <1>4, <1>5

\* The commit that finds an operation of its saga is refused and changes nothing.
LEMMA StepCommitRefused ==
    ASSUME WorkflowInv, NEW a \in Attempt, Commit(a), operation[SagaOf(a)] # "none"
    PROVE  WorkflowInv'
<1> TypeOK /\ ReportIsCommitted
    BY DEF WorkflowInv
<1>1. /\ EndTransaction(a) /\ lockedBy' = Unlocked(a)
      /\ UNCHANGED <<catalog, showtimes, operation, changed, workflow, alive, events, faults>>
    BY DEF Commit
<1>2. ReportIsCommitted'
    BY <1>1 DEF ReportIsCommitted, workflow
<1> QED
    BY <1>1, <1>2, StepAborts DEF TypeOK, workflow

LEMMA StepCommit ==
    ASSUME WorkflowInv, NEW a \in Attempt, Commit(a), operation[SagaOf(a)] = "none"
    PROVE  WorkflowInv'
<1> DEFINE s == SagaOf(a)
<1> TypeOK /\ ReportIsCommitted
    BY DEF WorkflowInv
<1> s \in Saga /\ TheatersOf[s] \subseteq Theater
    BY InputAssumption DEF Attempt, SagaOf
<1> USE DEF catalog, events, workflow
<1>1. /\ at[a] = "ready" /\ verdict[a] \in {"succeeded", "failed"}
      /\ showtimes' = showtimes \union Created(a)
      /\ operation' = [operation EXCEPT ![s] = verdict[a]]
      /\ changed' = [b \in Attempt |-> changed[b] \union
            (IF b # a /\ at[b] # "off" THEN TheatersOf[s] ELSE {})]
      /\ at' = [at EXCEPT ![a] = "off"]
      /\ snapshot' = [snapshot EXCEPT ![a] = NoSnapshot]
      /\ verdict' = [verdict EXCEPT ![a] = "none"]
      /\ lockedBy' = Unlocked(a)
      /\ UNCHANGED <<catalog, events>>
    BY DEF Commit, EndTransaction, WorkflowInv, VerdictsAreSound
<1>2. \/ Return(a, verdict[a]) /\ UNCHANGED faults
      \/ alive' = alive \ {a} /\ UNCHANGED workflow /\ Fault
    BY DEF Commit
<1>3. \A x \in showtimes : x.saga # s
    BY DEF WorkflowInv, AllOrNothing
<1>4. \A y \in Created(a) : y \in Planned(s) /\ y.saga = s /\ y.theater \in TheatersOf[s]
    BY DEF Created, Planned
<1>5. TypeOK'
    <2>1. /\ alive' \subseteq Attempt /\ phase' \in [Saga -> Phase]
          /\ tries' \in [Saga -> 0..MaxAttempts]
          /\ outcome' \in [Saga -> {"none", "succeeded", "failed", "error"}]
        <3>1. CASE Return(a, verdict[a])
            <4>1. alive' \subseteq Attempt /\ tries' \in [Saga -> 0..MaxAttempts]
                BY <3>1 DEF Return, TypeOK
            <4>2. phase' \in [Saga -> Phase]
                BY <3>1 DEF Return, TypeOK, Phase
            <4>3. outcome' \in [Saga -> {"none", "succeeded", "failed", "error"}]
                BY <1>1, <3>1 DEF Return, TypeOK
            <4> QED
                BY <4>1, <4>2, <4>3
        <3>2. CASE alive' = alive \ {a} /\ UNCHANGED workflow
            BY <3>2 DEF TypeOK
        <3> QED
            BY <1>2, <3>1, <3>2
    <2>2. faults' \in 0..MaxFaults
        BY <1>2, BoundAssumption DEF Fault, TypeOK
    <2>3. /\ snapshot' \in [Attempt -> Snapshot]
          /\ verdict' \in [Attempt -> {"none", "succeeded", "failed"}]
          /\ operation' \in [Saga -> {"none", "succeeded", "failed"}]
          /\ changed' \in [Attempt -> SUBSET Theater]
        BY <1>1 DEF TypeOK, Snapshot, NoSnapshot
    <2>4. lockedBy' \in [Theater -> Attempt \union {Nobody}]
        BY <1>1 DEF Unlocked, TypeOK
    <2>5. \A t \in Theater : lockedBy'[t] # Nobody => at'[lockedBy'[t]] \in {"guarded", "ready"}
        BY <1>1 DEF Unlocked, TypeOK
    <2>6. showtimes' \subseteq UNION {Planned(r) : r \in Saga}
        BY <1>1, <1>4 DEF TypeOK
    <2> QED
        BY <1>1, <2>1, <2>2, <2>3, <2>4, <2>5, <2>6 DEF TypeOK
<1>6. GuardsAreHeld'
    BY <1>1, InputAssumption
       DEF WorkflowInv, TypeOK, GuardsAreHeld, Guarded, Unlocked, Attempt, SagaOf
<1>7. GuardedIsCurrent'
    <2> SUFFICES ASSUME NEW b \in Attempt, Guarded(b)', NEW t \in TheatersOf[SagaOf(b)]
                 PROVE  t \in snapshot'[b].theaters /\ t \notin changed'[b]
        BY DEF GuardedIsCurrent
    <2>1. b # a /\ Guarded(b) /\ snapshot'[b] = snapshot[b]
        BY <1>1 DEF Guarded, TypeOK
    <2>2. lockedBy[t] = b /\ t \in snapshot[b].theaters /\ t \notin changed[b]
        BY <2>1 DEF WorkflowInv, GuardsAreHeld, GuardedIsCurrent
    <2>3. \A u \in TheatersOf[s] : lockedBy[u] = a
        BY <1>1 DEF WorkflowInv, GuardsAreHeld, Guarded
    <2> QED
        BY <1>1, <2>1, <2>2, <2>3
<1>8. SnapshotsAreTracked'
    <2> SUFFICES ASSUME NEW b \in Attempt, at'[b] # "off"
                 PROVE  /\ snapshot'[b].showtimes \subseteq showtimes'
                        /\ \A x \in showtimes' \ snapshot'[b].showtimes : x.theater \in changed'[b]
                        /\ snapshot'[b].theaters \ theaters' \subseteq changed'[b]
        BY DEF SnapshotsAreTracked
    <2>1. b # a /\ at[b] # "off" /\ snapshot'[b] = snapshot[b]
        BY <1>1 DEF TypeOK
    <2>2. changed'[b] = changed[b] \union TheatersOf[s]
        BY <1>1, <2>1
    <2> QED
        BY <1>1, <1>4, <2>1, <2>2 DEF WorkflowInv, SnapshotsAreTracked
<1>9. VerdictsAreSound'
    BY <1>1 DEF WorkflowInv, TypeOK, VerdictsAreSound, Conflicting, Existing
<1>10. NoOverlap'
    <2> SUFFICES ASSUME NEW x \in showtimes', NEW y \in showtimes', x # y, x.theater = y.theater
                 PROVE  ~Overlap(x, y)
        BY DEF NoOverlap, Overlap, End
    <2>1. CASE x \in showtimes /\ y \in showtimes
        BY <2>1 DEF WorkflowInv, NoOverlap
    <2>2. CASE x \in Created(a) /\ y \in Created(a)
        BY <1>4, <2>2, PlannedDoNotOverlap
    <2>3. CASE x \in showtimes /\ y \in Created(a)
        BY <1>1, <2>3, CreatedFits
    <2>4. CASE x \in Created(a) /\ y \in showtimes
        BY <1>1, <2>4, CreatedFits
    <2> QED
        BY <1>1, <2>1, <2>2, <2>3, <2>4
<1>11. AllOrNothing'
    <2> SUFFICES ASSUME NEW r \in Saga
                 PROVE  {x \in showtimes' : x.saga = r}
                            = IF operation'[r] = "succeeded" THEN Planned(r) ELSE {}
        BY DEF AllOrNothing, Planned
    <2>1. CASE r = s
        BY <1>1, <1>3, <1>4, <2>1 DEF TypeOK, Created, Planned
    <2>2. CASE r # s
        BY <1>1, <1>4, <2>2 DEF TypeOK, WorkflowInv, AllOrNothing
    <2> QED
        BY <2>1, <2>2
<1>12. ReportIsCommitted'
    BY <1>1, <1>2 DEF Return, TypeOK, ReportIsCommitted
<1> QED
    BY <1>5, <1>6, <1>7, <1>8, <1>9, <1>10, <1>11, <1>12 DEF WorkflowInv

LEMMA StepAttemptFails ==
    ASSUME WorkflowInv, NEW a \in Attempt, AttemptFails(a)
    PROVE  WorkflowInv'
<1> TypeOK /\ ReportIsCommitted
    BY DEF WorkflowInv
<1>1. /\ EndTransaction(a) /\ lockedBy' = Unlocked(a) /\ alive' \subseteq alive
      /\ UNCHANGED <<catalog, showtimes, operation, workflow, changed, events>>
    BY DEF AttemptFails
<1>2. faults' \in 0..MaxFaults
    BY BoundAssumption DEF AttemptFails, Fault, TypeOK
<1>3. ReportIsCommitted'
    BY <1>1 DEF ReportIsCommitted, workflow
<1> QED
    BY <1>1, <1>2, <1>3, StepAborts DEF TypeOK, workflow

LEMMA StepDelete ==
    ASSUME WorkflowInv, NEW d \in Deletion, Check(d) \/ Delete(d)
    PROVE  WorkflowInv'
<1> TypeOK /\ ReportIsCommitted
    BY DEF WorkflowInv
<1> USE DEF vars, catalog, database, workflow, transaction, events, core
<1>1. CASE Check(d)
    <2>1. TypeOK' /\ ReportIsCommitted' /\ UNCHANGED core
        BY <1>1 DEF Check, TypeOK, ReportIsCommitted
    <2> QED
        BY <2>1, QuietStep
<1>2. CASE Delete(d) /\ DeleteMovie(d)
    <2>1. TypeOK' /\ ReportIsCommitted' /\ UNCHANGED core
        BY <1>2 DEF Delete, DeleteMovie, TypeOK, ReportIsCommitted
    <2> QED
        BY <2>1, QuietStep
<1>3. CASE Delete(d) /\ DeleteTheater(d)
    <2>1. /\ Target[d] \in Theater /\ lockedBy[Target[d]] = Nobody
          /\ theaters' = theaters \ {Target[d]}
          /\ changed' = [a \in Attempt |->
                IF at[a] # "off" THEN changed[a] \union {Target[d]} ELSE changed[a]]
          /\ UNCHANGED <<movies, database, workflow, alive, at, snapshot, verdict, events, faults>>
        BY <1>3 DEF Delete, DeleteTheater, Writable
    <2>2. TypeOK'
        BY <2>1 DEF TypeOK
    <2>3. GuardsAreHeld' /\ AllOrNothing' /\ ReportIsCommitted' /\ NoOverlap'
        BY <2>1 DEF WorkflowInv, GuardsAreHeld, Guarded, AllOrNothing, ReportIsCommitted, NoOverlap
    <2>4. GuardedIsCurrent'
        <3>1. \A a \in Attempt : Guarded(a) => Target[d] \notin TheatersOf[SagaOf(a)]
            BY <2>1, NobodyAssumption DEF WorkflowInv, GuardsAreHeld
        <3> QED
            BY <2>1, <3>1 DEF WorkflowInv, GuardedIsCurrent, Guarded
    <2>5. SnapshotsAreTracked'
        BY <2>1 DEF WorkflowInv, SnapshotsAreTracked
    <2>6. VerdictsAreSound'
        BY <2>1 DEF WorkflowInv, VerdictsAreSound, Conflicting, Existing
    <2> QED
        BY <2>2, <2>3, <2>4, <2>5, <2>6 DEF WorkflowInv
<1> QED
    BY <1>1, <1>2, <1>3 DEF Delete

LEMMA StepWork ==
    ASSUME WorkflowInv, NEW a \in Attempt, Work(a)
    PROVE  WorkflowInv'
BY StepBegin, StepAcquireGuards, StepValidate, StepCommit, StepCommitRefused DEF Work

\* Only the commit of a transaction with a sound verdict adds showtimes.
LEMMA OnlyCommitCreates ==
    ASSUME WorkflowInv, NEW s \in Saga,
           \/ Emits(s) \/ StartAttempt(s) \/ GiveUp(s)
           \/ \E a \in Attempt : SagaOf(a) = s /\ (Work(a) \/ AttemptFails(a)),
           NEW x \in showtimes' \ showtimes
    PROVE  x \in Planned(s) /\ x.theater \in theaters
<1> USE DEF database, catalog
<1>1. PICK a \in Attempt : SagaOf(a) = s /\ Commit(a)
    BY DEF Emits, Emit, EmitTimesOut, EmitGivesUp, FlushDelayed, StartAttempt, GiveUp,
           Work, Begin, AcquireGuards, Validate, AttemptFails
<1>2. at[a] = "ready" /\ x \in Created(a)
    BY <1>1 DEF Commit
<1> QED
    BY <1>1, <1>2, CreatedFits

-----------------------------------------------------------------------------
(***************************************************************************)
(* The rows that tie a key to its saga: the inductive invariant.           *)
(***************************************************************************)

\* A row is that of the request that inserted it.
RowsAreInserted ==
    \A k \in Key : sagaOf[k] # Nobody =>
        KeyOf[sagaOf[k]] = k /\ inputOf[k] = BodyOf[sagaOf[k]]

\* What a request has learnt of the row of its key before it goes on.
RequestsFitTheirRow ==
    \A r \in Saga :
        /\ step[r] \in {"find", "takeover", "start", "accept"} => sagaOf[KeyOf[r]] # Nobody
        /\ step[r] \in {"takeover", "start", "accept"} => inputOf[KeyOf[r]] = BodyOf[r]
        /\ step[r] \in {"start", "accept"} => saga[r] = sagaOf[KeyOf[r]]
        /\ step[r] = "accept" => started[saga[r]] # Nobody

\* Restate has no saga but that of a row, with the input of the row.
SagasHaveARow ==
    \A q \in Saga : started[q] # Nobody => sagaOf[KeyOf[q]] = q /\ started[q] = BodyOf[q]

\* acceptedAt is set when the saga of the row runs.
AcceptedRowsAreStarted ==
    \A k \in accepted : sagaOf[k] # Nobody /\ started[sagaOf[k]] # Nobody

\* A request that was answered has a saga and is not handled any more.
AnsweredIsIdle ==
    \A r \in Saga : answer[r] = "accepted" => step[r] = "idle" /\ saga[r] # Nobody

SubmissionInv ==
    /\ Submission!TypeOK
    /\ RowsAreInserted
    /\ RequestsFitTheirRow
    /\ SagasHaveARow
    /\ AcceptedRowsAreStarted
    /\ AnsweredIsIdle
    /\ Submission!AcceptedIsStarted

LEMMA SubmissionInit == Submission!Init => SubmissionInv
<1> SUFFICES ASSUME Submission!Init PROVE SubmissionInv
    OBVIOUS
<1>1. Submission!TypeOK
    <2>1. faults \in 0..MaxFaults
        BY BoundAssumption DEF Submission!Init
    <2> QED
        BY <2>1 DEF Submission!Init, Submission!TypeOK, Submission!Step, Submission!Answer
<1>2. RowsAreInserted /\ RequestsFitTheirRow /\ SagasHaveARow
    BY SubmissionAssumption
       DEF Submission!Init, RowsAreInserted, RequestsFitTheirRow, SagasHaveARow,
           Submission!RequestAssumption
<1>3. AcceptedRowsAreStarted /\ AnsweredIsIdle /\ Submission!AcceptedIsStarted
    BY DEF Submission!Init, AcceptedRowsAreStarted, AnsweredIsIdle, Submission!AcceptedIsStarted
<1> QED
    BY <1>1, <1>2, <1>3 DEF SubmissionInv

\* r goes to one of the steps next and is not answered 202; nobody else moves
Moves(r, next) ==
    /\ step' \in [Saga -> Submission!Step] /\ answer' \in [Saga -> Submission!Answer]
    /\ step'[r] \in next /\ answer'[r] # "accepted"
    /\ \A q \in Saga \ {r} : step'[q] = step[q] /\ answer'[q] = answer[q]

LEMMA ErrorMoves ==
    ASSUME Submission!TypeOK, AnsweredIsIdle, NEW r \in Saga, step[r] # "idle",
           Submission!OnError(r)
    PROVE  Moves(r, {"idle", "release"})
<1>1. answer[r] # "accepted"
    BY DEF AnsweredIsIdle
<1>2. CASE Submission!GoTo(r, "release")
    BY <1>1, <1>2 DEF Submission!GoTo, Submission!TypeOK, Submission!Step, Submission!Answer, Moves
<1>3. CASE Submission!Reply(r, "error")
    BY <1>1, <1>3 DEF Submission!Reply, Submission!TypeOK, Submission!Step, Submission!Answer, Moves
<1> QED
    BY <1>2, <1>3 DEF Submission!OnError

LEMMA ContinueMoves ==
    ASSUME Submission!TypeOK, AnsweredIsIdle, NEW r \in Saga, step[r] # "idle",
           NEW s \in {"start", "accept"}, Submission!Continue(r, s)
    PROVE  Moves(r, {s, "idle", "release"}) /\ faults' \in 0..MaxFaults
<1>1. answer[r] # "accepted"
    BY DEF AnsweredIsIdle
<1>2. CASE Submission!GoTo(r, s) /\ UNCHANGED faults
    BY <1>1, <1>2 DEF Submission!GoTo, Submission!TypeOK, Submission!Step, Submission!Answer, Moves
<1>3. CASE Submission!OnError(r) /\ Submission!Fault
    <2>1. faults' \in 0..MaxFaults
        BY <1>3, BoundAssumption DEF Submission!Fault, Submission!TypeOK
    <2> QED
        BY <1>3, <2>1, ErrorMoves DEF Moves
<1> QED
    BY <1>2, <1>3 DEF Submission!Continue

\* A request that stops leaves what it did behind.
LEMMA StepStops ==
    ASSUME SubmissionInv, NEW r \in Saga, step[r] # "idle", Moves(r, {"idle", "release"}),
           UNCHANGED <<sagaOf, inputOf, accepted, started, saga>>,
           Submission!TypeOK'
    PROVE  SubmissionInv'
<1>1. RowsAreInserted' /\ SagasHaveARow' /\ AcceptedRowsAreStarted'
    BY DEF SubmissionInv, RowsAreInserted, SagasHaveARow, AcceptedRowsAreStarted
<1>2. RequestsFitTheirRow'
    BY DEF SubmissionInv, RequestsFitTheirRow, Moves
<1>3. AnsweredIsIdle' /\ Submission!AcceptedIsStarted'
    BY DEF SubmissionInv, AnsweredIsIdle, Submission!AcceptedIsStarted, Moves
<1> QED
    BY <1>1, <1>2, <1>3 DEF SubmissionInv

LEMMA StepSubmit ==
    ASSUME SubmissionInv, NEW r \in Saga, Submission!Submit(r)
    PROVE  SubmissionInv'
<1> USE DEF Submission!row
<1>1. /\ step[r] = "idle"
      /\ step' = [step EXCEPT ![r] = "insert"]
      /\ answer' = [answer EXCEPT ![r] = "none"]
      /\ saga' = [saga EXCEPT ![r] = Nobody]
      /\ UNCHANGED <<sagaOf, inputOf, claim, lease, accepted, started, faults>>
    BY DEF Submission!Submit
<1> Submission!TypeOK
    BY DEF SubmissionInv
<1>2. Submission!TypeOK'
    BY <1>1 DEF Submission!TypeOK, Submission!Step, Submission!Answer
<1>3. RowsAreInserted' /\ SagasHaveARow' /\ AcceptedRowsAreStarted'
    BY <1>1 DEF SubmissionInv, RowsAreInserted, SagasHaveARow, AcceptedRowsAreStarted
<1>4. RequestsFitTheirRow'
    BY <1>1 DEF SubmissionInv, RequestsFitTheirRow, Submission!TypeOK
<1>5. AnsweredIsIdle' /\ Submission!AcceptedIsStarted'
    BY <1>1 DEF SubmissionInv, AnsweredIsIdle, Submission!AcceptedIsStarted, Submission!TypeOK
<1> QED
    BY <1>2, <1>3, <1>4, <1>5 DEF SubmissionInv

LEMMA StepInsert ==
    ASSUME SubmissionInv, NEW r \in Saga, Submission!Insert(r)
    PROVE  SubmissionInv'
<1> DEFINE k == KeyOf[r]
<1> USE DEF Submission!row
<1> Submission!TypeOK /\ AnsweredIsIdle
    BY DEF SubmissionInv
<1>1. k \in Key /\ BodyOf[r] \in Body /\ r # Nobody /\ step[r] = "insert" /\ started' = started
    BY SubmissionAssumption
       DEF Submission!Insert, Submission!RequestAssumption, Submission!NameAssumption
<1>2. CASE sagaOf[k] # Nobody
    <2>1. /\ step' = [step EXCEPT ![r] = "find"]
          /\ UNCHANGED <<sagaOf, inputOf, claim, lease, accepted, saga, answer, faults>>
        BY <1>2 DEF Submission!Insert, Submission!GoTo
    <2>2. Submission!TypeOK'
        BY <1>1, <2>1 DEF Submission!TypeOK, Submission!Step
    <2>3. RequestsFitTheirRow'
        BY <1>1, <1>2, <2>1 DEF SubmissionInv, RequestsFitTheirRow, Submission!TypeOK
    <2>4. RowsAreInserted' /\ SagasHaveARow' /\ AcceptedRowsAreStarted'
        BY <1>1, <2>1 DEF SubmissionInv, RowsAreInserted, SagasHaveARow, AcceptedRowsAreStarted
    <2>5. AnsweredIsIdle' /\ Submission!AcceptedIsStarted'
        BY <1>1, <2>1 DEF SubmissionInv, AnsweredIsIdle, Submission!AcceptedIsStarted, Submission!TypeOK
    <2> QED
        BY <2>2, <2>3, <2>4, <2>5 DEF SubmissionInv
<1>3. CASE sagaOf[k] = Nobody
    <2>1. /\ sagaOf' = [sagaOf EXCEPT ![k] = r]
          /\ inputOf' = [inputOf EXCEPT ![k] = BodyOf[r]]
          /\ claim' = [claim EXCEPT ![k] = r]
          /\ lease' = [lease EXCEPT ![k] = "live"]
          /\ saga' = [saga EXCEPT ![r] = r]
          /\ accepted' = accepted
          /\ Submission!Continue(r, "start")
        BY <1>3 DEF Submission!Insert, Submission!SetClaim
    <2>2. Moves(r, {"start", "idle", "release"}) /\ faults' \in 0..MaxFaults
        BY <1>1, <2>1, ContinueMoves
    <2>3. k \notin accepted
        BY <1>3 DEF SubmissionInv, AcceptedRowsAreStarted
    <2>4. Submission!TypeOK'
        BY <1>1, <2>1, <2>2, <2>3 DEF Submission!TypeOK, Moves
    <2>5. RowsAreInserted'
        BY <1>1, <2>1 DEF SubmissionInv, RowsAreInserted, Submission!TypeOK
    <2>6. SagasHaveARow' /\ AcceptedRowsAreStarted'
        BY <1>1, <1>3, <2>1, <2>3, SubmissionAssumption
           DEF SubmissionInv, SagasHaveARow, AcceptedRowsAreStarted, Submission!TypeOK,
               Submission!RequestAssumption, Submission!NameAssumption
    <2>7. RequestsFitTheirRow'
        <3> SUFFICES ASSUME NEW q \in Saga
                     PROVE  /\ step'[q] \in {"find", "takeover", "start", "accept"} =>
                                  sagaOf'[KeyOf[q]] # Nobody
                            /\ step'[q] \in {"takeover", "start", "accept"} =>
                                  inputOf'[KeyOf[q]] = BodyOf[q]
                            /\ step'[q] \in {"start", "accept"} => saga'[q] = sagaOf'[KeyOf[q]]
                            /\ step'[q] = "accept" => started'[saga'[q]] # Nobody
            BY DEF RequestsFitTheirRow
        <3>1. CASE q = r
            BY <1>1, <2>1, <2>2, <3>1 DEF Moves, Submission!TypeOK
        <3>2. CASE q # r
            BY <1>1, <1>3, <2>1, <2>2, <3>2
               DEF Moves, SubmissionInv, RequestsFitTheirRow, Submission!TypeOK
        <3> QED
            BY <3>1, <3>2
    <2>8. AnsweredIsIdle' /\ Submission!AcceptedIsStarted'
        <3>1. AnsweredIsIdle'
            BY <2>1, <2>2 DEF AnsweredIsIdle, Moves, Submission!TypeOK
        <3>2. ASSUME NEW q \in Saga, answer'[q] = "accepted"
              PROVE  saga'[q] = sagaOf'[KeyOf[q]] /\ started'[saga'[q]] = BodyOf[q]
            <4>1. q # r /\ saga[q] = sagaOf[KeyOf[q]] /\ started[saga[q]] = BodyOf[q]
                BY <2>2, <3>2 DEF Moves, SubmissionInv, Submission!AcceptedIsStarted
            <4>2. sagaOf[KeyOf[q]] # Nobody
                BY <2>2, <3>2, <4>1 DEF Moves, AnsweredIsIdle
            <4> QED
                BY <1>1, <1>3, <2>1, <4>1, <4>2 DEF Submission!TypeOK
        <3> QED
            BY <3>1, <3>2 DEF Submission!AcceptedIsStarted
    <2> QED
        BY <2>4, <2>5, <2>6, <2>7, <2>8 DEF SubmissionInv
<1> QED
    BY <1>2, <1>3

LEMMA StepFind ==
    ASSUME SubmissionInv, NEW r \in Saga, Submission!Find(r)
    PROVE  SubmissionInv'
<1> DEFINE k == KeyOf[r]
<1> USE DEF Submission!row
<1> Submission!TypeOK /\ AnsweredIsIdle
    BY DEF SubmissionInv
<1>1. /\ k \in Key /\ step[r] = "find" /\ sagaOf[k] # Nobody
      /\ UNCHANGED <<sagaOf, inputOf, claim, lease, accepted, started, faults>>
    BY SubmissionAssumption
       DEF Submission!Find, Submission!RequestAssumption, SubmissionInv, RequestsFitTheirRow
<1>2. RowsAreInserted' /\ SagasHaveARow' /\ AcceptedRowsAreStarted'
    BY <1>1 DEF SubmissionInv, RowsAreInserted, SagasHaveARow, AcceptedRowsAreStarted
<1>3. ASSUME NEW ans \in {"key-reused", "in-progress"}, Submission!Reply(r, ans), UNCHANGED saga
      PROVE  SubmissionInv'
    <2>1. Moves(r, {"idle", "release"})
        BY <1>3 DEF Submission!Reply, Moves, Submission!TypeOK, Submission!Step, Submission!Answer
    <2>2. Submission!TypeOK'
        BY <1>1, <1>3, <2>1 DEF Moves, Submission!TypeOK
    <2> QED
        BY <1>1, <1>3, <2>1, <2>2, StepStops
<1>4. CASE /\ inputOf[k] = BodyOf[r] /\ k \in accepted /\ Submission!Reply(r, "accepted")
           /\ saga' = [saga EXCEPT ![r] = sagaOf[k]]
    <2>1. /\ step' = [step EXCEPT ![r] = "idle"]
          /\ answer' = [answer EXCEPT ![r] = "accepted"]
        BY <1>4 DEF Submission!Reply
    <2>2. Submission!TypeOK'
        BY <1>1, <1>4, <2>1 DEF Submission!TypeOK, Submission!Step, Submission!Answer
    <2>3. RequestsFitTheirRow'
        BY <1>1, <1>4, <2>1 DEF SubmissionInv, RequestsFitTheirRow, Submission!TypeOK
    <2>4. AnsweredIsIdle'
        BY <1>1, <1>4, <2>1 DEF AnsweredIsIdle, Submission!TypeOK
    <2>5. sagaOf[k] \in Saga /\ started[sagaOf[k]] = BodyOf[r]
        BY <1>1, <1>4
           DEF SubmissionInv, Submission!TypeOK, AcceptedRowsAreStarted, RowsAreInserted, SagasHaveARow
    <2>6. Submission!AcceptedIsStarted'
        BY <1>1, <1>4, <2>1, <2>5 DEF SubmissionInv, Submission!AcceptedIsStarted, Submission!TypeOK
    <2> QED
        BY <1>2, <2>2, <2>3, <2>4, <2>6 DEF SubmissionInv
<1>5. CASE inputOf[k] = BodyOf[r] /\ Submission!GoTo(r, "takeover") /\ UNCHANGED saga
    <2>1. step' = [step EXCEPT ![r] = "takeover"] /\ UNCHANGED answer
        BY <1>5 DEF Submission!GoTo
    <2>2. Submission!TypeOK'
        BY <1>1, <1>5, <2>1 DEF Submission!TypeOK, Submission!Step
    <2>3. RequestsFitTheirRow'
        BY <1>1, <1>5, <2>1 DEF SubmissionInv, RequestsFitTheirRow, Submission!TypeOK
    <2>4. AnsweredIsIdle' /\ Submission!AcceptedIsStarted'
        BY <1>1, <1>5, <2>1
           DEF SubmissionInv, AnsweredIsIdle, Submission!AcceptedIsStarted, Submission!TypeOK
    <2> QED
        BY <1>2, <2>2, <2>3, <2>4 DEF SubmissionInv
<1> QED
    BY <1>3, <1>4, <1>5 DEF Submission!Find, Submission!SameInput

LEMMA StepTakeOver ==
    ASSUME SubmissionInv, NEW r \in Saga, Submission!TakeOver(r)
    PROVE  SubmissionInv'
<1> DEFINE k == KeyOf[r]
<1> Submission!TypeOK /\ AnsweredIsIdle
    BY DEF SubmissionInv
<1>1. /\ k \in Key /\ r # Nobody /\ step[r] = "takeover"
      /\ sagaOf[k] # Nobody /\ inputOf[k] = BodyOf[r]
      /\ UNCHANGED <<sagaOf, inputOf, accepted, started>>
    BY SubmissionAssumption
       DEF Submission!TakeOver, Submission!RequestAssumption, Submission!NameAssumption,
           SubmissionInv, RequestsFitTheirRow
<1>2. CASE Submission!Reply(r, "in-progress") /\ UNCHANGED <<claim, lease, saga, faults>>
    <2>1. Moves(r, {"idle", "release"})
        BY <1>2 DEF Submission!Reply, Moves, Submission!TypeOK, Submission!Step, Submission!Answer
    <2>2. Submission!TypeOK'
        BY <1>1, <1>2, <2>1 DEF Moves, Submission!TypeOK
    <2> QED
        BY <1>1, <1>2, <2>1, <2>2, StepStops
<1>3. CASE /\ Submission!Claimable(k) /\ Submission!SetClaim(k, r, "live")
           /\ saga' = [saga EXCEPT ![r] = Submission!SagaTakenOver(r)]
           /\ Submission!Continue(r, "start")
    <2>1. /\ claim' = [claim EXCEPT ![k] = r]
          /\ lease' = [lease EXCEPT ![k] = "live"]
          /\ saga' = [saga EXCEPT ![r] = sagaOf[k]]
          /\ k \notin accepted
        BY <1>3 DEF Submission!Claimable, Submission!SetClaim, Submission!SagaTakenOver
    <2>2. Moves(r, {"start", "idle", "release"}) /\ faults' \in 0..MaxFaults
        BY <1>1, <1>3, ContinueMoves
    <2>3. Submission!TypeOK'
        BY <1>1, <2>1, <2>2 DEF Submission!TypeOK, Moves
    <2>4. RowsAreInserted' /\ SagasHaveARow' /\ AcceptedRowsAreStarted'
        BY <1>1 DEF SubmissionInv, RowsAreInserted, SagasHaveARow, AcceptedRowsAreStarted
    <2>5. RequestsFitTheirRow'
        BY <1>1, <2>1, <2>2 DEF SubmissionInv, RequestsFitTheirRow, Submission!TypeOK, Moves
    <2>6. AnsweredIsIdle' /\ Submission!AcceptedIsStarted'
        BY <1>1, <2>1, <2>2
           DEF SubmissionInv, AnsweredIsIdle, Submission!AcceptedIsStarted, Submission!TypeOK, Moves
    <2> QED
        BY <2>3, <2>4, <2>5, <2>6 DEF SubmissionInv
<1> QED
    BY <1>2, <1>3 DEF Submission!TakeOver

LEMMA StepStartWorkflow ==
    ASSUME SubmissionInv, NEW r \in Saga, Submission!StartWorkflow(r)
    PROVE  SubmissionInv'
<1> DEFINE k == KeyOf[r]
           q == sagaOf[k]
<1> USE DEF Submission!row
<1> Submission!TypeOK /\ AnsweredIsIdle
    BY DEF SubmissionInv
<1>1. /\ k \in Key /\ q \in Saga /\ KeyOf[q] = k
      /\ saga[r] = q /\ BodyOf[r] = BodyOf[q] /\ BodyOf[q] \in Body /\ BodyOf[q] # Nobody
      /\ step[r] = "start" /\ Submission!Continue(r, "accept")
      /\ started' = [started EXCEPT ![q] = IF started[q] = Nobody THEN BodyOf[q] ELSE started[q]]
      /\ UNCHANGED <<sagaOf, inputOf, claim, lease, accepted, saga>>
    <2>1. /\ step[r] = "start" /\ Submission!Continue(r, "accept")
          /\ started' = [started EXCEPT ![saga[r]] =
                IF started[saga[r]] = Nobody THEN BodyOf[r] ELSE started[saga[r]]]
          /\ UNCHANGED <<sagaOf, inputOf, claim, lease, accepted, saga>>
        BY DEF Submission!StartWorkflow
    <2>2. k \in Key /\ sagaOf[k] # Nobody /\ inputOf[k] = BodyOf[r] /\ saga[r] = q
        BY <2>1, SubmissionAssumption
           DEF SubmissionInv, RequestsFitTheirRow, Submission!RequestAssumption
    <2>3. q \in Saga /\ KeyOf[q] = k /\ inputOf[k] = BodyOf[q]
        BY <2>2 DEF SubmissionInv, RowsAreInserted, Submission!TypeOK
    <2>4. BodyOf[q] \in Body /\ BodyOf[q] # Nobody
        BY <2>3, SubmissionAssumption DEF Submission!RequestAssumption, Submission!NameAssumption
    <2> QED
        BY <2>1, <2>2, <2>3, <2>4
<1>2. Moves(r, {"accept", "idle", "release"}) /\ faults' \in 0..MaxFaults
    BY <1>1, ContinueMoves
<1>3. \A p \in Saga : started'[p] = IF p = q THEN BodyOf[q] ELSE started[p]
    BY <1>1 DEF SubmissionInv, SagasHaveARow, Submission!TypeOK
<1>4. \A p \in Saga : started[p] # Nobody => started'[p] = started[p]
    BY <1>1 DEF Submission!TypeOK
<1>5. Submission!TypeOK'
    BY <1>1, <1>2 DEF Submission!TypeOK, Moves
<1>6. RowsAreInserted' /\ SagasHaveARow' /\ AcceptedRowsAreStarted'
    BY <1>1, <1>3, <1>4
       DEF SubmissionInv, RowsAreInserted, SagasHaveARow, AcceptedRowsAreStarted, Submission!TypeOK
<1>7. RequestsFitTheirRow'
    BY <1>1, <1>2, <1>3, <1>4
       DEF SubmissionInv, RequestsFitTheirRow, Submission!TypeOK, Moves
<1>8. AnsweredIsIdle'
    BY <1>1, <1>2 DEF AnsweredIsIdle, Moves
<1>9. Submission!AcceptedIsStarted'
    <2> SUFFICES ASSUME NEW p \in Saga, answer'[p] = "accepted"
                 PROVE  saga'[p] = sagaOf'[KeyOf[p]] /\ started'[saga'[p]] = BodyOf[p]
        BY DEF Submission!AcceptedIsStarted
    <2>1. /\ answer[p] = "accepted" /\ saga[p] \in Saga
          /\ saga[p] = sagaOf[KeyOf[p]] /\ started[saga[p]] = BodyOf[p]
        BY <1>2 DEF Moves, AnsweredIsIdle, SubmissionInv, Submission!AcceptedIsStarted, Submission!TypeOK
    <2>2. BodyOf[p] # Nobody
        BY SubmissionAssumption DEF Submission!RequestAssumption, Submission!NameAssumption
    <2> QED
        BY <1>1, <1>4, <2>1, <2>2
<1> QED
    BY <1>5, <1>6, <1>7, <1>8, <1>9 DEF SubmissionInv

LEMMA StepMarkAccepted ==
    ASSUME SubmissionInv, NEW r \in Saga, Submission!MarkAccepted(r)
    PROVE  SubmissionInv'
<1> DEFINE k == KeyOf[r]
<1> Submission!TypeOK /\ AnsweredIsIdle
    BY DEF SubmissionInv
<1>1. /\ k \in Key /\ step[r] = "accept" /\ saga[r] = sagaOf[k] /\ sagaOf[k] \in Saga
      /\ sagaOf[k] # Nobody /\ started[sagaOf[k]] # Nobody /\ inputOf[k] = BodyOf[r]
      /\ UNCHANGED <<sagaOf, inputOf, started, saga>>
    BY SubmissionAssumption
       DEF Submission!MarkAccepted, Submission!RequestAssumption, SubmissionInv,
           RequestsFitTheirRow, Submission!TypeOK
<1>2. started[sagaOf[k]] = BodyOf[r]
    BY <1>1 DEF SubmissionInv, RowsAreInserted, SagasHaveARow
<1>3. CASE Submission!OnError(r) /\ UNCHANGED <<accepted, claim, lease, faults>>
    <2>1. Moves(r, {"idle", "release"})
        BY <1>1, <1>3, ErrorMoves
    <2>2. Submission!TypeOK'
        BY <1>1, <1>3, <2>1 DEF Moves, Submission!TypeOK
    <2> QED
        BY <1>1, <1>3, <2>1, <2>2, StepStops
<1>4. CASE /\ accepted' = accepted \union {k} /\ Submission!ClaimAfter(k)
           /\ \/ Submission!Reply(r, "accepted") /\ UNCHANGED faults
              \/ Submission!OnError(r) /\ Submission!Fault
    <2>1. /\ claim' = [claim EXCEPT ![k] = Nobody]
          /\ lease' = [lease EXCEPT ![k] = "none"]
        BY <1>4 DEF Submission!ClaimAfter, Submission!SetClaim
    <2>2. /\ step' \in [Saga -> Submission!Step] /\ answer' \in [Saga -> Submission!Answer]
          /\ step'[r] \in {"idle", "release"}
          /\ answer'[r] = "accepted" => step'[r] = "idle"
          /\ \A q \in Saga \ {r} : step'[q] = step[q] /\ answer'[q] = answer[q]
          /\ faults' \in 0..MaxFaults
        <3>1. CASE Submission!Reply(r, "accepted") /\ UNCHANGED faults
            BY <3>1 DEF Submission!Reply, Submission!TypeOK, Submission!Step, Submission!Answer
        <3>2. CASE Submission!OnError(r) /\ Submission!Fault
            <4>1. faults' \in 0..MaxFaults
                BY <3>2, BoundAssumption DEF Submission!Fault, Submission!TypeOK
            <4> QED
                BY <1>1, <3>2, <4>1, ErrorMoves DEF Moves
        <3> QED
            BY <1>4, <3>1, <3>2
    <2>3. Submission!TypeOK'
        BY <1>1, <1>4, <2>1, <2>2 DEF Submission!TypeOK
    <2>4. RowsAreInserted' /\ SagasHaveARow' /\ AcceptedRowsAreStarted'
        BY <1>1, <1>4 DEF SubmissionInv, RowsAreInserted, SagasHaveARow, AcceptedRowsAreStarted
    <2>5. RequestsFitTheirRow'
        BY <1>1, <2>2 DEF SubmissionInv, RequestsFitTheirRow
    <2>6. AnsweredIsIdle'
        BY <1>1, <2>2, SubmissionAssumption DEF AnsweredIsIdle, Submission!NameAssumption
    <2>7. Submission!AcceptedIsStarted'
        BY <1>1, <1>2, <2>2 DEF SubmissionInv, Submission!AcceptedIsStarted
    <2> QED
        BY <2>3, <2>4, <2>5, <2>6, <2>7 DEF SubmissionInv
<1> QED
    BY <1>3, <1>4 DEF Submission!MarkAccepted

LEMMA StepRelease ==
    ASSUME SubmissionInv, NEW r \in Saga, Submission!Release(r)
    PROVE  SubmissionInv'
<1> Submission!TypeOK /\ AnsweredIsIdle
    BY DEF SubmissionInv
<1>1. /\ KeyOf[r] \in Key /\ step[r] = "release" /\ Submission!Reply(r, "error")
      /\ UNCHANGED <<sagaOf, inputOf, accepted, started, saga, faults>>
    BY SubmissionAssumption DEF Submission!Release, Submission!RequestAssumption
<1>2. Moves(r, {"idle", "release"})
    BY <1>1 DEF Submission!Reply, Moves, Submission!TypeOK, Submission!Step, Submission!Answer
<1>3. Submission!TypeOK'
    <2>1. \/ UNCHANGED <<claim, lease>>
          \/ /\ claim' = [claim EXCEPT ![KeyOf[r]] = Nobody]
             /\ lease' = [lease EXCEPT ![KeyOf[r]] = "none"]
        BY DEF Submission!Release, Submission!SetClaim
    <2> QED
        BY <1>1, <1>2, <2>1 DEF Moves, Submission!TypeOK
<1> QED
    BY <1>1, <1>2, <1>3, StepStops

\* A call fails or the server dies.
LEMMA StepBreaksOff ==
    ASSUME SubmissionInv, NEW r \in Saga, Submission!CallFails(r) \/ Submission!Crash(r)
    PROVE  SubmissionInv'
<1> USE DEF Submission!row
<1> Submission!TypeOK /\ AnsweredIsIdle
    BY DEF SubmissionInv
<1>1. /\ step[r] # "idle" /\ Submission!Fault
      /\ UNCHANGED <<sagaOf, inputOf, claim, lease, accepted, started, saga>>
    BY DEF Submission!CallFails, Submission!Crash
<1>2. faults' \in 0..MaxFaults
    BY <1>1, BoundAssumption DEF Submission!Fault, Submission!TypeOK
<1>3. Moves(r, {"idle", "release"})
    <2>1. CASE Submission!CallFails(r)
        BY <1>1, <2>1, ErrorMoves DEF Submission!CallFails
    <2>2. CASE Submission!Crash(r)
        BY <2>2 DEF Submission!Crash, Submission!Reply, Moves, Submission!TypeOK,
                    Submission!Step, Submission!Answer
    <2> QED
        BY <2>1, <2>2
<1>4. Submission!TypeOK'
    BY <1>1, <1>2, <1>3 DEF Moves, Submission!TypeOK
<1> QED
    BY <1>1, <1>3, <1>4, StepStops

LEMMA StepLeaseExpires ==
    ASSUME SubmissionInv, NEW k \in Key, Submission!LeaseExpires(k)
    PROVE  SubmissionInv'
<1>1. /\ lease[k] = "live" /\ lease' = [lease EXCEPT ![k] = "expired"]
      /\ UNCHANGED <<sagaOf, inputOf, claim, accepted, started, step, saga, answer>>
    BY DEF Submission!LeaseExpires
<1>2. faults' \in 0..MaxFaults
    BY BoundAssumption DEF Submission!LeaseExpires, Submission!Fault, SubmissionInv, Submission!TypeOK
<1>3. Submission!TypeOK'
    BY <1>1, <1>2 DEF SubmissionInv, Submission!TypeOK
<1>4. RowsAreInserted' /\ SagasHaveARow' /\ AcceptedRowsAreStarted'
    BY <1>1 DEF SubmissionInv, RowsAreInserted, SagasHaveARow, AcceptedRowsAreStarted
<1>5. RequestsFitTheirRow' /\ AnsweredIsIdle' /\ Submission!AcceptedIsStarted'
    BY <1>1 DEF SubmissionInv, RequestsFitTheirRow, AnsweredIsIdle, Submission!AcceptedIsStarted
<1> QED
    BY <1>3, <1>4, <1>5 DEF SubmissionInv

LEMMA StepSubmission ==
    ASSUME SubmissionInv, Submission!Next
    PROVE  SubmissionInv'
<1>1. CASE \E r \in Saga : Submission!Submit(r) \/ Submission!Handle(r)
                             \/ Submission!CallFails(r) \/ Submission!Crash(r)
    BY <1>1, StepSubmit, StepInsert, StepFind, StepTakeOver, StepStartWorkflow, StepMarkAccepted,
       StepRelease, StepBreaksOff DEF Submission!Handle
<1>2. CASE \E k \in Key : Submission!LeaseExpires(k)
    BY <1>2, StepLeaseExpires
<1> QED
    BY <1>1, <1>2 DEF Submission!Next

\* Steps of the workflows and of the deletions leave the rows alone.
LEMMA SubmissionStutters ==
    ASSUME SubmissionInv, UNCHANGED submissionVars, faults' \in 0..MaxFaults
    PROVE  SubmissionInv'
<1> USE DEF submissionVars
<1>1. Submission!TypeOK' /\ Submission!AcceptedIsStarted'
    BY DEF SubmissionInv, Submission!TypeOK, Submission!AcceptedIsStarted
<1>2. RowsAreInserted' /\ RequestsFitTheirRow' /\ SagasHaveARow'
    BY DEF SubmissionInv, RowsAreInserted, RequestsFitTheirRow, SagasHaveARow
<1>3. AcceptedRowsAreStarted' /\ AnsweredIsIdle'
    BY DEF SubmissionInv, AcceptedRowsAreStarted, AnsweredIsIdle
<1> QED
    BY <1>1, <1>2, <1>3 DEF SubmissionInv

-----------------------------------------------------------------------------
(***************************************************************************)
(* Requests, sagas and deletions together.                                 *)
(***************************************************************************)

\* Nothing was created but by sagas that Restate was given.
CreatedIsStarted ==
    \A x \in showtimes : x.saga \in Saga /\ started[x.saga] # Nobody

CreationInv == WorkflowInv /\ SubmissionInv /\ CreatedIsStarted

LEMMA CreationInitInv == CreationInit => CreationInv
BY WorkflowInit, SubmissionInit DEF CreationInit, DeletionInit, CreationInv, CreatedIsStarted, Init

\* Restate does not forget a saga.
LEMMA StartedStays ==
    ASSUME SubmissionInv, Submission!Next, NEW q \in Saga, started[q] # Nobody
    PROVE  started'[q] # Nobody
<1> started \in [Saga -> Body \union {Nobody}]
    BY DEF SubmissionInv, Submission!TypeOK
<1>1. ASSUME NEW r \in Saga, Submission!StartWorkflow(r) PROVE started'[q] # Nobody
    <2>1. started' = [started EXCEPT ![saga[r]] =
              IF started[saga[r]] = Nobody THEN BodyOf[r] ELSE started[saga[r]]]
        BY <1>1 DEF Submission!StartWorkflow
    <2> QED
        BY <2>1
<1>2. CASE UNCHANGED started
    BY <1>2
<1> QED
    BY <1>1, <1>2
       DEF Submission!Next, Submission!Handle, Submission!Submit, Submission!Insert, Submission!Find,
           Submission!TakeOver, Submission!MarkAccepted, Submission!Release, Submission!CallFails,
           Submission!Crash, Submission!LeaseExpires

LEMMA CreationStep ==
    ASSUME CreationInv, [CreationNext]_creationVars
    PROVE  CreationInv'
<1> WorkflowInv /\ SubmissionInv /\ CreatedIsStarted
    BY DEF CreationInv
<1> USE DEF carriedOutVars, catalog, database, workflow, transaction, events
<1>1. CASE Submission!Next /\ UNCHANGED carriedOutVars
    <2>1. SubmissionInv'
        BY <1>1, StepSubmission
    <2>2. WorkflowInv'
        <3>1. TypeOK' /\ ReportIsCommitted' /\ UNCHANGED core
            BY <1>1, <2>1
               DEF WorkflowInv, SubmissionInv, TypeOK, Submission!TypeOK, ReportIsCommitted, core
        <3> QED
            BY <3>1, QuietStep
    <2>3. CreatedIsStarted'
        BY <1>1, StartedStays DEF CreatedIsStarted
    <2> QED
        BY <2>1, <2>2, <2>3 DEF CreationInv
<1>2. ASSUME NEW s \in Saga, SagaStep(s), UNCHANGED <<stage, submissionVars>>
      PROVE  CreationInv'
    <2>1. WorkflowInv'
        BY <1>2, StepEmits, StepSchedule, StepWork, StepAttemptFails DEF SagaStep
    <2>2. SubmissionInv'
        BY <1>2, <2>1, SubmissionStutters DEF WorkflowInv, TypeOK
    <2>3. CreatedIsStarted'
        <3>1. \A x \in showtimes' \ showtimes : x.saga = s
            BY <1>2, OnlyCommitCreates DEF SagaStep, Planned
        <3> QED
            BY <1>2, <3>1 DEF SagaStep, CreatedIsStarted, submissionVars
    <2> QED
        BY <2>1, <2>2, <2>3 DEF CreationInv
<1>3. ASSUME NEW d \in Deletion, Check(d) \/ Delete(d), UNCHANGED submissionVars
      PROVE  CreationInv'
    <2>1. WorkflowInv'
        BY <1>3, StepDelete
    <2>2. SubmissionInv'
        BY <1>3, <2>1, SubmissionStutters DEF WorkflowInv, TypeOK
    <2>3. CreatedIsStarted'
        BY <1>3 DEF Check, Delete, vars, CreatedIsStarted, submissionVars
    <2> QED
        BY <2>1, <2>2, <2>3 DEF CreationInv
<1>4. CASE UNCHANGED creationVars
    <2>1. TypeOK' /\ ReportIsCommitted' /\ UNCHANGED core
        BY <1>4 DEF WorkflowInv, TypeOK, ReportIsCommitted, core, creationVars
    <2>2. WorkflowInv' /\ SubmissionInv'
        BY <1>4, <2>1, QuietStep, SubmissionStutters DEF creationVars, TypeOK
    <2>3. CreatedIsStarted'
        BY <1>4 DEF CreatedIsStarted, creationVars, submissionVars
    <2> QED
        BY <2>2, <2>3 DEF CreationInv
<1> QED
    BY <1>1, <1>2, <1>3, <1>4 DEF CreationNext

\* Everything above holds in every state of showtime creation: in particular a
\* transaction behind its guard holds and knows its theaters.
THEOREM CreationInvariant == CreationSpec => []CreationInv
BY CreationInitInv, CreationStep, PTL DEF CreationSpec

-----------------------------------------------------------------------------
(***************************************************************************)
(* What follows.                                                           *)
(***************************************************************************)

\* No theater ever shows two films at once: sagas that are validated against
\* snapshots exclude each other by writing their theaters first
\* (acquireShowtimeScheduleGuards in validateAndCreate).
THEOREM NoOverlapAlways == CreationSpec => []NoOverlap
<1>1. CreationInv => NoOverlap
    BY DEF CreationInv, WorkflowInv
<1> QED
    BY <1>1, CreationInvariant, PTL

\* The durable step creates all showtimes of a saga together with its operation
\* row or nothing, for any number of attempts beside each other (the snapshot
\* transaction and the unique sagaId of validateAndCreate).
THEOREM AllOrNothingAlways == CreationSpec => []AllOrNothing
<1>1. CreationInv => AllOrNothing
    BY DEF CreationInv, WorkflowInv
<1> QED
    BY <1>1, CreationInvariant, PTL

\* A workflow never reports a result that no attempt committed (the operation row
\* that an attempt reads first).
THEOREM ReportIsCommittedAlways == CreationSpec => []ReportIsCommitted
<1>1. CreationInv => ReportIsCommitted
    BY DEF CreationInv, WorkflowInv
<1> QED
    BY <1>1, CreationInvariant, PTL

\* A key has one saga and one creation, for any number of clients that send it
\* and servers that take a claim over (acquire, markAccepted).
THEOREM OneCreationPerKeyAlways == CreationSpec => []OneCreationPerKey
<1>1. CreationInv => OneCreationPerKey
    <2> SUFFICES ASSUME CreationInv PROVE OneCreationPerKey
        OBVIOUS
    <2>1. TypeOK /\ Submission!TypeOK /\ Submission!AcceptedIsStarted
        BY DEF CreationInv, WorkflowInv, SubmissionInv
    <2>2. Submission!OneSagaPerKey
        BY DEF CreationInv, SubmissionInv, SagasHaveARow, Submission!OneSagaPerKey
    <2>3. \A x \in showtimes : x.saga = sagaOf[KeyOf[x.saga]]
        BY DEF CreationInv, CreatedIsStarted, SubmissionInv, SagasHaveARow
    <2> QED
        BY <2>1, <2>2, <2>3 DEF OneCreationPerKey
<1> QED
    BY <1>1, CreationInvariant, PTL

\* No showtime is created in a theater that was deleted before, whenever the
\* deletion comes: it waits for a transaction that wrote the theater, and one
\* that comes first makes that write conflict (deleteByIds of the theaters).
THEOREM TheatersOutliveCreationAlways == CreationSpec => TheatersOutliveCreation
<1>1. CreationInv /\ [CreationNext]_creationVars =>
          [\A x \in showtimes' \ showtimes : x.theater \in theaters]_deletionVars
    <2> SUFFICES ASSUME CreationInv, [CreationNext]_creationVars, NEW x \in showtimes' \ showtimes
                 PROVE  x.theater \in theaters
        OBVIOUS
    <2>1. PICK s \in Saga : SagaStep(s)
        BY DEF CreationNext, creationVars, carriedOutVars, database, Check, Delete, vars
    <2> QED
        BY <2>1, OnlyCommitCreates DEF SagaStep, CreationInv
<1> QED
    BY <1>1, CreationInvariant, PTL DEF CreationSpec, TheatersOutliveCreation

=============================================================================
