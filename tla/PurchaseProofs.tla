--------------------------- MODULE PurchaseProofs ---------------------------
(***************************************************************************)
(* Theorems about Purchase for any requests, sweepers, customers, tickets, *)
(* keys and number of faults.                                              *)
(***************************************************************************)
EXTENDS Purchase, TLAPS

-----------------------------------------------------------------------------
(***************************************************************************)
(* The inductive invariant.                                                *)
(***************************************************************************)

\* Where the request of a record can be, given the status of the record.
Aftermath == {"compensate", "unlock", "answered", "crashed"}

StepFitsStatus ==
    \A p \in Request :
        /\ status[p] = "none" =>
              step[p] \in EntrySteps \union {"idle", "unlock", "answered", "crashed"}
        /\ step[p] \in EntrySteps \union {"idle"} => status[p] = "none"
        /\ status[p] = "completing" => step[p] \in {"confirm", "commit"} \union Aftermath
        /\ status[p] = "completed" => step[p] \in {"cleanup"} \union Aftermath

\* A reconciler is at work only on a record that can no longer complete.
ReconcilerFitsStatus ==
    \A w \in Worker : step[w] \in ReconcileSteps =>
        job[w] \in Request /\ status[job[w]] \in {"compensating", "cancelled"}

\* The job settles only the charges of purchases whose outcome is final.
SettlerFitsStatus ==
    /\ \A p \in Request : step[p] \notin SettleSteps
    /\ \A s \in Sweeper :
          /\ step[s] \in SettleSteps => job[s] \in Request /\ payment[job[s]] # "none"
          /\ step[s] = "resolve" => status[job[s]] = "completed"
          /\ step[s] = "cancel" => status[job[s]] = "cancelled"

\* The charge of a record on its way to completion is still there.
ChargeFitsStep ==
    \A p \in Request :
        /\ status[p] = "none" => payment[p] = "none"
        /\ status[p] = "pending" /\ step[p] \in {"claim", "pay"} => payment[p] = "none"
        /\ status[p] = "pending" /\ step[p] \in {"bind", "lease"} => payment[p] = "unresolved"
        /\ status[p] = "completing" => payment[p] = "unresolved"

\* The unique index on (userId, idempotencyKey).
OneRecordPerOperation ==
    \A p, q \in Request :
        SameOperation(p, q) /\ status[p] # "none" /\ status[q] # "none" => p = q

ControlFits ==
    StepFitsStatus /\ ReconcilerFitsStatus /\ SettlerFitsStatus /\ ChargeFitsStep

IInv ==
    /\ TypeOK
    /\ ControlFits
    /\ ChargeMatchesOutcome
    /\ SaleIsAtomic
    /\ OneRecordPerOperation

-----------------------------------------------------------------------------
(***************************************************************************)
(* How a step moves its process, whichever call it makes.                  *)
(***************************************************************************)

\* Process w moves within the types, keeps its record unless it becomes idle, and
\* no other process moves.
Moves(w) ==
    /\ step' \in [Worker -> Step]
    /\ job' \in [Worker -> Request \union {Nobody}]
    /\ \A p \in Request : job'[p] = p
    /\ answer' \in [Request -> Answer]
    /\ faults' \in Nat
    /\ step'[w] # "idle" => job'[w] = job[w]
    /\ \A v \in Worker \ {w} : step'[v] = step[v] /\ job'[v] = job[v]

\* A step with any outcome of a call moves only its own process.
LEMMA GoToMoves ==
    ASSUME TypeOK, NEW w \in Worker, NEW s \in Step, GoTo(w, s), s = "idle" => w \in Sweeper,
           answer' \in [Request -> Answer], faults' \in Nat
    PROVE  Moves(w) /\ step'[w] = s
  BY NameAssumption DEF NameAssumption, TypeOK, GoTo, Moves, Worker

\* The step that follows an error, step by step.
LEMMA ErrorTable ==
    ASSUME NEW w \in Worker
    PROVE  /\ step[w] \in {"lookup", "acquire", "unlock"} => OnError(w) = "answered"
           /\ step[w] \in {"recheck", "available", "validate", "create", "winner",
                           "cleanup", "compensate"} => OnError(w) = "unlock"
           /\ step[w] = "bind" => OnError(w) = "revoke"
           /\ step[w] \in AttemptSteps \ {"bind"} => OnError(w) = "compensate"
           /\ step[w] = "release" => OnError(w) = "refundOnly"
           /\ step[w] \in {"refund", "refundOnly", "mark"} => OnError(w) = "yield"
           /\ step[w] = "yield" => OnError(w) = AfterReconcile(w)
           /\ step[w] \in SettleSteps \union StoppedSteps => OnError(w) = "idle"
  BY DEF OnError, EntrySteps, AttemptSteps, ReconcileSteps, SettleSteps, StoppedSteps

\* An error never makes a request idle: only a run of the job starts over.
LEMMA ErrorLeads ==
    ASSUME NEW w \in Worker, step[w] \in Step \ StoppedSteps,
           w \in Request => step[w] \notin SettleSteps
    PROVE  /\ OnError(w) \in Step
           /\ OnError(w) = "idle" => w \in Sweeper
  BY ErrorTable DEF AfterReconcile, Worker, Step, EntrySteps, AttemptSteps, ReconcileSteps,
                    SettleSteps, StoppedSteps

\* A call that throws sends its process to the step after the error.
LEMMA ThrowMoves ==
    ASSUME TypeOK, NEW w \in Worker, step[w] \notin StoppedSteps,
           w \in Request => step[w] \notin SettleSteps, Throw(w)
    PROVE  Moves(w) /\ step'[w] = OnError(w)
  <1>1. OnError(w) \in Step /\ (OnError(w) = "idle" => w \in Sweeper)
     BY ErrorLeads DEF TypeOK
  <1>2. answer' \in [Request -> Answer] /\ faults' \in Nat
     BY BoundAssumption DEF BoundAssumption, TypeOK, Throw, Respond, Answer
  <1>3. GoTo(w, OnError(w))
     BY DEF Throw
  <1> QED BY <1>1, <1>2, <1>3, GoToMoves

\* A call that returns sends its process to the next step.
LEMMA ProceedMoves ==
    ASSUME TypeOK, NEW w \in Worker, NEW s \in Step, s = "idle" => w \in Sweeper, Proceed(w, s)
    PROVE  Moves(w) /\ step'[w] = s
  <1>1. GoTo(w, s) /\ answer' \in [Request -> Answer] /\ faults' \in Nat
     BY DEF Proceed, TypeOK
  <1> QED BY <1>1, GoToMoves

\* A request that fails on what a call returned.
LEMMA AbortMoves ==
    ASSUME TypeOK, NEW p \in Request, NEW s \in Step \ {"idle"}, Abort(p, s)
    PROVE  Moves(p) /\ step'[p] = s
  <1>1. GoTo(p, s) /\ answer' \in [Request -> Answer] /\ faults' \in Nat
     BY DEF Abort, Respond, Answer, TypeOK
  <1> QED BY <1>1, GoToMoves DEF Worker

\* A write whose reply came back or was lost.
LEMMA ReplyMoves ==
    ASSUME TypeOK, NEW w \in Worker, step[w] \notin StoppedSteps,
           w \in Request => step[w] \notin SettleSteps,
           NEW s \in Step, s = "idle" => w \in Sweeper, Reply(w, s)
    PROVE  Moves(w) /\ step'[w] \in {s, OnError(w)}
  <1>1. CASE Proceed(w, s)
     BY <1>1, ProceedMoves
  <1>2. CASE Throw(w)
     BY <1>2, ThrowMoves
  <1> QED BY <1>1, <1>2 DEF Reply

\* What an operation replays is an answer.
LEMMA ReplayAnswers ==
    ASSUME TypeOK, NEW p \in Request, NEW q \in Recorded(p) PROVE ReplayOf(p, q) \in Answer
  BY DEF TypeOK, Recorded, ReplayOf, Status, Open, Answer

-----------------------------------------------------------------------------
(***************************************************************************)
(* What a step can do to the records and their payments.                   *)
(***************************************************************************)

\* The actions that write a status, a payment or a sale.
LEMMA RecordFrame ==
    ASSUME Next
    PROVE  \/ UNCHANGED <<status, payment, soldTo>>
           \/ \E p \in Request : \/ CreateRecord(p) \/ CreatePayment(p) \/ CancelLatePayment(p)
                                 \/ ClaimForCompletion(p) \/ CommitPurchase(p) \/ ClaimOwn(p)
                                 \/ \E s \in Sweeper : SweepRecord(s, p)
           \/ \E w \in Worker : CancelPayment(w) \/ MarkCancelled(w)
           \/ \E s \in Sweeper : SettlePayment(s)
  <1> USE DEF recordVars, processVars, holdVars
  <1>1. ASSUME NEW p \in Request, RequestStep(p)
        PROVE  \/ UNCHANGED <<status, payment, soldTo>>
               \/ CreateRecord(p) \/ CreatePayment(p) \/ CancelLatePayment(p)
               \/ ClaimForCompletion(p) \/ CommitPurchase(p) \/ ClaimOwn(p)
     BY <1>1
        DEF RequestStep, Replay, LookupNothing, AcquireLock, LockWaitTimesOut, CheckAvailable,
                 Validate, Reject, DuplicateKey, ClaimTickets, SetPaymentId, ConfirmClaims,
                 AttemptRefused, CleanupClaims, NothingToReconcile, ReleaseLock
  <1>2. ASSUME NEW w \in Worker, ReconcileStep(w)
        PROVE  UNCHANGED <<status, payment, soldTo>> \/ CancelPayment(w) \/ MarkCancelled(w)
     BY <1>2 DEF ReconcileStep, ReleaseClaims, YieldReconciliation
  <1>3. ASSUME NEW s \in Sweeper, SweeperStep(s)
        PROVE  \/ UNCHANGED <<status, payment, soldTo>>
               \/ \E p \in Request : SweepRecord(s, p)
               \/ SettlePayment(s) \/ CancelPayment(s) \/ MarkCancelled(s)
     BY <1>2, <1>3 DEF SweeperStep, SweepPayment, Worker
  <1>4. ASSUME NEW p \in Request, Submit(p) \/ LeaseExpires(p) PROVE UNCHANGED <<status, payment, soldTo>>
     BY <1>4 DEF Submit, LeaseExpires
  <1>5. ASSUME NEW w \in Worker, CallFails(w) \/ Crash(w) PROVE UNCHANGED <<status, payment, soldTo>>
     BY <1>5 DEF CallFails, Crash
  <1>6. ASSUME NEW u \in User, UserKeyExpires(u) \/ \E S \in SeatsOf[u] : HoldTickets(u, S)
        PROVE  UNCHANGED <<status, payment, soldTo>>
     BY <1>6 DEF UserKeyExpires, HoldTickets
  <1>7. ASSUME NEW t \in Ticket, TicketKeyExpires(t) PROVE UNCHANGED <<status, payment, soldTo>>
     BY <1>7 DEF TicketKeyExpires
  <1>8. ASSUME NEW k \in LockKey, LockExpires(k) PROVE UNCHANGED <<status, payment, soldTo>>
     BY <1>8 DEF LockExpires
  <1> QED BY <1>1, <1>2, <1>3, <1>4, <1>5, <1>6, <1>7, <1>8 DEF Next, Worker

\* A record changes its status only along the state machine.
LEMMA StatusStep ==
    ASSUME TypeOK, ReconcilerFitsStatus, Next, NEW p \in Request, status'[p] # status[p]
    PROVE  <<status[p], status'[p]>> \in Advance
  <1> USE DEF TypeOK, Advance
  <1>1. ASSUME NEW q \in Request, CreateRecord(q) PROVE <<status[p], status'[p]>> \in Advance
     BY <1>1 DEF CreateRecord, Recorded, SameOperation
  <1>2. ASSUME NEW q \in Request, ClaimForCompletion(q) PROVE <<status[p], status'[p]>> \in Advance
     BY <1>2 DEF ClaimForCompletion
  <1>3. ASSUME NEW q \in Request, CommitPurchase(q) PROVE <<status[p], status'[p]>> \in Advance
     BY <1>3 DEF CommitPurchase, OwnsCompletion
  <1>4. ASSUME NEW q \in Request, ClaimOwn(q) PROVE <<status[p], status'[p]>> \in Advance
     BY <1>4 DEF ClaimOwn, Reclaimable, TakeOver, Open
  <1>5. ASSUME NEW q \in Request, NEW s \in Sweeper, SweepRecord(s, q)
        PROVE  <<status[p], status'[p]>> \in Advance
     BY <1>5, NameAssumption DEF NameAssumption, SweepRecord, Reclaimable, TakeOver, Open
  <1>6. ASSUME NEW w \in Worker, MarkCancelled(w) PROVE <<status[p], status'[p]>> \in Advance
     BY <1>6 DEF MarkCancelled, OwnsReconciliation
  <1> QED BY <1>1, <1>2, <1>3, <1>4, <1>5, <1>6, RecordFrame
          DEF CreatePayment, CancelLatePayment, CancelPayment, SettlePayment, recordVars

\* What is decided stays decided.
OutcomesStand ==
    \A p \in Request :
        /\ status[p] \in {"compensating", "cancelled"} => status'[p] \in {"compensating", "cancelled"}
        /\ status[p] \in Terminal => status'[p] = status[p]
        /\ payment[p] # "none" => payment'[p] # "none"

\* No step takes a decision back.
LEMMA OutcomesStandStep ==
    ASSUME TypeOK, ReconcilerFitsStatus, Next PROVE OutcomesStand
  <1>1. ASSUME NEW p \in Request
        PROVE  /\ status[p] \in {"compensating", "cancelled"} => status'[p] \in {"compensating", "cancelled"}
               /\ status[p] \in Terminal => status'[p] = status[p]
     BY StatusStep DEF Advance, Terminal
  <1>2. ASSUME NEW p \in Request, payment[p] # "none" PROVE payment'[p] # "none"
     BY <1>2, RecordFrame
        DEF TypeOK, CreateRecord, CreatePayment, CancelLatePayment, ClaimForCompletion, CommitPurchase,
            ClaimOwn, SweepRecord, CancelPayment, MarkCancelled, SettlePayment, Cancelled, recordVars
  <1> QED BY <1>1, <1>2 DEF OutcomesStand

-----------------------------------------------------------------------------
(***************************************************************************)
(* Every step keeps the types and keeps the processes where they belong.   *)
(***************************************************************************)

\* A process that does not enter a reconciliation leaves all of them as they are.
LEMMA ReconcilersStay ==
    ASSUME TypeOK, ReconcilerFitsStatus, SettlerFitsStatus, OutcomesStand,
           NEW w \in Worker, Moves(w), step'[w] \notin SettleSteps,
           step'[w] \in ReconcileSteps => step[w] \in ReconcileSteps
    PROVE  ReconcilerFitsStatus' /\ SettlerFitsStatus'
  <1>1. ReconcilerFitsStatus'
    <2> SUFFICES ASSUME NEW v \in Worker, step'[v] \in ReconcileSteps
                 PROVE  job'[v] \in Request /\ status'[job'[v]] \in {"compensating", "cancelled"}
       BY DEF ReconcilerFitsStatus
    <2>1. step[v] \in ReconcileSteps /\ job'[v] = job[v]
       BY DEF Moves, ReconcileSteps
    <2> QED BY <2>1 DEF ReconcilerFitsStatus, OutcomesStand
  <1>2. ASSUME NEW p \in Request PROVE step'[p] \notin SettleSteps
     BY DEF Moves, SettlerFitsStatus, Worker
  <1>3. ASSUME NEW s \in Sweeper
        PROVE  /\ step'[s] \in SettleSteps => job'[s] \in Request /\ payment'[job'[s]] # "none"
               /\ step'[s] = "resolve" => status'[job'[s]] = "completed"
               /\ step'[s] = "cancel" => status'[job'[s]] = "cancelled"
    <2>1. step'[s] \in SettleSteps => step'[s] = step[s] /\ job'[s] = job[s]
       BY DEF Moves, Worker
    <2> QED BY <2>1 DEF SettlerFitsStatus, OutcomesStand, Terminal, SettleSteps
  <1> QED BY <1>1, <1>2, <1>3 DEF SettlerFitsStatus

\* Timeouts and the customers who choose seats move no process.
LEMMA Unmoved ==
    ASSUME ControlFits, UNCHANGED <<status, payment, step, job>> PROVE ControlFits'
  BY DEF ControlFits, StepFitsStatus, ReconcilerFitsStatus, SettlerFitsStatus, ChargeFitsStep

\* Every action keeps the types, and keeps step, status and charge in agreement.
LEMMA ControlStep ==
    ASSUME TypeOK, ControlFits, Next PROVE TypeOK' /\ ControlFits'
  <1>0. StepFitsStatus /\ ReconcilerFitsStatus /\ SettlerFitsStatus /\ ChargeFitsStep /\ OutcomesStand
     BY OutcomesStandStep DEF ControlFits
  <1> USE DEF Worker, EntrySteps, AttemptSteps, ReconcileSteps, SettleSteps, StoppedSteps,
              recordVars, holdVars, processVars
  <1>1. ASSUME NEW p \in Request, Submit(p) PROVE TypeOK' /\ ControlFits'
    <2>1. Moves(p) /\ step[p] = "idle" /\ step'[p] = "lookup"
       BY <1>1, ProceedMoves DEF Submit, Step
    <2>2. TypeOK'
       BY <1>1, <2>1, RequestAssumption
          DEF RequestAssumption, Submit, TypeOK, Moves, Status, Payment
    <2>3. StepFitsStatus'
       BY <1>0, <1>1, <2>1 DEF Submit, TypeOK, Moves, StepFitsStatus, Aftermath
    <2>4. ReconcilerFitsStatus' /\ SettlerFitsStatus'
       BY <1>0, <2>1, ReconcilersStay
    <2>5. ChargeFitsStep'
       BY <1>0, <1>1, <2>1 DEF Submit, TypeOK, Moves, ChargeFitsStep, StepFitsStatus, Aftermath
    <2> QED BY <2>2, <2>3, <2>4, <2>5 DEF ControlFits
  <1>2. ASSUME NEW p \in Request, Replay(p) PROVE TypeOK' /\ ControlFits'
    <2>1. /\ Moves(p) /\ step[p] \in {"lookup", "recheck", "winner"}
          /\ step'[p] = (IF step[p] = "lookup" THEN "answered" ELSE "unlock")
      <3>1. PICK q \in Recorded(p) : Respond(p, ReplayOf(p, q))
         BY <1>2 DEF Replay
      <3>2. answer' \in [Request -> Answer]
         BY <3>1, ReplayAnswers DEF TypeOK, Respond
      <3> QED BY <1>2, <3>2, GoToMoves DEF Replay, TypeOK, Step
    <2>2. TypeOK'
       BY <1>2, <2>1, RequestAssumption
          DEF RequestAssumption, Replay, Respond, TypeOK, Moves, Status, Payment
    <2>3. StepFitsStatus'
       BY <1>0, <1>2, <2>1 DEF Replay, Respond, TypeOK, Moves, StepFitsStatus, Aftermath
    <2>4. ReconcilerFitsStatus' /\ SettlerFitsStatus'
       BY <1>0, <2>1, ReconcilersStay
    <2>5. ChargeFitsStep'
       BY <1>0, <1>2, <2>1
          DEF Replay, Respond, TypeOK, Moves, ChargeFitsStep, StepFitsStatus, Aftermath
    <2> QED BY <2>2, <2>3, <2>4, <2>5 DEF ControlFits
  <1>3. ASSUME NEW p \in Request, LookupNothing(p) PROVE TypeOK' /\ ControlFits'
    <2>1. /\ Moves(p) /\ step[p] \in {"lookup", "recheck"}
          /\ step'[p] = (IF step[p] = "lookup" THEN "acquire" ELSE "available")
       BY <1>3, ProceedMoves DEF LookupNothing, Step
    <2>2. TypeOK'
       BY <1>3, <2>1, RequestAssumption
          DEF RequestAssumption, LookupNothing, TypeOK, Moves, Status, Payment
    <2>3. StepFitsStatus'
       BY <1>0, <1>3, <2>1 DEF LookupNothing, TypeOK, Moves, StepFitsStatus, Aftermath
    <2>4. ReconcilerFitsStatus' /\ SettlerFitsStatus'
       BY <1>0, <2>1, ReconcilersStay
    <2>5. ChargeFitsStep'
       BY <1>0, <1>3, <2>1
          DEF LookupNothing, TypeOK, Moves, ChargeFitsStep, StepFitsStatus, Aftermath
    <2> QED BY <2>2, <2>3, <2>4, <2>5 DEF ControlFits
  <1>4. ASSUME NEW p \in Request, AcquireLock(p) PROVE TypeOK' /\ ControlFits'
    <2>1. /\ Moves(p) /\ step[p] = "acquire"
          /\ step'[p] \in {"recheck", "answered"}
      <3>1. step[p] = "acquire" /\ Reply(p, "recheck")
         BY <1>4 DEF AcquireLock
      <3>2. OnError(p) = "answered"
         BY <3>1, ErrorTable
      <3> QED BY <3>1, <3>2, ReplyMoves DEF Step
    <2>2. TypeOK'
       BY <1>4, <2>1, RequestAssumption
          DEF RequestAssumption, AcquireLock, TypeOK, Moves, Status, Payment
    <2>3. StepFitsStatus'
       BY <1>0, <1>4, <2>1 DEF AcquireLock, TypeOK, Moves, StepFitsStatus, Aftermath
    <2>4. ReconcilerFitsStatus' /\ SettlerFitsStatus'
       BY <1>0, <2>1, ReconcilersStay
    <2>5. ChargeFitsStep'
       BY <1>0, <1>4, <2>1
          DEF AcquireLock, TypeOK, Moves, ChargeFitsStep, StepFitsStatus, Aftermath
    <2> QED BY <2>2, <2>3, <2>4, <2>5 DEF ControlFits
  <1>5. ASSUME NEW p \in Request, LockWaitTimesOut(p) PROVE TypeOK' /\ ControlFits'
    <2>1. Moves(p) /\ step[p] = "acquire" /\ step'[p] = "answered"
       BY <1>5, AbortMoves DEF LockWaitTimesOut, Step
    <2>2. TypeOK'
       BY <1>5, <2>1, RequestAssumption
          DEF RequestAssumption, LockWaitTimesOut, TypeOK, Moves, Status, Payment
    <2>3. StepFitsStatus'
       BY <1>0, <1>5, <2>1 DEF LockWaitTimesOut, TypeOK, Moves, StepFitsStatus, Aftermath
    <2>4. ReconcilerFitsStatus' /\ SettlerFitsStatus'
       BY <1>0, <2>1, ReconcilersStay
    <2>5. ChargeFitsStep'
       BY <1>0, <1>5, <2>1
          DEF LockWaitTimesOut, TypeOK, Moves, ChargeFitsStep, StepFitsStatus, Aftermath
    <2> QED BY <2>2, <2>3, <2>4, <2>5 DEF ControlFits
  <1>6. ASSUME NEW p \in Request, CheckAvailable(p) PROVE TypeOK' /\ ControlFits'
    <2>1. Moves(p) /\ step[p] = "available" /\ step'[p] = "validate"
       BY <1>6, ProceedMoves DEF CheckAvailable, Step
    <2>2. TypeOK'
       BY <1>6, <2>1, RequestAssumption
          DEF RequestAssumption, CheckAvailable, TypeOK, Moves, Status, Payment
    <2>3. StepFitsStatus'
       BY <1>0, <1>6, <2>1 DEF CheckAvailable, TypeOK, Moves, StepFitsStatus, Aftermath
    <2>4. ReconcilerFitsStatus' /\ SettlerFitsStatus'
       BY <1>0, <2>1, ReconcilersStay
    <2>5. ChargeFitsStep'
       BY <1>0, <1>6, <2>1
          DEF CheckAvailable, TypeOK, Moves, ChargeFitsStep, StepFitsStatus, Aftermath
    <2> QED BY <2>2, <2>3, <2>4, <2>5 DEF ControlFits
  <1>7. ASSUME NEW p \in Request, Validate(p) PROVE TypeOK' /\ ControlFits'
    <2>1. Moves(p) /\ step[p] = "validate" /\ step'[p] = "create"
       BY <1>7, ProceedMoves DEF Validate, Step
    <2>2. TypeOK'
       BY <1>7, <2>1, RequestAssumption
          DEF RequestAssumption, Validate, TypeOK, Moves, Status, Payment
    <2>3. StepFitsStatus'
       BY <1>0, <1>7, <2>1 DEF Validate, TypeOK, Moves, StepFitsStatus, Aftermath
    <2>4. ReconcilerFitsStatus' /\ SettlerFitsStatus'
       BY <1>0, <2>1, ReconcilersStay
    <2>5. ChargeFitsStep'
       BY <1>0, <1>7, <2>1
          DEF Validate, TypeOK, Moves, ChargeFitsStep, StepFitsStatus, Aftermath
    <2> QED BY <2>2, <2>3, <2>4, <2>5 DEF ControlFits
  <1>8. ASSUME NEW p \in Request, Reject(p) PROVE TypeOK' /\ ControlFits'
    <2>1. Moves(p) /\ step[p] \in {"available", "validate"} /\ step'[p] = "unlock"
      <3>1. answer' \in [Request -> Answer]
         BY <1>8 DEF Reject, TypeOK, Respond, Answer
      <3> QED BY <1>8, <3>1, GoToMoves DEF Reject, TypeOK, Step
    <2>2. TypeOK'
       BY <1>8, <2>1, RequestAssumption
          DEF RequestAssumption, Reject, Respond, TypeOK, Moves, Status, Payment
    <2>3. StepFitsStatus'
       BY <1>0, <1>8, <2>1 DEF Reject, Respond, TypeOK, Moves, StepFitsStatus, Aftermath
    <2>4. ReconcilerFitsStatus' /\ SettlerFitsStatus'
       BY <1>0, <2>1, ReconcilersStay
    <2>5. ChargeFitsStep'
       BY <1>0, <1>8, <2>1
          DEF Reject, Respond, TypeOK, Moves, ChargeFitsStep, StepFitsStatus, Aftermath
    <2> QED BY <2>2, <2>3, <2>4, <2>5 DEF ControlFits
  <1>9. ASSUME NEW p \in Request, CreateRecord(p) PROVE TypeOK' /\ ControlFits'
    <2>1. /\ Moves(p) /\ step[p] = "create"
          /\ step'[p] \in {"claim", "unlock"}
      <3>1. step[p] = "create" /\ Reply(p, "claim")
         BY <1>9 DEF CreateRecord
      <3>2. OnError(p) = "unlock"
         BY <3>1, ErrorTable
      <3> QED BY <3>1, <3>2, ReplyMoves DEF Step
    <2>2. TypeOK'
       BY <1>9, <2>1, RequestAssumption
          DEF RequestAssumption, CreateRecord, Recorded, SameOperation, TypeOK, Moves, Status,
              Payment
    <2>3. StepFitsStatus'
       BY <1>0, <1>9, <2>1
          DEF CreateRecord, Recorded, SameOperation, TypeOK, Moves, StepFitsStatus, Aftermath
    <2>4. ReconcilerFitsStatus' /\ SettlerFitsStatus'
       BY <1>0, <2>1, ReconcilersStay
    <2>5. ChargeFitsStep'
       BY <1>0, <1>9, <2>1
          DEF CreateRecord, Recorded, SameOperation, TypeOK, Moves, ChargeFitsStep,
              StepFitsStatus, Aftermath
    <2> QED BY <2>2, <2>3, <2>4, <2>5 DEF ControlFits
  <1>10. ASSUME NEW p \in Request, DuplicateKey(p) PROVE TypeOK' /\ ControlFits'
    <2>1. Moves(p) /\ step[p] = "create" /\ step'[p] = "winner"
       BY <1>10, ProceedMoves DEF DuplicateKey, Step
    <2>2. TypeOK'
       BY <1>10, <2>1, RequestAssumption
          DEF RequestAssumption, DuplicateKey, TypeOK, Moves, Status, Payment
    <2>3. StepFitsStatus'
       BY <1>0, <1>10, <2>1 DEF DuplicateKey, TypeOK, Moves, StepFitsStatus, Aftermath
    <2>4. ReconcilerFitsStatus' /\ SettlerFitsStatus'
       BY <1>0, <2>1, ReconcilersStay
    <2>5. ChargeFitsStep'
       BY <1>0, <1>10, <2>1
          DEF DuplicateKey, TypeOK, Moves, ChargeFitsStep, StepFitsStatus, Aftermath
    <2> QED BY <2>2, <2>3, <2>4, <2>5 DEF ControlFits
  <1>11. ASSUME NEW p \in Request, ClaimTickets(p) PROVE TypeOK' /\ ControlFits'
    <2>1. /\ Moves(p) /\ step[p] = "claim"
          /\ step'[p] \in {"pay", "compensate"}
      <3>1. step[p] = "claim" /\ Reply(p, "pay")
         BY <1>11 DEF ClaimTickets
      <3>2. OnError(p) = "compensate"
         BY <3>1, ErrorTable
      <3> QED BY <3>1, <3>2, ReplyMoves DEF Step
    <2>2. TypeOK'
       BY <1>11, <2>1, RequestAssumption
          DEF RequestAssumption, ClaimTickets, TypeOK, Moves, Status, Payment
    <2>3. StepFitsStatus'
       BY <1>0, <1>11, <2>1 DEF ClaimTickets, TypeOK, Moves, StepFitsStatus, Aftermath
    <2>4. ReconcilerFitsStatus' /\ SettlerFitsStatus'
       BY <1>0, <2>1, ReconcilersStay
    <2>5. ChargeFitsStep'
       BY <1>0, <1>11, <2>1
          DEF ClaimTickets, TypeOK, Moves, ChargeFitsStep, StepFitsStatus, Aftermath
    <2> QED BY <2>2, <2>3, <2>4, <2>5 DEF ControlFits
  <1>12. ASSUME NEW p \in Request, CreatePayment(p) PROVE TypeOK' /\ ControlFits'
    <2>1. /\ Moves(p) /\ step[p] = "pay"
          /\ step'[p] \in {"bind", "compensate"}
      <3>1. step[p] = "pay" /\ Reply(p, "bind")
         BY <1>12 DEF CreatePayment
      <3>2. OnError(p) = "compensate"
         BY <3>1, ErrorTable
      <3> QED BY <3>1, <3>2, ReplyMoves DEF Step
    <2>2. TypeOK'
       BY <1>12, <2>1, RequestAssumption
          DEF RequestAssumption, CreatePayment, TypeOK, Moves, Status, Payment
    <2>3. StepFitsStatus'
       BY <1>0, <1>12, <2>1 DEF CreatePayment, TypeOK, Moves, StepFitsStatus, Aftermath
    <2>4. ReconcilerFitsStatus' /\ SettlerFitsStatus'
       BY <1>0, <2>1, ReconcilersStay
    <2>5. ChargeFitsStep'
       BY <1>0, <1>12, <2>1
          DEF CreatePayment, TypeOK, Moves, ChargeFitsStep, StepFitsStatus, Aftermath
    <2> QED BY <2>2, <2>3, <2>4, <2>5 DEF ControlFits
  <1>13. ASSUME NEW p \in Request, SetPaymentId(p) PROVE TypeOK' /\ ControlFits'
    <2>1. /\ Moves(p) /\ step[p] = "bind"
          /\ step'[p] \in {"lease", "revoke"}
      <3>1. step[p] = "bind" /\ Reply(p, "lease")
         BY <1>13 DEF SetPaymentId
      <3>2. OnError(p) = "revoke"
         BY <3>1, ErrorTable
      <3> QED BY <3>1, <3>2, ReplyMoves DEF Step
    <2>2. TypeOK'
       BY <1>13, <2>1, RequestAssumption
          DEF RequestAssumption, SetPaymentId, TypeOK, Moves, Status, Payment
    <2>3. StepFitsStatus'
       BY <1>0, <1>13, <2>1 DEF SetPaymentId, TypeOK, Moves, StepFitsStatus, Aftermath
    <2>4. ReconcilerFitsStatus' /\ SettlerFitsStatus'
       BY <1>0, <2>1, ReconcilersStay
    <2>5. ChargeFitsStep'
       BY <1>0, <1>13, <2>1
          DEF SetPaymentId, TypeOK, Moves, ChargeFitsStep, StepFitsStatus, Aftermath
    <2> QED BY <2>2, <2>3, <2>4, <2>5 DEF ControlFits
  <1>14. ASSUME NEW p \in Request, CancelLatePayment(p) PROVE TypeOK' /\ ControlFits'
    <2>1. /\ Moves(p) /\ step[p] = "revoke"
          /\ step'[p] = "compensate"
      <3>1. step[p] = "revoke" /\ Reply(p, "compensate")
         BY <1>14 DEF CancelLatePayment
      <3>2. OnError(p) = "compensate"
         BY <3>1, ErrorTable
      <3> QED BY <3>1, <3>2, ReplyMoves DEF Step
    <2>2. TypeOK'
       BY <1>14, <2>1, RequestAssumption
          DEF RequestAssumption, CancelLatePayment, Cancelled, TypeOK, Moves, Status, Payment
    <2>3. StepFitsStatus'
       BY <1>0, <1>14, <2>1
          DEF CancelLatePayment, Cancelled, TypeOK, Moves, StepFitsStatus, Aftermath
    <2>4. ReconcilerFitsStatus' /\ SettlerFitsStatus'
       BY <1>0, <2>1, ReconcilersStay
    <2>5. ChargeFitsStep'
       BY <1>0, <1>14, <2>1
          DEF CancelLatePayment, Cancelled, TypeOK, Moves, ChargeFitsStep, StepFitsStatus,
              Aftermath
    <2> QED BY <2>2, <2>3, <2>4, <2>5 DEF ControlFits
  <1>15. ASSUME NEW p \in Request, ClaimForCompletion(p) PROVE TypeOK' /\ ControlFits'
    <2>1. /\ Moves(p) /\ step[p] = "lease"
          /\ step'[p] \in {"confirm", "compensate"}
      <3>1. step[p] = "lease" /\ Reply(p, "confirm")
         BY <1>15 DEF ClaimForCompletion
      <3>2. OnError(p) = "compensate"
         BY <3>1, ErrorTable
      <3> QED BY <3>1, <3>2, ReplyMoves DEF Step
    <2>2. TypeOK'
       BY <1>15, <2>1, RequestAssumption
          DEF RequestAssumption, ClaimForCompletion, TypeOK, Moves, Status, Payment
    <2>3. StepFitsStatus'
       BY <1>0, <1>15, <2>1 DEF ClaimForCompletion, TypeOK, Moves, StepFitsStatus, Aftermath
    <2>4. ReconcilerFitsStatus' /\ SettlerFitsStatus'
       BY <1>0, <2>1, ReconcilersStay
    <2>5. ChargeFitsStep'
       BY <1>0, <1>15, <2>1
          DEF ClaimForCompletion, TypeOK, Moves, ChargeFitsStep, StepFitsStatus, Aftermath
    <2> QED BY <2>2, <2>3, <2>4, <2>5 DEF ControlFits
  <1>16. ASSUME NEW p \in Request, ConfirmClaims(p) PROVE TypeOK' /\ ControlFits'
    <2>1. Moves(p) /\ step[p] = "confirm" /\ step'[p] = "commit"
       BY <1>16, ProceedMoves DEF ConfirmClaims, Step
    <2>2. TypeOK'
       BY <1>16, <2>1, RequestAssumption
          DEF RequestAssumption, ConfirmClaims, TypeOK, Moves, Status, Payment
    <2>3. StepFitsStatus'
       BY <1>0, <1>16, <2>1 DEF ConfirmClaims, TypeOK, Moves, StepFitsStatus, Aftermath
    <2>4. ReconcilerFitsStatus' /\ SettlerFitsStatus'
       BY <1>0, <2>1, ReconcilersStay
    <2>5. ChargeFitsStep'
       BY <1>0, <1>16, <2>1
          DEF ConfirmClaims, TypeOK, Moves, ChargeFitsStep, StepFitsStatus, Aftermath
    <2> QED BY <2>2, <2>3, <2>4, <2>5 DEF ControlFits
  <1>17. ASSUME NEW p \in Request, CommitPurchase(p) PROVE TypeOK' /\ ControlFits'
    <2>1. /\ Moves(p) /\ step[p] = "commit"
          /\ step'[p] \in {"cleanup", "compensate"}
      <3>1. step[p] = "commit" /\ Reply(p, "cleanup")
         BY <1>17 DEF CommitPurchase
      <3>2. OnError(p) = "compensate"
         BY <3>1, ErrorTable
      <3> QED BY <3>1, <3>2, ReplyMoves DEF Step
    <2>2. TypeOK'
       BY <1>17, <2>1, RequestAssumption
          DEF RequestAssumption, CommitPurchase, OwnsCompletion, TypeOK, Moves, Status, Payment
    <2>3. StepFitsStatus'
       BY <1>0, <1>17, <2>1
          DEF CommitPurchase, OwnsCompletion, TypeOK, Moves, StepFitsStatus, Aftermath
    <2>4. ReconcilerFitsStatus' /\ SettlerFitsStatus'
       BY <1>0, <2>1, ReconcilersStay
    <2>5. ChargeFitsStep'
       BY <1>0, <1>17, <2>1
          DEF CommitPurchase, OwnsCompletion, TypeOK, Moves, ChargeFitsStep, StepFitsStatus,
              Aftermath
    <2> QED BY <2>2, <2>3, <2>4, <2>5 DEF ControlFits
  <1>18. ASSUME NEW p \in Request, AttemptRefused(p) PROVE TypeOK' /\ ControlFits'
    <2>1. /\ Moves(p) /\ step[p] \in AttemptSteps
          /\ step'[p] = (IF step[p] = "bind" THEN "revoke" ELSE "compensate")
       BY <1>18, AbortMoves DEF AttemptRefused, Step
    <2>2. TypeOK'
       BY <1>18, <2>1, RequestAssumption
          DEF RequestAssumption, AttemptRefused, TypeOK, Moves, Status, Payment
    <2>3. StepFitsStatus'
       BY <1>0, <1>18, <2>1 DEF AttemptRefused, TypeOK, Moves, StepFitsStatus, Aftermath
    <2>4. ReconcilerFitsStatus' /\ SettlerFitsStatus'
       BY <1>0, <2>1, ReconcilersStay
    <2>5. ChargeFitsStep'
       BY <1>0, <1>18, <2>1
          DEF AttemptRefused, TypeOK, Moves, ChargeFitsStep, StepFitsStatus, Aftermath
    <2> QED BY <2>2, <2>3, <2>4, <2>5 DEF ControlFits
  <1>19. ASSUME NEW p \in Request, CleanupClaims(p) PROVE TypeOK' /\ ControlFits'
    <2>1. Moves(p) /\ step[p] = "cleanup" /\ step'[p] = "unlock"
      <3>1. step[p] = "cleanup" /\ answer' \in [Request -> Answer]
         BY <1>19 DEF CleanupClaims, TypeOK, Respond, Answer
      <3>2. CASE GoTo(p, "unlock") /\ UNCHANGED faults
         BY <3>1, <3>2, GoToMoves DEF TypeOK, Step
      <3>3. CASE Throw(p)
         BY <3>1, <3>3, ThrowMoves, ErrorTable
      <3> QED BY <1>19, <3>2, <3>3 DEF CleanupClaims
    <2>2. TypeOK'
       BY <1>19, <2>1, RequestAssumption
          DEF RequestAssumption, CleanupClaims, Released, Respond, TypeOK, Moves, Status,
              Payment
    <2>3. StepFitsStatus'
       BY <1>0, <1>19, <2>1
          DEF CleanupClaims, Released, Respond, TypeOK, Moves, StepFitsStatus, Aftermath
    <2>4. ReconcilerFitsStatus' /\ SettlerFitsStatus'
       BY <1>0, <2>1, ReconcilersStay
    <2>5. ChargeFitsStep'
       BY <1>0, <1>19, <2>1
          DEF CleanupClaims, Released, Respond, TypeOK, Moves, ChargeFitsStep, StepFitsStatus,
              Aftermath
    <2> QED BY <2>2, <2>3, <2>4, <2>5 DEF ControlFits
  <1>20. ASSUME NEW p \in Request, ClaimOwn(p) PROVE TypeOK' /\ ControlFits'
    <2>1. /\ Moves(p) /\ step[p] = "compensate"
          /\ step'[p] \in {"release", "unlock"}
      <3>1. step[p] = "compensate" /\ Reply(p, "release")
         BY <1>20 DEF ClaimOwn
      <3>2. OnError(p) = "unlock"
         BY <3>1, ErrorTable
      <3> QED BY <3>1, <3>2, ReplyMoves DEF Step
    <2>4. ReconcilerFitsStatus' /\ SettlerFitsStatus'
      <3>1. status' = [status EXCEPT ![p] = "compensating"]
         BY <1>20 DEF ClaimOwn, TakeOver
      <3>2. ReconcilerFitsStatus'
         BY <1>0, <2>1, <3>1 DEF Moves, TypeOK, ReconcilerFitsStatus
      <3>3. SettlerFitsStatus'
         BY <1>0, <1>20, <2>1
            DEF ClaimOwn, Moves, TypeOK, SettlerFitsStatus, OutcomesStand, Terminal
      <3> QED BY <3>2, <3>3
    <2>2. TypeOK'
       BY <1>20, <2>1, RequestAssumption
          DEF RequestAssumption, ClaimOwn, Reclaimable, TakeOver, TypeOK, Moves, Status, Payment
    <2>3. StepFitsStatus'
       BY <1>0, <1>20, <2>1
          DEF ClaimOwn, Reclaimable, TakeOver, TypeOK, Moves, StepFitsStatus, Aftermath
    <2>5. ChargeFitsStep'
       BY <1>0, <1>20, <2>1
          DEF ClaimOwn, Reclaimable, TakeOver, TypeOK, Moves, ChargeFitsStep, StepFitsStatus,
              Aftermath
    <2> QED BY <2>2, <2>3, <2>4, <2>5 DEF ControlFits
  <1>21. ASSUME NEW p \in Request, NothingToReconcile(p) PROVE TypeOK' /\ ControlFits'
    <2>1. Moves(p) /\ step[p] = "compensate" /\ step'[p] = "unlock"
       BY <1>21, ProceedMoves DEF NothingToReconcile, Step
    <2>2. TypeOK'
       BY <1>21, <2>1, RequestAssumption
          DEF RequestAssumption, NothingToReconcile, TypeOK, Moves, Status, Payment
    <2>3. StepFitsStatus'
       BY <1>0, <1>21, <2>1 DEF NothingToReconcile, TypeOK, Moves, StepFitsStatus, Aftermath
    <2>4. ReconcilerFitsStatus' /\ SettlerFitsStatus'
       BY <1>0, <2>1, ReconcilersStay
    <2>5. ChargeFitsStep'
       BY <1>0, <1>21, <2>1
          DEF NothingToReconcile, TypeOK, Moves, ChargeFitsStep, StepFitsStatus, Aftermath
    <2> QED BY <2>2, <2>3, <2>4, <2>5 DEF ControlFits
  <1>22. ASSUME NEW p \in Request, ReleaseLock(p) PROVE TypeOK' /\ ControlFits'
    <2>1. /\ Moves(p) /\ step[p] = "unlock"
          /\ step'[p] = "answered"
      <3>1. step[p] = "unlock" /\ Reply(p, "answered")
         BY <1>22 DEF ReleaseLock
      <3>2. OnError(p) = "answered"
         BY <3>1, ErrorTable
      <3> QED BY <3>1, <3>2, ReplyMoves DEF Step
    <2>2. TypeOK'
       BY <1>22, <2>1, RequestAssumption
          DEF RequestAssumption, ReleaseLock, TypeOK, Moves, Status, Payment
    <2>3. StepFitsStatus'
       BY <1>0, <1>22, <2>1 DEF ReleaseLock, TypeOK, Moves, StepFitsStatus, Aftermath
    <2>4. ReconcilerFitsStatus' /\ SettlerFitsStatus'
       BY <1>0, <2>1, ReconcilersStay
    <2>5. ChargeFitsStep'
       BY <1>0, <1>22, <2>1
          DEF ReleaseLock, TypeOK, Moves, ChargeFitsStep, StepFitsStatus, Aftermath
    <2> QED BY <2>2, <2>3, <2>4, <2>5 DEF ControlFits
  <1>23. ASSUME NEW s \in Sweeper, NEW p \in Request, SweepRecord(s, p) PROVE TypeOK' /\ ControlFits'
    <2>1. /\ step[s] = "idle" /\ status[p] \in Open /\ UNCHANGED payment
          /\ status' = [status EXCEPT ![p] = "compensating"]
       BY <1>23 DEF SweepRecord, Reclaimable, TakeOver, Open
    <2>2. /\ step' \in [Worker -> Step] /\ job' \in [Worker -> Request \union {Nobody}]
          /\ answer' \in [Request -> Answer] /\ faults' \in Nat
          /\ \A v \in Worker \ {s} : step'[v] = step[v] /\ job'[v] = job[v]
          /\ step'[s] \in {"idle", "release"}
          /\ step'[s] = "release" => job'[s] = p
      <3>1. CASE /\ step' = [step EXCEPT ![s] = "release"]
                 /\ job' = [job EXCEPT ![s] = p]
                 /\ UNCHANGED <<answer, faults>>
         BY <3>1 DEF TypeOK, Step
      <3>2. CASE Throw(s)
        <4>1. OnError(s) = "idle"
           BY <2>1, ErrorTable
        <4>2. answer' \in [Request -> Answer] /\ faults' \in Nat
           BY <3>2, BoundAssumption DEF Throw, TypeOK, Respond, Answer, BoundAssumption
        <4> QED BY <3>2, <4>1, <4>2, GoToMoves DEF Throw, Moves, Step
      <3> QED BY <1>23, <3>1, <3>2 DEF SweepRecord
    <2>3. TypeOK'
       BY <1>23, <2>2, NameAssumption DEF NameAssumption, SweepRecord, TakeOver, TypeOK, Status
    <2>4. StepFitsStatus'
       BY <1>0, <2>1, <2>2, NameAssumption DEF NameAssumption, StepFitsStatus, Open, TypeOK
    <2>5. ReconcilerFitsStatus'
       BY <1>0, <2>1, <2>2 DEF ReconcilerFitsStatus, TypeOK
    <2>6. SettlerFitsStatus'
       BY <1>0, <2>1, <2>2, NameAssumption DEF NameAssumption, SettlerFitsStatus, Open, TypeOK
    <2>7. ChargeFitsStep'
       BY <1>0, <2>1, <2>2, NameAssumption DEF NameAssumption, ChargeFitsStep, TypeOK
    <2> QED BY <2>3, <2>4, <2>5, <2>6, <2>7 DEF ControlFits
  <1>24. ASSUME NEW s \in Sweeper, NEW p \in Request, SweepPayment(s, p) PROVE TypeOK' /\ ControlFits'
    <2>1. /\ step[s] = "idle" /\ payment[p] = "unresolved" /\ status[p] \in Terminal
          /\ step' = [step EXCEPT ![s] = IF status[p] = "completed" THEN "resolve" ELSE "cancel"]
          /\ job' = [job EXCEPT ![s] = p]
          /\ UNCHANGED <<status, payment>>
       BY <1>24 DEF SweepPayment
    <2>2. TypeOK'
       BY <1>24, <2>1, NameAssumption DEF NameAssumption, SweepPayment, TypeOK, Step
    <2>3. StepFitsStatus'
       BY <1>0, <2>1, NameAssumption DEF NameAssumption, StepFitsStatus, TypeOK
    <2>4. ReconcilerFitsStatus'
       BY <1>0, <2>1 DEF ReconcilerFitsStatus, TypeOK
    <2>5. SettlerFitsStatus'
       BY <1>0, <2>1, NameAssumption DEF NameAssumption, SettlerFitsStatus, Terminal, TypeOK
    <2>6. ChargeFitsStep'
       BY <1>0, <2>1, NameAssumption DEF NameAssumption, ChargeFitsStep, TypeOK
    <2> QED BY <2>2, <2>3, <2>4, <2>5, <2>6 DEF ControlFits
  <1>25. ASSUME NEW s \in Sweeper, SettlePayment(s) PROVE TypeOK' /\ ControlFits'
    <2>1. Moves(s) /\ step[s] \in SettleSteps /\ step'[s] = "idle"
      <3>1. step[s] \in SettleSteps /\ Reply(s, "idle")
         BY <1>25 DEF SettlePayment
      <3>2. OnError(s) = "idle"
         BY <3>1, ErrorTable
      <3> QED BY <3>1, <3>2, ReplyMoves, NameAssumption DEF NameAssumption, Step
    <2>2. TypeOK'
       BY <1>25, <2>1, RequestAssumption
          DEF RequestAssumption, SettlePayment, TypeOK, Moves, Status, Payment
    <2>3. StepFitsStatus'
       BY <1>0, <1>25, <2>1, NameAssumption
          DEF NameAssumption, SettlePayment, TypeOK, Moves, StepFitsStatus, Aftermath
    <2>4. ReconcilerFitsStatus' /\ SettlerFitsStatus'
       BY <1>0, <2>1, ReconcilersStay
    <2>5. ChargeFitsStep'
       BY <1>0, <1>25, <2>1
          DEF SettlePayment, TypeOK, Moves, ChargeFitsStep, StepFitsStatus, Aftermath,
              SettlerFitsStatus
    <2> QED BY <2>2, <2>3, <2>4, <2>5 DEF ControlFits
  <1>26. ASSUME NEW w \in Worker, ReleaseClaims(w) PROVE TypeOK' /\ ControlFits'
    <2>1. /\ Moves(w) /\ step[w] = "release"
          /\ step'[w] \in {"refund", "refundOnly"}
      <3>1. step[w] = "release" /\ Reply(w, "refund")
         BY <1>26 DEF ReleaseClaims
      <3>2. OnError(w) = "refundOnly"
         BY <3>1, ErrorTable
      <3> QED BY <3>1, <3>2, ReplyMoves DEF Step
    <2>2. TypeOK'
       BY <1>26, <2>1, RequestAssumption
          DEF RequestAssumption, ReleaseClaims, Released, TypeOK, Moves, Status, Payment
    <2>3. StepFitsStatus'
       BY <1>0, <1>26, <2>1
          DEF ReleaseClaims, Released, TypeOK, Moves, StepFitsStatus, Aftermath
    <2>4. ReconcilerFitsStatus' /\ SettlerFitsStatus'
       BY <1>0, <2>1, ReconcilersStay
    <2>5. ChargeFitsStep'
       BY <1>0, <1>26, <2>1
          DEF ReleaseClaims, Released, TypeOK, Moves, ChargeFitsStep, StepFitsStatus, Aftermath
    <2> QED BY <2>2, <2>3, <2>4, <2>5 DEF ControlFits
  <1>27. ASSUME NEW w \in Worker, CancelPayment(w) PROVE TypeOK' /\ ControlFits'
    <2>1. /\ Moves(w) /\ step[w] \in {"refund", "refundOnly"}
          /\ step'[w] \in {"mark", "yield"}
      <3>1. /\ step[w] \in {"refund", "refundOnly"}
            /\ Reply(w, IF step[w] = "refund" THEN "mark" ELSE "yield")
         BY <1>27 DEF CancelPayment
      <3>2. OnError(w) = "yield"
         BY <3>1, ErrorTable
      <3> QED BY <3>1, <3>2, ReplyMoves DEF Step
    <2>2. TypeOK'
       BY <1>27, <2>1, RequestAssumption
          DEF RequestAssumption, CancelPayment, Cancelled, TypeOK, Moves, Status, Payment
    <2>3. StepFitsStatus'
       BY <1>0, <1>27, <2>1
          DEF CancelPayment, Cancelled, TypeOK, Moves, StepFitsStatus, Aftermath
    <2>4. ReconcilerFitsStatus' /\ SettlerFitsStatus'
       BY <1>0, <2>1, ReconcilersStay
    <2>5. ChargeFitsStep'
       BY <1>0, <1>27, <2>1
          DEF CancelPayment, Cancelled, TypeOK, Moves, ChargeFitsStep, StepFitsStatus,
              Aftermath, ReconcilerFitsStatus
    <2> QED BY <2>2, <2>3, <2>4, <2>5 DEF ControlFits
  <1>28. ASSUME NEW w \in Worker, MarkCancelled(w) PROVE TypeOK' /\ ControlFits'
    <2>1. /\ Moves(w) /\ step[w] = "mark"
          /\ step'[w] \in (IF w \in Request THEN {"unlock", "yield"} ELSE {"idle", "yield"})
      <3>1. step[w] = "mark" /\ Reply(w, AfterReconcile(w))
         BY <1>28 DEF MarkCancelled
      <3>2. OnError(w) = "yield"
         BY <3>1, ErrorTable
      <3> QED BY <3>1, <3>2, ReplyMoves DEF Step, AfterReconcile
    <2>2. TypeOK'
      <3>1. status' \in [Request -> Status]
         BY <1>28 DEF MarkCancelled, TypeOK, Status
      <3>2. reconciliationId' \in [Request -> Worker \union {Nobody}]
         BY <1>28 DEF MarkCancelled, TypeOK
      <3>3. leaseExpired' \in [Request -> BOOLEAN]
         BY <1>28 DEF MarkCancelled, TypeOK
      <3> QED BY <1>28, <2>1, <3>1, <3>2, <3>3 DEF MarkCancelled, TypeOK, Moves
    <2>3. StepFitsStatus'
       BY <1>0, <1>28, <2>1
          DEF MarkCancelled, OwnsReconciliation, TypeOK, Moves, StepFitsStatus, Aftermath,
              ReconcilerFitsStatus
    <2>4. ReconcilerFitsStatus' /\ SettlerFitsStatus'
       BY <1>0, <2>1, ReconcilersStay
    <2>5. ChargeFitsStep'
       BY <1>0, <1>28, <2>1
          DEF MarkCancelled, OwnsReconciliation, TypeOK, Moves, ChargeFitsStep, StepFitsStatus,
              Aftermath, ReconcilerFitsStatus
    <2> QED BY <2>2, <2>3, <2>4, <2>5 DEF ControlFits
  <1>29. ASSUME NEW w \in Worker, YieldReconciliation(w) PROVE TypeOK' /\ ControlFits'
    <2>1. /\ Moves(w) /\ step[w] = "yield"
          /\ step'[w] = (IF w \in Request THEN "unlock" ELSE "idle")
      <3>1. step[w] = "yield" /\ Reply(w, AfterReconcile(w))
         BY <1>29 DEF YieldReconciliation
      <3>2. OnError(w) = AfterReconcile(w)
         BY <3>1, ErrorTable
      <3> QED BY <3>1, <3>2, ReplyMoves DEF Step, AfterReconcile
    <2>2. TypeOK'
       BY <1>29, <2>1, RequestAssumption
          DEF RequestAssumption, YieldReconciliation, OwnsReconciliation, TypeOK, Moves, Status,
              Payment
    <2>3. StepFitsStatus'
       BY <1>0, <1>29, <2>1
          DEF YieldReconciliation, OwnsReconciliation, TypeOK, Moves, StepFitsStatus, Aftermath,
              ReconcilerFitsStatus
    <2>4. ReconcilerFitsStatus' /\ SettlerFitsStatus'
       BY <1>0, <2>1, ReconcilersStay
    <2>5. ChargeFitsStep'
       BY <1>0, <1>29, <2>1
          DEF YieldReconciliation, OwnsReconciliation, TypeOK, Moves, ChargeFitsStep,
              StepFitsStatus, Aftermath, ReconcilerFitsStatus
    <2> QED BY <2>2, <2>3, <2>4, <2>5 DEF ControlFits
  <1>30. ASSUME NEW w \in Worker, CallFails(w) PROVE TypeOK' /\ ControlFits'
    <2>1. /\ Moves(w) /\ step'[w] \notin SettleSteps
          /\ step'[w] = "idle" => w \notin Request
          /\ step[w] \in EntrySteps \union {"cleanup", "compensate", "unlock"} =>
                step'[w] \in {"answered", "unlock"}
          /\ step[w] = "bind" => step'[w] = "revoke"
          /\ step[w] \in AttemptSteps \ {"bind"} => step'[w] = "compensate"
          /\ step[w] \in ReconcileSteps =>
                step'[w] \in {"refundOnly", "yield"} \/ step'[w] = AfterReconcile(w)
          /\ step[w] \in SettleSteps => step'[w] = "idle"
          /\ step[w] \in Step \ StoppedSteps
      <3>1. /\ Moves(w) /\ step'[w] = OnError(w) /\ step[w] \in Step \ StoppedSteps
            /\ w \in Request => step[w] \notin SettleSteps
         BY <1>0, <1>30, ThrowMoves DEF CallFails, TypeOK, SettlerFitsStatus
      <3>2. step'[w] \notin SettleSteps
         BY <3>1, ErrorTable DEF Step, AfterReconcile
      <3> QED BY <3>1, <3>2, ErrorTable, ErrorLeads, NameAssumption DEF NameAssumption
    <2>4. ReconcilerFitsStatus' /\ SettlerFitsStatus'
      <3>1. step'[w] \in ReconcileSteps => step[w] \in ReconcileSteps
         BY <2>1 DEF Step
      <3> QED BY <1>0, <2>1, <3>1, ReconcilersStay
    <2>2. TypeOK'
       BY <1>30, <2>1, RequestAssumption
          DEF RequestAssumption, CallFails, TypeOK, Moves, Status, Payment
    <2>3. StepFitsStatus'
       BY <1>0, <1>30, <2>1
          DEF CallFails, TypeOK, Moves, StepFitsStatus, Aftermath, ReconcilerFitsStatus, Step,
              AfterReconcile
    <2>5. ChargeFitsStep'
       BY <1>0, <1>30, <2>1
          DEF CallFails, TypeOK, Moves, ChargeFitsStep, StepFitsStatus, Aftermath,
              ReconcilerFitsStatus, Step, AfterReconcile
    <2> QED BY <2>2, <2>3, <2>4, <2>5 DEF ControlFits
  <1>31. ASSUME NEW w \in Worker, Crash(w) PROVE TypeOK' /\ ControlFits'
    <2>1. /\ Moves(w) /\ step[w] \notin StoppedSteps
          /\ step'[w] = (IF w \in Request THEN "crashed" ELSE "idle")
       BY <1>31, GoToMoves, BoundAssumption DEF Crash, TypeOK, Step, BoundAssumption
    <2>2. TypeOK'
       BY <1>31, <2>1, RequestAssumption
          DEF RequestAssumption, Crash, TypeOK, Moves, Status, Payment
    <2>3. StepFitsStatus'
       BY <1>0, <1>31, <2>1 DEF Crash, TypeOK, Moves, StepFitsStatus, Aftermath
    <2>4. ReconcilerFitsStatus' /\ SettlerFitsStatus'
       BY <1>0, <2>1, ReconcilersStay
    <2>5. ChargeFitsStep'
       BY <1>0, <1>31, <2>1 DEF Crash, TypeOK, Moves, ChargeFitsStep, StepFitsStatus, Aftermath
    <2> QED BY <2>2, <2>3, <2>4, <2>5 DEF ControlFits
  <1>32. ASSUME NEW p \in Request, LeaseExpires(p) PROVE TypeOK' /\ ControlFits'
    <2>1. UNCHANGED <<status, payment, step, job>> /\ TypeOK'
       BY <1>32, RequestAssumption, BoundAssumption
          DEF LeaseExpires, Elapse, TypeOK, RequestAssumption, BoundAssumption
    <2> QED BY <2>1, Unmoved
  <1>33. ASSUME NEW k \in LockKey, LockExpires(k) PROVE TypeOK' /\ ControlFits'
    <2>1. UNCHANGED <<status, payment, step, job>> /\ TypeOK'
       BY <1>33, RequestAssumption, BoundAssumption
          DEF LockExpires, Elapse, TypeOK, RequestAssumption, BoundAssumption
    <2> QED BY <2>1, Unmoved
  <1>34. ASSUME NEW t \in Ticket, TicketKeyExpires(t) PROVE TypeOK' /\ ControlFits'
    <2>1. UNCHANGED <<status, payment, step, job>> /\ TypeOK'
       BY <1>34, RequestAssumption, BoundAssumption
          DEF TicketKeyExpires, TypeOK, RequestAssumption, BoundAssumption
    <2> QED BY <2>1, Unmoved
  <1>35. ASSUME NEW u \in User, UserKeyExpires(u) PROVE TypeOK' /\ ControlFits'
    <2>1. UNCHANGED <<status, payment, step, job>> /\ TypeOK'
       BY <1>35, RequestAssumption, BoundAssumption
          DEF UserKeyExpires, TypeOK, RequestAssumption, BoundAssumption
    <2> QED BY <2>1, Unmoved
  <1>36. ASSUME NEW u \in User, NEW S \in SeatsOf[u], HoldTickets(u, S) PROVE TypeOK' /\ ControlFits'
    <2>1. UNCHANGED <<status, payment, step, job>> /\ TypeOK'
       BY <1>36, RequestAssumption, BoundAssumption
          DEF HoldTickets, TypeOK, RequestAssumption, BoundAssumption
    <2> QED BY <2>1, Unmoved
  <1> QED BY <1>1, <1>2, <1>3, <1>4, <1>5, <1>6, <1>7, <1>8, <1>9, <1>10, <1>11, <1>12, <1>13, <1>14, <1>15, <1>16, <1>17, <1>18, <1>19, <1>20, <1>21, <1>22, <1>23, <1>24, <1>25, <1>26, <1>27, <1>28, <1>29, <1>30, <1>31, <1>32, <1>33, <1>34, <1>35, <1>36
     DEF Next, RequestStep, SweeperStep, ReconcileStep

-----------------------------------------------------------------------------
(***************************************************************************)
(* Every step keeps the sale, the charge and the unique operation.         *)
(***************************************************************************)

\* Only the commit sells, and it sells unsold tickets to the record it completes.
LEMMA SaleStep ==
    ASSUME TypeOK, ReconcilerFitsStatus, SaleIsAtomic, Next PROVE SaleIsAtomic'
  <1>1. ASSUME NEW p \in Request, CommitPurchase(p) PROVE SaleIsAtomic'
    <2>1. /\ \A t \in ItemsOf[p] : t \in Ticket /\ soldTo[t] = Nobody
          /\ \A t \in Ticket : soldTo'[t] = IF t \in ItemsOf[p] THEN p ELSE soldTo[t]
          /\ \A q \in Request : status'[q] = IF q = p THEN "completed" ELSE status[q]
          /\ \A q \in Request : ItemsOf[q] \in SUBSET Ticket
       BY <1>1, RequestAssumption DEF RequestAssumption, TypeOK, CommitPurchase, Sellable
    <2>2. \A t \in Ticket : soldTo'[t] # Nobody => /\ status'[soldTo'[t]] = "completed"
                                                 /\ t \in ItemsOf[soldTo'[t]]
       BY <2>1 DEF SaleIsAtomic, TypeOK
    <2>3. ASSUME NEW q \in Request, status'[q] = "completed", NEW t \in ItemsOf[q]
          PROVE  soldTo'[t] = q
       BY <2>1, <2>3, NameAssumption DEF NameAssumption, SaleIsAtomic, TypeOK
    <2> QED BY <2>2, <2>3 DEF SaleIsAtomic
  <1>2. CASE UNCHANGED soldTo /\ \A p \in Request : ~CommitPurchase(p)
    <2>1. \A p \in Request : status'[p] = "completed" <=> status[p] = "completed"
       BY <1>2, RecordFrame, StatusStep
          DEF TypeOK, CreateRecord, CreatePayment, CancelLatePayment, ClaimForCompletion, ClaimOwn,
              SweepRecord, TakeOver, CancelPayment, MarkCancelled, SettlePayment, Advance, recordVars
    <2> QED BY <1>2, <2>1 DEF SaleIsAtomic, TypeOK
  <1>3. UNCHANGED soldTo \/ \E p \in Request : CommitPurchase(p)
     BY RecordFrame
        DEF CreateRecord, CreatePayment, CancelLatePayment, ClaimForCompletion, ClaimOwn,
                        SweepRecord, CancelPayment, MarkCancelled, SettlePayment
  <1> QED BY <1>1, <1>2, <1>3

\* Only the commit resolves a charge; no other step touches that of a completed record.
LEMMA ChargeStep ==
    ASSUME TypeOK, ControlFits, ChargeMatchesOutcome, Next PROVE ChargeMatchesOutcome'
  <1> USE DEF TypeOK, ControlFits, ChargeMatchesOutcome
  <1>1. ASSUME NEW p \in Request, CreateRecord(p) PROVE ChargeMatchesOutcome'
     BY <1>1 DEF CreateRecord, Recorded, SameOperation
  <1>2. ASSUME NEW p \in Request, CreatePayment(p) PROVE ChargeMatchesOutcome'
     BY <1>2 DEF CreatePayment, StepFitsStatus, recordVars
  <1>3. ASSUME NEW p \in Request, CancelLatePayment(p) PROVE ChargeMatchesOutcome'
     BY <1>3 DEF CancelLatePayment, Cancelled, StepFitsStatus, Aftermath, recordVars
  <1>4. ASSUME NEW p \in Request, ClaimForCompletion(p) PROVE ChargeMatchesOutcome'
     BY <1>4 DEF ClaimForCompletion
  <1>5. ASSUME NEW p \in Request, CommitPurchase(p) PROVE ChargeMatchesOutcome'
     BY <1>5 DEF CommitPurchase, OwnsCompletion, ChargeFitsStep
  <1>6. ASSUME NEW p \in Request, ClaimOwn(p) PROVE ChargeMatchesOutcome'
     BY <1>6 DEF ClaimOwn, Reclaimable, TakeOver, Open
  <1>7. ASSUME NEW p \in Request, NEW s \in Sweeper, SweepRecord(s, p) PROVE ChargeMatchesOutcome'
     BY <1>7 DEF SweepRecord, Reclaimable, TakeOver, Open
  <1>8. ASSUME NEW w \in Worker, CancelPayment(w) PROVE ChargeMatchesOutcome'
     BY <1>8 DEF CancelPayment, Cancelled, ReconcilerFitsStatus, ReconcileSteps, recordVars
  <1>9. ASSUME NEW w \in Worker, MarkCancelled(w) PROVE ChargeMatchesOutcome'
     BY <1>9 DEF MarkCancelled, OwnsReconciliation
  <1>10. ASSUME NEW s \in Sweeper, SettlePayment(s) PROVE ChargeMatchesOutcome'
     BY <1>10 DEF SettlePayment, SettlerFitsStatus, SettleSteps, recordVars
  <1> QED BY <1>1, <1>2, <1>3, <1>4, <1>5, <1>6, <1>7, <1>8, <1>9, <1>10, RecordFrame

\* A second record for one key is refused by the unique index.
LEMMA OneRecordStep ==
    ASSUME TypeOK, ReconcilerFitsStatus, OneRecordPerOperation, Next PROVE OneRecordPerOperation'
  <1>1. ASSUME NEW p \in Request, CreateRecord(p) PROVE OneRecordPerOperation'
     BY <1>1 DEF TypeOK, CreateRecord, Recorded, SameOperation, OneRecordPerOperation
  <1>2. CASE \A p \in Request : ~CreateRecord(p)
    <2>1. \A p \in Request : status'[p] # "none" => status[p] # "none"
       BY <1>2, RecordFrame
          DEF TypeOK, CreatePayment, CancelLatePayment, ClaimForCompletion, CommitPurchase, ClaimOwn,
              SweepRecord, Reclaimable, TakeOver, Open, CancelPayment, MarkCancelled,
              OwnsReconciliation, OwnsCompletion, SettlePayment, recordVars
    <2> QED BY <2>1 DEF OneRecordPerOperation, SameOperation
  <1> QED BY <1>1, <1>2

-----------------------------------------------------------------------------
(***************************************************************************)
(* The theorems.                                                           *)
(***************************************************************************)

\* The initial state satisfies the invariant.
LEMMA InitInvariant == Init => IInv
  <1> SUFFICES ASSUME Init PROVE IInv
     OBVIOUS
  <1>1. TypeOK
     BY RequestAssumption, NameAssumption, BoundAssumption
        DEF Init, TypeOK, Status, Payment, Answer, Step, StoppedSteps, Worker, NameAssumption
  <1>2. ControlFits
     BY NameAssumption
        DEF Init, ControlFits, StepFitsStatus, ReconcilerFitsStatus, SettlerFitsStatus,
            ChargeFitsStep, Worker, ReconcileSteps, SettleSteps
  <1>3. ChargeMatchesOutcome /\ SaleIsAtomic /\ OneRecordPerOperation
     BY DEF Init, ChargeMatchesOutcome, SaleIsAtomic, OneRecordPerOperation
  <1> QED BY <1>1, <1>2, <1>3 DEF IInv

\* Every step of the system keeps it.
LEMMA NextInvariant == IInv /\ [Next]_vars => IInv'
  <1> SUFFICES ASSUME IInv, [Next]_vars PROVE IInv'
     OBVIOUS
  <1>1. CASE Next
     BY <1>1, ControlStep, SaleStep, ChargeStep, OneRecordStep DEF IInv, ControlFits
  <1>2. CASE UNCHANGED vars
     BY <1>2
        DEF vars, recordVars, holdVars, processVars, IInv, TypeOK, ControlFits, StepFitsStatus,
                 ReconcilerFitsStatus, SettlerFitsStatus, ChargeFitsStep, ChargeMatchesOutcome,
                 SaleIsAtomic, OneRecordPerOperation
  <1> QED BY <1>1, <1>2

\* The inductive invariant holds in every reachable state.
THEOREM Invariance == Spec => []IInv
  BY InitInvariant, NextInvariant, PTL DEF Spec

\* Every variable keeps its type, and a request never works on another's record.
THEOREM TypeCorrect == Spec => []TypeOK
  <1>1. IInv => TypeOK
     BY DEF IInv
  <1> QED BY <1>1, Invariance, PTL

\* No double sale and no partial sale, for any number of rivals, replicas and faults.
THEOREM SaleAtomicity == Spec => []SaleIsAtomic
  <1>1. IInv => SaleIsAtomic
     BY DEF IInv
  <1> QED BY <1>1, Invariance, PTL

\* A customer is charged for good exactly by the purchases that were sold.
THEOREM ChargeFollowsOutcome == Spec => []ChargeMatchesOutcome
  <1>1. IInv => ChargeMatchesOutcome
     BY DEF IInv
  <1> QED BY <1>1, Invariance, PTL

\* One Idempotency-Key is charged at most once.
THEOREM SingleCharge == Spec => []OneChargePerOperation
  <1>1. IInv => OneChargePerOperation
     BY DEF IInv, ControlFits, ChargeFitsStep, OneRecordPerOperation, OneChargePerOperation
  <1> QED BY <1>1, Invariance, PTL

\* Compensation is a point of no return.
THEOREM StatusMachine == Spec => StatusAdvances
  <1>1. IInv /\ [Next]_vars =>
            [\A p \in Request :
                status'[p] # status[p] => <<status[p], status'[p]>> \in Advance]_vars
     BY StatusStep DEF IInv, ControlFits
  <1> QED BY <1>1, Invariance, PTL DEF Spec, StatusAdvances

-----------------------------------------------------------------------------
(***************************************************************************)
(* What a request answers.  AnswersStayTrue is strengthened to requests    *)
(* that know their answer already and still release the lock; and a        *)
(* request cleans its claims up only after its own sale.  A request that   *)
(* is refused has made no record and makes none any more, and one that     *)
(* fails is past the commit: it may have bought something only when a      *)
(* reply was lost.                                                         *)
(***************************************************************************)

\* where a request only releases the lock, where it can no longer buy, and where it
\* fails on what a call returned
Done == {"unlock", "answered", "crashed"}
Spent == Done \union ReconcileSteps \union {"revoke", "compensate"}
Refusable == AttemptSteps \union {"acquire"}

AnswerHolds(p) ==
    /\ answer[p] = "completed" =>
          \E q \in Recorded(p) : status[q] = "completed" /\ ItemsOf[q] = ItemsOf[p]
    /\ answer[p] \in {"storedError", "operationFailed"} =>
          \E q \in Recorded(p) : status[q] = "cancelled" /\ ItemsOf[q] = ItemsOf[p]
    /\ answer[p] = "keyReused" => \E q \in Recorded(p) : ItemsOf[q] # ItemsOf[p]
    /\ answer[p] = "rejected" => step[p] \in Done /\ status[p] = "none"
    /\ answer[p] = "failed" => step[p] \in Spent /\ (faults > 0 \/ status[p] # "completed")

CleanupFollowsSale == \A p \in Request : step[p] = "cleanup" => status[p] = "completed"

AnswerInv == CleanupFollowsSale /\ \A p \in Request : AnswerHolds(p)

\* Where the answer of p comes from, and how p gets to the cleanup of its claims.
Tells(p) ==
    /\ \/ answer'[p] \in {answer[p], "failed", "rejected"}
       \/ \E q \in Recorded(p) : answer'[p] = ReplayOf(p, q)
       \/ answer'[p] = "completed" /\ step[p] = "cleanup"
    /\ step'[p] = "cleanup" => step[p] = "cleanup" \/ status'[p] = "completed"

\* An error never leads to the cleanup.
LEMMA ErrorIsNoCleanup ==
    ASSUME TypeOK, NEW w \in Worker PROVE OnError(w) # "cleanup"
  <1>1. step[w] \in Step
     BY DEF TypeOK
  <1> QED BY <1>1, ErrorTable
          DEF AfterReconcile, Step, EntrySteps, AttemptSteps, ReconcileSteps, SettleSteps, StoppedSteps

\* A call, whatever becomes of it, fails the request or leaves its answer alone.
LEMMA CallTells ==
    ASSUME TypeOK, NEW w \in Worker, NEW s, s # "cleanup", NEW p \in Request,
           Reply(w, s) \/ Throw(w) \/ Proceed(w, s) \/ (w \in Request /\ Abort(w, s))
    PROVE  Tells(p)
  <1>1. PICK l : l # "cleanup" /\ step' = [step EXCEPT ![w] = l]
     BY ErrorIsNoCleanup DEF Reply, Throw, Proceed, Abort, GoTo
  <1>2. step'[p] = "cleanup" => step[p] = "cleanup"
     BY <1>1 DEF TypeOK, Worker
  <1>3. CASE UNCHANGED answer
     BY <1>2, <1>3 DEF Tells
  <1>4. CASE w \in Request /\ Respond(w, "failed")
     BY <1>2, <1>4 DEF Tells, Respond, TypeOK
  <1>5. CASE w \in Request /\ step[w] = "cleanup" /\ Respond(w, "completed")
     BY <1>2, <1>5 DEF Tells, Respond, TypeOK
  <1>6. \/ UNCHANGED answer
        \/ w \in Request /\ Respond(w, "failed")
        \/ w \in Request /\ step[w] = "cleanup" /\ Respond(w, "completed")
     BY DEF Reply, Throw, Proceed, Abort
  <1> QED BY <1>3, <1>4, <1>5, <1>6

\* The answer of a request comes from nowhere else.
LEMMA AnswersTell ==
    ASSUME TypeOK, Next, NEW p \in Request PROVE Tells(p)
  <1> USE DEF AfterReconcile
  <1>1. ASSUME NEW q \in Request, Submit(q) PROVE Tells(p)
     BY <1>1, CallTells DEF Submit, Worker
  <1>2. ASSUME NEW q \in Request, Replay(q) PROVE Tells(p)
    <2>1. PICK r \in Recorded(q) : Respond(q, ReplayOf(q, r))
       BY <1>2 DEF Replay
    <2>2. step'[p] = "cleanup" => step[p] = "cleanup"
       BY <1>2 DEF Replay, GoTo, TypeOK, Worker
    <2> QED BY <2>1, <2>2 DEF Tells, Respond, TypeOK
  <1>3. ASSUME NEW q \in Request,
               LookupNothing(q) \/ LockWaitTimesOut(q) \/ CheckAvailable(q) \/ Validate(q)
               \/ DuplicateKey(q) \/ ConfirmClaims(q) \/ AttemptRefused(q) \/ NothingToReconcile(q)
        PROVE  Tells(p)
    <2>1. \E s : s # "cleanup" /\ (Proceed(q, s) \/ Abort(q, s))
       BY <1>3 DEF LookupNothing, LockWaitTimesOut, CheckAvailable, Validate, DuplicateKey,
                   ConfirmClaims, AttemptRefused, NothingToReconcile
    <2> QED BY <2>1, CallTells DEF Worker
  <1>4. ASSUME NEW q \in Request,
               AcquireLock(q) \/ CreateRecord(q) \/ ClaimTickets(q) \/ CreatePayment(q)
               \/ SetPaymentId(q) \/ CancelLatePayment(q) \/ ClaimForCompletion(q)
               \/ ClaimOwn(q) \/ ReleaseLock(q)
        PROVE  Tells(p)
    <2>1. \E s : s # "cleanup" /\ Reply(q, s)
       BY <1>4 DEF AcquireLock, CreateRecord, ClaimTickets, CreatePayment, SetPaymentId,
                   CancelLatePayment, ClaimForCompletion, ClaimOwn, ReleaseLock
    <2> QED BY <2>1, CallTells DEF Worker
  <1>5. ASSUME NEW q \in Request, Reject(q) PROVE Tells(p)
     BY <1>5 DEF Reject, Respond, GoTo, Tells, TypeOK, Worker
  <1>6. ASSUME NEW q \in Request, CommitPurchase(q) PROVE Tells(p)
    <2>1. CASE Throw(q)
       BY <2>1, CallTells DEF Worker
    <2>2. CASE Proceed(q, "cleanup")
       BY <1>6, <2>2 DEF CommitPurchase, Proceed, GoTo, Tells, TypeOK, Worker
    <2> QED BY <1>6, <2>1, <2>2 DEF CommitPurchase, Reply
  <1>7. ASSUME NEW q \in Request, CleanupClaims(q) PROVE Tells(p)
    <2>1. CASE Throw(q)
       BY <2>1, CallTells DEF Worker
    <2>2. CASE GoTo(q, "unlock")
       BY <1>7, <2>2 DEF CleanupClaims, Respond, GoTo, Tells, TypeOK, Worker
    <2> QED BY <1>7, <2>1, <2>2 DEF CleanupClaims
  <1>8. ASSUME NEW w \in Worker, ReconcileStep(w) PROVE Tells(p)
    <2>1. \E s : s # "cleanup" /\ Reply(w, s)
       BY <1>8 DEF ReconcileStep, ReleaseClaims, CancelPayment, MarkCancelled, YieldReconciliation
    <2> QED BY <2>1, CallTells
  <1>9. ASSUME NEW s \in Sweeper, SweeperStep(s), ~ReconcileStep(s) PROVE Tells(p)
    <2>1. CASE Reply(s, "idle") \/ Throw(s)
       BY <2>1, CallTells DEF Worker
    <2>2. CASE UNCHANGED answer /\ \E l \in {"release", "resolve", "cancel"} :
                                      step' = [step EXCEPT ![s] = l]
       BY <2>2 DEF Tells, TypeOK, Worker
    <2> QED BY <1>9, <2>1, <2>2 DEF SweeperStep, SweepRecord, SweepPayment, SettlePayment
  <1>10. ASSUME NEW w \in Worker, CallFails(w) PROVE Tells(p)
     BY <1>10, CallTells DEF CallFails
  <1>11. ASSUME NEW w \in Worker, Crash(w) PROVE Tells(p)
     BY <1>11 DEF Crash, GoTo, Tells, TypeOK, Worker
  <1>12. ASSUME UNCHANGED <<step, answer>> PROVE Tells(p)
     BY <1>12 DEF Tells
  <1>13. ASSUME NEW q \in Request, LeaseExpires(q) PROVE Tells(p)
     BY <1>12, <1>13 DEF LeaseExpires
  <1>14. ASSUME \/ \E u \in User : UserKeyExpires(u) \/ \E S \in SeatsOf[u] : HoldTickets(u, S)
                \/ \E t \in Ticket : TicketKeyExpires(t)
                \/ \E k \in LockKey : LockExpires(k)
         PROVE  Tells(p)
     BY <1>12, <1>14 DEF UserKeyExpires, HoldTickets, TicketKeyExpires, LockExpires, processVars
  <1> QED BY <1>1, <1>2, <1>3, <1>4, <1>5, <1>6, <1>7, <1>8, <1>9, <1>10, <1>11, <1>13, <1>14
          DEF Next, RequestStep, Worker

\* A request that is done stays so, one that is past its commit stays there, and
\* an error that is no fault is told before the commit.
Stays(p) ==
    /\ faults' \in Nat /\ faults' >= faults
    /\ step[p] \in Done => step'[p] \in Done
    /\ step[p] \in Spent => step'[p] \in Spent
    /\ answer'[p] = "failed" =>
          \/ answer[p] = "failed"
          \/ step'[p] \in Spent /\ (faults' > 0 \/ (step[p] \in Refusable /\ UNCHANGED status))
    /\ answer'[p] = "rejected" =>
          \/ answer[p] = "rejected"
          \/ step[p] \in {"available", "validate"} /\ step'[p] = "unlock"

\* A call, whatever becomes of it, takes a request on, or ends it with a fault.
LEMMA CallStays ==
    ASSUME TypeOK, SettlerFitsStatus, NEW w \in Worker, NEW s, NEW p \in Request,
           w \in Request => step[w] \notin StoppedSteps,
           w \in Request /\ step[w] \in Done => s \in Done,
           w \in Request /\ step[w] \in Spent => s \in Spent,
           \/ Reply(w, s) \/ Throw(w) \/ Proceed(w, s)
           \/ /\ w \in Request /\ Abort(w, s) /\ UNCHANGED status
              /\ s \in Spent /\ step[w] \in Refusable
    PROVE  Stays(p)
  <1> USE DEF AttemptSteps, ReconcileSteps, Done, Spent, Refusable
  <1>1. CASE Proceed(w, s)
     BY <1>1 DEF Proceed, GoTo, TypeOK, Worker, Stays
  <1>2. CASE /\ w \in Request /\ Abort(w, s) /\ UNCHANGED status
             /\ s \in Spent /\ step[w] \in Refusable
     BY <1>2 DEF Abort, GoTo, Respond, TypeOK, Worker, Stays
  <1>3. CASE Throw(w)
    <2>1. /\ faults' = faults + 1 /\ step' = [step EXCEPT ![w] = OnError(w)] /\ faults \in Nat
       BY <1>3 DEF Throw, GoTo, TypeOK
    <2>2. CASE w # p
      <3>1. step'[p] = step[p] /\ answer'[p] = answer[p]
         BY <1>3, <2>1, <2>2 DEF Throw, Respond, TypeOK, Worker
      <3> QED BY <2>1, <3>1 DEF Stays
    <2>3. CASE w = p
      <3>1. step'[p] = OnError(p) /\ answer'[p] \in {"completed", "failed"}
         BY <1>3, <2>1, <2>3 DEF Throw, Respond, TypeOK, Worker
      <3>2. step[p] \in Step \ (StoppedSteps \union SettleSteps)
         BY <2>3 DEF TypeOK, SettlerFitsStatus, Worker
      <3>3. AfterReconcile(p) = "unlock"
         BY DEF AfterReconcile
      <3>4. OnError(p) \in Spent /\ (step[p] \in Done => OnError(p) \in Done)
         BY <3>2, <3>3, ErrorTable DEF Worker, Step, EntrySteps, SettleSteps, StoppedSteps
      <3> QED BY <2>1, <3>1, <3>4 DEF Stays
    <2> QED BY <2>2, <2>3
  <1> QED BY <1>1, <1>2, <1>3 DEF Reply

\* Every step of every process leaves it at that.
LEMMA RequestsStay ==
    ASSUME TypeOK, SettlerFitsStatus, Next, NEW p \in Request PROVE Stays(p)
  <1> USE DEF AttemptSteps, ReconcileSteps, StoppedSteps, Done, Spent, Refusable, Worker
  <1>1. ASSUME NEW q \in Request, Submit(q) PROVE Stays(p)
     BY <1>1 DEF Submit, Proceed, GoTo, TypeOK, Stays
  <1>2. ASSUME NEW q \in Request, Replay(q) PROVE Stays(p)
    <2>1. PICK r \in Recorded(q) : Respond(q, ReplayOf(q, r))
       BY <1>2 DEF Replay
    <2>2. ReplayOf(q, r) \notin {"failed", "rejected"}
       BY DEF ReplayOf, Recorded, TypeOK, Status, Open
    <2> QED BY <1>2, <2>1, <2>2 DEF Replay, Respond, GoTo, TypeOK, Stays
  <1>3. ASSUME NEW q \in Request, LookupNothing(q) \/ CheckAvailable(q) \/ Validate(q)
                                  \/ DuplicateKey(q) \/ ConfirmClaims(q) \/ NothingToReconcile(q)
        PROVE  Stays(p)
    <2>1. \E s : /\ Proceed(q, s) /\ step[q] \notin StoppedSteps \union Done
                 /\ step[q] \in Spent => s \in Spent
       BY <1>3 DEF LookupNothing, CheckAvailable, Validate, DuplicateKey, ConfirmClaims,
                   NothingToReconcile
    <2> QED BY <2>1, CallStays
  <1>4. ASSUME NEW q \in Request, LockWaitTimesOut(q) \/ AttemptRefused(q) PROVE Stays(p)
    <2>1. \E s : /\ Abort(q, s) /\ s \in Spent /\ step[q] \notin StoppedSteps \union Done
                 /\ step[q] \in Refusable /\ UNCHANGED status
       BY <1>4 DEF LockWaitTimesOut, AttemptRefused, recordVars
    <2> QED BY <2>1, CallStays
  <1>5. ASSUME NEW q \in Request,
               AcquireLock(q) \/ CreateRecord(q) \/ ClaimTickets(q) \/ CreatePayment(q)
               \/ SetPaymentId(q) \/ CancelLatePayment(q) \/ ClaimForCompletion(q)
               \/ ClaimOwn(q) \/ ReleaseLock(q) \/ CommitPurchase(q)
        PROVE  Stays(p)
    <2>1. \E s : /\ Reply(q, s) /\ step[q] \notin StoppedSteps
                 /\ step[q] \in Done => s \in Done
                 /\ step[q] \in Spent => s \in Spent
       BY <1>5 DEF AcquireLock, CreateRecord, ClaimTickets, CreatePayment, SetPaymentId,
                   CancelLatePayment, ClaimForCompletion, ClaimOwn, ReleaseLock, CommitPurchase
    <2> QED BY <2>1, CallStays
  <1>6. ASSUME NEW q \in Request, Reject(q) PROVE Stays(p)
     BY <1>6 DEF Reject, Respond, GoTo, TypeOK, Stays
  <1>7. ASSUME NEW q \in Request, CleanupClaims(q) PROVE Stays(p)
    <2>1. CASE Throw(q)
       BY <1>7, <2>1, CallStays DEF CleanupClaims
    <2>2. CASE GoTo(q, "unlock") /\ UNCHANGED faults
       BY <1>7, <2>2 DEF CleanupClaims, Respond, GoTo, TypeOK, Stays
    <2> QED BY <1>7, <2>1, <2>2 DEF CleanupClaims
  <1>8. ASSUME NEW w \in Worker, ReconcileStep(w) PROVE Stays(p)
    <2>1. w \in Request => AfterReconcile(w) = "unlock"
       BY DEF AfterReconcile
    <2>2. \E s : /\ Reply(w, s) /\ step[w] \in ReconcileSteps
                 /\ w \in Request => s \in Spent
       BY <1>8, <2>1 DEF ReconcileStep, ReleaseClaims, CancelPayment, MarkCancelled,
                         YieldReconciliation
    <2> QED BY <2>2, CallStays
  <1>9. ASSUME NEW s \in Sweeper, SweeperStep(s), ~ReconcileStep(s) PROVE Stays(p)
    <2>1. s \notin Request
       BY NameAssumption DEF NameAssumption
    <2>2. CASE Reply(s, "idle") \/ Throw(s)
       BY <2>1, <2>2, CallStays
    <2>3. CASE UNCHANGED <<answer, faults>> /\ \E l : step' = [step EXCEPT ![s] = l]
       BY <2>1, <2>3 DEF TypeOK, Stays
    <2> QED BY <1>9, <2>2, <2>3 DEF SweeperStep, SweepRecord, SweepPayment, SettlePayment
  <1>10. ASSUME NEW w \in Worker, CallFails(w) PROVE Stays(p)
    <2>1. \E s : s \in Done
       OBVIOUS
    <2> QED BY <1>10, <2>1, CallStays DEF CallFails
  <1>11. ASSUME NEW w \in Worker, Crash(w) PROVE Stays(p)
     BY <1>11 DEF Crash, GoTo, TypeOK, Stays
  <1>12. ASSUME UNCHANGED <<step, answer>>, faults' \in Nat, faults' >= faults PROVE Stays(p)
     BY <1>12 DEF Stays
  <1>13. ASSUME \/ \E q \in Request : LeaseExpires(q)
                \/ \E k \in LockKey : LockExpires(k)
         PROVE  Stays(p)
     BY <1>12, <1>13 DEF LeaseExpires, LockExpires, Elapse, TypeOK
  <1>14. ASSUME \/ \E u \in User : UserKeyExpires(u) \/ \E S \in SeatsOf[u] : HoldTickets(u, S)
                \/ \E t \in Ticket : TicketKeyExpires(t)
         PROVE  Stays(p)
     BY <1>12, <1>14 DEF UserKeyExpires, HoldTickets, TicketKeyExpires, processVars, TypeOK
  <1> QED BY <1>1, <1>2, <1>3, <1>4, <1>5, <1>6, <1>7, <1>8, <1>9, <1>10, <1>11, <1>13, <1>14
          DEF Next, RequestStep

\* A record is made and completed by its own request, at its place.
LEMMA RecordsAreOwn ==
    ASSUME TypeOK, ReconcilerFitsStatus, Next, NEW p \in Request
    PROVE  /\ step[p] # "create" /\ status[p] = "none" => status'[p] = "none"
           /\ step[p] # "commit" /\ status[p] # "completed" => status'[p] # "completed"
  <1>1. ASSUME NEW q \in Request, CreateRecord(q)
        PROVE  step[p] # "create" => status'[p] = status[p]
     BY <1>1 DEF CreateRecord, TypeOK
  <1>2. ASSUME NEW q \in Request, CreateRecord(q) PROVE status'[p] \in {status[p], "pending"}
     BY <1>2 DEF CreateRecord, TypeOK
  <1>3. ASSUME NEW q \in Request, CommitPurchase(q)
        PROVE  /\ step[p] # "commit" => status'[p] = status[p]
               /\ status[p] = "none" => status'[p] = "none"
     BY <1>3 DEF CommitPurchase, OwnsCompletion, TypeOK
  <1>4. ASSUME NEW q \in Request, \/ ClaimForCompletion(q) \/ ClaimOwn(q)
                                  \/ \E s \in Sweeper : SweepRecord(s, q)
        PROVE  \/ status'[p] = status[p]
               \/ status[p] # "none" /\ status'[p] \in {"completing", "compensating"}
     BY <1>4, NameAssumption
        DEF NameAssumption, ClaimForCompletion, ClaimOwn, SweepRecord, TakeOver, Reclaimable, Open, TypeOK
  <1>5. ASSUME NEW w \in Worker, MarkCancelled(w)
        PROVE  \/ status'[p] = status[p]
               \/ status[p] # "none" /\ status'[p] = "cancelled"
     BY <1>5 DEF MarkCancelled, OwnsReconciliation, TypeOK
  <1>6. ASSUME \/ \E q \in Request : CreatePayment(q) \/ CancelLatePayment(q)
               \/ \E w \in Worker : CancelPayment(w)
               \/ \E s \in Sweeper : SettlePayment(s)
        PROVE  status' = status
     BY <1>6 DEF CreatePayment, CancelLatePayment, CancelPayment, SettlePayment, recordVars
  <1> QED BY <1>1, <1>2, <1>3, <1>4, <1>5, <1>6, RecordFrame

\* An operation that has ended keeps its outcome, so what was said of it stays true.
LEMMA AnswerStep ==
    ASSUME IInv, Next, AnswerInv PROVE AnswerInv'
  <1>1. TypeOK /\ ReconcilerFitsStatus /\ SettlerFitsStatus /\ StepFitsStatus /\ OutcomesStand
     BY OutcomesStandStep DEF IInv, ControlFits
  <1>2. ASSUME NEW p \in Request, NEW q \in Recorded(p) PROVE q \in Recorded(p)'
     BY <1>1, StatusStep DEF Recorded, SameOperation, Advance
  <1>3. CleanupFollowsSale'
     BY <1>1, AnswersTell DEF AnswerInv, CleanupFollowsSale, Tells, OutcomesStand, Terminal
  <1>4. ASSUME NEW p \in Request, answer'[p] = answer[p] PROVE AnswerHolds(p)'
    <2>1. AnswerHolds(p)
       BY DEF AnswerInv
    <2>2. \A q \in Recorded(p) : /\ q \in Request /\ q \in Recorded(p)'
                                 /\ status[q] \in {"completed", "cancelled"} => status'[q] = status[q]
       BY <1>1, <1>2 DEF OutcomesStand, Terminal, Recorded
    <2>3. answer[p] = "rejected" => step'[p] \in Done /\ status'[p] = "none"
       BY <1>1, <2>1, RequestsStay, RecordsAreOwn DEF AnswerHolds, Stays, Done
    <2>4. answer[p] = "failed" => step'[p] \in Spent /\ (faults' > 0 \/ status'[p] # "completed")
      <3>1. step[p] \in Spent => step[p] # "commit"
         BY DEF Spent, Done, ReconcileSteps
      <3> QED BY <1>1, <2>1, <3>1, RequestsStay, RecordsAreOwn DEF AnswerHolds, Stays, TypeOK
    <2> QED BY <1>4, <2>1, <2>2, <2>3, <2>4 DEF AnswerHolds
  <1>5. ASSUME NEW p \in Request, NEW q \in Recorded(p), answer'[p] = ReplayOf(p, q)
        PROVE  AnswerHolds(p)'
    <2>1. /\ q \in Request /\ q \in Recorded(p)' /\ status[q] \in Status \ {"none"}
          /\ status[q] \in {"completed", "cancelled"} => status'[q] = status[q]
       BY <1>1, <1>2 DEF OutcomesStand, Terminal, Recorded, TypeOK
    <2>2. CASE ItemsOf[p] # ItemsOf[q]
      <3>1. answer'[p] = "keyReused"
         BY <1>5, <2>2 DEF ReplayOf
      <3> QED BY <2>1, <2>2, <3>1 DEF AnswerHolds
    <2>3. CASE ItemsOf[p] = ItemsOf[q] /\ status[q] = "completed"
      <3>1. answer'[p] = "completed"
         BY <1>5, <2>3 DEF ReplayOf, Open
      <3> QED BY <2>1, <2>3, <3>1 DEF AnswerHolds
    <2>4. CASE ItemsOf[p] = ItemsOf[q] /\ status[q] \in Open
      <3>1. answer'[p] = "inProgress"
         BY <1>5, <2>4 DEF ReplayOf, Open
      <3> QED BY <3>1 DEF AnswerHolds
    <2>5. CASE ItemsOf[p] = ItemsOf[q] /\ status[q] = "cancelled"
      <3>1. answer'[p] \in {"storedError", "operationFailed"}
         BY <1>5, <2>5 DEF ReplayOf, Open
      <3> QED BY <2>1, <2>5, <3>1 DEF AnswerHolds
    <2> QED BY <2>1, <2>2, <2>3, <2>4, <2>5 DEF Status, Open
  <1>6. ASSUME NEW p \in Request, answer'[p] = "completed", step[p] = "cleanup"
        PROVE  AnswerHolds(p)'
    <2>1. status'[p] = "completed"
       BY <1>1, <1>6 DEF AnswerInv, CleanupFollowsSale, OutcomesStand, Terminal
    <2>2. p \in Recorded(p)'
       BY <2>1 DEF Recorded, SameOperation
    <2> QED BY <1>6, <2>1, <2>2 DEF AnswerHolds
  <1>7. ASSUME NEW p \in Request, answer'[p] \in {"failed", "rejected"}, answer'[p] # answer[p]
        PROVE  AnswerHolds(p)'
    <2>1. ASSUME answer'[p] = "rejected" PROVE step'[p] \in Done /\ status'[p] = "none"
      <3>1. step[p] \in {"available", "validate"} /\ step'[p] = "unlock"
         BY <1>1, <1>7, <2>1, RequestsStay DEF Stays
      <3>2. status[p] = "none"
         BY <1>1, <3>1 DEF StepFitsStatus, EntrySteps
      <3>3. status'[p] = "none"
         BY <1>1, <3>1, <3>2, RecordsAreOwn
      <3> QED BY <3>1, <3>3 DEF Done
    <2>2. ASSUME answer'[p] = "failed"
          PROVE  step'[p] \in Spent /\ (faults' > 0 \/ status'[p] # "completed")
      <3>1. step'[p] \in Spent /\ (faults' > 0 \/ (step[p] \in Refusable /\ UNCHANGED status))
         BY <1>1, <1>7, <2>2, RequestsStay DEF Stays
      <3>2. step[p] \in Refusable => status[p] # "completed"
         BY <1>1 DEF StepFitsStatus, Aftermath, Refusable, AttemptSteps
      <3> QED BY <3>1, <3>2
    <2> QED BY <1>7, <2>1, <2>2 DEF AnswerHolds
  <1>8. ASSUME NEW p \in Request PROVE AnswerHolds(p)'
     BY <1>1, <1>4, <1>5, <1>6, <1>7, AnswersTell DEF Tells
  <1> QED BY <1>3, <1>8 DEF AnswerInv

\* What an answered request was told stays true, for any number of retries,
\* replicas and faults: successes and replayed failures of the operation, refusals
\* and other failures of this request.
THEOREM AnswersStand == Spec => []AnswersStayTrue
  <1>1. Init => AnswerInv
     BY NameAssumption DEF Init, AnswerInv, AnswerHolds, CleanupFollowsSale, Worker
  <1>2. IInv /\ AnswerInv /\ [Next]_vars => AnswerInv'
    <2>1. ASSUME AnswerInv, UNCHANGED vars PROVE AnswerInv'
       BY <2>1 DEF vars, recordVars, processVars, AnswerInv, AnswerHolds, CleanupFollowsSale,
                   Recorded, SameOperation
    <2> QED BY <2>1, AnswerStep
  <1>3. IInv /\ AnswerInv => AnswersStayTrue
     BY DEF IInv, ControlFits, ChargeFitsStep, AnswerInv, AnswerHolds, AnswersStayTrue
  <1> QED BY <1>1, <1>2, <1>3, Invariance, PTL DEF Spec

-----------------------------------------------------------------------------
(***************************************************************************)
(* Late processes take no seat from anybody else.                          *)
(***************************************************************************)

\* The process steps that write a ticket key.
LEMMA HoldFrame ==
    ASSUME Next
    PROVE  \/ UNCHANGED step \/ UNCHANGED ticketKey
           \/ \E p \in Request : ClaimTickets(p) \/ CleanupClaims(p)
           \/ \E w \in Worker : ReleaseClaims(w)
  <1> USE DEF recordVars, processVars, holdVars
  <1>1. ASSUME NEW p \in Request, RequestStep(p)
        PROVE  UNCHANGED ticketKey \/ ClaimTickets(p) \/ CleanupClaims(p)
     BY <1>1
        DEF RequestStep, Replay, LookupNothing, AcquireLock, LockWaitTimesOut, CheckAvailable,
                 Validate, Reject, CreateRecord, DuplicateKey, CreatePayment, SetPaymentId,
                 CancelLatePayment, ClaimForCompletion, ConfirmClaims, CommitPurchase,
                 AttemptRefused, ClaimOwn, NothingToReconcile, ReleaseLock
  <1>2. ASSUME NEW w \in Worker, ReconcileStep(w) PROVE UNCHANGED ticketKey \/ ReleaseClaims(w)
     BY <1>2 DEF ReconcileStep, CancelPayment, MarkCancelled, YieldReconciliation
  <1>3. ASSUME NEW s \in Sweeper, SweeperStep(s) PROVE UNCHANGED ticketKey \/ ReleaseClaims(s)
     BY <1>2, <1>3 DEF SweeperStep, SweepRecord, SweepPayment, SettlePayment, Worker
  <1>4. ASSUME NEW p \in Request, Submit(p) \/ LeaseExpires(p) PROVE UNCHANGED ticketKey
     BY <1>4 DEF Submit, LeaseExpires
  <1>5. ASSUME NEW w \in Worker, CallFails(w) \/ Crash(w) PROVE UNCHANGED ticketKey
     BY <1>5 DEF CallFails, Crash
  <1>6. ASSUME NEW u \in User, UserKeyExpires(u) \/ \E S \in SeatsOf[u] : HoldTickets(u, S)
        PROVE  UNCHANGED step
     BY <1>6 DEF UserKeyExpires, HoldTickets
  <1>7. ASSUME NEW t \in Ticket, TicketKeyExpires(t) PROVE UNCHANGED step
     BY <1>7 DEF TicketKeyExpires
  <1>8. ASSUME NEW k \in LockKey, LockExpires(k) PROVE UNCHANGED ticketKey
     BY <1>8 DEF LockExpires
  <1> QED BY <1>1, <1>2, <1>3, <1>4, <1>5, <1>6, <1>7, <1>8 DEF Next, Worker

\* However late a process runs, it claims only seats its own customer still holds
\* and frees only keys of the purchase it works on.
THEOREM HoldsRespected == Spec => HoldsAreRespected
  <1>1. ASSUME IInv, Next, NEW t \in Ticket, step' # step, ticketKey'[t] # ticketKey[t]
        PROVE  IF ticketKey'[t] = Nobody
                  THEN \E w \in Worker : step'[w] # step[w] /\ job[w] = ticketKey[t]
                  ELSE ticketKey[t] = UserOf[ticketKey'[t]]
    <2>0. TypeOK
       BY <1>1 DEF IInv
    <2>1. ASSUME NEW p \in Request, ClaimTickets(p)
          PROVE  ticketKey'[t] # Nobody /\ ticketKey[t] = UserOf[ticketKey'[t]]
       BY <1>1, <2>0, <2>1, NameAssumption DEF NameAssumption, TypeOK, ClaimTickets, Claimable
    <2>2. ASSUME NEW p \in Request, CleanupClaims(p)
          PROVE  ticketKey'[t] = Nobody /\ step'[p] # step[p] /\ job[p] = ticketKey[t]
      <3>1. ticketKey' = Released(job[p]) /\ step[p] = "cleanup"
         BY <2>0, <2>2 DEF CleanupClaims, TypeOK
      <3>2. step'[p] = "unlock"
         BY <2>0, <2>2, <3>1, ErrorTable DEF CleanupClaims, Throw, GoTo, TypeOK, Worker
      <3> QED BY <1>1, <2>0, <3>1, <3>2 DEF TypeOK, Released
    <2>3. ASSUME NEW w \in Worker, ReleaseClaims(w)
          PROVE  ticketKey'[t] = Nobody /\ step'[w] # step[w] /\ job[w] = ticketKey[t]
      <3>1. ticketKey' = Released(job[w]) /\ step[w] = "release" /\ Reply(w, "refund")
         BY <2>3 DEF ReleaseClaims
      <3>2. step'[w] \in {"refund", "refundOnly"}
         BY <2>0, <3>1, ErrorTable DEF Reply, Proceed, Throw, GoTo, TypeOK
      <3> QED BY <1>1, <2>0, <3>1, <3>2 DEF TypeOK, Released
    <2> QED BY <1>1, <2>1, <2>2, <2>3, HoldFrame DEF Worker
  <1>2. IInv /\ [Next]_vars =>
          [\A t \in Ticket : step' # step /\ ticketKey'[t] # ticketKey[t] =>
              IF ticketKey'[t] = Nobody
                 THEN \E w \in Worker : step'[w] # step[w] /\ job[w] = ticketKey[t]
                 ELSE ticketKey[t] = UserOf[ticketKey'[t]]]_vars
     BY <1>1
  <1> QED BY <1>2, Invariance, PTL DEF Spec, HoldsAreRespected

-----------------------------------------------------------------------------
(***************************************************************************)
(* The purchase implements its contract.                                   *)
(***************************************************************************)

\* No purchase is the initial state of the contract.
LEMMA ContractInitially == Init => Contract!ContractInit
  BY DEF Init, Contract!ContractInit, Outcome, Charges, ChargeOf, Open

\* A step that writes no status, payment or sale is a stutter of the contract.
LEMMA ContractStutter ==
    ASSUME UNCHANGED <<status, payment, soldTo>> PROVE UNCHANGED Contract!contractVars
  BY DEF Contract!contractVars, Outcome, Charges, ChargeOf

\* What a written status means in the contract.
LEMMA OutcomeChanges ==
    ASSUME TypeOK, NEW p \in Request, NEW x \in Status, status' = [status EXCEPT ![p] = x]
    PROVE  Outcome' = [Outcome EXCEPT ![p] = IF x \in Open THEN "open" ELSE x]
  BY DEF TypeOK, Outcome

\* What a written payment means in the contract.
LEMMA ChargeChanges ==
    ASSUME TypeOK, NEW p \in Request, NEW x \in Payment, payment' = [payment EXCEPT ![p] = x]
    PROVE  Charges' = [Charges EXCEPT ![p] = ChargeOf(x)]
  BY DEF TypeOK, Charges

\* Every step is a step of the contract, or none.
LEMMA ContractStep ==
    ASSUME IInv, Next PROVE Contract!ContractNext \/ UNCHANGED Contract!contractVars
  <1> USE DEF IInv, ControlFits
  <1>1. ASSUME NEW p \in Request, CreateRecord(p) PROVE Contract!Begin(p)
    <2>1. ASSUME NEW q \in Request, UserOf[q] = UserOf[p], KeyOf[q] = KeyOf[p]
          PROVE  Outcome[q] = "none"
       BY <1>1, <2>1 DEF CreateRecord, Recorded, SameOperation, Outcome, Open
    <2>2. status' = [status EXCEPT ![p] = "pending"] /\ "pending" \in Status \intersect Open
       BY <1>1 DEF CreateRecord, Status, Open
    <2>3. Outcome' = [Outcome EXCEPT ![p] = "open"]
       BY <2>2, OutcomeChanges
    <2>4. UNCHANGED <<payment, soldTo>>
       BY <1>1 DEF CreateRecord
    <2> QED BY <2>1, <2>3, <2>4 DEF Contract!Begin, Charges
  <1>2. ASSUME NEW p \in Request, CreatePayment(p)
        PROVE  Contract!Charge(p) \/ UNCHANGED Contract!contractVars
    <2>1. UNCHANGED <<status, soldTo, Outcome>>
       BY <1>2 DEF CreatePayment, recordVars, Outcome
    <2>2. CASE payment[p] = "none"
      <3>1. Charges' = [Charges EXCEPT ![p] = "held"] /\ Charges[p] = "none"
         BY <1>2, <2>2, ChargeChanges DEF CreatePayment, Payment, ChargeOf, Charges
      <3>2. Outcome[p] \in {"open", "cancelled"}
         BY <1>2
            DEF CreatePayment, StepFitsStatus, EntrySteps, Aftermath, TypeOK, Status, Open,
                Outcome
      <3> QED BY <2>1, <3>1, <3>2 DEF Contract!Charge
    <2>3. CASE payment[p] # "none"
      <3>1. UNCHANGED payment
         BY <1>2, <2>3 DEF CreatePayment, TypeOK
      <3> QED BY <2>1, <3>1, ContractStutter
    <2> QED BY <2>2, <2>3
  <1>3. ASSUME NEW p \in Request, payment' = Cancelled(p), UNCHANGED <<status, soldTo>>,
               status[p] \notin {"none", "completed"}
        PROVE  Contract!Refund(p) \/ UNCHANGED Contract!contractVars
    <2>1. payment[p] \in {"none", "unresolved", "cancelled"}
       BY <1>3 DEF TypeOK, Payment, ChargeMatchesOutcome
    <2>2. CASE payment[p] = "unresolved"
      <3>1. Charges' = [Charges EXCEPT ![p] = "returned"] /\ Charges[p] = "held"
         BY <1>3, <2>2, ChargeChanges DEF Cancelled, Payment, ChargeOf, Charges
      <3>2. Outcome[p] \in {"open", "cancelled"} /\ UNCHANGED Outcome
         BY <1>3 DEF TypeOK, Status, Open, Outcome
      <3> QED BY <1>3, <3>1, <3>2 DEF Contract!Refund
    <2>3. CASE payment[p] # "unresolved"
      <3>1. UNCHANGED payment
         BY <1>3, <2>1, <2>3 DEF Cancelled, TypeOK
      <3> QED BY <1>3, <3>1, ContractStutter
    <2> QED BY <2>2, <2>3
  <1>4. ASSUME NEW p \in Request, CancelLatePayment(p)
        PROVE  Contract!Refund(p) \/ UNCHANGED Contract!contractVars
     BY <1>3, <1>4 DEF CancelLatePayment, StepFitsStatus, EntrySteps, Aftermath, recordVars
  <1>5. ASSUME NEW w \in Worker, CancelPayment(w)
        PROVE  Contract!Refund(job[w]) \/ UNCHANGED Contract!contractVars
     BY <1>3, <1>5 DEF CancelPayment, ReconcilerFitsStatus, ReconcileSteps, recordVars
  <1>6. ASSUME NEW p \in Request, ClaimForCompletion(p) PROVE UNCHANGED Contract!contractVars
     BY <1>6
        DEF ClaimForCompletion, TypeOK, Contract!contractVars, Outcome, Charges, ChargeOf, Open
  <1>7. ASSUME NEW p \in Request, CommitPurchase(p) PROVE Contract!Complete(p)
    <2>1. status[p] = "completing" /\ payment[p] = "unresolved"
       BY <1>7 DEF CommitPurchase, OwnsCompletion, ChargeFitsStep
    <2>2. Outcome[p] = "open" /\ Outcome' = [Outcome EXCEPT ![p] = "completed"]
      <3>1. status' = [status EXCEPT ![p] = "completed"] /\ "completed" \in Status \ Open
         BY <1>7 DEF CommitPurchase, Status, Open
      <3>2. Outcome' = [Outcome EXCEPT ![p] = "completed"]
         BY <3>1, OutcomeChanges
      <3> QED BY <2>1, <3>2 DEF Outcome, Open
    <2>3. Charges[p] = "held" /\ Charges' = [Charges EXCEPT ![p] = "kept"]
      <3>1. payment' = [payment EXCEPT ![p] = "resolved"]
         BY <1>7, <2>1 DEF CommitPurchase
      <3> QED BY <2>1, <3>1, ChargeChanges DEF Payment, ChargeOf, Charges
    <2> QED BY <1>7, <2>2, <2>3 DEF CommitPurchase, Sellable, Contract!Complete
  <1>8. ASSUME NEW p \in Request, NEW w \in Worker, Reclaimable(w, p), TakeOver(w, p),
               UNCHANGED <<payment, soldTo>>
        PROVE  UNCHANGED Contract!contractVars
     BY <1>8
        DEF Reclaimable, TakeOver, TypeOK, Contract!contractVars, Outcome, Charges, ChargeOf,
            Open
  <1>9. ASSUME NEW w \in Worker, MarkCancelled(w)
        PROVE  Contract!Cancel(job[w]) \/ UNCHANGED Contract!contractVars
     BY <1>9
        DEF MarkCancelled, OwnsReconciliation, TypeOK, Contract!Cancel, Contract!contractVars,
                 Outcome, Charges, ChargeOf, Open
  <1>10. ASSUME NEW s \in Sweeper, SettlePayment(s)
         PROVE  Contract!Refund(job[s]) \/ UNCHANGED Contract!contractVars
     BY <1>10 DEF SettlePayment, SettlerFitsStatus, SettleSteps, TypeOK, Contract!Refund,
                  Contract!contractVars, Outcome, Charges, ChargeOf, Open, Payment, ChargeMatchesOutcome,
                  recordVars
  <1>11. ASSUME NEW w \in Worker, CancelPayment(w) PROVE job[w] \in Request
     BY <1>11 DEF CancelPayment, ReconcilerFitsStatus, ReconcileSteps
  <1>12. ASSUME NEW w \in Worker, MarkCancelled(w) PROVE job[w] \in Request
     BY <1>12 DEF MarkCancelled, ReconcilerFitsStatus, ReconcileSteps
  <1>13. ASSUME NEW s \in Sweeper, SettlePayment(s) PROVE job[s] \in Request
     BY <1>13 DEF SettlePayment, SettlerFitsStatus
  <1>14. ASSUME NEW p \in Request, ClaimOwn(p) \/ \E s \in Sweeper : SweepRecord(s, p)
         PROVE  UNCHANGED Contract!contractVars
     BY <1>8, <1>14 DEF ClaimOwn, SweepRecord, Worker
  <1> QED BY <1>1, <1>2, <1>4, <1>5, <1>6, <1>7, <1>9, <1>10, <1>11, <1>12, <1>13, <1>14,
             RecordFrame, ContractStutter DEF Contract!ContractNext

\* Whatever replicas, sweeps, faults and timeouts do, customers see a purchase that
\* is opened once per key, ends sold and paid or cancelled, and keeps no other charge.
THEOREM ImplementsItsContract == Spec => ImplementsContract
  <1>1. IInv /\ [Next]_vars => [Contract!ContractNext]_(Contract!contractVars)
    <2> SUFFICES ASSUME IInv, [Next]_vars
                 PROVE  Contract!ContractNext \/ UNCHANGED Contract!contractVars
       OBVIOUS
    <2>1. CASE UNCHANGED vars
       BY <2>1, ContractStutter DEF vars, recordVars
    <2> QED BY <2>1, ContractStep
  <1> QED BY <1>1, Invariance, ContractInitially, PTL
          DEF Spec, ImplementsContract, Contract!ContractSpec

=============================================================================
