------------------------ MODULE PurchaseOutboxProofs ------------------------
(***************************************************************************)
(* No event of a completed purchase is lost, for every set of requests,    *)
(* runs of the job and consume loops, every capacity of the stream and any *)
(* number of faults.                                                       *)
(*                                                                         *)
(* NothingIsLost is not inductive: that an event is marked only when it is *)
(* in good hands rests on what the publisher knows (the broker answered,   *)
(* or it remembers the message id), and that on what was acknowledged.     *)
(***************************************************************************)
EXTENDS PurchaseOutbox, FiniteSetTheorems, TLAPS

\* the confirmation was sent, or a message in the stream will cause it
InGoodHands(r) == r \in announced \/ Waiting(r)

WorkersHaveRecords == \A w \in Publisher : job[w] \in Request <=> step[w] # "idle"

AckedAreAnnounced == \A m \in acked : m[1] \in announced

CopiesAreNumbered == \A m \in stored : m[2] <= copies[m[1]]

RememberedInGoodHands == \A r \in remembered : InGoodHands(r)

MarkersKnow == \A w \in Publisher : step[w] = "mark" => InGoodHands(job[w])

IInv ==
    /\ TypeOK
    /\ WorkersHaveRecords
    /\ AckedAreAnnounced
    /\ CopiesAreNumbered
    /\ RememberedInGoodHands
    /\ MarkersKnow
    /\ NothingIsLost

-----------------------------------------------------------------------------
\* The type invariant holds initially.
LEMMA InitTypeOK == Init => TypeOK
  BY NameAssumption, SMTT(30) DEF Init, TypeOK, Publisher, Message, Step

\* Where GoTo may send a publisher: its step and its record stay well typed, a
\* publisher that has a step has a record, and nobody else moves.
LEMMA GoToTypes ==
  ASSUME TypeOK, WorkersHaveRecords, NEW w \in Publisher, NEW s \in Step, GoTo(w, s),
         step[w] # "idle", s = "idle" => w \notin Request
  PROVE  /\ step' \in [Publisher -> Step]
         /\ job' \in [Publisher -> Request \union {Nobody}]
         /\ \A p \in Request : job'[p] = p
         /\ WorkersHaveRecords'
         /\ step' = [step EXCEPT ![w] = s]
         /\ \A v \in Publisher : step'[v] = "mark" => job'[v] = job[v]
  <1>1. \A p \in Request : p \in Publisher
    BY DEF Publisher
  <1>2. CASE s = "idle"
    BY <1>1, <1>2, NameAssumption, SMTT(30) DEF GoTo, TypeOK, WorkersHaveRecords
  <1>3. CASE s # "idle"
    BY <1>1, <1>3, SMTT(30) DEF GoTo, TypeOK, WorkersHaveRecords
  <1>. QED  BY <1>2, <1>3

\* The places publishPurchaseEvent goes on to, none of which is "mark" by accident.
LEMMA Places ==
  ASSUME NEW w \in Publisher
  PROVE  /\ Returned(w) \in {"done", "idle"}
         /\ Returned(w) = "idle" => w \notin Request
         /\ OnError(w) \in {"release", "done", "idle"}
         /\ OnError(w) = "idle" => w \notin Request
  BY DEF Returned, OnError

\* What is in good hands stays there: a confirmation is never recalled, and a
\* message leaves the waiting ones only when its confirmation was sent.
LEMMA GoodHandsLast ==
  ASSUME announced \subseteq announced',
         \A m \in stored \ acked : m \in stored' \ acked' \/ m[1] \in announced'
  PROVE  \A r : InGoodHands(r) => InGoodHands(r)'
  BY DEF InGoodHands, Waiting

\* The invariant does not mention who holds a lease or which replica is alive:
\* it survives a step that leaves the outbox and the stream alone.
LEMMA PublisherMoves ==
  ASSUME IInv, TypeOK', WorkersHaveRecords',
         UNCHANGED <<published, streamVars, consumerVars>>,
         \A w \in Publisher : step'[w] = "mark" => step[w] = "mark" /\ job'[w] = job[w]
  PROVE  IInv'
  <1>1. AckedAreAnnounced' /\ CopiesAreNumbered'
    BY DEF IInv, AckedAreAnnounced, CopiesAreNumbered, streamVars, consumerVars
  <1>2. \A r : InGoodHands(r) => InGoodHands(r)'
    BY GoodHandsLast DEF streamVars, consumerVars
  <1>3. RememberedInGoodHands'
    BY <1>2 DEF IInv, RememberedInGoodHands, streamVars
  <1>4. MarkersKnow'
    BY <1>2 DEF IInv, MarkersKnow
  <1>5. NothingIsLost'
    BY <1>2 DEF IInv, NothingIsLost, InGoodHands
  <1>. QED  BY <1>1, <1>3, <1>4, <1>5 DEF IInv

\* The same for a step that leaves the publishers alone: the stream may forget
\* ids and drop messages that were announced, a consumer may announce.
LEMMA ConsumerMoves ==
  ASSUME IInv, TypeOK', AckedAreAnnounced',
         UNCHANGED <<recordVars, copies, step, job>>,
         announced \subseteq announced',
         stored' \subseteq stored, remembered' \subseteq remembered,
         \A m \in stored \ acked : m \in stored' \ acked' \/ m[1] \in announced'
  PROVE  IInv'
  <1>1. WorkersHaveRecords'
    BY DEF IInv, WorkersHaveRecords
  <1>2. CopiesAreNumbered'
    BY DEF IInv, CopiesAreNumbered
  <1>3. \A r : InGoodHands(r) => InGoodHands(r)'
    BY GoodHandsLast
  <1>4. RememberedInGoodHands'
    BY <1>3 DEF IInv, RememberedInGoodHands
  <1>5. MarkersKnow'
    BY <1>3 DEF IInv, MarkersKnow
  <1>6. NothingIsLost'
    BY <1>3 DEF IInv, NothingIsLost, InGoodHands, recordVars
  <1>. QED  BY <1>1, <1>2, <1>4, <1>5, <1>6 DEF IInv

-----------------------------------------------------------------------------
(***************************************************************************)
(* publishPurchaseEvent.                                                   *)
(***************************************************************************)

\* commitPurchase starts the outbox of a record.
LEMMA SellStep == ASSUME IInv, NEW p \in Request, Sell(p) PROVE IInv'
  <1>. p \in Publisher /\ step[p] = "selling"
    BY DEF Publisher, Sell
  <1>. PICK s \in {"claim", OnError(p)} : GoTo(p, s)
    BY DEF Sell, Reply
  <1>. s \in Step /\ (s = "idle" => p \notin Request) /\ s # "mark"
    BY Places DEF Step
  <1>1. /\ step' \in [Publisher -> Step]
        /\ job' \in [Publisher -> Request \union {Nobody}]
        /\ \A q \in Request : job'[q] = q
        /\ WorkersHaveRecords'
        /\ \A v \in Publisher : step'[v] = "mark" => step[v] = "mark" /\ job'[v] = job[v]
    BY GoToTypes, SMTT(30) DEF IInv, TypeOK
  <1>2. TypeOK'
    BY <1>1, SMTT(30) DEF IInv, TypeOK, Sell, Reply, Fault, streamVars, consumerVars
  <1>. QED  BY <1>1, <1>2, PublisherMoves DEF Sell

\* claimEventPublication takes the lease of a record, not the event itself.
LEMMA ClaimStep ==
  ASSUME IInv, NEW w \in Publisher, NEW r \in Request, Claim(w, r)
  PROVE  IInv'
  <1>. w \notin Request \/ r = w
    BY SMTT(30) DEF Claim, IInv, TypeOK, WorkersHaveRecords
  <1>. PICK s \in {"emit", "release"} : step' = [step EXCEPT ![w] = s]
    BY DEF Claim
  <1>1. WorkersHaveRecords'
    BY SMTT(30) DEF IInv, TypeOK, WorkersHaveRecords, Claim
  <1>2. TypeOK'
    BY SMTT(30) DEF IInv, TypeOK, Claim, Fault, Step, streamVars, consumerVars
  <1>3. \A v \in Publisher : step'[v] = "mark" => step[v] = "mark" /\ job'[v] = job[v]
    BY SMTT(30) DEF IInv, TypeOK, Claim
  <1>. QED  BY <1>1, <1>2, <1>3, PublisherMoves DEF Claim

\* Every exit of publishPurchaseEvent, and every failed call in it, only moves
\* the publisher, ends a lease or costs a fault; none of them leads to "mark".
LEMMA ExitStep ==
  ASSUME IInv, NEW w \in Publisher,
         \/ NothingToPublish(w) \/ EmitRefused(w) \/ LeaseLost(w)
         \/ ReleaseClaim(w) \/ CallFails(w) \/ Crash(w)
  PROVE  IInv'
  <1>1. /\ step[w] # "idle"
        /\ \E s \in {Returned(w), OnError(w), "release"} : GoTo(w, s)
    BY DEF NothingToPublish, EmitRefused, LeaseLost, ReleaseClaim, CallFails, Crash, Reply
  <1>2. PICK s \in {Returned(w), OnError(w), "release"} : GoTo(w, s)
    BY <1>1
  <1>3. s \in Step /\ (s = "idle" => w \notin Request) /\ s # "mark"
    BY Places DEF Step
  <1>4. /\ step' \in [Publisher -> Step]
        /\ job' \in [Publisher -> Request \union {Nobody}]
        /\ \A q \in Request : job'[q] = q
        /\ WorkersHaveRecords'
        /\ \A v \in Publisher : step'[v] = "mark" => step[v] = "mark" /\ job'[v] = job[v]
    BY <1>1, <1>2, <1>3, GoToTypes, SMTT(30) DEF IInv, TypeOK
  <1>5. /\ UNCHANGED <<completed, published, streamVars, consumerVars>>
        /\ faults' \in Nat
    BY SMTT(30) DEF NothingToPublish, EmitRefused, LeaseLost, ReleaseClaim, CallFails, Crash,
          Reply, Fault, IInv, TypeOK, recordVars
  <1>6. /\ publicationId' \in [Request -> Publisher \union {Nobody}]
        /\ lease' \in [Request -> {"none", "live", "expired"}]
    BY SMTT(30) DEF NothingToPublish, EmitRefused, LeaseLost, ReleaseClaim, CallFails, Crash,
          EndLease, IInv, TypeOK, recordVars
  <1>7. TypeOK'
    BY <1>4, <1>5, <1>6, SMTT(30) DEF IInv, TypeOK, streamVars, consumerVars
  <1>. QED  BY <1>4, <1>5, <1>7, PublisherMoves

\* An answer of the broker, also "duplicate", means that the event is in good
\* hands: it was stored just now or is remembered.
LEMMA EmitStep == ASSUME IInv, NEW w \in Publisher, Emit(w) PROVE IInv'
  <1>. step[w] = "emit" /\ job[w] \in Request
    BY DEF Emit, IInv, WorkersHaveRecords
  <1>. PICK r \in Request : r = job[w]
    OBVIOUS
  <1>. DEFINE m == <<r, copies[r] + 1>>
  <1>1. /\ step[w] = "emit" /\ r \in Request
        /\ copies[r] \in Nat /\ m \in Message /\ m[1] = r /\ m[2] = copies[r] + 1
    BY SMTT(30) DEF IInv, TypeOK, Message
  <1>2. m \notin stored
    BY <1>1, SMTT(30) DEF IInv, CopiesAreNumbered
  <1>3. PICK s \in {"mark", OnError(w)} : GoTo(w, s)
    BY DEF Emit, Reply
  <1>4. s \in Step /\ (s = "idle" => w \notin Request)
    BY Places DEF Step
  <1>5. /\ step' \in [Publisher -> Step]
        /\ job' \in [Publisher -> Request \union {Nobody}]
        /\ \A q \in Request : job'[q] = q
        /\ WorkersHaveRecords'
        /\ step' = [step EXCEPT ![w] = s]
        /\ \A v \in Publisher : step'[v] = "mark" => job'[v] = job[v]
    BY <1>1, <1>3, <1>4, GoToTypes DEF IInv
  <1>6. /\ UNCHANGED <<completed, published, publicationId, lease, acked, inFlight>>
        /\ UNCHANGED <<held, stopped, announced>>
        /\ faults' \in Nat
    BY SMTT(30) DEF Emit, Reply, Fault, IInv, TypeOK, recordVars, streamVars, consumerVars
  <1>7. \/ r \in remembered /\ UNCHANGED <<copies, stored, remembered>>
        \/ /\ copies' = [copies EXCEPT ![r] = @ + 1]
           /\ stored' = stored \union {m}
           /\ remembered' = remembered \union {r}
    BY DEF Emit, streamVars
  <1>8. TypeOK'
    <2>1. copies' \in [Request -> Nat] /\ stored' \subseteq Message /\ remembered' \subseteq Request
      BY <1>1, <1>7, SMTT(30) DEF IInv, TypeOK
    <2>2. acked' \subseteq stored' /\ inFlight' \subseteq stored'
      BY <1>6, <1>7 DEF IInv, TypeOK
    <2>. QED  BY <1>5, <1>6, <2>1, <2>2, SMTT(30) DEF IInv, TypeOK
  <1>9. AckedAreAnnounced' /\ CopiesAreNumbered'
    <2>1. AckedAreAnnounced'
      BY <1>6 DEF IInv, AckedAreAnnounced
    <2>2. CASE UNCHANGED <<copies, stored>>
      BY <2>1, <2>2 DEF IInv, CopiesAreNumbered
    <2>3. CASE /\ copies' = [copies EXCEPT ![r] = @ + 1]
               /\ stored' = stored \union {m}
      <3>1. \A q \in Request : copies'[q] \in Nat /\ copies[q] <= copies'[q]
        BY <1>1, <2>3, SMTT(30) DEF IInv, TypeOK
      <3>2. ASSUME NEW n \in stored PROVE n[2] <= copies'[n[1]]
        BY <3>1, SMTT(30) DEF IInv, TypeOK, CopiesAreNumbered, Message
      <3>3. m[2] <= copies'[m[1]]
        BY <1>1, <2>3, SMTT(30) DEF IInv, TypeOK
      <3>. QED  BY <2>1, <2>3, <3>2, <3>3 DEF CopiesAreNumbered
    <2>. QED  BY <1>7, <2>2, <2>3
  <1>10. \A q : InGoodHands(q) => InGoodHands(q)'
    BY <1>6, <1>7, GoodHandsLast
  <1>11. InGoodHands(r)'
    <2>1. CASE r \in remembered
      BY <2>1, <1>10 DEF IInv, RememberedInGoodHands
    <2>2. CASE stored' = stored \union {m}
      <3>1. m \in stored' \ acked'
        BY <1>2, <1>6, <2>2 DEF IInv, TypeOK
      <3>. QED  BY <1>1, <3>1 DEF InGoodHands, Waiting
    <2>. QED  BY <1>7, <2>1, <2>2
  <1>12. RememberedInGoodHands'
    BY <1>7, <1>10, <1>11 DEF IInv, RememberedInGoodHands
  <1>13. MarkersKnow'
    BY <1>5, <1>10, <1>11, SMTT(30) DEF IInv, TypeOK, MarkersKnow
  <1>14. NothingIsLost'
    BY <1>6, <1>10 DEF IInv, NothingIsLost, InGoodHands
  <1>. QED  BY <1>5, <1>8, <1>9, <1>12, <1>13, <1>14 DEF IInv

\* markEventPublished marks an event that its publisher knows to be in good hands.
LEMMA MarkStep == ASSUME IInv, NEW w \in Publisher, MarkPublished(w) PROVE IInv'
  <1>1. step[w] = "mark" /\ job[w] \in Request /\ InGoodHands(job[w])
    BY SMTT(30) DEF MarkPublished, IInv, WorkersHaveRecords, MarkersKnow
  <1>2. PICK s \in {Returned(w), OnError(w)} : GoTo(w, s)
    BY DEF MarkPublished, Reply
  <1>3. s \in Step /\ (s = "idle" => w \notin Request) /\ s # "mark"
    BY Places DEF Step
  <1>4. /\ step' \in [Publisher -> Step]
        /\ job' \in [Publisher -> Request \union {Nobody}]
        /\ \A q \in Request : job'[q] = q
        /\ WorkersHaveRecords'
        /\ \A v \in Publisher : step'[v] = "mark" => step[v] = "mark" /\ job'[v] = job[v]
    BY <1>1, <1>2, <1>3, GoToTypes, SMTT(30) DEF IInv, TypeOK
  <1>5. TypeOK'
    BY <1>1, <1>4, SMTT(30) DEF IInv, TypeOK, MarkPublished, EndLease, Reply, Fault,
          streamVars, consumerVars
  <1>6. \A q : InGoodHands(q) => InGoodHands(q)'
    BY GoodHandsLast DEF MarkPublished, streamVars, consumerVars
  <1>7. NothingIsLost'
    BY <1>1, <1>6 DEF IInv, NothingIsLost, InGoodHands, MarkPublished
  <1>8. RememberedInGoodHands' /\ MarkersKnow'
    BY <1>4, <1>6 DEF IInv, RememberedInGoodHands, MarkersKnow, MarkPublished, streamVars
  <1>9. AckedAreAnnounced' /\ CopiesAreNumbered'
    BY DEF IInv, AckedAreAnnounced, CopiesAreNumbered, MarkPublished, streamVars, consumerVars
  <1>. QED  BY <1>4, <1>5, <1>7, <1>8, <1>9 DEF IInv

-----------------------------------------------------------------------------
(***************************************************************************)
(* The durable consumer, faults and time.                                  *)
(***************************************************************************)

\* process announces before it acknowledges.
LEMMA ProcessStep == ASSUME IInv, NEW c \in Consumer, Process(c) PROVE IInv'
  <1>1. PICK m \in Message : m = held[c] /\ m # NoMessage
    BY SMTT(30) DEF Process, Processing, IInv, TypeOK
  <1>2. m[1] \in Request
    BY <1>1, SMTT(30) DEF Message
  <1>3. /\ announced' = announced \union {m[1]} /\ stored' = stored
        /\ acked' \subseteq acked \union ({m} \intersect stored) /\ acked \subseteq acked'
        /\ inFlight' \subseteq inFlight
        /\ UNCHANGED <<recordVars, copies, remembered, step, job, stopped>>
    BY <1>1 DEF Process, Acknowledge
  <1>4. held' \in [Consumer -> Message \union {NoMessage}] /\ faults' \in Nat
    BY SMTT(30) DEF Process, Forget, Fault, IInv, TypeOK
  <1>5. TypeOK'
    BY <1>2, <1>3, <1>4, SMTT(30) DEF IInv, TypeOK, recordVars
  <1>6. AckedAreAnnounced'
    BY <1>3 DEF IInv, AckedAreAnnounced
  <1>. QED  BY <1>3, <1>5, <1>6, ConsumerMoves

\* No other step of the consumer, of a replica or of the clock acknowledges or
\* drops a message that was not announced.
LEMMA OtherStep ==
  ASSUME IInv,
         \/ \E c \in Consumer :
               (\E m \in stored : Deliver(c, m)) \/ ProcessFails(c) \/ LoopEnds(c) \/ ConsumerRestarts(c)
         \/ \E r \in Request : WindowExpires(r)
         \/ \E m \in stored : AckWaitElapses(m) \/ AgesOut(m)
  PROVE  IInv'
  <1>1. /\ UNCHANGED <<recordVars, copies, step, job, announced>>
        /\ stored' \subseteq stored /\ acked' \subseteq acked /\ remembered' \subseteq remembered
        /\ stored \ acked \subseteq stored' \ acked'
        /\ acked' \subseteq stored'
        /\ inFlight' \subseteq stored'
    BY DEF Deliver, ProcessFails, LoopEnds, ConsumerRestarts, WindowExpires, AckWaitElapses, AgesOut,
          streamVars, consumerVars, IInv, TypeOK
  <1>2. stopped' \subseteq Consumer
    BY DEF Deliver, ProcessFails, LoopEnds, ConsumerRestarts, WindowExpires, AckWaitElapses, AgesOut,
          consumerVars, IInv, TypeOK
  <1>3. held' \in [Consumer -> Message \union {NoMessage}]
    <2>1. \/ held' = held
          \/ \E c \in Consumer : \E m \in stored \union {NoMessage} : held' = [held EXCEPT ![c] = m]
      BY DEF Deliver, ProcessFails, LoopEnds, ConsumerRestarts, WindowExpires, AckWaitElapses,
            AgesOut, Forget, consumerVars
    <2>2. stored \subseteq Message /\ held \in [Consumer -> Message \union {NoMessage}]
      BY DEF IInv, TypeOK
    <2>. QED  BY <2>1, <2>2
  <1>4. faults' \in Nat
    BY SMTT(30) DEF Deliver, ProcessFails, LoopEnds, ConsumerRestarts, WindowExpires, AckWaitElapses,
          AgesOut, Elapse, Fault, IInv, TypeOK
  <1>5. TypeOK'
    BY <1>1, <1>2, <1>3, <1>4, SMTT(30) DEF IInv, TypeOK, recordVars
  <1>6. AckedAreAnnounced'
    BY <1>1 DEF IInv, AckedAreAnnounced
  <1>. QED  BY <1>1, <1>5, <1>6, ConsumerMoves

\* A lease that runs out hands the record to the next publisher and changes
\* nothing else.
LEMMA LeaseStep == ASSUME IInv, NEW r \in Request, LeaseExpires(r) PROVE IInv'
  <1>1. TypeOK'
    BY SMTT(30) DEF IInv, TypeOK, LeaseExpires, Elapse, Fault, streamVars, consumerVars
  <1>2. WorkersHaveRecords' /\ UNCHANGED <<step, job>>
    BY DEF IInv, WorkersHaveRecords, LeaseExpires
  <1>. QED  BY <1>1, <1>2, PublisherMoves DEF LeaseExpires

-----------------------------------------------------------------------------
\* Nothing is published, stored or acknowledged at the start.
LEMMA InitIInv == Init => IInv
  <1>. SUFFICES ASSUME Init PROVE IInv
    OBVIOUS
  <1>1. TypeOK
    BY InitTypeOK
  <1>2. WorkersHaveRecords
    BY NameAssumption, SMTT(30) DEF Init, WorkersHaveRecords, Publisher
  <1>3. MarkersKnow
    BY SMTT(30) DEF Init, MarkersKnow, Publisher
  <1>4. AckedAreAnnounced /\ CopiesAreNumbered /\ RememberedInGoodHands /\ NothingIsLost
    BY DEF Init, AckedAreAnnounced, CopiesAreNumbered, RememberedInGoodHands, NothingIsLost
  <1>. QED  BY <1>1, <1>2, <1>3, <1>4 DEF IInv

LEMMA NextIInv == IInv /\ [Next]_vars => IInv'
  <1>. SUFFICES ASSUME IInv, [Next]_vars PROVE IInv'
    OBVIOUS
  <1>1. CASE \E p \in Request : Sell(p)
    BY <1>1, SellStep
  <1>2. CASE \E w \in Publisher : PublisherStep(w) \/ CallFails(w) \/ Crash(w)
    <2>. PICK w \in Publisher : PublisherStep(w) \/ CallFails(w) \/ Crash(w)
      BY <1>2
    <2>1. CASE \E r \in Request : Claim(w, r)
      BY <2>1, ClaimStep
    <2>2. CASE Emit(w)
      BY <2>2, EmitStep
    <2>3. CASE MarkPublished(w)
      BY <2>3, MarkStep
    <2>4. CASE \/ NothingToPublish(w) \/ EmitRefused(w) \/ LeaseLost(w)
               \/ ReleaseClaim(w) \/ CallFails(w) \/ Crash(w)
      BY <2>4, ExitStep
    <2>. QED  BY <2>1, <2>2, <2>3, <2>4 DEF PublisherStep
  <1>3. CASE \E c \in Consumer : Process(c)
    BY <1>3, ProcessStep
  <1>4. CASE \/ \E c \in Consumer :
                   (\E m \in stored : Deliver(c, m)) \/ ProcessFails(c) \/ LoopEnds(c) \/ ConsumerRestarts(c)
             \/ \E r \in Request : WindowExpires(r)
             \/ \E m \in stored : AckWaitElapses(m) \/ AgesOut(m)
    BY <1>4, OtherStep
  <1>5. CASE \E r \in Request : LeaseExpires(r)
    BY <1>5, LeaseStep
  <1>6. CASE UNCHANGED vars
    <2>1. TypeOK' /\ WorkersHaveRecords'
      BY <1>6, SMTT(30) DEF IInv, TypeOK, WorkersHaveRecords, vars, recordVars, streamVars, consumerVars
    <2>. QED  BY <1>6, <2>1, PublisherMoves DEF vars, recordVars
  <1>. QED  BY <1>1, <1>2, <1>3, <1>4, <1>5, <1>6 DEF Next, ConsumerStep

\* The inductive invariant holds in every reachable state.
THEOREM OutboxInvariant == Spec => []IInv
  BY InitIInv, NextIInv, PTL DEF Spec

\* Every variable of the outbox, the stream and the consumer keeps its type.
THEOREM OutboxTypeCorrect == Spec => []TypeOK
  <1>1. IInv => TypeOK
    BY DEF IInv
  <1>. QED  BY <1>1, OutboxInvariant, PTL

\* publishPurchaseEvent and process lose no event: what is marked as published
\* was announced, or a message in the stream will cause it to be announced.
THEOREM PublishedIsNeverLost == Spec => []NothingIsLost
  <1>1. IInv => NothingIsLost
    BY DEF IInv
  <1>. QED  BY <1>1, OutboxInvariant, PTL

-----------------------------------------------------------------------------
(***************************************************************************)
(* Duplicates.  The copies of an event, the publishers that may still add  *)
(* one although their lease is over, and the copy that is still due are    *)
(* together at most one more than the faults.                              *)
(***************************************************************************)

Live(w, r) == publicationId[r] = w /\ lease[r] = "live"

\* about to publish r without the lease
Stragglers(r) == {w \in Publisher : step[w] = "emit" /\ job[w] = r /\ ~Live(w, r)}

\* nobody who takes the lease will publish r again, unless there is a fault
Settled(r) ==
    r \in published \/ \E w \in Publisher : Live(w, r) /\ job[w] = r /\ step[w] = "mark"

Due(r) == IF Settled(r) THEN 0 ELSE 1

Paid(r) ==
    /\ IsFiniteSet(Stragglers(r))
    /\ copies[r] + Cardinality(Stragglers(r)) + Due(r) <= 1 + faults

\* No new straggler; a fault pays for a copy, or for one that is due again.
LEMMA NobodyStraggles ==
  ASSUME TypeOK, TypeOK', NEW r \in Request, Paid(r), NEW d \in {0, 1},
         Stragglers(r)' \subseteq Stragglers(r), faults' = faults + d,
         copies'[r] + Due(r)' <= copies[r] + Due(r) + d
  PROVE  Paid(r)'
  <1>1. /\ IsFiniteSet(Stragglers(r)') /\ IsFiniteSet(Stragglers(r))
        /\ Cardinality(Stragglers(r)') <= Cardinality(Stragglers(r))
    BY FS_Subset DEF Paid
  <1>2. Cardinality(Stragglers(r)') \in Nat /\ Cardinality(Stragglers(r)) \in Nat
    BY <1>1, FS_CardinalityType
  <1>3. copies[r] \in Nat /\ copies'[r] \in Nat /\ faults \in Nat
        /\ Due(r) \in {0, 1} /\ Due(r)' \in {0, 1}
    BY DEF TypeOK, Due
  <1>. QED  BY <1>1, <1>2, <1>3, SMTT(30) DEF Paid

\* A straggler publishes; its copy has been paid for.
LEMMA StragglerPublishes ==
  ASSUME TypeOK, TypeOK', NEW r \in Request, Paid(r), NEW w \in Stragglers(r),
         Stragglers(r)' \subseteq Stragglers(r) \ {w},
         faults' >= faults, copies'[r] <= copies[r] + 1, Due(r)' <= Due(r)
  PROVE  Paid(r)'
  <1>1. /\ IsFiniteSet(Stragglers(r)) /\ IsFiniteSet(Stragglers(r) \ {w})
        /\ Cardinality(Stragglers(r) \ {w}) = Cardinality(Stragglers(r)) - 1
    BY FS_RemoveElement DEF Paid
  <1>2. /\ IsFiniteSet(Stragglers(r)')
        /\ Cardinality(Stragglers(r)') <= Cardinality(Stragglers(r) \ {w})
    BY <1>1, FS_Subset
  <1>3. Cardinality(Stragglers(r)') \in Nat /\ Cardinality(Stragglers(r)) \in Nat
    BY <1>1, <1>2, FS_CardinalityType
  <1>4. copies[r] \in Nat /\ copies'[r] \in Nat /\ faults \in Nat /\ faults' \in Nat
        /\ Due(r) \in {0, 1} /\ Due(r)' \in {0, 1}
    BY DEF TypeOK, Due
  <1>. QED  BY <1>1, <1>2, <1>3, <1>4, SMTT(30) DEF Paid

\* A publisher loses its lease while it is at work, which is a fault.
LEMMA OneMoreStraggles ==
  ASSUME TypeOK, TypeOK', NEW r \in Request, Paid(r), NEW w,
         Stragglers(r)' \subseteq Stragglers(r) \union {w},
         faults' = faults + 1, copies'[r] = copies[r], Due(r)' <= Due(r)
  PROVE  Paid(r)'
  <1>1. /\ IsFiniteSet(Stragglers(r)) /\ IsFiniteSet(Stragglers(r) \union {w})
        /\ Cardinality(Stragglers(r) \union {w}) \in
              {Cardinality(Stragglers(r)), Cardinality(Stragglers(r)) + 1}
    BY FS_AddElement DEF Paid
  <1>2. /\ IsFiniteSet(Stragglers(r)')
        /\ Cardinality(Stragglers(r)') <= Cardinality(Stragglers(r) \union {w})
    BY <1>1, FS_Subset
  <1>3. Cardinality(Stragglers(r)') \in Nat /\ Cardinality(Stragglers(r)) \in Nat
    BY <1>1, <1>2, FS_CardinalityType
  <1>4. copies[r] \in Nat /\ faults \in Nat /\ Due(r) \in {0, 1} /\ Due(r)' \in {0, 1}
    BY DEF TypeOK, Due
  <1>. QED  BY <1>1, <1>2, <1>3, <1>4, SMTT(30) DEF Paid

\* Nobody moves but the publisher whose step it is.
LEMMA OthersStay ==
  ASSUME TypeOK, NEW w \in Publisher, NEW s, GoTo(w, s)
  PROVE  /\ step'[w] = s
         /\ s # "idle" => job'[w] = job[w]
         /\ \A v \in Publisher \ {w} : step'[v] = step[v] /\ job'[v] = job[v]
  BY DEF TypeOK, GoTo

\* A step that publishes nothing and ends no lease pays for a publisher that
\* leaves the lease without having marked the event.
LEMMA PublisherPays ==
  ASSUME IInv, IInv', NEW r \in Request, Paid(r), NEW w \in Publisher, NEW s, GoTo(w, s),
         s \notin {"emit", "mark"}, UNCHANGED <<published, publicationId, lease, copies>>,
         NEW d \in {0, 1}, faults' = faults + d,
         step[w] = "mark" /\ OwnsPublication(w) => d = 1
  PROVE  Paid(r)'
  <1>1. TypeOK /\ TypeOK'
    BY DEF IInv
  <1>2. /\ step'[w] = s
        /\ \A v \in Publisher \ {w} : step'[v] = step[v] /\ job'[v] = job[v]
    BY <1>1, OthersStay
  <1>3. Stragglers(r)' \subseteq Stragglers(r)
    BY <1>2 DEF Stragglers, Live
  <1>4. d = 0 => (Settled(r) => Settled(r)')
    BY <1>2 DEF Settled, Live, OwnsPublication
  <1>5. Due(r)' <= Due(r) + d
    BY <1>4 DEF Due
  <1>6. copies'[r] + Due(r)' <= copies[r] + Due(r) + d
    BY <1>1, <1>5, SMTT(30) DEF TypeOK, Due
  <1>. QED  BY <1>1, <1>3, <1>6, NobodyStraggles

-----------------------------------------------------------------------------
\* Selling, giving up and every failed call of a publisher.
LEMMA ExitPays ==
  ASSUME IInv, IInv', NEW r \in Request, Paid(r), NEW w \in Publisher,
         \/ w \in Request /\ Sell(w)
         \/ NothingToPublish(w) \/ EmitRefused(w) \/ LeaseLost(w) \/ CallFails(w) \/ Crash(w)
  PROVE  Paid(r)'
  <1>1. PICK s : /\ GoTo(w, s) /\ s \notin {"emit", "mark"}
                 /\ \/ UNCHANGED faults /\ (step[w] # "mark" \/ ~OwnsPublication(w))
                    \/ faults' = faults + 1
    BY Places, SMTT(30)
       DEF Sell, NothingToPublish, EmitRefused, LeaseLost, CallFails, Crash, Reply, Fault
  <1>2. UNCHANGED <<published, publicationId, lease, copies>>
    BY DEF Sell, NothingToPublish, EmitRefused, LeaseLost, CallFails, Crash, recordVars, streamVars
  <1>3. CASE UNCHANGED faults /\ (step[w] # "mark" \/ ~OwnsPublication(w))
    <2>1. faults' = faults + 0
      BY <1>3, SMTT(30) DEF IInv, TypeOK
    <2>. QED  BY <1>1, <1>2, <1>3, <2>1, PublisherPays
  <1>4. CASE faults' = faults + 1
    BY <1>1, <1>2, <1>4, PublisherPays
  <1>. QED  BY <1>1, <1>3, <1>4

\* Whoever takes the lease of a record publishes the copy that is due; the one who
\* had it before straggles already.
LEMMA ClaimPays ==
  ASSUME IInv, IInv', NEW r \in Request, Paid(r), NEW w \in Publisher, NEW q \in Request,
         Claim(w, q)
  PROVE  Paid(r)'
  <1>1. TypeOK /\ TypeOK'
    BY DEF IInv
  <1>2. PICK d \in {0, 1} : faults' = faults + d
    BY <1>1, SMTT(30) DEF Claim, Fault, TypeOK
  <1>3. /\ \A v \in Publisher \ {w} : step'[v] = step[v] /\ job'[v] = job[v]
        /\ step'[w] \in {"emit", "release"} /\ job'[w] = q
        /\ step[w] \in {"claim", "idle"}
        /\ publicationId'[q] = w /\ lease'[q] = "live" /\ lease[q] # "live"
        /\ q \notin published
        /\ \A x \in Request \ {q} : publicationId'[x] = publicationId[x] /\ lease'[x] = lease[x]
        /\ UNCHANGED <<published, copies>>
    BY <1>1 DEF Claim, Publishable, TypeOK, streamVars
  <1>4. Stragglers(r)' \subseteq Stragglers(r)
    BY <1>3 DEF Stragglers, Live
  <1>5. Settled(r) => Settled(r)'
    BY <1>3 DEF Settled, Live
  <1>6. copies'[r] + Due(r)' <= copies[r] + Due(r) + d
    BY <1>1, <1>3, <1>5, SMTT(30) DEF TypeOK, Due
  <1>. QED  BY <1>1, <1>2, <1>4, <1>6, NobodyStraggles

\* An event that was marked is not leased again.
PublishedHasNoLease == \A r \in published : lease[r] = "none"

\* A copy that is stored was due, or its publisher is a straggler.
LEMMA EmitPays ==
  ASSUME IInv, IInv', NEW r \in Request, Paid(r), NEW w \in Publisher, Emit(w),
         PublishedHasNoLease
  PROVE  Paid(r)'
  <1>1. TypeOK /\ TypeOK'
    BY DEF IInv
  <1>2. PICK d \in {0, 1}, s \in Step \ {"emit"} :
             faults' = faults + d /\ GoTo(w, s) /\ (d = 0 => s = "mark")
    BY <1>1, Places, SMTT(30) DEF Emit, Reply, Fault, TypeOK, Step
  <1>3. /\ step'[w] = s /\ (s # "idle" => job'[w] = job[w])
        /\ \A v \in Publisher \ {w} : step'[v] = step[v] /\ job'[v] = job[v]
    BY <1>1, <1>2, OthersStay
  <1>4. /\ step[w] = "emit" /\ job[w] \in Request
        /\ UNCHANGED <<published, publicationId, lease>>
    BY DEF Emit, IInv, WorkersHaveRecords, recordVars
  <1>5. /\ copies'[job[w]] \in {copies[job[w]], copies[job[w]] + 1}
        /\ \A x \in Request \ {job[w]} : copies'[x] = copies[x]
    BY <1>1, <1>4 DEF Emit, TypeOK, streamVars
  <1>6. Stragglers(r)' \subseteq Stragglers(r) \ {w}
    BY <1>2, <1>3, <1>4 DEF Stragglers, Live
  <1>7. Settled(r) => Settled(r)'
    BY <1>3, <1>4 DEF Settled, Live
  <1>8. copies[r] \in Nat /\ copies'[r] \in Nat /\ faults \in Nat /\ faults' \in Nat
        /\ Due(r) \in {0, 1} /\ Due(r)' \in {0, 1} /\ Due(r)' <= Due(r)
    BY <1>1, <1>7 DEF TypeOK, Due
  <1>9. CASE r # job[w]
    <2>1. copies'[r] + Due(r)' <= copies[r] + Due(r) + d
      BY <1>5, <1>8, <1>9, SMTT(30)
    <2>. QED  BY <1>1, <1>2, <1>6, <2>1, NobodyStraggles
  <1>10. CASE w \in Stragglers(r)
    <2>1. r = job[w]
      BY <1>10 DEF Stragglers
    <2>2. faults' >= faults /\ copies'[r] <= copies[r] + 1
      BY <1>2, <1>5, <1>8, <2>1, SMTT(30)
    <2>. QED  BY <1>1, <1>6, <1>8, <1>10, <2>2, StragglerPublishes
  <1>11. CASE r = job[w] /\ Live(w, r)
    <2>1. d = 0 => Settled(r)'
      BY <1>2, <1>3, <1>4, <1>11 DEF Settled, Live
    <2>2. ~Settled(r)
      BY <1>4, <1>11 DEF Settled, Live, PublishedHasNoLease
    <2>3. Due(r) = 1 /\ (d = 0 => Due(r)' = 0)
      BY <2>1, <2>2 DEF Due
    <2>4. copies'[r] + Due(r)' <= copies[r] + Due(r) + d
      BY <1>5, <1>8, <1>11, <2>3, SMTT(30)
    <2>5. Stragglers(r)' \subseteq Stragglers(r)
      BY <1>6
    <2>. QED  BY <1>1, <1>2, <2>4, <2>5, NobodyStraggles
  <1>. QED  BY <1>4, <1>9, <1>10, <1>11 DEF Stragglers

\* Marking settles an event; ending the lease without it leaves a copy due.
LEMMA EndPays ==
  ASSUME IInv, IInv', NEW r \in Request, Paid(r), NEW w \in Publisher,
         MarkPublished(w) \/ ReleaseClaim(w)
  PROVE  Paid(r)'
  <1>1. TypeOK /\ TypeOK'
    BY DEF IInv
  <1>2. PICK d \in {0, 1}, s \in Step \ {"emit", "mark"} : faults' = faults + d /\ GoTo(w, s)
    BY <1>1, Places, SMTT(30) DEF MarkPublished, ReleaseClaim, Reply, Fault, TypeOK, Step
  <1>3. /\ step'[w] = s
        /\ \A v \in Publisher \ {w} : step'[v] = step[v] /\ job'[v] = job[v]
    BY <1>1, <1>2, OthersStay
  <1>4. /\ job[w] \in Request /\ copies' = copies /\ published \subseteq published'
        /\ step[w] \in {"mark", "release"}
        /\ \A x \in Request \ {job[w]} : publicationId'[x] = publicationId[x] /\ lease'[x] = lease[x]
    BY <1>1 DEF MarkPublished, ReleaseClaim, EndLease, IInv, WorkersHaveRecords, TypeOK, streamVars
  <1>5. \/ publicationId'[job[w]] = publicationId[job[w]] /\ lease'[job[w]] = lease[job[w]]
        \/ publicationId[job[w]] = w
    BY DEF MarkPublished, ReleaseClaim, OwnsPublication
  <1>6. Stragglers(r)' \subseteq Stragglers(r)
    BY <1>2, <1>3, <1>4, <1>5 DEF Stragglers, Live
  <1>7. Settled(r) => Settled(r)'
    <2>1. CASE MarkPublished(w)
      BY <1>3, <1>4, <1>5, <2>1 DEF Settled, Live, MarkPublished
    <2>2. CASE ReleaseClaim(w)
      BY <1>3, <1>4, <1>5, <2>2 DEF Settled, Live, ReleaseClaim
    <2>. QED  BY <2>1, <2>2
  <1>8. copies'[r] + Due(r)' <= copies[r] + Due(r) + d
    BY <1>1, <1>4, <1>7, SMTT(30) DEF TypeOK, Due
  <1>. QED  BY <1>1, <1>2, <1>6, <1>8, NobodyStraggles

\* A lease that runs out while its owner is at work costs a fault, and leaves a
\* straggler or, if the event was about to be marked, a copy that is due.
LEMMA LeasePays ==
  ASSUME IInv, IInv', NEW r \in Request, Paid(r), NEW q \in Request, LeaseExpires(q)
  PROVE  Paid(r)'
  <1>1. TypeOK /\ TypeOK'
    BY DEF IInv
  <1>2. /\ UNCHANGED <<published, publicationId, copies, step, job>>
        /\ lease[q] = "live" /\ lease'[q] = "expired"
        /\ \A x \in Request \ {q} : lease'[x] = lease[x]
    BY <1>1 DEF LeaseExpires, TypeOK, streamVars
  <1>3. PICK d \in {0, 1} : faults' = faults + d /\ (Attended(q) => d = 1)
    BY <1>1, SMTT(30) DEF LeaseExpires, Elapse, Fault, TypeOK
  <1> DEFINE w == publicationId[q]
  <1>4. w \in Publisher /\ job[w] = q /\ step[w] \in {"emit", "mark", "release"} => d = 1
    BY <1>3, NameAssumption DEF Attended, Publisher
  <1>5. CASE r = q /\ w \in Publisher /\ job[w] = q /\ step[w] = "emit"
    <2>1. Stragglers(r)' \subseteq Stragglers(r) \union {w}
      BY <1>2, <1>5 DEF Stragglers, Live
    <2>2. Settled(r) => Settled(r)'
      BY <1>2, <1>5 DEF Settled, Live
    <2>3. Due(r)' <= Due(r) /\ copies'[r] = copies[r]
      BY <1>2, <2>2 DEF Due
    <2>. QED  BY <1>1, <1>3, <1>4, <1>5, <2>1, <2>3, OneMoreStraggles
  <1>6. CASE ~(r = q /\ w \in Publisher /\ job[w] = q /\ step[w] = "emit")
    <2>1. Stragglers(r)' \subseteq Stragglers(r)
      BY <1>2, <1>6 DEF Stragglers, Live
    <2>2. d = 0 => (Settled(r) => Settled(r)')
      BY <1>2, <1>4 DEF Settled, Live
    <2>3. copies'[r] + Due(r)' <= copies[r] + Due(r) + d
      BY <1>1, <1>2, <2>2, SMTT(30) DEF TypeOK, Due
    <2>. QED  BY <1>1, <1>3, <2>1, <2>3, NobodyStraggles
  <1>. QED  BY <1>5, <1>6

\* No other step moves a publisher or changes a lease.
LEMMA OthersPay ==
  ASSUME TypeOK, TypeOK', NEW r \in Request, Paid(r), NEW d \in {0, 1}, faults' = faults + d,
         UNCHANGED <<recordVars, copies, step, job>>
  PROVE  Paid(r)'
  <1>1. Stragglers(r)' \subseteq Stragglers(r) /\ (Settled(r) => Settled(r)')
    BY DEF Stragglers, Settled, Live, recordVars
  <1>2. copies'[r] + Due(r)' <= copies[r] + Due(r) + d
    BY <1>1, SMTT(30) DEF TypeOK, Due
  <1>. QED  BY <1>1, <1>2, NobodyStraggles

DuplicateInv == PublishedHasNoLease /\ \A r \in Request : Paid(r)

\* A published event is not claimed again.
LEMMA PublishedStep ==
  ASSUME IInv, IInv', PublishedHasNoLease, [Next]_vars PROVE PublishedHasNoLease'
  <1>1. TypeOK /\ TypeOK' /\ WorkersHaveRecords
    BY DEF IInv
  <1>2. CASE UNCHANGED <<published, lease>>
    BY <1>2 DEF PublishedHasNoLease
  <1>3. ASSUME NEW w \in Publisher, NEW r \in Request, Claim(w, r) PROVE PublishedHasNoLease'
    BY <1>1, <1>3 DEF Claim, Publishable, PublishedHasNoLease, TypeOK
  <1>4. ASSUME NEW w \in Publisher, MarkPublished(w) \/ ReleaseClaim(w) PROVE PublishedHasNoLease'
    BY <1>1, <1>4
       DEF MarkPublished, ReleaseClaim, EndLease, WorkersHaveRecords, PublishedHasNoLease, TypeOK
  <1>5. ASSUME NEW r \in Request, LeaseExpires(r) PROVE PublishedHasNoLease'
    BY <1>1, <1>5 DEF LeaseExpires, PublishedHasNoLease, TypeOK
  <1>6. \/ UNCHANGED <<published, lease>>
        \/ \E w \in Publisher : \/ \E r \in Request : Claim(w, r)
                                \/ MarkPublished(w) \/ ReleaseClaim(w)
        \/ \E r \in Request : LeaseExpires(r)
    BY DEF Next, PublisherStep, ConsumerStep, Sell, NothingToPublish, Emit, EmitRefused, LeaseLost,
           CallFails, Crash, Deliver, Process, ProcessFails, LoopEnds, ConsumerRestarts,
           WindowExpires, AckWaitElapses, AgesOut, vars, recordVars
  <1>. QED  BY <1>2, <1>3, <1>4, <1>5, <1>6

LEMMA DuplicateStep ==
  ASSUME IInv, IInv', DuplicateInv, [Next]_vars PROVE DuplicateInv'
  <1>1. TypeOK /\ TypeOK' /\ PublishedHasNoLease
    BY DEF IInv, DuplicateInv
  <1>2. ASSUME NEW r \in Request PROVE Paid(r)'
    <2>. Paid(r)
      BY DEF DuplicateInv
    <2>1. ASSUME NEW w \in Publisher,
                 \/ w \in Request /\ Sell(w)
                 \/ PublisherStep(w) \/ CallFails(w) \/ Crash(w)
          PROVE  Paid(r)'
      BY <1>1, <2>1, ExitPays, ClaimPays, EmitPays, EndPays DEF PublisherStep
    <2>2. ASSUME NEW q \in Request, LeaseExpires(q) PROVE Paid(r)'
      BY <2>2, LeasePays
    <2>3. ASSUME \/ \E c \in Consumer :
                       \/ ConsumerStep(c) \/ ProcessFails(c) \/ LoopEnds(c) \/ ConsumerRestarts(c)
                 \/ \E q \in Request : WindowExpires(q)
                 \/ \E m \in stored : AckWaitElapses(m) \/ AgesOut(m)
          PROVE  Paid(r)'
      <3>1. UNCHANGED <<recordVars, copies, step, job>>
        BY <2>3 DEF ConsumerStep, Deliver, Process, ProcessFails, LoopEnds, ConsumerRestarts,
                    WindowExpires, AckWaitElapses, AgesOut, streamVars
      <3>2. UNCHANGED faults \/ faults' = faults + 1
        BY <2>3 DEF ConsumerStep, Deliver, Process, ProcessFails, LoopEnds, ConsumerRestarts,
                    WindowExpires, AckWaitElapses, AgesOut, Elapse, Fault
      <3>3. \E d \in {0, 1} : faults' = faults + d
        BY <1>1, <3>2, SMTT(30) DEF TypeOK
      <3>. QED  BY <1>1, <3>1, <3>3, OthersPay
    <2>4. CASE UNCHANGED vars
      <3>1. faults' = faults + 0
        BY <1>1, <2>4, SMTT(30) DEF TypeOK, vars
      <3>. QED  BY <1>1, <2>4, <3>1, OthersPay DEF vars, streamVars
    <2>5. \A q \in Request : q \in Publisher
      BY DEF Publisher
    <2>. QED  BY <2>1, <2>2, <2>3, <2>4, <2>5 DEF Next
  <1>. QED  BY <1>2, PublishedStep DEF DuplicateInv

\* Without a fault every event is stored exactly once, and every extra copy is the
\* price of one: leases, the marker and the duplicate window see to it together.
THEOREM DuplicatesCostFaults == Spec => []DuplicatesAreFaults
  <1>1. Init => DuplicateInv
    <2>. SUFFICES ASSUME Init PROVE DuplicateInv
      OBVIOUS
    <2>1. ASSUME NEW r \in Request PROVE Paid(r)
      <3>1. Stragglers(r) = {} /\ copies[r] = 0 /\ faults = 0
        BY DEF Init, Stragglers
      <3>2. Due(r) \in {0, 1}
        BY DEF Due
      <3>. QED  BY <3>1, <3>2, FS_EmptySet, SMTT(30) DEF Paid
    <2>. QED  BY <2>1 DEF Init, DuplicateInv, PublishedHasNoLease
  <1>2. IInv /\ IInv' /\ DuplicateInv /\ [Next]_vars => DuplicateInv'
    BY DuplicateStep
  <1>3. IInv /\ DuplicateInv => DuplicatesAreFaults
    <2>. SUFFICES ASSUME IInv, DuplicateInv, NEW r \in Request PROVE copies[r] <= 1 + faults
      BY DEF DuplicatesAreFaults
    <2>1. copies[r] \in Nat /\ faults \in Nat /\ Due(r) \in {0, 1}
      BY DEF IInv, TypeOK, Due
    <2>2. IsFiniteSet(Stragglers(r)) /\ copies[r] + Cardinality(Stragglers(r)) + Due(r) <= 1 + faults
      BY DEF DuplicateInv, Paid
    <2>3. Cardinality(Stragglers(r)) \in Nat
      BY <2>2, FS_CardinalityType
    <2>. QED  BY <2>1, <2>2, <2>3, SMTT(30)
  <1>. QED  BY <1>1, <1>2, <1>3, OutboxInvariant, PTL DEF Spec

=============================================================================
