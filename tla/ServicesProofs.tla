---------------------------- MODULE ServicesProofs ----------------------------
(***************************************************************************)
(* What the smaller services promise, for any logins, forms, replicas and  *)
(* lists: the limiter bounds the failures that are told so, a form ends    *)
(* with one movie or one account of an email, an event reaches all who are *)
(* subscribed, pages miss and repeat nothing that stayed, and what is      *)
(* recommended respects what was watched.  All but the last wait for another program between two of      *)
(* their steps, and their inductive invariants say what still holds when   *)
(* the answer comes.                                                       *)
(***************************************************************************)
EXTENDS MCServices, FiniteSetTheorems, SequenceTheorems, TLAPS

-----------------------------------------------------------------------------
(***************************************************************************)
(* The login limiter.  The check and the count are apart, so what bounds   *)
(* the failures is the count alone: it numbers the logins it has seen      *)
(* (CountsAreNumbers), and whoever made it pass the limit knows            *)
(* (LateOnesKnow).                                                         *)
(***************************************************************************)

LimiterTyped ==
    /\ TypeOK
    /\ count \in [Counter -> Nat] /\ expires \in [Counter -> BOOLEAN]
    /\ counted \in [Counter -> SUBSET Login]
    /\ step \in [Login -> {"new", "compare", "record", "reset", "done"}]
    /\ toCount \in [Login -> SUBSET Counter]
    /\ over \in [Login -> BOOLEAN]
    /\ answer \in [Login -> {"none", "429", "401", "uncounted", "200", "500"}]

\* A login is counted once by each counter while that lasts, and a counter
\* begins with the first and numbers them.
CountsAreNumbers ==
    \A k \in Counter :
        /\ count[k] = Cardinality(counted[k])
        /\ \A l \in counted[k] : step[l] \in {"record", "done"} /\ k \notin toCount[l]

\* No more logins than the limit were counted without being told.
LateOnesKnow ==
    \A k \in Counter : Cardinality({l \in counted[k] : ~over[l]}) <= Limit(k)

\* who is told that the password is wrong was not over the limit
ToldWithinLimit == \A l \in Login : answer[l] = "401" => ~over[l]

LimiterInv ==
    /\ LimiterTyped
    /\ CountsAreNumbers
    /\ LateOnesKnow
    /\ ToldWithinLimit

LEMMA LimitsArePositive == \A k \in Counter : Limit(k) \in Nat \ {0}
BY LimitAssumption DEF Limit

\* sets of logins are finite
LEMMA LoginsAreFinite ==
    ASSUME NEW S \in SUBSET Login
    PROVE  /\ IsFiniteSet(S) /\ Cardinality(S) \in 0..Cardinality(Login)
           /\ Cardinality(S) \in Nat
           /\ \A l \in Login \ S : Cardinality(S \union {l}) = Cardinality(S) + 1
           /\ \A T \in SUBSET S : Cardinality(T) <= Cardinality(S)
           /\ Cardinality(S) = 0 <=> S = {}
<1>1. IsFiniteSet(Login)
    BY LoginAssumption
<1>2. IsFiniteSet(S)
    BY <1>1, FS_Subset
<1>3. Cardinality(S) \in Nat /\ Cardinality(Login) \in Nat /\ Cardinality(S) <= Cardinality(Login)
    BY <1>1, <1>2, FS_Subset, FS_CardinalityType
<1>4. \A l \in Login \ S : Cardinality(S \union {l}) = Cardinality(S) + 1
    BY <1>2, FS_AddElement
<1>5. \A T \in SUBSET S : Cardinality(T) <= Cardinality(S)
    BY <1>2, FS_Subset
<1>6. Cardinality(S) = 0 <=> S = {}
    BY <1>2, FS_EmptySet
<1> QED BY <1>2, <1>3, <1>4, <1>5, <1>6

LEMMA LimiterInit == Init => LimiterInv
<1> SUFFICES ASSUME Init PROVE LimiterInv
    OBVIOUS
<1>1. LimiterTyped
    <2>1. 0 \in 0..Cardinality(Login)
        BY LoginsAreFinite
    <2> QED BY <2>1 DEF Init, LimiterTyped, TypeOK
<1>2. Cardinality({}) = 0
    BY FS_EmptySet
<1>3. CountsAreNumbers
    BY <1>2 DEF Init, CountsAreNumbers
<1>4. LateOnesKnow
    <2> SUFFICES ASSUME NEW k \in Counter
                 PROVE  Cardinality({l \in counted[k] : ~over[l]}) <= Limit(k)
        BY DEF LateOnesKnow
    <2>1. {l \in counted[k] : ~over[l]} = {}
        BY DEF Init
    <2> QED BY <1>2, <2>1, LimitsArePositive
<1>5. ToldWithinLimit
    BY DEF Init, ToldWithinLimit
<1> QED BY <1>1, <1>3, <1>4, <1>5 DEF LimiterInv

-----------------------------------------------------------------------------
\* A step of a login that leaves the counters alone, and with them what they
\* have counted: it may not go back before its count, nor take up again what it
\* has counted.
LEMMA OtherStepsKeepInv ==
    ASSUME LimiterInv, LimiterTyped', NEW l \in Login, UNCHANGED <<counters, over>>,
           \A m \in Login \ {l} : UNCHANGED <<step[m], toCount[m], answer[m]>>,
           \/ step[l] = "record" /\ step'[l] = "done" /\ toCount'[l] = toCount[l]
           \/ step[l] \in {"new", "compare", "reset"},
           answer'[l] = "401" => ~over[l]
    PROVE  LimiterInv'
<1>1. CountsAreNumbers'
    <2> SUFFICES ASSUME NEW k \in Counter
                 PROVE  /\ count'[k] = Cardinality(counted'[k])
                        /\ \A m \in counted'[k] : /\ step'[m] \in {"record", "done"}
                                                  /\ k \notin toCount'[m]
        BY DEF CountsAreNumbers
    <2>1. count' = count /\ counted' = counted
        BY DEF counters
    <2>2. count[k] = Cardinality(counted[k])
        BY DEF LimiterInv, CountsAreNumbers
    <2>3. ASSUME NEW m \in counted[k]
          PROVE  step'[m] \in {"record", "done"} /\ k \notin toCount'[m]
        <3>1. m \in Login /\ step[m] \in {"record", "done"} /\ k \notin toCount[m]
            BY DEF LimiterInv, LimiterTyped, CountsAreNumbers
        <3> QED BY <3>1
    <2> QED BY <2>1, <2>2, <2>3
<1>2. LateOnesKnow'
    BY DEF LimiterInv, LateOnesKnow, counters
<1>3. ToldWithinLimit'
    BY DEF LimiterInv, ToldWithinLimit
<1> QED BY <1>1, <1>2, <1>3 DEF LimiterInv

\* the answer, after which a login does nothing
LEMMA FinishKeepsInv ==
    ASSUME LimiterInv, NEW l \in Login, NEW a \in {"429", "401", "uncounted", "500"},
           step[l] # "done", Finish(l, a), UNCHANGED <<counters, toCount, over>>,
           a = "401" => ~over[l]
    PROVE  LimiterInv'
<1>1. /\ step'[l] = "done" /\ answer'[l] = a
      /\ \A m \in Login \ {l} : UNCHANGED <<step[m], toCount[m], answer[m]>>
    BY DEF Finish, LimiterInv, LimiterTyped
<1>2. step[l] \in {"new", "compare", "record", "reset"}
    BY DEF LimiterInv, LimiterTyped
<1>3. LimiterTyped'
    BY DEF LimiterInv, LimiterTyped, TypeOK, Finish, counters
<1> QED BY <1>1, <1>2, <1>3, OtherStepsKeepInv

LEMMA AssertAllowedKeepsInv ==
    ASSUME LimiterInv, NEW l \in Login, AssertAllowed(l)
    PROVE  LimiterInv'
<1>1. CASE Finish(l, "429")
    BY <1>1, FinishKeepsInv DEF AssertAllowed
<1>2. CASE step' = [step EXCEPT ![l] = "compare"] /\ UNCHANGED answer
    <2>1. LimiterTyped'
        BY <1>2 DEF LimiterInv, LimiterTyped, TypeOK, AssertAllowed, counters
    <2>2. \A m \in Login \ {l} : UNCHANGED <<step[m], toCount[m], answer[m]>>
        BY <1>2 DEF AssertAllowed
    <2>3. answer'[l] # "401"
        BY <1>2 DEF LimiterInv, LimiterTyped, TypeOK, AssertAllowed
    <2> QED BY <2>1, <2>2, <2>3, OtherStepsKeepInv DEF AssertAllowed
<1> QED BY <1>1, <1>2 DEF AssertAllowed

LEMMA CompareKeepsInv ==
    ASSUME LimiterInv, NEW l \in Login, Compare(l)
    PROVE  LimiterInv'
<1>1. CASE Finish(l, "uncounted") /\ UNCHANGED toCount
    BY <1>1, FinishKeepsInv DEF Compare
<1>2. CASE /\ \/ step' = [step EXCEPT ![l] = "record"]
                 /\ toCount' = [toCount EXCEPT ![l] = CountersOf(l)]
              \/ step' = [step EXCEPT ![l] = "reset"] /\ UNCHANGED toCount
           /\ UNCHANGED answer
    <2>1. CountersOf(l) \subseteq Counter
        BY LoginAssumption DEF CountersOf, Counter
    <2>2. LimiterTyped'
        BY <1>2, <2>1 DEF LimiterInv, LimiterTyped, TypeOK, Compare, counters
    <2>3. \A m \in Login \ {l} : UNCHANGED <<step[m], toCount[m], answer[m]>>
        <3>1. step \in [Login -> {"new", "compare", "record", "reset", "done"}]
              /\ toCount \in [Login -> SUBSET Counter]
            BY DEF LimiterInv, LimiterTyped
        <3>2. answer' = answer
            BY <1>2
        <3>3. ASSUME NEW m \in Login \ {l} PROVE step'[m] = step[m] /\ toCount'[m] = toCount[m]
            BY <1>2, <3>1
        <3> QED BY <3>2, <3>3
    <2>4. answer'[l] # "401"
        BY <1>2 DEF LimiterInv, LimiterTyped, TypeOK, Compare
    <2> QED BY <2>2, <2>3, <2>4, OtherStepsKeepInv DEF Compare
<1> QED BY <1>1, <1>2 DEF Compare

LEMMA RecordFailureKeepsInv ==
    ASSUME LimiterInv, NEW l \in Login, RecordFailure(l)
    PROVE  LimiterInv'
<1>1. Answer(l) = IF over[l] THEN "429" ELSE "401"
    BY DEF Answer
<1> QED BY <1>1, FinishKeepsInv DEF RecordFailure

LEMMA DiesKeepsInv ==
    ASSUME LimiterInv, NEW l \in Login, Dies(l)
    PROVE  LimiterInv'
BY FinishKeepsInv DEF Dies

\* INCREMENT_WITH_TTL.  The count tells the login whether it is one too many:
\* if not, all that were counted are within the limit.
LEMMA IncrementKeepsInv ==
    ASSUME LimiterInv, NEW l \in Login, NEW k \in Counter, Increment(l, k)
    PROVE  LimiterInv'
<1>1. LimiterTyped /\ CountsAreNumbers /\ LateOnesKnow /\ ToldWithinLimit
    BY DEF LimiterInv
<1>2. /\ step[l] = "record" /\ k \in toCount[l]
      /\ count' = [count EXCEPT ![k] = @ + 1]
      /\ expires' = [expires EXCEPT ![k] = @ \/ count[k] + 1 = 1]
      /\ counted' = [counted EXCEPT ![k] = @ \union {l}]
      /\ toCount' = [toCount EXCEPT ![l] = @ \ {k}]
      /\ over' = [over EXCEPT ![l] = @ \/ Limit(k) < count[k] + 1]
      /\ UNCHANGED <<step, answer>>
    BY DEF Increment, SetsExpiry
<1>3. /\ counted'[k] = counted[k] \union {l} /\ count'[k] = count[k] + 1
      /\ over'[l] = (over[l] \/ Limit(k) < count[k] + 1)
      /\ \A j \in Counter \ {k} : counted'[j] = counted[j] /\ count'[j] = count[j]
      /\ \A m \in Login \ {l} : over'[m] = over[m] /\ toCount'[m] = toCount[m]
      /\ toCount'[l] = toCount[l] \ {k}
    BY <1>1, <1>2 DEF LimiterTyped
<1>4. /\ l \notin counted[k] /\ counted[k] \in SUBSET Login /\ count[k] = Cardinality(counted[k])
      /\ count[k] \in Nat
    BY <1>1, <1>2 DEF CountsAreNumbers, LimiterTyped
<1>5. Cardinality(counted'[k]) = count[k] + 1 /\ counted'[k] \in SUBSET Login
    BY <1>3, <1>4, LoginsAreFinite
<1>6. LimiterTyped'
    <2>1. count[k] + 1 \in 0..Cardinality(Login)
        BY <1>5, LoginsAreFinite
    <2>2. expires'[k] /\ \A j \in Counter \ {k} : expires'[j] = expires[j]
        <3>1. count[k] = 0 \/ expires[k]
            <4>1. expires[k] <=> count[k] > 0
                BY <1>1 DEF LimiterTyped, TypeOK
            <4>2. count[k] = 0 \/ count[k] > 0
                BY <1>4
            <4> QED BY <4>1, <4>2
        <3>2. count[k] = 0 => count[k] + 1 = 1
            OBVIOUS
        <3>3. expires \in [Counter -> BOOLEAN]
            BY <1>1 DEF LimiterTyped
        <3> QED BY <1>2, <3>1, <3>2, <3>3, Zenon
    <2>3. \A j \in Counter : count'[j] \in 0..Cardinality(Login) /\ (expires'[j] <=> count'[j] > 0)
        BY <1>1, <1>3, <1>4, <2>1, <2>2 DEF LimiterTyped, TypeOK
    <2>4. /\ count' \in [Counter -> Nat] /\ expires' \in [Counter -> BOOLEAN]
          /\ counted' \in [Counter -> SUBSET Login] /\ toCount' \in [Login -> SUBSET Counter]
          /\ over' \in [Login -> BOOLEAN]
        <3>1. (Limit(k) < count[k] + 1) \in BOOLEAN /\ count[k] + 1 \in Nat
            BY <1>4
        <3> QED BY <1>1, <1>2, <1>5, <3>1 DEF LimiterTyped
    <2>5. \A m \in Login : toCount'[m] \subseteq CountersOf(m)
        BY <1>1, <1>3 DEF LimiterTyped, TypeOK
    <2> QED BY <1>1, <1>2, <2>3, <2>4, <2>5 DEF LimiterTyped, TypeOK
<1>7. CountsAreNumbers'
    <2> SUFFICES ASSUME NEW j \in Counter
                 PROVE  /\ count'[j] = Cardinality(counted'[j])
                        /\ \A m \in counted'[j] : /\ step'[m] \in {"record", "done"}
                                                  /\ j \notin toCount'[m]
        BY DEF CountsAreNumbers
    <2>1. CASE j = k
        <3>1. ASSUME NEW m \in counted'[j]
              PROVE  step'[m] \in {"record", "done"} /\ j \notin toCount'[m]
            BY <1>1, <1>2, <1>3, <1>4, <2>1 DEF CountsAreNumbers
        <3> QED BY <1>3, <1>5, <2>1, <3>1
    <2>2. CASE j # k
        <3>1. counted'[j] = counted[j] /\ count'[j] = count[j]
            BY <1>3, <2>2
        <3>2. ASSUME NEW m \in counted'[j]
              PROVE  step'[m] \in {"record", "done"} /\ j \notin toCount'[m]
            <4>1. m \in Login /\ step[m] \in {"record", "done"} /\ j \notin toCount[m]
                BY <1>1, <3>1 DEF LimiterTyped, CountsAreNumbers
            <4> QED BY <1>2, <1>3, <4>1
        <3> QED BY <1>1, <3>1, <3>2 DEF CountsAreNumbers
    <2> QED BY <2>1, <2>2
<1>8. LateOnesKnow'
    <2> SUFFICES ASSUME NEW j \in Counter
                 PROVE  Cardinality({m \in counted'[j] : ~over'[m]}) <= Limit(j)
        BY DEF LateOnesKnow
    <2> DEFINE Unaware == {m \in counted[j] : ~over[m]}
               Unaware2 == {m \in counted'[j] : ~over'[m]}
    <2>1. /\ Unaware \in SUBSET Login /\ Unaware2 \in SUBSET counted'[j]
          /\ Unaware2 \in SUBSET Login /\ counted'[j] \in SUBSET Login
        BY <1>1, <1>3, <1>4 DEF LimiterTyped
    <2>2. Cardinality(Unaware) <= Limit(j) /\ Limit(j) \in Nat /\ Cardinality(Unaware) \in Nat
        BY <1>1, <2>1, LimitsArePositive, LoginsAreFinite DEF LateOnesKnow
    <2>3. CASE j = k /\ count[k] + 1 <= Limit(k)
        <3>1. Cardinality(Unaware2) <= Cardinality(counted'[k])
            BY <2>1, <2>3, LoginsAreFinite
        <3>2. Cardinality(Unaware2) \in Nat /\ Cardinality(counted'[k]) \in Nat
            BY <2>1, <2>3, LoginsAreFinite
        <3> QED BY <1>4, <1>5, <2>2, <2>3, <3>1, <3>2
    <2>4. CASE ~(j = k /\ count[k] + 1 <= Limit(k))
        <3>1. Unaware2 \in SUBSET Unaware
            <4> SUFFICES ASSUME NEW m \in counted'[j], ~over'[m] PROVE m \in counted[j] /\ ~over[m]
                OBVIOUS
            <4>1. CASE j = k
                <5>1. over'[l]
                    <6>1. Limit(k) < count[k] + 1
                        BY <1>4, <2>2, <2>4, <4>1
                    <6> QED BY <1>3, <6>1
                <5>2. m # l
                    BY <5>1
                <5> QED BY <1>3, <1>4, <4>1, <5>2
            <4>2. CASE j # k
                <5>1. m \in counted[j] /\ m \in Login
                    BY <1>1, <1>3, <4>2 DEF LimiterTyped
                <5> QED BY <1>3, <5>1
            <4> QED BY <4>1, <4>2
        <3>2. Cardinality(Unaware2) <= Cardinality(Unaware) /\ Cardinality(Unaware2) \in Nat
            BY <2>1, <3>1, LoginsAreFinite
        <3> QED BY <2>2, <3>2
    <2> QED BY <2>3, <2>4
<1>9. ToldWithinLimit'
    <2>1. answer[l] = "none"
        BY <1>1, <1>2 DEF LimiterTyped, TypeOK
    <2> QED BY <1>1, <1>2, <1>3, <2>1 DEF ToldWithinLimit
<1> QED BY <1>6, <1>7, <1>8, <1>9 DEF LimiterInv

\* A counter that is reset, or whose window ends, has counted nobody.
LEMMA ResettingKeepsInv ==
    ASSUME LimiterInv, NEW K \in SUBSET Counter, LimiterTyped',
           \A k \in K : count'[k] = 0 /\ counted'[k] = {},
           \A k \in Counter \ K : count'[k] = count[k] /\ counted'[k] = counted[k],
           NEW l \in Login, \A m \in Login \ {l} : UNCHANGED <<step[m], answer[m]>>,
           \/ UNCHANGED <<step[l], answer[l]>>
           \/ step[l] = "reset" /\ answer'[l] # "401",
           UNCHANGED <<toCount, over>>
    PROVE  LimiterInv'
<1>1. Cardinality({}) = 0
    BY FS_EmptySet
<1>2. CountsAreNumbers'
    <2> SUFFICES ASSUME NEW k \in Counter
                 PROVE  /\ count'[k] = Cardinality(counted'[k])
                        /\ \A m \in counted'[k] : /\ step'[m] \in {"record", "done"}
                                                  /\ k \notin toCount'[m]
        BY DEF CountsAreNumbers
    <2>1. CASE k \in K
        BY <1>1, <2>1
    <2>2. CASE k \notin K
        <3>1. \A m \in counted[k] : m \in Login /\ step[m] \in {"record", "done"} /\ k \notin toCount[m]
            BY DEF LimiterInv, LimiterTyped, CountsAreNumbers
        <3>2. count[k] = Cardinality(counted[k])
            BY DEF LimiterInv, CountsAreNumbers
        <3> QED BY <2>2, <3>1, <3>2
    <2> QED BY <2>1, <2>2
<1>3. LateOnesKnow'
    <2> SUFFICES ASSUME NEW k \in Counter
                 PROVE  Cardinality({m \in counted'[k] : ~over[m]}) <= Limit(k)
        BY DEF LateOnesKnow
    <2>1. CASE k \in K
        <3>1. {m \in counted'[k] : ~over[m]} = {}
            BY <2>1
        <3>2. 0 <= Limit(k)
            BY LimitsArePositive
        <3> QED BY <1>1, <3>1, <3>2, Zenon
    <2>2. CASE k \notin K
        BY <2>2 DEF LimiterInv, LateOnesKnow
    <2> QED BY <2>1, <2>2
<1>4. ToldWithinLimit'
    BY DEF LimiterInv, ToldWithinLimit
<1> QED BY <1>2, <1>3, <1>4 DEF LimiterInv

LEMMA ResetAccountKeepsInv ==
    ASSUME LimiterInv, NEW l \in Login, ResetAccount(l)
    PROVE  LimiterInv'
<1>1. AccountOf[l] \in Counter
    BY LoginAssumption DEF Counter
<1>2. LimiterTyped
    BY DEF LimiterInv
<1>3. /\ counted' = [counted EXCEPT ![AccountOf[l]] = {}]
      /\ count' = [k \in Counter |-> IF k = AccountOf[l] THEN 0 ELSE count[k]]
      /\ expires' = [k \in Counter |-> IF k = AccountOf[l] THEN FALSE ELSE expires[k]]
      /\ step[l] = "reset" /\ step' = [step EXCEPT ![l] = "done"]
      /\ answer' = [answer EXCEPT ![l] = "200"] /\ UNCHANGED <<toCount, over>>
    BY DEF ResetAccount, Reset, Finish
<1>4. LimiterTyped'
    <2>1. 0 \in 0..Cardinality(Login)
        BY LoginsAreFinite
    <2>2. \A k \in Counter : count'[k] \in 0..Cardinality(Login) /\ (expires'[k] <=> count'[k] > 0)
        BY <1>2, <1>3, <2>1 DEF LimiterTyped, TypeOK
    <2> QED BY <1>2, <1>3, <2>2 DEF LimiterTyped, TypeOK
<1>5. /\ count'[AccountOf[l]] = 0 /\ counted'[AccountOf[l]] = {}
      /\ \A k \in Counter \ {AccountOf[l]} : count'[k] = count[k] /\ counted'[k] = counted[k]
      /\ \A m \in Login \ {l} : UNCHANGED <<step[m], answer[m]>>
      /\ answer'[l] # "401"
    BY <1>1, <1>2, <1>3 DEF LimiterTyped
<1>6. {AccountOf[l]} \in SUBSET Counter
    BY <1>1
<1>7. /\ \A k \in {AccountOf[l]} : count'[k] = 0 /\ counted'[k] = {}
      /\ \A m \in Login \ {l} : UNCHANGED <<step[m], answer[m]>>
      /\ step[l] = "reset" /\ answer'[l] # "401" /\ UNCHANGED <<toCount, over>>
    BY <1>3, <1>5
<1> QED BY <1>4, <1>5, <1>6, <1>7, ResettingKeepsInv, Zenon

LEMMA ExpireKeepsInv ==
    ASSUME LimiterInv, NEW k \in Counter, Expire(k)
    PROVE  LimiterInv'
<1>1. LimiterTyped
    BY DEF LimiterInv
<1>2. LimiterTyped'
    <2>1. 0 \in 0..Cardinality(Login)
        BY LoginsAreFinite
    <2> QED BY <1>1, <2>1 DEF Expire, LimiterTyped, TypeOK
<1>3. /\ count'[k] = 0 /\ counted'[k] = {}
      /\ \A j \in Counter \ {k} : count'[j] = count[j] /\ counted'[j] = counted[j]
      /\ UNCHANGED <<step, toCount, over, answer>>
    BY <1>1 DEF Expire, LimiterTyped
<1>4. CASE Login = {}
    BY <1>2, <1>3, <1>4, FS_EmptySet, LimitsArePositive
       DEF LimiterInv, CountsAreNumbers, LateOnesKnow, ToldWithinLimit, LimiterTyped
<1>5. CASE Login # {}
    <2>1. PICK l \in Login : TRUE
        BY <1>5
    <2>2. {k} \in SUBSET Counter
        OBVIOUS
    <2> QED BY <1>2, <1>3, <2>2, ResettingKeepsInv
<1> QED BY <1>4, <1>5

LEMMA LimiterStep == LimiterInv /\ [Next]_vars => LimiterInv'
<1> SUFFICES ASSUME LimiterInv, [Next]_vars PROVE LimiterInv'
    OBVIOUS
<1>1. CASE Next
    BY <1>1, AssertAllowedKeepsInv, CompareKeepsInv, RecordFailureKeepsInv, ResetAccountKeepsInv,
       DiesKeepsInv, IncrementKeepsInv, ExpireKeepsInv DEF Next
<1>2. CASE UNCHANGED vars
    BY <1>2 DEF vars, counters, LimiterInv, LimiterTyped, TypeOK, CountsAreNumbers, LateOnesKnow,
                ToldWithinLimit
<1> QED BY <1>1, <1>2

\* What the counters know, for any number of logins, accounts and addresses and
\* any limits.
THEOREM LimiterInvariant == Spec => []LimiterInv
BY LimiterInit, LimiterStep, PTL DEF Spec

\* However many logins are compared at once, no more of them are told that their
\* password is wrong than a counter's limit while it lasts (assertAllowed,
\* recordFailure).
THEOREM LoginsAreBoundedAlways == Spec => []LoginsAreBounded
<1>1. LimiterInv => LoginsAreBounded
    <2> SUFFICES ASSUME LimiterInv PROVE LoginsAreBounded
        OBVIOUS
    <2>1. FailuresAreBounded
        <3> SUFFICES ASSUME NEW k \in Counter
                     PROVE  Cardinality({l \in counted[k] : answer[l] = "401"}) <= Limit(k)
            BY DEF FailuresAreBounded
        <3> DEFINE Told == {l \in counted[k] : answer[l] = "401"}
                   Within == {l \in counted[k] : ~over[l]}
        <3>1. Within \in SUBSET Login /\ Told \in SUBSET Within /\ Told \in SUBSET Login
            BY DEF LimiterInv, LimiterTyped, ToldWithinLimit
        <3>2. Cardinality(Within) <= Limit(k)
            BY DEF LimiterInv, LateOnesKnow
        <3>3. Cardinality(Told) <= Cardinality(Within) /\ Cardinality(Told) \in Nat
            BY <3>1, LoginsAreFinite
        <3>4. Cardinality(Within) \in Nat /\ Limit(k) \in Nat
            BY <3>1, LoginsAreFinite, LimitsArePositive
        <3> QED BY <3>2, <3>3, <3>4
    <2> QED BY <2>1 DEF LimiterInv, LimiterTyped, LoginsAreBounded
<1> QED BY <1>1, LimiterInvariant, PTL

-----------------------------------------------------------------------------
(***************************************************************************)
(* The forms.  A form makes one draft its own (draftMovieId) and never     *)
(* publishes another one (OneDraft), so calls that arrive late may repeat  *)
(* but not add to what it has published.  What it created beyond that      *)
(* draft has cost a lost call or a lost answer each (CreationsArePaid).    *)
(* Theaters and accounts are never changed by their form, so what was made *)
(* of the last content stays as it is, and an email stays with one account *)
(* (EmailsDiffer).                                                         *)
(***************************************************************************)

FetchOp == {"me", "create", "patch", "publish"}
FetchAnswer == {"none", "ok", "401", "409", "400", "500", "422"}
Fetches == [op : FetchOp, id : Nat, content : Content, answer : FetchAnswer]
Items == [content : Content, published : BOOLEAN]
Waits == fetch # Forms!Idle

FormTyped ==
    /\ Forms!TypeOK
    /\ fetch \in Fetches \union {Forms!Idle}
    /\ late \subseteq Fetches /\ IsFiniteSet(late)
    /\ stored \in Seq(Items)
    /\ overtaken \in BOOLEAN /\ posted \in Content

\* The form of a movie has one draft, and that is what its calls save and publish.
OneDraft ==
    /\ draftMovieId # 0 => kind = "movie"
    /\ \A c \in late \union {fetch} :
          c # Forms!Idle /\ c.op \in {"patch", "publish"} => c.id = draftMovieId /\ draftMovieId # 0
    /\ Waits /\ fetch.op = "create" => draftMovieId = 0
    /\ \A i \in DOMAIN stored : stored[i].published => i = draftMovieId

\* A page that is done waits for nothing.
DoneIsDone == page = "home" => ~Waits

\* What n names holds what was sent last, or it is a draft and a late call came in
\* between.
Holds(n) == (kind = "movie" /\ overtaken) \/ stored[n].content = posted

\* What the call under way carries, or has done, is what was sent last.
SavesWhatWasSent ==
    Waits =>
        /\ fetch.op \in {"create", "patch"} => fetch.content = posted
        /\ fetch.op = "create" /\ fetch.answer = "ok" => fetch.id \in DOMAIN stored
        /\ fetch.op \in {"create", "patch"} /\ fetch.answer = "ok" => Holds(fetch.id)
        /\ fetch.op = "publish" => Holds(fetch.id)
        /\ fetch.op = "publish" /\ fetch.answer = "ok" => stored[fetch.id].published

\* the page tells the truth
HomeIsTrue ==
    page = "home" =>
        IF kind # "movie" THEN \E i \in DOMAIN stored : stored[i].content = posted
        ELSE /\ draftMovieId # 0 /\ stored[draftMovieId].published
             /\ Holds(draftMovieId)

\* the creations that are still on their way, and the one the form may keep
Unserved == {c \in late : c.op = "create"}
Awaited == IF Waits /\ fetch.op = "create" /\ fetch.answer = "none" THEN 1 ELSE 0
Kept ==
    IF \/ draftMovieId # 0 \/ page = "home"
       \/ Waits /\ fetch.op = "create" /\ fetch.answer \in {"none", "ok"}
    THEN 1 ELSE 0

\* Each creation but the one that the form keeps has cost a fault.
CreationsArePaid == Len(stored) + Cardinality(Unserved) + Awaited <= faults + Kept

\* An email has one account.
Email(i) == EmailOf[stored[i].content]
EmailsDiffer == kind = "signup" => \A i, k \in DOMAIN stored : Email(i) = Email(k) => i = k

FormInv ==
    /\ FormTyped
    /\ OneDraft
    /\ DoneIsDone
    /\ SavesWhatWasSent
    /\ HomeIsTrue
    /\ CreationsArePaid
    /\ EmailsDiffer

LEMMA FormBounds == MaxFaults \in Nat /\ MaxEdits \in Nat
BY FormAssumption DEF Forms!BoundAssumption

LEMMA FormInitially == Forms!Init => FormInv
<1> SUFFICES ASSUME Forms!Init PROVE FormInv
    OBVIOUS
<1> USE FormBounds
<1>1. /\ kind \in {"movie", "theater", "signup"} /\ form \in Content /\ posted = form
      /\ page \in {"ready", "check"} /\ draftMovieId = 0 /\ late = {} /\ stored = <<>>
      /\ faults = 0 /\ edits = 0 /\ overtaken = FALSE
      /\ \/ page = "ready" /\ fetch = Forms!Idle
         \/ page = "check" /\ fetch = [op |-> "me", id |-> 0, content |-> form, answer |-> "none"]
    BY DEF Forms!Init
<1>2. stored \in Seq(Items) /\ Len(stored) = 0 /\ DOMAIN stored = {}
    BY <1>1, EmptySeq
<1>3. Cardinality({}) = 0 /\ IsFiniteSet({})
    BY FS_EmptySet
<1>4. Waits => fetch.op = "me" /\ fetch.answer = "none"
    BY <1>1 DEF Waits
<1>5. FormTyped
    <2>1. fetch \in Fetches \union {Forms!Idle}
        BY <1>1 DEF Fetches, FetchOp, FetchAnswer
    <2>2. Forms!TypeOK
        <3>1. draftMovieId \in 0..Len(stored) /\ faults \in 0..MaxFaults /\ edits \in 0..MaxEdits
            BY <1>1, <1>2
        <3>2. Forms!Busy => fetch.op = "me" /\ page = "check"
            BY <1>1 DEF Forms!Busy
        <3> QED BY <1>1, <1>2, <3>1, <3>2 DEF Forms!TypeOK, Forms!Ops, Forms!Pages
    <2> QED BY <1>1, <1>2, <1>3, <2>1, <2>2 DEF FormTyped
<1>6. OneDraft /\ DoneIsDone /\ SavesWhatWasSent /\ HomeIsTrue
    BY <1>1, <1>2, <1>4 DEF OneDraft, DoneIsDone, SavesWhatWasSent, HomeIsTrue, Waits
<1>7. CreationsArePaid
    <2>1. Unserved = {} /\ Awaited = 0 /\ Kept = 0
        BY <1>1, <1>4 DEF Unserved, Awaited, Kept
    <2> QED BY <1>1, <1>2, <1>3, <2>1 DEF CreationsArePaid
<1>8. EmailsDiffer
    BY <1>2 DEF EmailsDiffer
<1> QED BY <1>5, <1>6, <1>7, <1>8 DEF FormInv

-----------------------------------------------------------------------------
\* What the API may do on a call: nothing, or what the call asks for.
Nothing(e, c) == e[2] = stored /\ (e[1] = "ok" => c.op = "me")
Creates(e, c) ==
    /\ c.op = "create" /\ e[1] = "ok"
    /\ e[2] = Append(stored, [content |-> c.content, published |-> FALSE])
    /\ kind = "signup" => \A i \in DOMAIN stored : Email(i) # EmailOf[c.content]
Saves(e, c) ==
    c.op = "patch" /\ e[1] = "ok" /\ e[2] = [stored EXCEPT ![c.id].content = c.content]
Publishes(e, c) ==
    c.op = "publish" /\ e[1] = "ok" /\ e[2] = [stored EXCEPT ![c.id].published = TRUE]

LEMMA EffectsAreKnown ==
    ASSUME NEW c \in Fetches, NEW e \in Forms!Effects(c) \union Forms!Refused(c)
    PROVE  /\ e[1] \in FetchAnswer \ {"none"}
           /\ Nothing(e, c) \/ Creates(e, c) \/ Saves(e, c) \/ Publishes(e, c)
<1>1. CASE e \in Forms!Refused(c)
    BY <1>1 DEF Forms!Refused, Nothing, FetchAnswer
<1>2. CASE e \in Forms!Effects(c)
    <2>1. CASE c.op = "me"
        BY <1>2, <2>1 DEF Forms!Effects, Nothing, FetchAnswer
    <2>2. CASE c.op = "create"
        BY <1>2, <2>2 DEF Forms!Effects, Forms!Stored, Forms!Taken, Email, Nothing, Creates,
                          FetchAnswer
    <2>3. CASE c.op = "patch"
        BY <1>2, <2>3 DEF Forms!Effects, Nothing, Saves, FetchAnswer
    <2>4. CASE c.op = "publish"
        BY <1>2, <2>4 DEF Forms!Effects, Nothing, Publishes, FetchAnswer
    <2> QED BY <2>1, <2>2, <2>3, <2>4 DEF Fetches, FetchOp
<1> QED BY <1>1, <1>2

\* What is stored after it: nothing is lost, and only the draft of the call is
\* changed, when it is saved or published.
LEMMA EffectsAreKept ==
    ASSUME stored \in Seq(Items), NEW c \in Fetches, NEW e,
           c.op \in {"patch", "publish"} => c.id \in DOMAIN stored,
           Nothing(e, c) \/ Creates(e, c) \/ Saves(e, c) \/ Publishes(e, c)
    PROVE  /\ e[2] \in Seq(Items) /\ Len(stored) \in Nat /\ Len(e[2]) \in Nat
           /\ DOMAIN stored = 1..Len(stored) /\ DOMAIN e[2] = 1..Len(e[2])
           /\ Len(e[2]) = IF Creates(e, c) THEN Len(stored) + 1 ELSE Len(stored)
           /\ \A i \in DOMAIN stored :
                 /\ stored[i].published => e[2][i].published
                 /\ ~stored[i].published /\ e[2][i].published => Publishes(e, c) /\ i = c.id
                 /\ e[2][i].content = stored[i].content \/ (Saves(e, c) /\ i = c.id)
           /\ Creates(e, c) => /\ e[2][Len(e[2])].content = c.content
                               /\ ~e[2][Len(e[2])].published
           /\ Saves(e, c) => e[2][c.id].content = c.content
           /\ Publishes(e, c) => e[2][c.id].published
<1>1. /\ Len(stored) \in Nat /\ DOMAIN stored = 1..Len(stored)
      /\ \A i \in DOMAIN stored : stored[i] \in Items
    BY LenProperties, ElementOfSeq
<1>2. CASE Nothing(e, c)
    <2>1. ~Creates(e, c) /\ ~Saves(e, c) /\ ~Publishes(e, c)
        BY <1>2 DEF Nothing, Creates, Saves, Publishes
    <2> QED BY <1>1, <1>2, <2>1 DEF Nothing
<1>3. CASE Creates(e, c)
    <2> DEFINE new == [content |-> c.content, published |-> FALSE]
    <2>1. e[2] = Append(stored, new) /\ new \in Items /\ ~Saves(e, c) /\ ~Publishes(e, c)
        BY <1>3 DEF Creates, Saves, Publishes, Items, Fetches
    <2>2. new.content = c.content /\ new.published = FALSE
        OBVIOUS
    <2> HIDE DEF new
    <2>3. /\ e[2] \in Seq(Items) /\ Len(e[2]) = Len(stored) + 1
          /\ \A i \in 1..Len(stored) : e[2][i] = stored[i]
          /\ e[2][Len(stored) + 1] = new
        BY <2>1, AppendProperties
    <2>4. DOMAIN e[2] = 1..Len(e[2]) /\ Len(e[2]) \in Nat
        BY <2>3, LenProperties
    <2> QED BY <1>1, <1>3, <2>1, <2>2, <2>3, <2>4
<1>4. ASSUME Saves(e, c) \/ Publishes(e, c), ~Nothing(e, c),
             NEW item \in Items, e[2] = [stored EXCEPT ![c.id] = item],
             Saves(e, c) => /\ item.published = stored[c.id].published
                            /\ item.content = c.content,
             Publishes(e, c) => item.published /\ item.content = stored[c.id].content
      PROVE  /\ e[2] \in Seq(Items) /\ Len(e[2]) = Len(stored) /\ DOMAIN e[2] = 1..Len(e[2])
             /\ \A i \in DOMAIN stored :
                   /\ stored[i].published => e[2][i].published
                   /\ ~stored[i].published /\ e[2][i].published => Publishes(e, c) /\ i = c.id
                   /\ e[2][i].content = stored[i].content \/ (Saves(e, c) /\ i = c.id)
             /\ Saves(e, c) => e[2][c.id].content = c.content
             /\ Publishes(e, c) => e[2][c.id].published
             /\ ~Creates(e, c)
    <2>1. c.id \in 1..Len(stored) /\ ~Creates(e, c)
        BY <1>1, <1>4, Zenon DEF Saves, Publishes, Creates
    <2>2. /\ e[2] \in Seq(Items) /\ Len(e[2]) = Len(stored)
          /\ \A j \in 1..Len(stored) : e[2][j] = IF j = c.id THEN item ELSE stored[j]
        BY <1>4, <2>1, ExceptSeq
    <2>3. DOMAIN e[2] = 1..Len(e[2])
        BY <2>2, LenProperties
    <2>4. Saves(e, c) => ~Publishes(e, c)
        BY Zenon DEF Saves, Publishes
    <2>5. e[2][c.id] = item /\ \A i \in DOMAIN stored : i # c.id => e[2][i] = stored[i]
        BY <1>1, <2>1, <2>2
    <2>6. ASSUME NEW i \in DOMAIN stored
          PROVE  /\ stored[i].published => e[2][i].published
                 /\ ~stored[i].published /\ e[2][i].published => Publishes(e, c) /\ i = c.id
                 /\ e[2][i].content = stored[i].content \/ (Saves(e, c) /\ i = c.id)
        BY <1>4, <2>4, <2>5, Zenon
    <2> QED BY <1>4, <2>1, <2>2, <2>3, <2>5, <2>6, Zenon
<1>5. CASE Saves(e, c)
    <2>1. c.id \in DOMAIN stored /\ stored[c.id] \in Items /\ ~Nothing(e, c) /\ ~Publishes(e, c)
        BY <1>1, <1>5 DEF Saves, Nothing, Publishes
    <2> DEFINE item == [stored[c.id] EXCEPT !.content = c.content]
    <2>2. /\ item \in Items /\ item.published = stored[c.id].published /\ item.content = c.content
        BY <2>1 DEF Items, Fetches
    <2>3. e[2] = [stored EXCEPT ![c.id] = item]
        BY <1>5, Zenon DEF Saves
    <2> HIDE DEF item
    <2> QED BY <1>1, <1>4, <1>5, <2>1, <2>2, <2>3, Zenon
<1>6. CASE Publishes(e, c)
    <2>1. c.id \in DOMAIN stored /\ stored[c.id] \in Items /\ ~Nothing(e, c) /\ ~Saves(e, c)
        BY <1>1, <1>6 DEF Saves, Nothing, Publishes
    <2> DEFINE item == [stored[c.id] EXCEPT !.published = TRUE]
    <2>2. /\ item \in Items /\ item.published /\ item.content = stored[c.id].content
        BY <2>1 DEF Items
    <2>3. e[2] = [stored EXCEPT ![c.id] = item]
        BY <1>6 DEF Publishes
    <2> HIDE DEF item
    <2> QED BY <1>1, <1>4, <1>6, <2>1, <2>2, <2>3, Zenon
<1> QED BY <1>2, <1>3, <1>5, <1>6

\* A theater and an account are not changed, and an account that is added has an
\* email of its own.
LEMMA AccountsAreKept ==
    ASSUME FormInv, NEW c \in Fetches, NEW e, stored' = e[2], kind' = kind,
           Nothing(e, c) \/ Creates(e, c) \/ Saves(e, c) \/ Publishes(e, c),
           c.op \in {"patch", "publish"} =>
               c.id \in DOMAIN stored /\ c.id = draftMovieId /\ draftMovieId # 0
    PROVE  /\ EmailsDiffer'
           /\ kind # "movie" =>
                 \A i \in DOMAIN stored : i \in DOMAIN e[2] /\ e[2][i].content = stored[i].content
<1>1. stored \in Seq(Items) /\ (kind # "movie" => draftMovieId = 0)
    BY DEF FormInv, FormTyped, OneDraft
<1>2. /\ Len(stored) \in Nat /\ DOMAIN stored = 1..Len(stored) /\ DOMAIN e[2] = 1..Len(e[2])
      /\ Len(e[2]) = IF Creates(e, c) THEN Len(stored) + 1 ELSE Len(stored)
      /\ \A i \in DOMAIN stored : e[2][i].content = stored[i].content \/ (Saves(e, c) /\ i = c.id)
      /\ Creates(e, c) => e[2][Len(e[2])].content = c.content
    BY <1>1, EffectsAreKept
<1>3. kind # "movie" => ~Saves(e, c)
    BY <1>1, Zenon DEF Saves
<1>4. kind # "movie" =>
         \A i \in DOMAIN stored : i \in DOMAIN e[2] /\ e[2][i].content = stored[i].content
    BY <1>2, <1>3
<1>5. ASSUME kind = "signup", NEW i \in DOMAIN e[2], NEW k \in DOMAIN e[2],
             EmailOf[e[2][i].content] = EmailOf[e[2][k].content]
      PROVE  i = k
    <2>1. ASSUME Creates(e, c), NEW n \in DOMAIN stored
          PROVE  EmailOf[e[2][n].content] # EmailOf[e[2][Len(e[2])].content]
        BY <1>2, <1>4, <1>5, <2>1 DEF Creates, Email
    <2>2. CASE i \in DOMAIN stored /\ k \in DOMAIN stored
        BY <1>4, <1>5, <2>2 DEF FormInv, EmailsDiffer, Email
    <2>3. CASE ~(i \in DOMAIN stored /\ k \in DOMAIN stored)
        <3>1. Creates(e, c) /\ \A n \in {i, k} : n \in DOMAIN stored \/ n = Len(e[2])
            BY <1>2, <2>3
        <3> QED BY <1>5, <2>1, <2>3, <3>1
    <2> QED BY <2>2, <2>3
<1> QED BY <1>4, <1>5 DEF EmailsDiffer, Email

\* the numbers of CreationsArePaid
LEMMA FormNumbers ==
    ASSUME FormInv
    PROVE  /\ Len(stored) \in Nat /\ DOMAIN stored = 1..Len(stored) /\ faults \in Nat
           /\ IsFiniteSet(Unserved) /\ Cardinality(Unserved) \in Nat
           /\ Awaited \in {0, 1} /\ Kept \in {0, 1}
<1>1. stored \in Seq(Items) /\ IsFiniteSet(late) /\ Unserved \subseteq late /\ faults \in Nat
    BY FormBounds DEF FormInv, FormTyped, Unserved, Forms!TypeOK
<1>2. IsFiniteSet(Unserved) /\ Cardinality(Unserved) \in Nat
    BY <1>1, FS_Subset, FS_CardinalityType
<1>3. Len(stored) \in Nat /\ DOMAIN stored = 1..Len(stored)
    BY <1>1, LenProperties
<1> QED BY <1>1, <1>2, <1>3 DEF Awaited, Kept

\* Edit and Leave touch nothing but the page.
LEMMA UserKeepsInv ==
    ASSUME FormInv, Forms!Edit \/ Forms!Leave
    PROVE  FormInv'
<1> USE FormBounds
<1>1. /\ UNCHANGED <<kind, draftMovieId, fetch, late, stored, overtaken, faults, posted>>
      /\ page = "ready" /\ page' \in {"ready", "left"}
      /\ form' \in Content /\ edits' \in 0..MaxEdits
    <2>1. form \in Content /\ edits \in 0..MaxEdits
        BY DEF FormInv, FormTyped, Forms!TypeOK
    <2>2. CASE Forms!Edit
        BY <2>1, <2>2 DEF Forms!Edit, Forms!server
    <2>3. CASE Forms!Leave
        BY <2>1, <2>3 DEF Forms!Leave, Forms!server
    <2> QED BY <2>2, <2>3
<1>2. FormTyped'
    <2>1. ~(fetch # Forms!Idle /\ fetch.op = "me")
        BY <1>1 DEF FormInv, FormTyped, Forms!TypeOK, Forms!Busy
    <2>2. Forms!TypeOK'
        BY <1>1, <2>1 DEF FormInv, FormTyped, Forms!TypeOK, Forms!Busy, Forms!Pages, Forms!Idle
    <2> QED BY <1>1, <2>2 DEF FormInv, FormTyped, Forms!Idle
<1>3. (Waits <=> Waits') /\ (\A n : Holds(n) <=> Holds(n)')
    BY <1>1 DEF Waits, Holds, Forms!Idle
<1>4. OneDraft' /\ DoneIsDone' /\ HomeIsTrue'
    BY <1>1, <1>3 DEF FormInv, OneDraft, DoneIsDone, HomeIsTrue, Forms!Idle
<1>5. SavesWhatWasSent'
    BY <1>1, <1>3 DEF FormInv, SavesWhatWasSent
<1>6. CreationsArePaid'
    <2>1. Unserved' = Unserved /\ Awaited' = Awaited /\ Kept' = Kept
        BY <1>1, <1>3 DEF Unserved, Awaited, Kept
    <2> QED BY <1>1, <2>1 DEF FormInv, CreationsArePaid
<1>7. EmailsDiffer'
    BY <1>1 DEF FormInv, EmailsDiffer, Email
<1> QED BY <1>2, <1>4, <1>5, <1>6, <1>7 DEF FormInv

\* The button saves: it creates a draft only if the form has none.
LEMMA SubmitKeepsInv ==
    ASSUME FormInv, Forms!Submit
    PROVE  FormInv'
<1> USE FormBounds
<1>1. /\ page = "ready" /\ ~Waits /\ posted' = form
      /\ fetch' = [op |-> IF draftMovieId # 0 THEN "patch" ELSE "create", id |-> draftMovieId,
                   content |-> form, answer |-> "none"]
      /\ UNCHANGED <<kind, page, form, draftMovieId, late, stored, overtaken, faults, edits>>
    BY DEF Forms!Submit, Forms!SaveOp, Forms!Fetch, Forms!Busy, Forms!server, Waits
<1>2. /\ form \in Content /\ draftMovieId \in 0..Len(stored) /\ Len(stored) \in Nat
      /\ DOMAIN stored = 1..Len(stored)
    BY FormNumbers DEF FormInv, FormTyped, Forms!TypeOK
<1>3. /\ fetch' \in Fetches /\ Waits' /\ fetch'.answer = "none" /\ fetch'.content = posted'
      /\ fetch'.id = draftMovieId /\ fetch'.op \in {"patch", "create"}
      /\ fetch'.op = "patch" <=> draftMovieId # 0
    BY <1>1, <1>2 DEF Fetches, FetchOp, FetchAnswer, Waits, Forms!Idle
<1>4. FormTyped'
    <2>1. Forms!TypeOK'
        <3>1. fetch'.op \in Forms!Ops /\ fetch'.op # "me"
            BY <1>3 DEF Forms!Ops
        <3>2. fetch'.op \in {"patch", "publish"} => fetch'.id \in DOMAIN stored
            BY <1>2, <1>3
        <3> QED BY <1>1, <1>2, <3>1, <3>2 DEF FormInv, FormTyped, Forms!TypeOK, Forms!Ops, Forms!Pages
    <2> QED BY <1>1, <1>2, <1>3, <2>1 DEF FormInv, FormTyped
<1>5. OneDraft'
    BY <1>1, <1>3 DEF FormInv, OneDraft, Forms!Idle
<1>6. DoneIsDone' /\ HomeIsTrue' /\ SavesWhatWasSent'
    BY <1>1, <1>3 DEF DoneIsDone, HomeIsTrue, SavesWhatWasSent
<1>7. CreationsArePaid'
    <2>1. Unserved' = Unserved /\ Awaited = 0
        BY <1>1 DEF Unserved, Awaited
    <2>2. CASE draftMovieId # 0
        <3>1. Awaited' = 0 /\ Kept' = 1 /\ Kept = 1
            BY <1>1, <1>3, <2>2 DEF Awaited, Kept
        <3> QED BY <1>1, <2>1, <3>1 DEF FormInv, CreationsArePaid
    <2>3. CASE draftMovieId = 0
        <3>1. Awaited' = 1 /\ Kept' = 1 /\ Kept = 0
            BY <1>1, <1>3, <2>3 DEF Awaited, Kept
        <3> QED BY <1>1, <2>1, <3>1, FormNumbers DEF FormInv, CreationsArePaid
    <2> QED BY <2>2, <2>3
<1>8. EmailsDiffer'
    BY <1>1 DEF FormInv, EmailsDiffer, Email
<1> QED BY <1>4, <1>5, <1>6, <1>7, <1>8 DEF FormInv

\* The API does what the call asks for, or refuses.
LEMMA ServeKeepsInv ==
    ASSUME FormInv, Forms!Serve
    PROVE  FormInv'
<1> USE FormBounds
<1>1. PICK e \in Forms!Effects(fetch) \union Forms!Refused(fetch) :
         /\ fetch' = [fetch EXCEPT !.answer = e[1],
                                   !.id = IF fetch.op = "create" THEN Len(e[2]) ELSE @]
         /\ stored' = e[2]
    BY Zenon DEF Forms!Serve
<1>2. /\ Waits /\ fetch.answer = "none" /\ fetch \in Fetches /\ page # "home"
      /\ UNCHANGED <<kind, page, form, draftMovieId, late, overtaken, faults, edits, posted>>
    BY DEF FormInv, FormTyped, DoneIsDone, Forms!Serve, Forms!Busy, Waits
<1>3. /\ e[1] \in FetchAnswer \ {"none"}
      /\ Nothing(e, fetch) \/ Creates(e, fetch) \/ Saves(e, fetch) \/ Publishes(e, fetch)
    BY <1>2, EffectsAreKnown
<1>4. fetch.op \in {"patch", "publish"} =>
         fetch.id \in DOMAIN stored /\ fetch.id = draftMovieId /\ draftMovieId # 0
    BY <1>2 DEF FormInv, FormTyped, Forms!TypeOK, Forms!Busy, Waits, OneDraft
<1>5. stored \in Seq(Items)
    BY DEF FormInv, FormTyped
<1>6. /\ e[2] \in Seq(Items) /\ Len(stored) \in Nat /\ Len(e[2]) \in Nat
      /\ DOMAIN stored = 1..Len(stored) /\ DOMAIN e[2] = 1..Len(e[2])
      /\ Len(e[2]) = IF Creates(e, fetch) THEN Len(stored) + 1 ELSE Len(stored)
      /\ \A i \in DOMAIN stored :
            /\ stored[i].published => e[2][i].published
            /\ ~stored[i].published /\ e[2][i].published => Publishes(e, fetch) /\ i = fetch.id
            /\ e[2][i].content = stored[i].content \/ (Saves(e, fetch) /\ i = fetch.id)
      /\ Creates(e, fetch) => /\ e[2][Len(e[2])].content = fetch.content
                              /\ ~e[2][Len(e[2])].published
      /\ Saves(e, fetch) => e[2][fetch.id].content = fetch.content
      /\ Publishes(e, fetch) => e[2][fetch.id].published
    BY <1>3, <1>4, <1>2, <1>5, EffectsAreKept
<1>7. /\ fetch' \in Fetches /\ Waits' /\ fetch'.op = fetch.op /\ fetch'.answer = e[1]
      /\ fetch'.content = fetch.content
      /\ fetch'.id = IF fetch.op = "create" THEN Len(e[2]) ELSE fetch.id
    BY <1>1, <1>2, <1>3, <1>6 DEF Fetches, Waits, Forms!Idle
<1>8. /\ fetch.op = "create" /\ e[1] = "ok" <=> Creates(e, fetch)
      /\ fetch.op = "patch" /\ e[1] = "ok" <=> Saves(e, fetch)
      /\ fetch.op = "publish" /\ e[1] = "ok" <=> Publishes(e, fetch)
    BY <1>3 DEF Nothing, Creates, Saves, Publishes
<1>9. FormTyped'
    <2>1. draftMovieId \in 0..Len(e[2])
        <3>1. draftMovieId \in 0..Len(stored)
            BY DEF FormInv, FormTyped, Forms!TypeOK
        <3> QED BY <1>6, <3>1
    <2>2. fetch.op \in {"patch", "publish"} => fetch'.id \in DOMAIN e[2]
        BY <1>4, <1>6, <1>7
    <2>3. \A i \in DOMAIN e[2] : e[2][i].content \in Content /\ e[2][i].published \in BOOLEAN
        <3>1. \A i \in 1..Len(e[2]) : e[2][i] \in Items
            BY <1>6, ElementOfSeq
        <3> QED BY <1>6, <3>1 DEF Items
    <2>4. Forms!TypeOK'
        BY <1>1, <1>2, <1>7, <2>1, <2>2, <2>3 DEF FormInv, FormTyped, Forms!TypeOK, Forms!Busy, Waits
    <2> QED BY <1>1, <1>2, <1>6, <1>7, <2>4 DEF FormInv, FormTyped
<1>10. OneDraft'
    <2>1. ASSUME NEW i \in DOMAIN e[2], e[2][i].published PROVE i = draftMovieId
        <3>1. CASE i \in DOMAIN stored /\ stored[i].published
            BY <3>1 DEF FormInv, OneDraft
        <3>2. CASE i \in DOMAIN stored /\ ~stored[i].published
            BY <1>4, <1>6, <2>1, <3>2 DEF Publishes
        <3>3. CASE i \notin DOMAIN stored
            <4>1. Creates(e, fetch) /\ i = Len(e[2])
                BY <1>6, <3>3
            <4> QED BY <1>6, <2>1, <4>1
        <3> QED BY <3>1, <3>2, <3>3
    <2>2. \A c \in late \union {fetch'} :
             c # Forms!Idle /\ c.op \in {"patch", "publish"} => c.id = draftMovieId /\ draftMovieId # 0
        BY <1>4, <1>7 DEF FormInv, OneDraft
    <2> QED BY <1>1, <1>2, <1>7, <2>1, <2>2 DEF FormInv, OneDraft, Forms!Idle
<1>11. DoneIsDone' /\ HomeIsTrue'
    BY <1>2 DEF DoneIsDone, HomeIsTrue
<1>12. SavesWhatWasSent'
    <2>1. fetch.op \in {"create", "patch"} => fetch.content = posted
        BY <1>2 DEF FormInv, SavesWhatWasSent
    <2>2. fetch.op = "create" /\ e[1] = "ok" =>
             fetch'.id \in DOMAIN e[2] /\ e[2][fetch'.id].content = posted
        BY <1>6, <1>7, <1>8, <2>1
    <2>3. fetch.op = "patch" /\ e[1] = "ok" => e[2][fetch'.id].content = posted
        BY <1>6, <1>7, <1>8, <2>1
    <2>4. fetch.op = "publish" =>
             /\ (kind = "movie" /\ overtaken) \/ e[2][fetch'.id].content = posted
             /\ e[1] = "ok" => e[2][fetch'.id].published
        <3> SUFFICES ASSUME fetch.op = "publish"
                     PROVE  /\ (kind = "movie" /\ overtaken) \/ e[2][fetch'.id].content = posted
                            /\ e[1] = "ok" => e[2][fetch'.id].published
            OBVIOUS
        <3>1. (kind = "movie" /\ overtaken) \/ stored[fetch.id].content = posted
            BY <1>2 DEF FormInv, SavesWhatWasSent, Holds
        <3>2. e[2][fetch.id].content = stored[fetch.id].content
            BY <1>4, <1>6, <1>8
        <3> QED BY <1>6, <1>7, <1>8, <3>1, <3>2
    <2> QED BY <1>1, <1>2, <1>7, <2>1, <2>2, <2>3, <2>4 DEF SavesWhatWasSent, Holds
<1>13. CreationsArePaid'
    <2>1. Unserved' = Unserved /\ Awaited' = 0
        BY <1>2, <1>3, <1>7 DEF Unserved, Awaited
    <2>2. Len(stored) + Cardinality(Unserved) + Awaited <= faults + Kept
        BY DEF FormInv, CreationsArePaid
    <2>3. CASE fetch.op = "create"
        <3>1. Awaited = 1 /\ Kept = 1
            BY <1>2, <2>3 DEF Awaited, Kept
        <3>2. CASE Creates(e, fetch)
            <4>1. Kept' = 1
                BY <1>7, <1>8, <2>3, <3>2 DEF Kept
            <4> QED BY <1>1, <1>2, <1>6, <2>1, <2>2, <3>1, <3>2, <4>1, FormNumbers
                   DEF CreationsArePaid
        <3>3. CASE ~Creates(e, fetch)
            <4>1. Kept' \in {0, 1}
                BY DEF Kept
            <4> QED BY <1>1, <1>2, <1>6, <2>1, <2>2, <3>1, <3>3, <4>1, FormNumbers
                   DEF CreationsArePaid
        <3> QED BY <3>2, <3>3
    <2>4. CASE fetch.op # "create"
        <3>1. Awaited = 0 /\ Kept' = Kept /\ ~Creates(e, fetch)
            BY <1>2, <1>7, <2>4 DEF Awaited, Kept, Creates
        <3> QED BY <1>1, <1>2, <1>6, <2>1, <2>2, <3>1, FormNumbers DEF CreationsArePaid
    <2> QED BY <2>3, <2>4
<1>14. EmailsDiffer'
    BY <1>1, <1>2, <1>3, <1>4, AccountsAreKept
<1> QED BY <1>9, <1>10, <1>11, <1>12, <1>13, <1>14 DEF FormInv

\* A call that is done after its page gave up on it: what it does to the form's
\* draft is remembered as overtaken.
LEMMA ServeLateKeepsInv ==
    ASSUME FormInv, Forms!ServeLate
    PROVE  FormInv'
<1> USE FormBounds
<1>1. PICK c \in late : /\ \E e \in Forms!Effects(c) : stored' = e[2]
                        /\ late' = late \ {c}
                        /\ overtaken' = (overtaken \/ Forms!Busy \/ page = "home")
                        /\ UNCHANGED <<kind, page, form, draftMovieId, fetch, faults, edits, posted>>
    BY DEF Forms!ServeLate
<1>2. PICK e \in Forms!Effects(c) : stored' = e[2]
    BY <1>1
<1>3. c \in Fetches /\ stored \in Seq(Items) /\ draftMovieId \in 0..Len(stored)
    BY DEF FormInv, FormTyped, Forms!TypeOK
<1>4. Nothing(e, c) \/ Creates(e, c) \/ Saves(e, c) \/ Publishes(e, c)
    BY <1>3, EffectsAreKnown
<1>5. c.op \in {"patch", "publish"} =>
         c.id \in DOMAIN stored /\ c.id = draftMovieId /\ draftMovieId # 0
    <2>1. c # Forms!Idle
        BY <1>3 DEF Fetches, Forms!Idle
    <2> QED BY <1>3, <2>1, FormNumbers DEF FormInv, OneDraft
<1>6. /\ e[2] \in Seq(Items) /\ Len(stored) \in Nat /\ Len(e[2]) \in Nat
      /\ DOMAIN stored = 1..Len(stored) /\ DOMAIN e[2] = 1..Len(e[2])
      /\ Len(e[2]) = IF Creates(e, c) THEN Len(stored) + 1 ELSE Len(stored)
      /\ \A i \in DOMAIN stored :
            /\ stored[i].published => e[2][i].published
            /\ ~stored[i].published /\ e[2][i].published => Publishes(e, c) /\ i = c.id
            /\ e[2][i].content = stored[i].content \/ (Saves(e, c) /\ i = c.id)
      /\ Creates(e, c) => /\ e[2][Len(e[2])].content = c.content
                          /\ ~e[2][Len(e[2])].published
    BY <1>3, <1>4, <1>5, EffectsAreKept
<1>7. /\ Waits' <=> Waits
      /\ Waits \/ page = "home" => overtaken'
    BY <1>1 DEF Waits, Forms!Busy, Forms!Idle
<1>8. FormTyped'
    <2>1. draftMovieId \in 0..Len(e[2])
        BY <1>3, <1>6
    <2>2. \A i \in DOMAIN e[2] : e[2][i].content \in Content /\ e[2][i].published \in BOOLEAN
        <3>1. \A i \in 1..Len(e[2]) : e[2][i] \in Items
            BY <1>6, ElementOfSeq
        <3> QED BY <1>6, <3>1 DEF Items
    <2>3. Waits /\ fetch.op \in {"patch", "publish"} => fetch.id \in DOMAIN e[2]
        <3>1. Waits /\ fetch.op \in {"patch", "publish"} => fetch.id \in DOMAIN stored
            BY DEF FormInv, FormTyped, Forms!TypeOK, Forms!Busy, Waits
        <3> QED BY <1>6, <3>1
    <2>4. Forms!TypeOK'
        BY <1>1, <1>2, <1>7, <2>1, <2>2, <2>3 DEF FormInv, FormTyped, Forms!TypeOK, Forms!Busy, Waits
    <2>5. late' \subseteq Fetches /\ IsFiniteSet(late')
        BY <1>1, FS_RemoveElement DEF FormInv, FormTyped
    <2>6. overtaken' \in BOOLEAN
        BY <1>1 DEF FormInv, FormTyped, Forms!Busy
    <2> QED BY <1>1, <1>2, <1>6, <2>4, <2>5, <2>6 DEF FormInv, FormTyped, Forms!Idle
<1>9. OneDraft'
    <2>1. ASSUME NEW i \in DOMAIN e[2], e[2][i].published PROVE i = draftMovieId
        <3>1. CASE i \in DOMAIN stored /\ stored[i].published
            BY <3>1 DEF FormInv, OneDraft
        <3>2. CASE i \in DOMAIN stored /\ ~stored[i].published
            BY <1>5, <1>6, <2>1, <3>2 DEF Publishes
        <3>3. CASE i \notin DOMAIN stored
            <4>1. Creates(e, c) /\ i = Len(e[2])
                BY <1>6, <3>3
            <4> QED BY <1>6, <2>1, <4>1
        <3> QED BY <3>1, <3>2, <3>3
    <2> QED BY <1>1, <1>2, <1>7, <2>1 DEF FormInv, OneDraft, Forms!Idle
<1>10. DoneIsDone'
    BY <1>1, <1>7 DEF FormInv, DoneIsDone
<1>11. /\ EmailsDiffer'
       /\ kind # "movie" =>
             \A i \in DOMAIN stored : i \in DOMAIN e[2] /\ e[2][i].content = stored[i].content
    BY <1>1, <1>2, <1>3, <1>4, <1>5, AccountsAreKept
<1>12. HomeIsTrue'
    <2> SUFFICES ASSUME page = "home"
                 PROVE  IF kind # "movie" THEN \E i \in DOMAIN e[2] : e[2][i].content = posted
                        ELSE draftMovieId # 0 /\ e[2][draftMovieId].published /\ overtaken'
        BY <1>1, <1>2 DEF HomeIsTrue, Holds
    <2>1. CASE kind # "movie"
        <3>1. \E i \in DOMAIN stored : stored[i].content = posted
            BY <2>1 DEF FormInv, HomeIsTrue
        <3> QED BY <1>11, <2>1, <3>1
    <2>2. CASE kind = "movie"
        <3>1. draftMovieId # 0 /\ stored[draftMovieId].published
            BY <2>2 DEF FormInv, HomeIsTrue
        <3>2. draftMovieId \in DOMAIN stored
            BY <1>3, <1>6, <3>1
        <3> QED BY <1>6, <1>7, <2>2, <3>1, <3>2
    <2> QED BY <2>1, <2>2
<1>13. SavesWhatWasSent'
    <2> DEFINE Names(n) == n \in DOMAIN stored /\ Holds(n)
    <2>1. ASSUME Waits, NEW n, Names(n)
          PROVE  n \in DOMAIN e[2] /\ ((kind = "movie" /\ overtaken') \/ e[2][n].content = posted)
        <3>1. CASE kind = "movie"
            BY <1>6, <1>7, <2>1, <3>1
        <3>2. CASE kind # "movie"
            BY <1>11, <2>1, <3>2 DEF Holds
        <3> QED BY <3>1, <3>2
    <2>2. Waits /\ fetch.op \in {"patch", "publish"} => fetch.id \in DOMAIN stored
        BY DEF FormInv, FormTyped, Forms!TypeOK, Forms!Busy, Waits
    <2>3. Waits =>
             /\ fetch.op \in {"create", "patch"} => fetch.content = posted
             /\ fetch.op \in {"create", "patch"} /\ fetch.answer = "ok" => Names(fetch.id)
             /\ fetch.op = "publish" => Names(fetch.id)
             /\ fetch.op = "publish" /\ fetch.answer = "ok" => e[2][fetch.id].published
        BY <1>6, <2>2 DEF FormInv, SavesWhatWasSent
    <2> HIDE DEF Names
    <2>4. Waits =>
             /\ fetch.op \in {"create", "patch"} => fetch.content = posted
             /\ fetch.op = "create" /\ fetch.answer = "ok" => fetch.id \in DOMAIN e[2]
             /\ fetch.op \in {"create", "patch"} /\ fetch.answer = "ok" =>
                   (kind = "movie" /\ overtaken') \/ e[2][fetch.id].content = posted
             /\ fetch.op = "publish" =>
                   (kind = "movie" /\ overtaken') \/ e[2][fetch.id].content = posted
             /\ fetch.op = "publish" /\ fetch.answer = "ok" => e[2][fetch.id].published
        BY <2>1, <2>3
    <2> QED BY <1>1, <1>2, <1>7, <2>4 DEF SavesWhatWasSent, Holds
<1>14. CreationsArePaid'
    <2>1. Awaited' = Awaited /\ Kept' = Kept
        BY <1>1, <1>7 DEF Awaited, Kept
    <2>2. Len(stored) + Cardinality(Unserved) + Awaited <= faults + Kept
        BY DEF FormInv, CreationsArePaid
    <2>3. CASE c.op = "create"
        <3>1. Unserved' = Unserved \ {c} /\ c \in Unserved
            BY <1>1, <2>3 DEF Unserved
        <3>2. Cardinality(Unserved') = Cardinality(Unserved) - 1
            BY <3>1, FormNumbers, FS_RemoveElement
        <3> QED BY <1>1, <1>2, <1>6, <2>1, <2>2, <3>2, FormNumbers, SMTT(30) DEF CreationsArePaid
    <2>4. CASE c.op # "create"
        <3>1. Unserved' = Unserved /\ ~Creates(e, c)
            BY <1>1, <2>4 DEF Unserved, Creates
        <3> QED BY <1>1, <1>2, <1>6, <2>1, <2>2, <3>1, FormNumbers DEF CreationsArePaid
    <2> QED BY <2>3, <2>4
<1> QED BY <1>8, <1>9, <1>10, <1>11, <1>12, <1>13, <1>14 DEF FormInv

-----------------------------------------------------------------------------
\* A call that has failed, for its answer or without one, is forgotten; the
\* draft is not.
LEMMA FailureKeeps ==
    ASSUME FormInv, Waits, NEW status, Forms!Failure(status),
           UNCHANGED <<kind, form, stored, overtaken, edits, posted>>,
           late' \subseteq Fetches, IsFiniteSet(late'),
           late' \subseteq late \union {fetch}, faults' \in 0..MaxFaults
    PROVE  /\ FormTyped' /\ OneDraft' /\ DoneIsDone' /\ SavesWhatWasSent' /\ HomeIsTrue'
           /\ EmailsDiffer' /\ ~Waits' /\ draftMovieId' = draftMovieId
           /\ Awaited' = 0 /\ Kept' = IF draftMovieId # 0 THEN 1 ELSE 0
<1> USE FormBounds
<1>1. /\ fetch' = Forms!Idle /\ ~Waits' /\ draftMovieId' = draftMovieId
      /\ page' \in {"login", "broken", page} /\ page # "home"
    BY DEF Forms!Failure, Waits, FormInv, DoneIsDone, Forms!Idle
<1>2. page' # "home" /\ page' \in Forms!Pages
    BY <1>1 DEF FormInv, FormTyped, Forms!TypeOK, Forms!Pages
<1>3. FormTyped'
    <2>1. Forms!TypeOK'
        BY <1>1, <1>2 DEF FormInv, FormTyped, Forms!TypeOK, Forms!Busy, Waits, Forms!Idle, Forms!Pages
    <2> QED BY <1>1, <2>1 DEF FormInv, FormTyped, Forms!Idle
<1>4. OneDraft'
    <2>1. \A c \in late' \union {fetch'} :
             c # Forms!Idle /\ c.op \in {"patch", "publish"} => c.id = draftMovieId /\ draftMovieId # 0
        BY <1>1 DEF FormInv, OneDraft
    <2> QED BY <1>1, <2>1 DEF FormInv, OneDraft, Forms!Idle
<1>5. DoneIsDone' /\ SavesWhatWasSent' /\ HomeIsTrue'
    BY <1>1, <1>2 DEF DoneIsDone, SavesWhatWasSent, HomeIsTrue
<1>6. Awaited' = 0 /\ Kept' = IF draftMovieId # 0 THEN 1 ELSE 0
    BY <1>1, <1>2 DEF Awaited, Kept
<1>7. EmailsDiffer'
    BY DEF FormInv, EmailsDiffer, Email
<1> QED BY <1>1, <1>3, <1>4, <1>5, <1>6, <1>7

\* A lost call is paid with a fault.
LEMMA LoseKeepsInv ==
    ASSUME FormInv, Forms!Lose
    PROVE  FormInv'
<1> USE FormBounds
<1>1. /\ Waits /\ faults < MaxFaults /\ faults' = faults + 1 /\ Forms!Failure("failed")
      /\ \/ fetch.answer = "none" /\ late' = late \union {fetch}
         \/ late' = late
      /\ UNCHANGED <<kind, form, stored, overtaken, edits, posted>>
    BY DEF Forms!Lose, Forms!Busy, Forms!server, Waits
<1>2. /\ fetch \in Fetches /\ late \subseteq Fetches /\ IsFiniteSet(late) /\ faults \in 0..MaxFaults
    BY <1>1 DEF FormInv, FormTyped, Waits, Forms!TypeOK
<1>3. /\ late' \subseteq Fetches /\ IsFiniteSet(late') /\ late' \subseteq late \union {fetch}
      /\ faults' \in 0..MaxFaults
    BY <1>1, <1>2, FS_AddElement
<1>4. /\ FormTyped' /\ OneDraft' /\ DoneIsDone' /\ SavesWhatWasSent' /\ HomeIsTrue'
      /\ EmailsDiffer' /\ draftMovieId' = draftMovieId
      /\ Awaited' = 0 /\ Kept' = IF draftMovieId # 0 THEN 1 ELSE 0
    BY <1>1, <1>3, FailureKeeps
<1>5. CreationsArePaid'
    <2>1. Len(stored) + Cardinality(Unserved) + Awaited <= faults + Kept
        BY DEF FormInv, CreationsArePaid
    <2>2. IsFiniteSet(Unserved) /\ Cardinality(Unserved) \in Nat
        BY FormNumbers
    <2>3. /\ Cardinality(Unserved') \in Nat
          /\ Cardinality(Unserved') + Kept <= Cardinality(Unserved) + Awaited + 1 + Kept'
        <3>1. CASE late' = late \union {fetch} /\ fetch.op = "create" /\ fetch.answer = "none"
            <4>1. Unserved' = Unserved \union {fetch} /\ Awaited = 1
                BY <1>1, <3>1 DEF Unserved, Awaited
            <4>2. /\ Cardinality(Unserved') \in Nat
                  /\ Cardinality(Unserved') <= Cardinality(Unserved) + 1
                BY <2>2, <4>1, FS_AddElement
            <4> QED BY <1>4, <2>2, <4>1, <4>2, FormNumbers
        <3>2. CASE ~(late' = late \union {fetch} /\ fetch.op = "create" /\ fetch.answer = "none")
            <4>1. Unserved' = Unserved
                BY <1>1, <3>2 DEF Unserved
            <4> QED BY <1>4, <2>2, <4>1, FormNumbers
        <3> QED BY <3>1, <3>2
    <2>4. Len(stored) \in Nat /\ Awaited \in {0, 1} /\ Kept \in {0, 1} /\ faults \in Nat
        BY FormNumbers
    <2> QED BY <1>1, <1>4, <2>1, <2>2, <2>3, <2>4, SMTT(30) DEF CreationsArePaid
<1> QED BY <1>4, <1>5 DEF FormInv

\* The page goes on with an answer: from the draft it has saved to publishing it,
\* and from there, or from what it has created, to the end.
LEMMA AnsweredKeepsInv ==
    ASSUME FormInv, Forms!Answered
    PROVE  FormInv'
<1> USE FormBounds
<1>1. /\ Waits /\ fetch.answer # "none" /\ fetch \in Fetches /\ page # "home"
      /\ UNCHANGED <<kind, form, late, stored, overtaken, faults, edits, posted>>
    BY DEF Forms!Answered, Forms!Busy, Forms!server, Waits, FormInv, FormTyped, DoneIsDone
<1>2. /\ Unserved' = Unserved /\ Awaited = 0
      /\ Len(stored) + Cardinality(Unserved) + Awaited <= faults + Kept
      /\ late \subseteq Fetches /\ IsFiniteSet(late) /\ faults \in 0..MaxFaults
      /\ draftMovieId \in 0..Len(stored)
    BY <1>1 DEF FormInv, CreationsArePaid, Unserved, Awaited, FormTyped, Forms!TypeOK
<1>3. /\ Len(stored) \in Nat /\ DOMAIN stored = 1..Len(stored) /\ faults \in Nat
      /\ Cardinality(Unserved) \in Nat /\ Kept \in {0, 1}
    BY FormNumbers
<1>4. CASE fetch.answer # "ok"
    <2>1. Forms!Failure(fetch.answer)
        BY <1>4 DEF Forms!Answered
    <2>2. /\ FormTyped' /\ OneDraft' /\ DoneIsDone' /\ SavesWhatWasSent' /\ HomeIsTrue'
          /\ EmailsDiffer' /\ Awaited' = 0 /\ Kept' = IF draftMovieId # 0 THEN 1 ELSE 0
        BY <1>1, <1>2, <2>1, FailureKeeps
    <2>3. Kept' = Kept
        BY <1>1, <1>4, <2>2 DEF Kept
    <2>4. CreationsArePaid'
        BY <1>1, <1>2, <2>2, <2>3 DEF CreationsArePaid
    <2> QED BY <2>2, <2>4 DEF FormInv
<1>5. CASE fetch.answer = "ok" /\ kind = "movie" /\ fetch.op \in {"create", "patch"}
    <2>1. /\ draftMovieId' = fetch.id /\ page' = page
          /\ fetch' = [op |-> "publish", id |-> fetch.id, content |-> form, answer |-> "none"]
        BY <1>5 DEF Forms!Answered, Forms!Success, Forms!Fetch
    <2>2. fetch.id \in DOMAIN stored /\ fetch.id # 0 /\ fetch.id \in Nat
        <3>1. CASE fetch.op = "create"
            BY <1>1, <1>3, <1>5, <3>1 DEF FormInv, SavesWhatWasSent
        <3>2. CASE fetch.op = "patch"
            BY <1>1, <1>3, <3>2 DEF FormInv, FormTyped, Forms!TypeOK, Forms!Busy, Waits
        <3> QED BY <1>5, <3>1, <3>2
    <2>3. /\ fetch' \in Fetches /\ Waits' /\ fetch'.op = "publish" /\ fetch'.id = fetch.id
          /\ fetch'.answer = "none"
        <3>1. form \in Content
            BY DEF FormInv, FormTyped, Forms!TypeOK
        <3> QED BY <2>1, <2>2, <3>1 DEF Fetches, FetchOp, FetchAnswer, Waits, Forms!Idle
    <2>4. draftMovieId = 0 \/ draftMovieId = fetch.id
        BY <1>1, <1>5 DEF FormInv, OneDraft, Waits
    <2>5. FormTyped'
        <3>1. Forms!TypeOK'
            BY <1>1, <1>2, <1>3, <2>1, <2>2, <2>3 DEF FormInv, FormTyped, Forms!TypeOK, Forms!Ops
        <3> QED BY <1>1, <2>3, <3>1 DEF FormInv, FormTyped
    <2>6. OneDraft'
        <3>1. \A c \in late : c # Forms!Idle /\ c.op \in {"patch", "publish"} => c.id = fetch.id
            BY <2>4 DEF FormInv, OneDraft
        <3>2. \A i \in DOMAIN stored : stored[i].published => i = fetch.id
            BY <1>3, <2>4 DEF FormInv, OneDraft
        <3> QED BY <1>1, <1>5, <2>1, <2>2, <2>3, <3>1, <3>2 DEF OneDraft, Forms!Idle
    <2>7. DoneIsDone' /\ HomeIsTrue'
        BY <1>1, <2>1 DEF DoneIsDone, HomeIsTrue
    <2>8. SavesWhatWasSent'
        <3>1. Holds(fetch.id)
            BY <1>1, <1>5 DEF FormInv, SavesWhatWasSent
        <3> QED BY <1>1, <2>3, <3>1 DEF SavesWhatWasSent, Holds
    <2>9. CreationsArePaid'
        <3>1. Awaited' = 0 /\ Kept' = 1
            BY <2>1, <2>2, <2>3 DEF Awaited, Kept
        <3> QED BY <1>1, <1>2, <1>3, <3>1 DEF CreationsArePaid
    <2>10. EmailsDiffer'
        BY <1>1 DEF FormInv, EmailsDiffer, Email
    <2> QED BY <2>5, <2>6, <2>7, <2>8, <2>9, <2>10 DEF FormInv
<1>6. CASE fetch.answer = "ok" /\ ~(kind = "movie" /\ fetch.op \in {"create", "patch"})
    <2>1. /\ fetch' = Forms!Idle /\ draftMovieId' = draftMovieId /\ ~Waits'
          /\ page' = IF fetch.op = "me" THEN "ready" ELSE "home"
        BY <1>6 DEF Forms!Answered, Forms!Success, Waits
    <2>2. FormTyped'
        <3>1. Forms!TypeOK'
            BY <1>1, <1>2, <2>1
               DEF FormInv, FormTyped, Forms!TypeOK, Forms!Busy, Forms!Pages, Waits
        <3> QED BY <1>1, <2>1, <3>1 DEF FormInv, FormTyped, Forms!Idle
    <2>3. OneDraft'
        <3>1. \A c \in late : c # Forms!Idle /\ c.op \in {"patch", "publish"}
                                 => c.id = draftMovieId /\ draftMovieId # 0
            BY DEF FormInv, OneDraft
        <3> QED BY <1>1, <2>1, <3>1 DEF FormInv, OneDraft, Forms!Idle
    <2>4. DoneIsDone' /\ SavesWhatWasSent'
        BY <2>1 DEF DoneIsDone, SavesWhatWasSent
    <2>5. HomeIsTrue'
        <3> SUFFICES ASSUME fetch.op # "me"
                     PROVE  IF kind # "movie" THEN \E i \in DOMAIN stored : stored[i].content = posted
                            ELSE /\ draftMovieId # 0 /\ stored[draftMovieId].published
                                 /\ Holds(draftMovieId)
            BY <1>1, <2>1 DEF HomeIsTrue, Holds
        <3>1. CASE kind # "movie"
            <4>1. fetch.op = "create"
                BY <1>1, <3>1 DEF FormInv, OneDraft, Fetches, FetchOp, Waits
            <4>2. fetch.id \in DOMAIN stored /\ stored[fetch.id].content = posted
                BY <1>1, <1>6, <3>1, <4>1 DEF FormInv, SavesWhatWasSent, Holds
            <4> QED BY <3>1, <4>2
        <3>2. CASE kind = "movie"
            <4>1. fetch.op = "publish"
                BY <1>1, <1>6, <3>2 DEF Fetches, FetchOp
            <4>2. fetch.id = draftMovieId /\ draftMovieId # 0
                BY <1>1, <4>1 DEF FormInv, OneDraft, Waits
            <4>3. stored[fetch.id].published /\ Holds(fetch.id)
                BY <1>1, <1>6, <4>1 DEF FormInv, SavesWhatWasSent
            <4> QED BY <3>2, <4>2, <4>3
        <3> QED BY <3>1, <3>2
    <2>6. CreationsArePaid'
        <3>1. Awaited' = 0 /\ Kept' \in {0, 1}
            BY <2>1 DEF Awaited, Kept
        <3>2. Kept <= Kept'
            <4>1. CASE fetch.op = "me"
                BY <1>1, <2>1, <4>1 DEF Kept
            <4>2. CASE fetch.op # "me"
                BY <1>3, <2>1, <4>2 DEF Kept
            <4> QED BY <4>1, <4>2
        <3> QED BY <1>1, <1>2, <1>3, <3>1, <3>2 DEF CreationsArePaid
    <2>7. EmailsDiffer'
        BY <1>1 DEF FormInv, EmailsDiffer, Email
    <2> QED BY <2>2, <2>3, <2>4, <2>5, <2>6, <2>7 DEF FormInv
<1> QED BY <1>4, <1>5, <1>6

LEMMA FormStep == FormInv /\ [Forms!Next]_(Forms!vars) => FormInv'
<1> SUFFICES ASSUME FormInv, [Forms!Next]_(Forms!vars) PROVE FormInv'
    OBVIOUS
<1>1. CASE Forms!Next
    BY <1>1, UserKeepsInv, SubmitKeepsInv, ServeKeepsInv, ServeLateKeepsInv, LoseKeepsInv,
       AnsweredKeepsInv DEF Forms!Next
<1>2. CASE UNCHANGED Forms!vars
    <2>1. UNCHANGED <<kind, page, form, draftMovieId, fetch, late, stored, overtaken, faults, edits,
                      posted>>
        BY <1>2 DEF Forms!vars, Forms!server
    <2>2. FormTyped'
        BY <2>1 DEF FormInv, FormTyped, Forms!TypeOK, Forms!Busy, Forms!Idle
    <2>3. OneDraft' /\ DoneIsDone' /\ SavesWhatWasSent' /\ HomeIsTrue'
        BY <2>1 DEF FormInv, OneDraft, DoneIsDone, SavesWhatWasSent, HomeIsTrue, Waits, Holds,
                    Forms!Idle
    <2>4. CreationsArePaid' /\ EmailsDiffer'
        BY <2>1 DEF FormInv, CreationsArePaid, Unserved, Awaited, Kept, Waits, Forms!Idle,
                    EmailsDiffer, Email
    <2> QED BY <2>2, <2>3, <2>4 DEF FormInv
<1> QED BY <1>1, <1>2

\* WebForms counts with a Cardinality of its own instance.
LEMMA FormsCount == ASSUME NEW S PROVE Forms!Cardinality(S) = Cardinality(S)
BY DEF Forms!Cardinality, Cardinality

\* What a form knows of its draft and its calls, for any contents and any number
\* of lost calls and edits.
THEOREM FormInvariant == Forms!Spec => []FormInv
BY FormInitially, FormStep, PTL DEF Forms!Spec

\* However often a form is sent again it publishes one movie, what it leaves over
\* has cost a fault each, no two accounts have one email, and a page that says it
\* is done tells the truth (onSubmit of the three forms).
THEOREM FormsEndWellAlways == Forms!Spec => []FormsEndWell
<1>1. FormInv => FormsEndWell
    <2> SUFFICES ASSUME FormInv PROVE FormsEndWell
        OBVIOUS
    <2>1. Forms!TypeOK
        BY DEF FormInv, FormTyped
    <2>2. Forms!Published \subseteq {draftMovieId}
        BY DEF FormInv, OneDraft, Forms!Published
    <2>3. Cardinality(Forms!Published) <= 1
        <3>1. IsFiniteSet({draftMovieId}) /\ Cardinality({draftMovieId}) = 1
            BY FS_Singleton
        <3>2. /\ Cardinality(Forms!Published) <= Cardinality({draftMovieId})
            BY <2>2, <3>1, FS_Subset
        <3> QED BY <3>1, <3>2
    <2>4. Len(stored) <= 1 + faults
        BY FormNumbers DEF FormInv, CreationsArePaid
    <2>5. page = "home" => IF kind # "movie" THEN \E i \in DOMAIN stored : stored[i].content = posted
                           ELSE \E i \in Forms!Published : overtaken \/ stored[i].content = posted
        <3> SUFFICES ASSUME page = "home", kind = "movie"
                     PROVE  \E i \in Forms!Published : overtaken \/ stored[i].content = posted
            BY DEF FormInv, HomeIsTrue
        <3>1. /\ draftMovieId # 0 /\ stored[draftMovieId].published
              /\ overtaken \/ stored[draftMovieId].content = posted
            BY DEF FormInv, HomeIsTrue, Holds
        <3>2. draftMovieId \in DOMAIN stored
            BY <2>1, <3>1, FormNumbers DEF Forms!TypeOK
        <3> QED BY <3>1, <3>2 DEF Forms!Published
    <2>6. EmailsDiffer
        BY DEF FormInv
    <2>7. Forms!FormsEndWell
        BY <2>3, <2>4, <2>5, <2>6, FormsCount DEF Forms!FormsEndWell, EmailsDiffer, Email
    <2> QED BY <2>1, <2>7 DEF FormsEndWell
<1> QED BY <1>1, FormInvariant, PTL

-----------------------------------------------------------------------------
(***************************************************************************)
(* The events.  Both flushes wait for a ping that follows a command in the *)
(* same connection, and the server takes a connection's commands in order  *)
(* (PingsFollow): so a handler counts as subscribed only when the server   *)
(* knows it, and a message as published only when it has reached all who   *)
(* were (AudienceIsKnown).                                                 *)
(***************************************************************************)

Commands ==
    [kind : {"sub", "unsub", "ping", "pub"}, what : Nat \union Handler \union Message]

EventTyped ==
    /\ Events!TypeOK
    /\ wire \in [Replica -> Seq(Commands)]
    /\ current \in [Replica -> 0..MaxSubs] /\ last \in [Replica -> 0..MaxSubs]
    /\ inbox \in [Events!Sub -> Seq(Message)]
    /\ loop \in [Events!Sub -> [message : Message \union {0}, visited : SUBSET Handler]]
    /\ call \in [Handler -> {"idle", "flushing", "flushed", "subscribed"}]
    /\ joined \in [Handler -> 0..MaxSubs]
    /\ heard \in [Handler -> SUBSET Message]
    /\ audience \in [Message -> SUBSET Handler]

\* A handler belongs to the subscription of its replica, is one of its handlers
\* while it is subscribed, and returns from subscribe when the server knows it.
HandlersFit ==
    \A h \in Handler :
        /\ call[h] # "idle" => current[HomeOf[h]] = joined[h] /\ joined[h] # 0
        /\ call[h] = "subscribed" => <<Events!SubOf(h), h>> \in handlers
        /\ call[h] \in {"flushed", "subscribed"} => Events!SubOf(h) \in known
        /\ \A s \in Events!Sub : <<s, h>> \in handlers => call[h] = "subscribed" /\ s = Events!SubOf(h)

\* What the server takes makes sense: it does not end the subscription that the
\* replica uses.
CommandFits(p, i) ==
    LET c == wire[p][i]
    IN /\ c.kind = "sub" => c.what \in 1..MaxSubs
       /\ c.kind = "unsub" => c.what \in 1..last[p] /\ c.what # current[p]
       /\ c.kind = "pub" => c.what \in Message

\* all who were subscribed when m was published have heard it or will
Arrived(m) == \A h \in audience[m] : m \in heard[h] \/ Events!OnItsWay(m, h)

\* Before the ping of a handler the server takes its subscription, before that
\* of a message the message itself.
PingFollows(p, i) ==
    /\ \A h \in Handler : wire[p][i] = Events!Command("ping", h) =>
          /\ call[h] = "flushing" /\ HomeOf[h] = p
          /\ \/ Events!SubOf(h) \in known
             \/ \E k \in 1..(i - 1) : wire[p][k] = Events!Command("sub", joined[h])
    /\ \A m \in Message : wire[p][i] = Events!Command("ping", m) =>
          /\ sent[m] # "new"
          /\ Arrived(m) \/ \E k \in 1..(i - 1) : wire[p][k] = Events!Command("pub", m)

CommandsFit == \A p \in Replica : \A i \in DOMAIN wire[p] : CommandFits(p, i)
PingsFollow == \A p \in Replica : \A i \in DOMAIN wire[p] : PingFollows(p, i)

\* a handler waits for one ping
OnePing ==
    \A h \in Handler, p \in Replica : \A i, j \in DOMAIN wire[p] :
        wire[p][i] = Events!Command("ping", h) /\ wire[p][j] = Events!Command("ping", h) => i = j

AudienceIsKnown ==
    \A m \in Message :
        /\ \A h \in audience[m] : call[h] = "subscribed"
        /\ sent[m] = "published" => Arrived(m)

EventInv ==
    /\ EventTyped
    /\ HandlersFit
    /\ CommandsFit
    /\ PingsFollow
    /\ OnePing
    /\ AudienceIsKnown

LEMMA EventNames ==
    /\ MaxSubs \in Nat \ {0} /\ Handler \intersect Message = {} /\ 0 \notin Message
    /\ \A h \in Handler : HomeOf[h] \in Replica
    /\ \A m \in Message : HomeOf[m] \in Replica
    /\ \A g, h \in Handler : HomeOf[g] = HomeOf[h] => g = h
BY EventAssumption DEF Events!HomeAssumption, Events!ApartAssumption, Events!NameAssumption,
                       Events!BoundAssumption

LEMMA EventInitially == Events!Init => EventInv
<1> SUFFICES ASSUME Events!Init PROVE EventInv
    OBVIOUS
<1>1. \A S : <<>> \in Seq(S) /\ DOMAIN <<>> = {}
    BY EmptySeq
<1>2. EventTyped
    <2>1. 0 \in 0..MaxSubs
        BY EventNames
    <2>2. Events!TypeOK
        BY <2>1 DEF Events!Init, Events!TypeOK, Events!Sub, Events!None, Events!Idle
    <2> QED BY <1>1, <2>1, <2>2 DEF Events!Init, EventTyped, Events!None, Events!Idle
<1>3. HandlersFit /\ CommandsFit /\ PingsFollow /\ OnePing
    BY <1>1 DEF Events!Init, HandlersFit, CommandsFit, PingsFollow, OnePing
<1>4. AudienceIsKnown
    BY DEF Events!Init, AudienceIsKnown
<1> QED BY <1>2, <1>3, <1>4 DEF EventInv

-----------------------------------------------------------------------------
\* m is on its way to h in the subscription s
Way(m, h, s) ==
    /\ <<s, h>> \in handlers
    /\ \/ \E i \in DOMAIN inbox[s] : inbox[s][i] = m
       \/ loop[s].message = m /\ h \notin loop[s].visited

LEMMA WayDefined ==
    ASSUME NEW m, NEW h \in Handler
    PROVE  /\ Events!OnItsWay(m, h) <=> \E s \in Events!Sub : Way(m, h, s)
           /\ Events!OnItsWay(m, h)' <=> \E s \in Events!Sub : Way(m, h, s)'
BY DEF Events!OnItsWay, Events!HandlersOf, Way

\* A message that has arrived does so while the steps of others leave it on its
\* way.
LEMMA ArrivedStays ==
    ASSUME EventTyped, NEW m \in Message, Arrived(m), audience'[m] \subseteq audience[m],
           \A h \in Handler : heard[h] \subseteq heard'[h],
           \A h \in audience'[m], s \in Events!Sub : Way(m, h, s) => Way(m, h, s)' \/ m \in heard'[h]
    PROVE  Arrived(m)'
<1> SUFFICES ASSUME NEW h \in audience'[m], m \notin heard'[h] PROVE Events!OnItsWay(m, h)'
    BY DEF Arrived
<1>1. h \in Handler /\ h \in audience[m]
    BY DEF EventTyped
<1>2. Events!OnItsWay(m, h)
    BY <1>1 DEF Arrived
<1>3. PICK s \in Events!Sub : Way(m, h, s)
    BY <1>1, <1>2, WayDefined
<1> QED BY <1>1, <1>3, WayDefined

\* A ping that stays where it is.
LEMMA OldPingsFollow ==
    ASSUME EventInv, NEW p \in Replica, NEW i \in DOMAIN wire[p],
           \A k \in 1..i : wire'[p][k] = wire[p][k],
           \A h \in Handler : call[h] = "flushing" => call'[h] = "flushing" /\ joined'[h] = joined[h],
           known \subseteq known',
           \A m \in Message : sent[m] # "new" => sent'[m] # "new" /\ (Arrived(m) => Arrived(m)')
    PROVE  PingFollows(p, i)'
<1>1. wire[p] \in Seq(Commands)
    BY DEF EventInv, EventTyped
<1>2. i \in Nat \ {0}
    BY <1>1, LenProperties
<1>3. wire'[p][i] = wire[p][i] /\ \A k \in 1..(i - 1) : wire'[p][k] = wire[p][k]
    BY <1>2
<1>4. PingFollows(p, i)
    BY DEF EventInv, PingsFollow
<1>5. ASSUME NEW h \in Handler, wire'[p][i] = Events!Command("ping", h)
      PROVE  /\ call'[h] = "flushing" /\ HomeOf[h] = p
             /\ \/ Events!SubOf(h)' \in known'
                \/ \E k \in 1..(i - 1) : wire'[p][k] = Events!Command("sub", joined'[h])
    BY <1>3, <1>4, <1>5 DEF PingFollows, Events!SubOf
<1>6. ASSUME NEW m \in Message, wire'[p][i] = Events!Command("ping", m)
      PROVE  /\ sent'[m] # "new"
             /\ Arrived(m)' \/ \E k \in 1..(i - 1) : wire'[p][k] = Events!Command("pub", m)
    BY <1>3, <1>4, <1>6 DEF PingFollows
<1> QED BY <1>5, <1>6 DEF PingFollows, Events!Command

\* A connection that sends more keeps what it has sent.
LEMMA WireGrows ==
    ASSUME EventTyped, NEW p \in Replica, NEW w \in Seq(Commands), wire' = [wire EXCEPT ![p] = w],
           Len(wire[p]) <= Len(w), \A i \in 1..Len(wire[p]) : w[i] = wire[p][i]
    PROVE  /\ wire' \in [Replica -> Seq(Commands)] /\ wire'[p] = w
           /\ Len(wire[p]) \in Nat /\ Len(w) \in Nat /\ DOMAIN w = 1..Len(w)
           /\ \A q \in Replica : \A i \in DOMAIN wire[q] :
                 /\ i \in DOMAIN wire'[q]
                 /\ \A k \in 1..i : k \in DOMAIN wire[q] /\ wire'[q][k] = wire[q][k]
           /\ \A q \in Replica : \A i \in DOMAIN wire'[q] :
                 \/ i \in DOMAIN wire[q]
                 \/ q = p /\ i \in (Len(wire[p]) + 1)..Len(w)
<1>1. wire \in [Replica -> Seq(Commands)]
    BY DEF EventTyped
<1>2. wire' \in [Replica -> Seq(Commands)] /\ wire'[p] = w
      /\ \A q \in Replica \ {p} : wire'[q] = wire[q]
    BY <1>1
<1>3. \A q \in Replica : /\ Len(wire[q]) \in Nat /\ DOMAIN wire[q] = 1..Len(wire[q])
                         /\ Len(wire'[q]) \in Nat /\ DOMAIN wire'[q] = 1..Len(wire'[q])
    BY <1>1, <1>2, LenProperties
<1>4. ASSUME NEW q \in Replica, NEW i \in DOMAIN wire[q]
      PROVE  /\ i \in DOMAIN wire'[q]
             /\ \A k \in 1..i : k \in DOMAIN wire[q] /\ wire'[q][k] = wire[q][k]
    BY <1>2, <1>3, <1>4
<1>5. ASSUME NEW q \in Replica, NEW i \in DOMAIN wire'[q]
      PROVE  i \in DOMAIN wire[q] \/ (q = p /\ i \in (Len(wire[p]) + 1)..Len(w))
    BY <1>2, <1>3, <1>5
<1> QED BY <1>2, <1>3, <1>4, <1>5

LEMMA TwoMore ==
    ASSUME NEW s \in Seq(Commands), NEW a \in Commands, NEW b \in Commands
    PROVE  LET w == s \o <<a, b>>
           IN  /\ w \in Seq(Commands) /\ Len(s) \in Nat /\ Len(w) = Len(s) + 2
               /\ \A i \in 1..Len(s) : w[i] = s[i]
               /\ w[Len(s) + 1] = a /\ w[Len(s) + 2] = b
BY LenProperties

\* Messages that have arrived stay so when a step takes nobody's message.
LEMMA AllArrivedStay ==
    ASSUME EventInv, NEW M \in SUBSET Message,
           \A m \in M : audience'[m] \subseteq audience[m],
           \A m \in M : \A h \in audience'[m] : \A s \in Events!Sub : <<s, h>> \in handlers => <<s, h>> \in handlers',
           UNCHANGED <<inbox, loop, heard>>
    PROVE  \A m \in M : Arrived(m) => Arrived(m)'
<1> SUFFICES ASSUME NEW m \in M, Arrived(m) PROVE Arrived(m)'
    OBVIOUS
<1>1. EventTyped /\ m \in Message
    BY DEF EventInv
<1>2. \A h \in audience'[m], s \in Events!Sub : Way(m, h, s) => Way(m, h, s)'
    BY DEF Way
<1> QED BY <1>1, <1>2, ArrivedStays

\* A replica with one handler has no other to add to its subscription.
LEMMA OnlyHandler ==
    ASSUME EventInv, NEW h \in Handler
    PROVE  current[HomeOf[h]] # 0 => call[h] # "idle"
<1> SUFFICES ASSUME current[HomeOf[h]] # 0, call[h] = "idle" PROVE FALSE
    OBVIOUS
<1>1. HomeOf[h] \in Replica
    BY EventNames
<1>2. PICK g \in Handler : \/ <<Events!Current(HomeOf[h]), g>> \in handlers
                           \/ /\ call[g] \in {"flushing", "flushed"}
                              /\ Events!SubOf(g) = Events!Current(HomeOf[h])
    BY <1>1 DEF EventInv, EventTyped, Events!TypeOK, Events!None
<1>3. Events!SubOf(g) = Events!Current(HomeOf[h]) /\ call[g] # "idle"
    BY <1>2 DEF EventInv, EventTyped, Events!TypeOK, HandlersFit
<1>4. HomeOf[g] = HomeOf[h]
    BY <1>3 DEF Events!SubOf, Events!Current
<1> QED BY <1>3, <1>4, EventNames

LEMMA SubscribeNextStep ==
    ASSUME EventInv, NEW h \in Handler
    PROVE  ~Events!SubscribeNext(h)
BY OnlyHandler DEF Events!SubscribeNext, Events!None

LEMMA SubscribeFirstStep ==
    ASSUME EventInv, NEW h \in Handler, Events!SubscribeFirst(h)
    PROVE  EventInv'
<1> DEFINE p == HomeOf[h]
           n == last[p] + 1
           a == Events!Command("sub", n)
           b == Events!Command("ping", h)
           w == wire[p] \o <<a, b>>
<1> USE DEF Events!None
<1>1. p \in Replica /\ n \in 1..MaxSubs /\ MaxSubs \in Nat /\ last[p] \in Nat /\ n \in Nat \ {0}
    BY EventNames, SMTT(30) DEF EventInv, EventTyped, Events!SubscribeFirst
<1>2. /\ EventTyped /\ wire[p] \in Seq(Commands) /\ a \in Commands /\ b \in Commands
    BY <1>1 DEF EventInv, EventTyped, Commands, Events!Command
<1>3. /\ call[h] = "idle" /\ current[p] = 0
      /\ current' = [current EXCEPT ![p] = n] /\ last' = [last EXCEPT ![p] = n]
      /\ wire' = [wire EXCEPT ![p] = w]
      /\ joined' = [joined EXCEPT ![h] = n]
      /\ call' = [call EXCEPT ![h] = "flushing"]
      /\ handlers' = handlers
      /\ UNCHANGED <<known, inbox, loop, heard, sent, audience>>
    BY DEF Events!SubscribeFirst, Events!AfterSubscribe
<1>4. /\ w \in Seq(Commands) /\ Len(w) = Len(wire[p]) + 2 /\ Len(wire[p]) \in Nat
      /\ \A i \in 1..Len(wire[p]) : w[i] = wire[p][i]
      /\ w[Len(wire[p]) + 1] = a /\ w[Len(wire[p]) + 2] = b
    BY <1>2, TwoMore
<1>5. Len(wire[p]) <= Len(w)
    BY <1>4
<1> HIDE DEF w
<1>6. /\ wire' \in [Replica -> Seq(Commands)] /\ wire'[p] = w
      /\ Len(wire[p]) \in Nat /\ Len(w) \in Nat /\ DOMAIN w = 1..Len(w)
      /\ \A q \in Replica : \A i \in DOMAIN wire[q] :
            /\ i \in DOMAIN wire'[q]
            /\ \A k \in 1..i : k \in DOMAIN wire[q] /\ wire'[q][k] = wire[q][k]
      /\ \A q \in Replica : \A i \in DOMAIN wire'[q] :
            \/ i \in DOMAIN wire[q]
            \/ q = p /\ i \in (Len(wire[p]) + 1)..Len(w)
    BY <1>1, <1>2, <1>3, <1>4, <1>5, WireGrows
<1>7. ASSUME NEW i \in (Len(wire[p]) + 1)..Len(w)
       PROVE  i = Len(wire[p]) + 1 \/ i = Len(wire[p]) + 2
    <2> DEFINE l == Len(wire[p])
    <2>1. l \in Nat /\ Len(w) = l + 2
        BY <1>4
    <2> HIDE DEF l
    <2>2. i \in (l + 1)..Len(w)
        BY <1>7 DEF l
    <2>3. i = l + 1 \/ i = l + 2
        BY <2>1, <2>2
    <2> QED BY <2>3 DEF l
<1>8. wire'[p][Len(wire[p]) + 1] = a /\ wire'[p][Len(wire[p]) + 2] = b
    BY <1>4, <1>6
<1>9. \A g \in Handler \ {h} :
          /\ HomeOf[g] # p /\ HomeOf[g] \in Replica
          /\ call'[g] = call[g] /\ joined'[g] = joined[g] /\ Events!SubOf(g)' = Events!SubOf(g)
          /\ current'[HomeOf[g]] = current[HomeOf[g]]
    BY <1>1, <1>3, EventNames DEF EventInv, EventTyped, Events!SubOf
<1>10. /\ call'[h] = "flushing" /\ joined'[h] = n /\ current'[p] = n /\ last'[p] = n
      /\ Events!SubOf(h)' = <<p, n>>
      /\ \A q \in Replica \ {p} : current'[q] = current[q] /\ last'[q] = last[q]
    BY <1>1, <1>3 DEF EventInv, EventTyped, Events!SubOf
<1>11. EventTyped'
    <2>1. \A q \in Replica : last'[q] \in 0..MaxSubs /\ current'[q] \in {0, last'[q]}
        <3>1. last'[p] \in 0..MaxSubs /\ current'[p] = last'[p]
            BY <1>1, <1>10
        <3>2. \A q \in Replica \ {p} : last[q] \in 0..MaxSubs /\ current[q] \in {0, last[q]}
            BY DEF EventInv, EventTyped, Events!TypeOK
        <3> QED BY <1>10, <3>1, <3>2
    <2>2. ASSUME NEW q \in Replica, current'[q] # 0
          PROVE  \E g \in Handler :
                    \/ <<Events!Current(q)', g>> \in handlers'
                    \/ call'[g] \in {"flushing", "flushed"} /\ Events!SubOf(g)' = Events!Current(q)'
        <3>1. CASE q = p
            BY <1>10, <3>1 DEF Events!Current
        <3>2. CASE q # p
            <4>1. current'[q] = current[q] /\ Events!Current(q)' = Events!Current(q)
                BY <1>10, <3>2 DEF Events!Current
            <4>2. PICK g \in Handler :
                    \/ <<Events!Current(q), g>> \in handlers
                    \/ call[g] \in {"flushing", "flushed"} /\ Events!SubOf(g) = Events!Current(q)
                BY <2>2, <4>1 DEF EventInv, EventTyped, Events!TypeOK
            <4> QED BY <1>3, <1>9, <4>1, <4>2
        <3> QED BY <3>1, <3>2
    <2>3. Events!TypeOK'
        BY <1>2, <1>3, <2>1, <2>2 DEF EventTyped, Events!TypeOK, Events!Sub
    <2> QED BY <1>1, <1>2, <1>3, <1>6, <2>3 DEF EventTyped, Events!Sub
<1>12. HandlersFit'
    <2>1. \A s \in Events!Sub : <<s, h>> \notin handlers
        BY <1>3 DEF EventInv, HandlersFit
    <2> QED BY <1>3, <1>9, <1>10, <1>1, <2>1 DEF EventInv, HandlersFit, Events!Sub
<1>13. CommandsFit'
    <2> SUFFICES ASSUME NEW q \in Replica, NEW i \in DOMAIN wire'[q] PROVE CommandFits(q, i)'
        BY DEF CommandsFit
    <2>1. CASE i \in DOMAIN wire[q]
        <3>1. CommandFits(q, i)
            BY <2>1 DEF EventInv, CommandsFit
        <3>2. i \in Nat \ {0} /\ wire'[q][i] = wire[q][i]
            <4>1. wire[q] \in Seq(Commands)
                BY <1>2 DEF EventTyped
            <4>2. i \in Nat \ {0}
                BY <2>1, <4>1, LenProperties
            <4>3. i \in 1..i
                BY <4>2
            <4> QED BY <1>6, <2>1, <4>2, <4>3
        <3>3. current[q] \in Nat /\ last[q] \in Nat
            BY <1>2 DEF EventTyped
        <3> QED BY <1>1, <1>10, <3>1, <3>2, <3>3 DEF CommandFits
    <2>2. CASE q = p /\ i \in (Len(wire[p]) + 1)..Len(w)
        <3>1. CASE wire'[q][i] = a
            BY <1>1, <3>1 DEF CommandFits, Events!Command
        <3>2. CASE wire'[q][i] = b
            BY <3>2 DEF CommandFits, Events!Command
        <3> QED BY <1>7, <1>8, <2>2, <3>1, <3>2
    <2> QED BY <1>6, <2>1, <2>2
<1>14. \A m \in Message : Arrived(m) => Arrived(m)'
    BY <1>3, AllArrivedStay
<1>15. PingsFollow'
    <2> SUFFICES ASSUME NEW q \in Replica, NEW i \in DOMAIN wire'[q] PROVE PingFollows(q, i)'
        BY DEF PingsFollow
    <2>1. CASE i \in DOMAIN wire[q]
        <3>1. \A k \in 1..i : wire'[q][k] = wire[q][k]
            BY <1>6, <2>1
        <3>2. \A g \in Handler : call[g] = "flushing" => call'[g] = "flushing" /\ joined'[g] = joined[g]
            BY <1>3, <1>9
        <3> QED BY <1>3, <1>14, <2>1, <3>1, <3>2, OldPingsFollow
    <2>2. CASE q = p /\ i = Len(wire[p]) + 1
        BY <1>4, <1>6, <2>2 DEF PingFollows, Events!Command
    <2>3. CASE q = p /\ i = Len(wire[p]) + 2
        <3>1. wire'[q][i] = b /\ wire'[q][i - 1] = a /\ i - 1 \in 1..(i - 1)
            BY <1>4, <1>6, <2>3
        <3>2. \A g \in Handler : b = Events!Command("ping", g) => g = h
            BY DEF Events!Command
        <3>3. \A m \in Message : b # Events!Command("ping", m)
            BY EventNames DEF Events!Command
        <3> QED BY <1>10, <2>3, <3>1, <3>2, <3>3 DEF PingFollows, Events!Command
    <2> QED BY <1>6, <1>7, <2>1, <2>2, <2>3
<1>16. OnePing'
    <2> SUFFICES ASSUME NEW g \in Handler, NEW q \in Replica, NEW i \in DOMAIN wire'[q],
                        NEW j \in DOMAIN wire'[q], wire'[q][i] = Events!Command("ping", g),
                        wire'[q][j] = Events!Command("ping", g)
                 PROVE  i = j
        BY DEF OnePing, Events!Command
    <2>1. wire[q] \in Seq(Commands)
        BY <1>2 DEF EventTyped
    <2>2. \A k \in DOMAIN wire[q] : k \in Nat \ {0} /\ wire'[q][k] = wire[q][k]
        <3>1. \A k \in DOMAIN wire[q] : k \in Nat \ {0}
            BY <2>1, LenProperties
        <3> QED BY <1>6, <3>1
    <2>3. \A k \in DOMAIN wire[q] : wire[q][k] # Events!Command("ping", h)
        BY <1>3 DEF EventInv, PingsFollow, PingFollows
    <2>4. CASE i \in DOMAIN wire[q] /\ j \in DOMAIN wire[q]
        BY <2>2, <2>4 DEF EventInv, OnePing
    <2>5. \A k \in DOMAIN wire'[q] : k \notin DOMAIN wire[q] /\ wire'[q][k] = Events!Command("ping", g)
              => q = p /\ k = Len(wire[p]) + 2 /\ g = h
        <3> SUFFICES ASSUME NEW k \in DOMAIN wire'[q], k \notin DOMAIN wire[q],
                            wire'[q][k] = Events!Command("ping", g)
                     PROVE  q = p /\ k = Len(wire[p]) + 2 /\ g = h
            OBVIOUS
        <3>1. q = p /\ (k = Len(wire[p]) + 1 \/ k = Len(wire[p]) + 2)
            BY <1>6, <1>7
        <3>2. k # Len(wire[p]) + 1
            BY <1>8, <3>1 DEF Events!Command
        <3> QED BY <1>8, <3>1, <3>2 DEF Events!Command
    <2> QED BY <2>2, <2>3, <2>4, <2>5
<1>17. AudienceIsKnown'
    BY <1>3, <1>9, <1>14 DEF EventInv, AudienceIsKnown, EventTyped
<1> QED BY <1>11, <1>12, <1>13, <1>15, <1>16, <1>17 DEF EventInv

\* Steps in which no connection sends or takes anything.
LEMMA QuietSteps ==
    ASSUME EventInv, UNCHANGED <<wire, known, current, last, joined, sent, audience>>,
           \A h \in Handler : call[h] = "flushing" => call'[h] = "flushing",
           \A m \in Message : Arrived(m) => Arrived(m)',
           \A h \in Handler : call[h] = "subscribed" => call'[h] = "subscribed"
    PROVE  CommandsFit' /\ PingsFollow' /\ OnePing' /\ AudienceIsKnown'
<1>1. CommandsFit'
    BY DEF EventInv, CommandsFit, CommandFits
<1>2. PingsFollow'
    <2> SUFFICES ASSUME NEW p \in Replica, NEW i \in DOMAIN wire[p] PROVE PingFollows(p, i)'
        BY DEF PingsFollow
    <2> QED BY OldPingsFollow
<1>3. OnePing'
    BY DEF EventInv, OnePing, Events!Command
<1>4. AudienceIsKnown'
    <2>1. \A m \in Message : audience[m] \subseteq Handler
        BY DEF EventInv, EventTyped
    <2> QED BY <2>1 DEF EventInv, AudienceIsKnown
<1> QED BY <1>1, <1>2, <1>3, <1>4

LEMMA FlushedStep ==
    ASSUME EventInv, NEW h \in Handler, Events!Flushed(h)
    PROVE  EventInv'
<1>1. /\ call[h] = "flushed"
      /\ handlers' = handlers \union {<<Events!SubOf(h), h>>}
      /\ call' = [call EXCEPT ![h] = "subscribed"]
      /\ UNCHANGED <<wire, known, inbox, current, last, loop, joined, heard, sent, audience>>
    BY DEF Events!Flushed, Events!server
<1>2. EventTyped /\ Events!SubOf(h) \in known /\ known \subseteq Events!Sub
    BY <1>1 DEF EventInv, EventTyped, Events!TypeOK, HandlersFit
<1>3. \A g \in Handler : Events!SubOf(g)' = Events!SubOf(g)
    BY <1>1 DEF Events!SubOf
<1>4. EventTyped'
    <2>1. ASSUME NEW q \in Replica, current'[q] # 0
          PROVE  \E g \in Handler :
                    \/ <<Events!Current(q)', g>> \in handlers'
                    \/ call'[g] \in {"flushing", "flushed"} /\ Events!SubOf(g)' = Events!Current(q)'
        <3>1. Events!Current(q)' = Events!Current(q) /\ current[q] # 0
            BY <1>1, <2>1 DEF Events!Current
        <3>2. PICK g \in Handler :
                \/ <<Events!Current(q), g>> \in handlers
                \/ call[g] \in {"flushing", "flushed"} /\ Events!SubOf(g) = Events!Current(q)
            BY <1>2, <3>1 DEF EventTyped, Events!TypeOK, Events!None
        <3>3. CASE g = h
            <4>1. Events!SubOf(h) = Events!Current(q)
                BY <1>1, <3>2, <3>3 DEF EventInv, EventTyped, Events!TypeOK, HandlersFit
            <4> QED BY <1>1, <3>1, <4>1
        <3>4. CASE g # h
            BY <1>1, <1>2, <1>3, <3>1, <3>2, <3>4 DEF EventTyped
        <3> QED BY <3>3, <3>4
    <2>2. Events!TypeOK'
        <3>1. handlers' \subseteq Events!Sub \X Handler /\ known' \subseteq Events!Sub
            BY <1>1, <1>2 DEF EventTyped, Events!TypeOK
        <3>2. \A g \in Handler : call'[g] \in {"idle", "flushing", "flushed", "subscribed"}
            BY <1>1, <1>2 DEF EventTyped
        <3> QED BY <1>1, <1>2, <2>1, <3>1, <3>2 DEF EventTyped, Events!TypeOK, Events!None, Events!Sub
    <2> QED BY <1>1, <1>2, <2>2 DEF EventTyped, Events!Sub
<1>5. HandlersFit'
    <2> SUFFICES ASSUME NEW g \in Handler
                 PROVE  /\ call'[g] # "idle" => current'[HomeOf[g]] = joined'[g] /\ joined'[g] # 0
                        /\ call'[g] = "subscribed" => <<Events!SubOf(g)', g>> \in handlers'
                        /\ call'[g] \in {"flushed", "subscribed"} => Events!SubOf(g)' \in known'
                        /\ \A s \in Events!Sub : <<s, g>> \in handlers'
                              => call'[g] = "subscribed" /\ s = Events!SubOf(g)'
        BY Zenon DEF HandlersFit, Events!Sub
    <2>1. CASE g = h
        BY <1>1, <1>2, <1>3, <2>1 DEF EventInv, EventTyped, HandlersFit
    <2>2. CASE g # h
        BY <1>1, <1>2, <1>3, <2>2 DEF EventInv, EventTyped, HandlersFit
    <2> QED BY <2>1, <2>2
<1>6. \A m \in Message : Arrived(m) => Arrived(m)'
    BY <1>1, AllArrivedStay
<1>7. \A g \in Handler : /\ call[g] = "flushing" => call'[g] = "flushing"
                         /\ call[g] = "subscribed" => call'[g] = "subscribed"
    BY <1>1, <1>2 DEF EventTyped
<1>8. CommandsFit' /\ PingsFollow' /\ OnePing' /\ AudienceIsKnown'
    BY <1>1, <1>6, <1>7, QuietSteps
<1> QED BY <1>4, <1>5, <1>8 DEF EventInv

\* A loop that goes on to the next message leaves it on its way to the handlers
\* it has not visited.
LEMMA NextMessageStep ==
    ASSUME EventInv, NEW s \in Events!Sub, Events!NextMessage(s)
    PROVE  EventInv'
<1>1. /\ inbox[s] # <<>> /\ loop[s].message = 0
      /\ inbox' = [inbox EXCEPT ![s] = Tail(@)]
      /\ loop' = [loop EXCEPT ![s] = [message |-> Head(inbox[s]), visited |-> {}]]
      /\ UNCHANGED <<wire, known, current, last, handlers, call, joined, heard, sent, audience>>
    BY DEF Events!NextMessage, Events!subscribers, Events!None
<1>2. EventTyped /\ inbox[s] \in Seq(Message)
    BY DEF EventInv, EventTyped
<1>3. /\ Head(inbox[s]) \in Message /\ Tail(inbox[s]) \in Seq(Message)
      /\ Len(inbox[s]) \in Nat \ {0} /\ DOMAIN inbox[s] = 1..Len(inbox[s])
      /\ DOMAIN Tail(inbox[s]) = 1..(Len(inbox[s]) - 1)
      /\ Head(inbox[s]) = inbox[s][1]
      /\ \A i \in 1..(Len(inbox[s]) - 1) : Tail(inbox[s])[i] = inbox[s][i + 1]
    BY <1>1, <1>2, LenProperties, HeadTailProperties
<1>4. EventTyped'
    <2>1. loop' \in [Events!Sub -> [message : Message \union {0}, visited : SUBSET Handler]]
        BY <1>1, <1>2, <1>3 DEF EventTyped
    <2>2. inbox' \in [Events!Sub -> Seq(Message)]
        BY <1>1, <1>2, <1>3 DEF EventTyped
    <2>3. Events!TypeOK'
        BY <1>1, <1>2, <2>1 DEF EventTyped, Events!TypeOK, Events!None, Events!Sub, Events!Current, Events!SubOf
    <2> QED BY <1>1, <1>2, <2>1, <2>2, <2>3 DEF EventTyped, Events!Sub
<1>5. HandlersFit'
    BY <1>1 DEF EventInv, HandlersFit, Events!SubOf, Events!Sub
<1>6. ASSUME NEW m \in Message, Arrived(m) PROVE Arrived(m)'
    <2>1. ASSUME NEW h \in Handler, NEW r \in Events!Sub, Way(m, h, r) PROVE Way(m, h, r)'
        <3>1. CASE r # s
            BY <1>1, <1>2, <2>1, <3>1 DEF Way, EventTyped
        <3>2. CASE r = s
            <4>1. loop[s].message # m
                BY <1>1, EventNames
            <4>2. PICK i \in DOMAIN inbox[s] : inbox[s][i] = m
                BY <2>1, <3>2, <4>1 DEF Way
            <4>3. <<s, h>> \in handlers'
                BY <1>1, <2>1, <3>2 DEF Way
            <4>4. /\ inbox'[s] = Tail(inbox[s])
                  /\ loop'[s] = [message |-> Head(inbox[s]), visited |-> {}]
                BY <1>1, <1>2 DEF EventTyped
            <4>5. CASE i = 1
                <5>1. loop'[s].message = m /\ h \notin loop'[s].visited
                    BY <1>3, <4>2, <4>4, <4>5
                <5> QED BY <3>2, <4>3, <5>1 DEF Way
            <4>6. CASE i # 1
                <5>1. i - 1 \in 1..(Len(inbox[s]) - 1) /\ (i - 1) + 1 = i
                    BY <1>3, <4>2, <4>6
                <5>2. i - 1 \in DOMAIN inbox'[s] /\ inbox'[s][i - 1] = m
                    BY <1>3, <4>2, <4>4, <5>1
                <5> QED BY <3>2, <4>3, <5>2 DEF Way
            <4> QED BY <4>5, <4>6
        <3> QED BY <3>1, <3>2
    <2>2. audience'[m] \subseteq audience[m] /\ audience[m] \subseteq Handler
        BY <1>1, <1>2 DEF EventTyped
    <2> QED BY <1>1, <1>2, <1>6, <2>1, <2>2, ArrivedStays
<1>7. CommandsFit' /\ PingsFollow' /\ OnePing' /\ AudienceIsKnown'
    BY <1>1, <1>6, QuietSteps
<1> QED BY <1>4, <1>5, <1>7 DEF EventInv

\* A loop calls a handler with its message, or has called all there are.
LEMMA HandleStep ==
    ASSUME EventInv, NEW s \in Events!Sub, Events!Handle(s)
    PROVE  EventInv'
<1>1. /\ loop[s].message # 0
      /\ UNCHANGED <<wire, known, inbox, current, last, handlers, call, joined, sent, audience>>
    BY DEF Events!Handle, Events!server, Events!None
<1>2. EventTyped
    BY DEF EventInv
<1>3. \/ /\ Events!ToVisit(s) = {} /\ heard' = heard
         /\ loop' = [loop EXCEPT ![s] = [message |-> 0, visited |-> {}]]
      \/ \E h \in Events!ToVisit(s) :
            /\ loop' = [loop EXCEPT ![s].visited = @ \union {h}]
            /\ heard' = [heard EXCEPT ![h] = @ \union {loop[s].message}]
    BY DEF Events!Handle, Events!Idle, Events!None
<1>4. Events!ToVisit(s) = {h \in Handler : <<s, h>> \in handlers /\ h \notin loop[s].visited}
    BY DEF Events!ToVisit, Events!HandlersOf
<1>5. loop[s] \in [message : Message \union {0}, visited : SUBSET Handler]
    BY <1>2 DEF EventTyped
<1>6. /\ loop' \in [Events!Sub -> [message : Message \union {0}, visited : SUBSET Handler]]
      /\ heard' \in [Handler -> SUBSET Message]
      /\ \A h \in Handler : heard[h] \subseteq heard'[h]
    <2>1. CASE Events!ToVisit(s) = {} /\ heard' = heard
               /\ loop' = [loop EXCEPT ![s] = [message |-> 0, visited |-> {}]]
        BY <1>2, <2>1 DEF EventTyped
    <2>2. ASSUME NEW h \in Events!ToVisit(s),
                 loop' = [loop EXCEPT ![s].visited = @ \union {h}],
                 heard' = [heard EXCEPT ![h] = @ \union {loop[s].message}]
          PROVE  /\ loop' \in [Events!Sub -> [message : Message \union {0}, visited : SUBSET Handler]]
                 /\ heard' \in [Handler -> SUBSET Message]
                 /\ \A g \in Handler : heard[g] \subseteq heard'[g]
        <3>1. h \in Handler /\ loop[s].message \in Message
            BY <1>1, <1>4, <1>5
        <3>2. [loop[s] EXCEPT !.visited = @ \union {h}] \in [message : Message \union {0}, visited : SUBSET Handler]
            BY <1>5, <3>1
        <3> QED BY <1>2, <2>2, <3>1, <3>2 DEF EventTyped
    <2> QED BY <1>3, <2>1, <2>2
<1>7. EventTyped'
    <2>1. \A r \in Events!Sub : loop'[r].message \in Message \union {Events!None}
        BY <1>6 DEF Events!None
    <2>2. Events!TypeOK'
        BY <1>1, <1>2, <2>1, Zenon
           DEF EventTyped, Events!TypeOK, Events!None, Events!Sub, Events!Current, Events!SubOf
    <2> QED BY <1>1, <1>2, <1>6, <2>2 DEF EventTyped, Events!Sub
<1>8. HandlersFit'
    BY <1>1 DEF EventInv, HandlersFit, Events!SubOf, Events!Sub
<1>9. ASSUME NEW m \in Message, Arrived(m) PROVE Arrived(m)'
    <2>1. ASSUME NEW h \in Handler, NEW r \in Events!Sub, Way(m, h, r)
          PROVE  Way(m, h, r)' \/ m \in heard'[h]
        <3>1. CASE r # s
            <4>1. loop'[r] = loop[r]
                BY <1>2, <1>3, <3>1 DEF EventTyped
            <4> QED BY <1>1, <2>1, <4>1 DEF Way
        <3>2. CASE r = s /\ \E i \in DOMAIN inbox[s] : inbox[s][i] = m
            BY <1>1, <2>1, <3>2 DEF Way
        <3>3. CASE r = s /\ loop[s].message = m /\ h \notin loop[s].visited
            <4>1. h \in Events!ToVisit(s)
                BY <1>4, <2>1, <3>3 DEF Way
            <4>2. PICK g \in Events!ToVisit(s) :
                    /\ loop' = [loop EXCEPT ![s].visited = @ \union {g}]
                    /\ heard' = [heard EXCEPT ![g] = @ \union {loop[s].message}]
                BY <1>3, <4>1
            <4>3. CASE g = h
                BY <1>2, <3>3, <4>2, <4>3 DEF EventTyped
            <4>4. CASE g # h
                <5>1. loop'[s].message = m /\ loop'[s].visited = loop[s].visited \union {g}
                    BY <1>2, <1>5, <3>3, <4>2 DEF EventTyped
                <5> QED BY <1>1, <2>1, <3>3, <4>4, <5>1 DEF Way
            <4> QED BY <4>3, <4>4
        <3> QED BY <2>1, <3>1, <3>2, <3>3 DEF Way
    <2>2. audience'[m] \subseteq audience[m] /\ audience[m] \subseteq Handler
        BY <1>1, <1>2 DEF EventTyped
    <2> QED BY <1>2, <1>6, <1>9, <2>1, <2>2, ArrivedStays
<1>10. CommandsFit' /\ PingsFollow' /\ OnePing' /\ AudienceIsKnown'
    BY <1>1, <1>9, QuietSteps
<1> QED BY <1>7, <1>8, <1>10 DEF EventInv

\* The last handler, the only one, ends the subscription.
LEMMA UnsubscribeStep ==
    ASSUME EventInv, NEW h \in Handler, Events!Unsubscribe(h)
    PROVE  EventInv'
<1> DEFINE p == HomeOf[h]
           c == Events!Command("unsub", current[p])
           w == Append(wire[p], c)
<1> USE DEF Events!None
<1>1. p \in Replica /\ EventTyped /\ wire[p] \in Seq(Commands) /\ call[h] = "subscribed"
    BY EventNames DEF EventInv, EventTyped, Events!Unsubscribe
<1>2. /\ current[p] = joined[h] /\ joined[h] # 0 /\ current[p] = last[p]
      /\ Events!SubOf(h) = Events!Current(p) /\ last[p] \in Nat
    <2>1. current[p] = joined[h] /\ joined[h] # 0
        BY <1>1 DEF EventInv, HandlersFit
    <2>2. current[p] \in {0, last[p]} /\ last[p] \in 0..MaxSubs
        BY <1>1 DEF EventTyped, Events!TypeOK
    <2> QED BY <2>1, <2>2, EventNames DEF Events!SubOf, Events!Current
<1>3. Events!Ends(p, handlers \ {<<Events!Current(p), h>>})
    <2> SUFFICES ASSUME NEW g \in Handler, <<Events!Current(p), g>> \in handlers, g # h PROVE FALSE
        BY <1>2 DEF Events!Ends
    <2>1. Events!SubOf(g) = Events!Current(p)
        BY <1>1 DEF EventInv, EventTyped, Events!TypeOK, HandlersFit
    <2>2. HomeOf[g] = p
        BY <2>1 DEF Events!SubOf, Events!Current
    <2> QED BY <2>2, EventNames
<1>4. /\ handlers' = handlers \ {<<Events!Current(p), h>>}
      /\ current' = [current EXCEPT ![p] = 0]
      /\ wire' = [wire EXCEPT ![p] = w]
      /\ call' = [call EXCEPT ![h] = "idle"]
      /\ audience' = [m \in Message |-> audience[m] \ {h}]
      /\ UNCHANGED <<known, inbox, last, loop, joined, heard, sent>>
    BY <1>3 DEF Events!Unsubscribe
<1>5. c \in Commands
    BY <1>2 DEF Commands, Events!Command
<1>6. /\ w \in Seq(Commands) /\ Len(w) = Len(wire[p]) + 1 /\ Len(wire[p]) \in Nat
      /\ \A i \in 1..Len(wire[p]) : w[i] = wire[p][i]
      /\ w[Len(wire[p]) + 1] = c
    BY <1>1, <1>5, AppendProperties, LenProperties
<1>7. Len(wire[p]) <= Len(w)
    BY <1>6
<1> HIDE DEF w
<1>8. /\ wire' \in [Replica -> Seq(Commands)] /\ wire'[p] = w
      /\ Len(wire[p]) \in Nat /\ Len(w) \in Nat /\ DOMAIN w = 1..Len(w)
      /\ \A q \in Replica : \A i \in DOMAIN wire[q] :
            /\ i \in DOMAIN wire'[q]
            /\ \A k \in 1..i : k \in DOMAIN wire[q] /\ wire'[q][k] = wire[q][k]
      /\ \A q \in Replica : \A i \in DOMAIN wire'[q] :
            \/ i \in DOMAIN wire[q]
            \/ q = p /\ i \in (Len(wire[p]) + 1)..Len(w)
    BY <1>1, <1>4, <1>6, <1>7, WireGrows
<1>9. \A i \in (Len(wire[p]) + 1)..Len(w) : i = Len(wire[p]) + 1 /\ wire'[p][i] = c
    <2> DEFINE l == Len(wire[p])
    <2>1. l \in Nat /\ Len(w) = l + 1 /\ wire'[p][l + 1] = c
        BY <1>6, <1>8
    <2> HIDE DEF l
    <2>2. \A i \in (l + 1)..Len(w) : i = l + 1
        BY <2>1
    <2>3. \A i \in (l + 1)..Len(w) : i = l + 1 /\ wire'[p][i] = c
        BY <2>1, <2>2
    <2> QED BY <2>3 DEF l
<1>10. \A g \in Handler \ {h} :
          /\ HomeOf[g] # p /\ HomeOf[g] \in Replica
          /\ call'[g] = call[g] /\ current'[HomeOf[g]] = current[HomeOf[g]]
    BY <1>1, <1>4, EventNames DEF EventTyped
<1>11. /\ call'[h] = "idle" /\ current'[p] = 0
       /\ \A q \in Replica \ {p} : current'[q] = current[q]
       /\ \A g \in Handler : Events!SubOf(g)' = Events!SubOf(g)
    BY <1>1, <1>4 DEF EventTyped, Events!SubOf
<1>12. EventTyped'
    <2>1. ASSUME NEW q \in Replica, current'[q] # 0
          PROVE  \E g \in Handler :
                    \/ <<Events!Current(q)', g>> \in handlers'
                    \/ call'[g] \in {"flushing", "flushed"} /\ Events!SubOf(g)' = Events!Current(q)'
        <3>1. q # p /\ current'[q] = current[q] /\ Events!Current(q)' = Events!Current(q)
            BY <1>11, <2>1 DEF Events!Current
        <3>2. PICK g \in Handler :
                \/ <<Events!Current(q), g>> \in handlers
                \/ call[g] \in {"flushing", "flushed"} /\ Events!SubOf(g) = Events!Current(q)
            BY <1>1, <2>1, <3>1 DEF EventTyped, Events!TypeOK
        <3>3. Events!Current(q) # Events!Current(p)
            BY <3>1 DEF Events!Current
        <3>4. CASE <<Events!Current(q), g>> \in handlers
            BY <1>4, <3>1, <3>3, <3>4
        <3>5. CASE call[g] \in {"flushing", "flushed"} /\ Events!SubOf(g) = Events!Current(q)
            BY <1>1, <1>10, <1>11, <3>1, <3>5
        <3> QED BY <3>2, <3>4, <3>5
    <2>2. current' \in [Replica -> 0..MaxSubs] /\ 0 \in 0..MaxSubs
        BY <1>1, <1>4, EventNames DEF EventTyped
    <2>3. \A q \in Replica : last'[q] \in 0..MaxSubs /\ current'[q] \in {0, last'[q]}
        BY <1>1, <1>4, <1>11 DEF EventTyped, Events!TypeOK
    <2>4. handlers' \subseteq Events!Sub \X Handler
        BY <1>1, <1>4 DEF EventTyped, Events!TypeOK
    <2>5. Events!TypeOK'
        BY <1>1, <1>4, <2>1, <2>3, <2>4, SMTT(30) DEF EventTyped, Events!TypeOK, Events!Sub
    <2>6. audience' \in [Message -> SUBSET Handler] /\ call' \in [Handler -> {"idle", "flushing", "flushed", "subscribed"}]
        BY <1>1, <1>4 DEF EventTyped
    <2> QED BY <1>1, <1>4, <1>8, <2>2, <2>5, <2>6 DEF EventTyped, Events!Sub
<1>13. HandlersFit'
    <2> SUFFICES ASSUME NEW g \in Handler
                 PROVE  /\ call'[g] # "idle" => current'[HomeOf[g]] = joined'[g] /\ joined'[g] # 0
                        /\ call'[g] = "subscribed" => <<Events!SubOf(g)', g>> \in handlers'
                        /\ call'[g] \in {"flushed", "subscribed"} => Events!SubOf(g)' \in known'
                        /\ \A s \in Events!Sub : <<s, g>> \in handlers'
                              => call'[g] = "subscribed" /\ s = Events!SubOf(g)'
        BY Zenon DEF HandlersFit, Events!Sub
    <2>1. CASE g = h
        <3>1. \A s \in Events!Sub : <<s, h>> \in handlers => s = Events!Current(p)
            BY <1>2 DEF EventInv, HandlersFit
        <3>2. \A s \in Events!Sub : <<s, h>> \notin handlers'
            BY <1>4, <3>1
        <3> QED BY <1>11, <2>1, <3>2
    <2>2. CASE g # h
        BY <1>4, <1>10, <1>11, <2>2 DEF EventInv, HandlersFit
    <2> QED BY <2>1, <2>2
<1>14. CommandsFit'
    <2> SUFFICES ASSUME NEW q \in Replica, NEW i \in DOMAIN wire'[q] PROVE CommandFits(q, i)'
        BY DEF CommandsFit
    <2>1. CASE i \in DOMAIN wire[q]
        <3>1. CommandFits(q, i)
            BY <2>1 DEF EventInv, CommandsFit
        <3>2. i \in 1..i
            <4>1. wire[q] \in Seq(Commands)
                BY <1>1 DEF EventTyped
            <4> QED BY <2>1, <4>1, LenProperties
        <3>3. wire'[q][i] = wire[q][i]
            BY <1>8, <2>1, <3>2
        <3> QED BY <1>4, <1>11, <3>1, <3>3 DEF CommandFits
    <2>2. CASE q = p /\ i \in (Len(wire[p]) + 1)..Len(w)
        <3>1. wire'[q][i] = c
            BY <1>9, <2>2
        <3>2. current[p] \in 1..last[p]
            BY <1>2
        <3> QED BY <1>2, <1>4, <1>11, <2>2, <3>1, <3>2 DEF CommandFits, Events!Command
    <2> QED BY <1>8, <2>1, <2>2
<1>15. \A m \in Message : Arrived(m) => Arrived(m)'
    <2>1. \A m \in Message : audience'[m] = audience[m] \ {h}
        BY <1>4
    <2>2. \A m \in Message : \A g \in audience'[m] : \A s \in Events!Sub :
              <<s, g>> \in handlers => <<s, g>> \in handlers'
        BY <1>4, <2>1
    <2> QED BY <1>4, <2>1, <2>2, AllArrivedStay
<1>16. PingsFollow'
    <2> SUFFICES ASSUME NEW q \in Replica, NEW i \in DOMAIN wire'[q] PROVE PingFollows(q, i)'
        BY DEF PingsFollow
    <2>1. CASE i \in DOMAIN wire[q]
        <3>1. \A k \in 1..i : wire'[q][k] = wire[q][k]
            BY <1>8, <2>1
        <3>2. \A g \in Handler : call[g] = "flushing" => call'[g] = "flushing" /\ joined'[g] = joined[g]
            BY <1>1, <1>4, <1>10
        <3> QED BY <1>4, <1>15, <2>1, <3>1, <3>2, OldPingsFollow
    <2>2. CASE q = p /\ i \in (Len(wire[p]) + 1)..Len(w)
        BY <1>9, <2>2 DEF PingFollows, Events!Command
    <2> QED BY <1>8, <2>1, <2>2
<1>17. OnePing'
    <2> SUFFICES ASSUME NEW g \in Handler, NEW q \in Replica, NEW i \in DOMAIN wire'[q],
                        NEW j \in DOMAIN wire'[q], wire'[q][i] = Events!Command("ping", g),
                        wire'[q][j] = Events!Command("ping", g)
                 PROVE  i = j
        BY DEF OnePing, Events!Command
    <2>1. wire[q] \in Seq(Commands)
        BY <1>1 DEF EventTyped
    <2>2. \A k \in DOMAIN wire[q] : wire'[q][k] = wire[q][k]
        <3>1. \A k \in DOMAIN wire[q] : k \in 1..k
            BY <2>1, LenProperties
        <3> QED BY <1>8, <3>1
    <2>3. i \in DOMAIN wire[q] /\ j \in DOMAIN wire[q]
        BY <1>8, <1>9 DEF Events!Command
    <2> QED BY <2>2, <2>3 DEF EventInv, OnePing
<1>18. AudienceIsKnown'
    <2>1. \A m \in Message : audience'[m] = audience[m] \ {h} /\ audience[m] \subseteq Handler
        BY <1>1, <1>4 DEF EventTyped
    <2> QED BY <1>4, <1>10, <1>15, <2>1 DEF EventInv, AudienceIsKnown
<1> QED BY <1>12, <1>13, <1>14, <1>16, <1>17, <1>18 DEF EventInv

\* The message goes to all who are subscribed: the server knows them.
LEMMA PublishStep ==
    ASSUME EventInv, NEW m \in Message, Events!Publish(m)
    PROVE  EventInv'
<1> DEFINE p == HomeOf[m]
           a == Events!Command("pub", m)
           b == Events!Command("ping", m)
           w == wire[p] \o <<a, b>>
<1>1. p \in Replica /\ EventTyped /\ wire[p] \in Seq(Commands) /\ sent[m] = "new"
    BY EventNames DEF EventInv, EventTyped, Events!Publish
<1>2. /\ wire' = [wire EXCEPT ![p] = w]
      /\ sent' = [sent EXCEPT ![m] = "flushing"]
      /\ audience' = [audience EXCEPT ![m] = {h \in Handler : call[h] = "subscribed"}]
      /\ UNCHANGED <<known, inbox, current, last, handlers, loop, call, joined, heard>>
    BY DEF Events!Publish, Events!subscriptions, Events!subscribers
<1>3. a \in Commands /\ b \in Commands
    BY DEF Commands, Events!Command
<1>4. /\ w \in Seq(Commands) /\ Len(w) = Len(wire[p]) + 2 /\ Len(wire[p]) \in Nat
      /\ \A i \in 1..Len(wire[p]) : w[i] = wire[p][i]
      /\ w[Len(wire[p]) + 1] = a /\ w[Len(wire[p]) + 2] = b
    BY <1>1, <1>3, TwoMore
<1>5. Len(wire[p]) <= Len(w)
    BY <1>4
<1> HIDE DEF w
<1>6. /\ wire' \in [Replica -> Seq(Commands)] /\ wire'[p] = w
      /\ Len(wire[p]) \in Nat /\ Len(w) \in Nat /\ DOMAIN w = 1..Len(w)
      /\ \A q \in Replica : \A i \in DOMAIN wire[q] :
            /\ i \in DOMAIN wire'[q]
            /\ \A k \in 1..i : k \in DOMAIN wire[q] /\ wire'[q][k] = wire[q][k]
      /\ \A q \in Replica : \A i \in DOMAIN wire'[q] :
            \/ i \in DOMAIN wire[q]
            \/ q = p /\ i \in (Len(wire[p]) + 1)..Len(w)
    BY <1>1, <1>2, <1>4, <1>5, WireGrows
<1>7. \A i \in (Len(wire[p]) + 1)..Len(w) : i = Len(wire[p]) + 1 \/ i = Len(wire[p]) + 2
    <2> DEFINE l == Len(wire[p])
    <2>1. l \in Nat /\ Len(w) = l + 2
        BY <1>4
    <2> HIDE DEF l
    <2>2. \A i \in (l + 1)..Len(w) : i = l + 1 \/ i = l + 2
        BY <2>1
    <2> QED BY <2>2 DEF l
<1>8. wire'[p][Len(wire[p]) + 1] = a /\ wire'[p][Len(wire[p]) + 2] = b
    BY <1>4, <1>6
<1>9. /\ sent'[m] = "flushing" /\ audience'[m] = {h \in Handler : call[h] = "subscribed"}
      /\ \A o \in Message \ {m} : sent'[o] = sent[o] /\ audience'[o] = audience[o]
    BY <1>1, <1>2 DEF EventTyped, Events!TypeOK
<1>10. EventTyped'
    <2>1. /\ sent' \in [Message -> {"new", "flushing", "published"}]
          /\ audience' \in [Message -> SUBSET Handler]
        BY <1>1, <1>2 DEF EventTyped, Events!TypeOK
    <2>2. Events!TypeOK'
        BY <1>1, <1>2, <2>1 DEF EventTyped, Events!TypeOK, Events!Sub, Events!Current, Events!SubOf
    <2> QED BY <1>1, <1>2, <1>6, <2>1, <2>2 DEF EventTyped, Events!Sub
<1>11. HandlersFit'
    BY <1>2 DEF EventInv, HandlersFit, Events!SubOf, Events!Sub
<1>12. CommandsFit'
    <2> SUFFICES ASSUME NEW q \in Replica, NEW i \in DOMAIN wire'[q] PROVE CommandFits(q, i)'
        BY DEF CommandsFit
    <2>1. CASE i \in DOMAIN wire[q]
        <3>1. CommandFits(q, i)
            BY <2>1 DEF EventInv, CommandsFit
        <3>2. i \in 1..i
            <4>1. wire[q] \in Seq(Commands)
                BY <1>1 DEF EventTyped
            <4> QED BY <2>1, <4>1, LenProperties
        <3>3. wire'[q][i] = wire[q][i]
            BY <1>6, <2>1, <3>2
        <3> QED BY <1>2, <3>1, <3>3 DEF CommandFits
    <2>2. CASE q = p /\ i \in (Len(wire[p]) + 1)..Len(w)
        <3>1. wire'[q][i] = a \/ wire'[q][i] = b
            BY <1>7, <1>8, <2>2
        <3> QED BY <3>1 DEF CommandFits, Events!Command
    <2> QED BY <1>6, <2>1, <2>2
<1>13. \A o \in Message \ {m} : Arrived(o) => Arrived(o)'
    <2>1. \A o \in Message \ {m} : audience'[o] \subseteq audience[o]
        BY <1>9
    <2>2. UNCHANGED <<handlers, inbox, loop, heard>>
        BY <1>2
    <2> QED BY <2>1, <2>2, AllArrivedStay
<1>14. PingsFollow'
    <2> SUFFICES ASSUME NEW q \in Replica, NEW i \in DOMAIN wire'[q] PROVE PingFollows(q, i)'
        BY DEF PingsFollow
    <2>1. CASE i \in DOMAIN wire[q]
        <3>1. \A k \in 1..i : wire'[q][k] = wire[q][k]
            BY <1>6, <2>1
        <3>2. \A o \in Message : sent[o] # "new" => sent'[o] # "new" /\ (Arrived(o) => Arrived(o)')
            BY <1>1, <1>9, <1>13
        <3> QED BY <1>2, <2>1, <3>1, <3>2, OldPingsFollow
    <2>2. CASE q = p /\ i = Len(wire[p]) + 1
        BY <1>8, <2>2 DEF PingFollows, Events!Command
    <2>3. CASE q = p /\ i = Len(wire[p]) + 2
        <3>1. wire'[q][i] = b /\ wire'[q][i - 1] = a /\ i - 1 \in 1..(i - 1)
            BY <1>4, <1>8, <2>3
        <3>2. \A o \in Message : b = Events!Command("ping", o) => o = m
            BY DEF Events!Command
        <3>3. \A h \in Handler : b # Events!Command("ping", h)
            BY EventNames DEF Events!Command
        <3> QED BY <1>9, <3>1, <3>2, <3>3 DEF PingFollows, Events!Command
    <2> QED BY <1>6, <1>7, <2>1, <2>2, <2>3
<1>15. OnePing'
    <2> SUFFICES ASSUME NEW g \in Handler, NEW q \in Replica, NEW i \in DOMAIN wire'[q],
                        NEW j \in DOMAIN wire'[q], wire'[q][i] = Events!Command("ping", g),
                        wire'[q][j] = Events!Command("ping", g)
                 PROVE  i = j
        BY DEF OnePing, Events!Command
    <2>1. wire[q] \in Seq(Commands)
        BY <1>1 DEF EventTyped
    <2>2. \A k \in DOMAIN wire[q] : wire'[q][k] = wire[q][k]
        <3>1. \A k \in DOMAIN wire[q] : k \in 1..k
            BY <2>1, LenProperties
        <3> QED BY <1>6, <3>1
    <2>3. ASSUME NEW k \in DOMAIN wire'[q], wire'[q][k] = Events!Command("ping", g)
          PROVE  k \in DOMAIN wire[q]
        <3>1. a # Events!Command("ping", g) /\ b # Events!Command("ping", g)
            BY EventNames DEF Events!Command
        <3> QED BY <1>6, <1>7, <1>8, <2>3, <3>1
    <2> QED BY <2>2, <2>3 DEF EventInv, OnePing
<1>16. AudienceIsKnown'
    BY <1>2, <1>9, <1>13 DEF EventInv, AudienceIsKnown
<1> QED BY <1>10, <1>11, <1>12, <1>14, <1>15, <1>16 DEF EventInv

\* What is left on a connection after the server took its first command.
LEMMA WireShrinks ==
    ASSUME EventTyped, NEW p \in Replica, wire[p] # <<>>, wire' = [wire EXCEPT ![p] = Tail(@)]
    PROVE  /\ wire' \in [Replica -> Seq(Commands)]
           /\ Head(wire[p]) = wire[p][1] /\ 1 \in DOMAIN wire[p] /\ Head(wire[p]) \in Commands
           /\ \A q \in Replica \ {p} : wire'[q] = wire[q]
           /\ \A i \in DOMAIN wire'[p] :
                 i \in Nat \ {0} /\ i + 1 \in DOMAIN wire[p] /\ wire'[p][i] = wire[p][i + 1]
           /\ \A i \in DOMAIN wire'[p] : \A k \in 2..i :
                 k - 1 \in 1..(i - 1) /\ wire'[p][k - 1] = wire[p][k]
<1>1. wire \in [Replica -> Seq(Commands)] /\ wire[p] \in Seq(Commands)
    BY DEF EventTyped
<1>2. /\ Head(wire[p]) \in Commands /\ Tail(wire[p]) \in Seq(Commands)
      /\ Len(wire[p]) \in Nat \ {0} /\ DOMAIN wire[p] = 1..Len(wire[p])
      /\ DOMAIN Tail(wire[p]) = 1..(Len(wire[p]) - 1)
      /\ Head(wire[p]) = wire[p][1]
      /\ \A i \in 1..(Len(wire[p]) - 1) : Tail(wire[p])[i] = wire[p][i + 1]
    BY <1>1, LenProperties, HeadTailProperties
<1>3. /\ wire' \in [Replica -> Seq(Commands)] /\ wire'[p] = Tail(wire[p])
      /\ \A q \in Replica \ {p} : wire'[q] = wire[q]
    BY <1>1, <1>2
<1>4. ASSUME NEW i \in DOMAIN wire'[p]
      PROVE  /\ i \in Nat \ {0} /\ i + 1 \in DOMAIN wire[p] /\ wire'[p][i] = wire[p][i + 1]
             /\ \A k \in 2..i : k - 1 \in 1..(i - 1) /\ wire'[p][k - 1] = wire[p][k]
    <2>1. i \in 1..(Len(wire[p]) - 1)
        BY <1>2, <1>3
    <2>2. i \in Nat \ {0} /\ i + 1 \in DOMAIN wire[p] /\ wire'[p][i] = wire[p][i + 1]
        BY <1>2, <1>3, <2>1
    <2>3. ASSUME NEW k \in 2..i
          PROVE  k - 1 \in 1..(i - 1) /\ wire'[p][k - 1] = wire[p][k]
        <3>1. k - 1 \in 1..(i - 1) /\ k - 1 \in 1..(Len(wire[p]) - 1) /\ (k - 1) + 1 = k
            BY <1>2, <2>1
        <3> QED BY <1>2, <1>3, <3>1
    <2> QED BY <2>2, <2>3
<1> QED BY <1>2, <1>3, <1>4

\* What the server takes: a subscription stays known while the replica uses it,
\* a message goes to all the subscriptions known.
LEMMA Taken ==
    ASSUME EventInv, NEW p \in Replica, Events!Take(p)
    PROVE  LET c == Head(wire[p]) IN
           /\ wire[p] # <<>> /\ wire' = [wire EXCEPT ![p] = Tail(@)]
           /\ UNCHANGED <<current, last, handlers, loop, joined, heard, audience>>
           /\ CommandFits(p, 1) /\ PingFollows(p, 1) /\ c = wire[p][1]
           /\ known' \subseteq Events!Sub
           /\ c.kind = "sub" => <<p, c.what>> \in known'
           /\ \A h \in Handler : call[h] # "idle" /\ Events!SubOf(h) \in known => Events!SubOf(h) \in known'
           /\ inbox' \in [Events!Sub -> Seq(Message)]
           /\ \A s \in Events!Sub : \A i \in DOMAIN inbox[s] :
                 i \in DOMAIN inbox'[s] /\ inbox'[s][i] = inbox[s][i]
           /\ c.kind = "pub" => \A s \in known : \E i \in DOMAIN inbox'[s] : inbox'[s][i] = c.what
           /\ \A h \in Handler :
                 \/ call'[h] = call[h]
                 \/ call[h] = "flushing" /\ call'[h] = "flushed" /\ c = Events!Command("ping", h)
           /\ \A h \in Handler : c = Events!Command("ping", h) => call'[h] # "flushing"
           /\ sent' \in [Message -> {"new", "flushing", "published"}]
           /\ \A m \in Message :
                 \/ sent'[m] = sent[m]
                 \/ sent'[m] = "published" /\ c = Events!Command("ping", m)
<1> DEFINE c == Head(wire[p])
<1>1. /\ wire[p] # <<>> /\ wire' = [wire EXCEPT ![p] = Tail(@)]
      /\ UNCHANGED <<current, last, handlers, loop, joined, heard, audience>>
      /\ known' = CASE c.kind = "sub" -> known \union {<<p, c.what>>}
                    [] c.kind = "unsub" -> known \ {<<p, c.what>>}
                    [] OTHER -> known
      /\ inbox' = [s \in Events!Sub |-> IF c.kind = "pub" /\ s \in known
                                           THEN Append(inbox[s], c.what) ELSE inbox[s]]
      /\ call' = IF c.kind = "ping" /\ c.what \in Handler /\ call[c.what] = "flushing"
                    THEN [call EXCEPT ![c.what] = "flushed"] ELSE call
      /\ sent' = IF c.kind = "ping" /\ c.what \in Message
                    THEN [sent EXCEPT ![c.what] = "published"] ELSE sent
    BY DEF Events!Take, Events!subscriptions
<1>2. EventTyped /\ known \subseteq Events!Sub
    BY DEF EventInv, EventTyped, Events!TypeOK
<1>3. c = wire[p][1] /\ 1 \in DOMAIN wire[p] /\ c \in Commands
    BY <1>1, <1>2, WireShrinks
<1>4. CommandFits(p, 1) /\ PingFollows(p, 1)
    BY <1>3 DEF EventInv, CommandsFit, PingsFollow
<1>5. c.kind = "sub" => c.what \in 1..MaxSubs
    BY <1>3, <1>4 DEF CommandFits
<1>6. c.kind = "unsub" => c.what # current[p]
    BY <1>3, <1>4 DEF CommandFits
<1>7. c.kind = "pub" => c.what \in Message
    BY <1>3, <1>4 DEF CommandFits
<1>8. c.kind \in {"sub", "unsub", "ping", "pub"} /\ c = [kind |-> c.kind, what |-> c.what]
    BY <1>3 DEF Commands
<1> HIDE DEF c
<1>9. known' \subseteq Events!Sub /\ (c.kind = "sub" => <<p, c.what>> \in known')
    BY <1>1, <1>2, <1>5 DEF Events!Sub
<1>10. ASSUME NEW h \in Handler, call[h] # "idle", Events!SubOf(h) \in known
       PROVE  Events!SubOf(h) \in known'
    <2>1. current[HomeOf[h]] = joined[h]
        BY <1>10 DEF EventInv, HandlersFit
    <2>2. c.kind = "unsub" => Events!SubOf(h) # <<p, c.what>>
        BY <1>6, <2>1 DEF Events!SubOf
    <2> QED BY <1>1, <1>10, <2>2
<1>11. ASSUME NEW s \in Events!Sub
       PROVE  /\ inbox'[s] \in Seq(Message)
              /\ \A i \in DOMAIN inbox[s] : i \in DOMAIN inbox'[s] /\ inbox'[s][i] = inbox[s][i]
              /\ c.kind = "pub" /\ s \in known => \E i \in DOMAIN inbox'[s] : inbox'[s][i] = c.what
    <2>1. inbox[s] \in Seq(Message)
        BY <1>2 DEF EventTyped
    <2>2. CASE c.kind = "pub" /\ s \in known
        <3>1. inbox'[s] = Append(inbox[s], c.what) /\ c.what \in Message
            BY <1>1, <1>7, <2>2
        <3>2. /\ inbox'[s] \in Seq(Message) /\ Len(inbox[s]) \in Nat
              /\ DOMAIN inbox[s] = 1..Len(inbox[s]) /\ DOMAIN inbox'[s] = 1..(Len(inbox[s]) + 1)
              /\ \A i \in 1..Len(inbox[s]) : inbox'[s][i] = inbox[s][i]
              /\ inbox'[s][Len(inbox[s]) + 1] = c.what
            BY <2>1, <3>1, AppendProperties, LenProperties
        <3> QED BY <3>2
    <2>3. CASE ~(c.kind = "pub" /\ s \in known)
        BY <1>1, <2>1, <2>3
    <2> QED BY <2>2, <2>3
<1>12. inbox' \in [Events!Sub -> Seq(Message)]
    BY <1>1, <1>11
<1>13. \A h \in Handler :
          \/ call'[h] = call[h]
          \/ call[h] = "flushing" /\ call'[h] = "flushed" /\ c = Events!Command("ping", h)
    BY <1>1, <1>2, <1>8 DEF EventTyped, Events!Command
<1>14. \A h \in Handler : c = Events!Command("ping", h) => call'[h] # "flushing"
    BY <1>1, <1>2, <1>8 DEF EventTyped, Events!Command
<1>15. sent \in [Message -> {"new", "flushing", "published"}]
    BY <1>2 DEF EventTyped, Events!TypeOK
<1>16. /\ sent' \in [Message -> {"new", "flushing", "published"}]
       /\ \A m \in Message :
             \/ sent'[m] = sent[m]
             \/ sent'[m] = "published" /\ c = Events!Command("ping", m)
    BY <1>1, <1>8, <1>15 DEF Events!Command
<1>17. \A s \in known : c.kind = "pub" => \E i \in DOMAIN inbox'[s] : inbox'[s][i] = c.what
    BY <1>2, <1>11
<1> QED BY <1>1, <1>3, <1>4, <1>9, <1>10, <1>11, <1>12, <1>13, <1>14, <1>16, <1>17 DEF c

LEMMA TakeStep ==
    ASSUME EventInv, NEW p \in Replica, Events!Take(p)
    PROVE  EventInv'
<1> DEFINE c == Head(wire[p])
           j(q, i) == IF q = p THEN i + 1 ELSE i
<1>1. /\ wire[p] # <<>> /\ wire' = [wire EXCEPT ![p] = Tail(@)]
      /\ UNCHANGED <<current, last, handlers, loop, joined, heard, audience>>
      /\ CommandFits(p, 1) /\ PingFollows(p, 1) /\ c = wire[p][1]
      /\ known' \subseteq Events!Sub
      /\ c.kind = "sub" => <<p, c.what>> \in known'
      /\ \A h \in Handler : call[h] # "idle" /\ Events!SubOf(h) \in known => Events!SubOf(h) \in known'
      /\ inbox' \in [Events!Sub -> Seq(Message)]
      /\ \A s \in Events!Sub : \A i \in DOMAIN inbox[s] :
            i \in DOMAIN inbox'[s] /\ inbox'[s][i] = inbox[s][i]
      /\ c.kind = "pub" => \A s \in known : \E i \in DOMAIN inbox'[s] : inbox'[s][i] = c.what
      /\ \A h \in Handler :
            \/ call'[h] = call[h]
            \/ call[h] = "flushing" /\ call'[h] = "flushed" /\ c = Events!Command("ping", h)
      /\ \A h \in Handler : c = Events!Command("ping", h) => call'[h] # "flushing"
      /\ sent' \in [Message -> {"new", "flushing", "published"}]
      /\ \A m \in Message :
            \/ sent'[m] = sent[m]
            \/ sent'[m] = "published" /\ c = Events!Command("ping", m)
    BY Taken
<1>2. EventTyped /\ \A m \in Message : audience[m] \subseteq Handler
    BY DEF EventInv, EventTyped
<1>3. /\ wire' \in [Replica -> Seq(Commands)] /\ 1 \in DOMAIN wire[p]
      /\ \A q \in Replica \ {p} : wire'[q] = wire[q]
      /\ \A i \in DOMAIN wire'[p] :
            i \in Nat \ {0} /\ i + 1 \in DOMAIN wire[p] /\ wire'[p][i] = wire[p][i + 1]
      /\ \A i \in DOMAIN wire'[p] : \A k \in 2..i :
            k - 1 \in 1..(i - 1) /\ wire'[p][k - 1] = wire[p][k]
    BY <1>1, <1>2, WireShrinks
<1> HIDE DEF c
<1>4. \A h \in Handler : Events!SubOf(h)' = Events!SubOf(h)
    BY <1>1 DEF Events!SubOf
<1>5. \A q \in Replica : \A i \in DOMAIN wire'[q] :
          j(q, i) \in DOMAIN wire[q] /\ wire'[q][i] = wire[q][j(q, i)]
    BY <1>3
<1>6. EventTyped'
    <2>1. call \in [Handler -> {"idle", "flushing", "flushed", "subscribed"}]
        BY <1>2 DEF EventTyped
    <2>2. call' \in [Handler -> {"idle", "flushing", "flushed", "subscribed"}]
        <3>1. \A h \in Handler : call'[h] \in {"idle", "flushing", "flushed", "subscribed"}
            BY <1>1, <2>1
        <3>2. call' = [h \in Handler |-> call'[h]]
            BY <2>1 DEF Events!Take
        <3> QED BY <3>1, <3>2
    <2>3. ASSUME NEW q \in Replica, current'[q] # 0
          PROVE  \E g \in Handler :
                    \/ <<Events!Current(q)', g>> \in handlers'
                    \/ call'[g] \in {"flushing", "flushed"} /\ Events!SubOf(g)' = Events!Current(q)'
        <3>1. Events!Current(q)' = Events!Current(q) /\ current[q] # 0
            BY <1>1, <2>3 DEF Events!Current
        <3>2. PICK g \in Handler :
                \/ <<Events!Current(q), g>> \in handlers
                \/ call[g] \in {"flushing", "flushed"} /\ Events!SubOf(g) = Events!Current(q)
            BY <1>2, <3>1 DEF EventTyped, Events!TypeOK, Events!None
        <3>3. handlers' = handlers
            BY <1>1
        <3>4. call[g] \in {"flushing", "flushed"} => call'[g] \in {"flushing", "flushed"}
            BY <1>1
        <3>5. Events!SubOf(g)' = Events!SubOf(g)
            BY <1>4
        <3> QED BY <3>1, <3>2, <3>3, <3>4, <3>5
    <2>4. Events!TypeOK'
        BY <1>1, <1>2, <2>2, <2>3 DEF EventTyped, Events!TypeOK, Events!None, Events!Sub
    <2> QED BY <1>1, <1>2, <1>3, <2>2, <2>4 DEF EventTyped, Events!Sub
<1>7. HandlersFit'
    <2> SUFFICES ASSUME NEW h \in Handler
                 PROVE  /\ call'[h] # "idle" => current'[HomeOf[h]] = joined'[h] /\ joined'[h] # 0
                        /\ call'[h] = "subscribed" => <<Events!SubOf(h)', h>> \in handlers'
                        /\ call'[h] \in {"flushed", "subscribed"} => Events!SubOf(h)' \in known'
                        /\ \A s \in Events!Sub : <<s, h>> \in handlers'
                              => call'[h] = "subscribed" /\ s = Events!SubOf(h)'
        BY Zenon DEF HandlersFit, Events!Sub
    <2>1. CASE call'[h] = call[h]
        BY <1>1, <1>4, <2>1 DEF EventInv, HandlersFit
    <2>2. CASE call[h] = "flushing" /\ call'[h] = "flushed" /\ c = Events!Command("ping", h)
        <3>1. Events!SubOf(h) \in known
            BY <1>1, <2>2 DEF PingFollows
        <3>2. Events!SubOf(h)' \in known'
            BY <1>1, <1>4, <2>2, <3>1
        <3> QED BY <1>1, <1>4, <2>2, <3>2 DEF EventInv, HandlersFit
    <2> QED BY <1>1, <2>1, <2>2
<1>8. CommandsFit'
    <2> SUFFICES ASSUME NEW q \in Replica, NEW i \in DOMAIN wire'[q] PROVE CommandFits(q, i)'
        BY DEF CommandsFit
    <2>1. CommandFits(q, j(q, i))
        BY <1>5 DEF EventInv, CommandsFit
    <2> QED BY <1>1, <1>5, <2>1 DEF CommandFits
<1>9. \A m \in Message : Arrived(m) => Arrived(m)'
    <2> SUFFICES ASSUME NEW m \in Message, Arrived(m) PROVE Arrived(m)'
        OBVIOUS
    <2>1. \A h \in Handler : \A s \in Events!Sub : Way(m, h, s) => Way(m, h, s)'
        BY <1>1 DEF Way
    <2>2. /\ audience'[m] \subseteq audience[m] /\ audience'[m] \subseteq Handler
          /\ \A h \in Handler : heard[h] \subseteq heard'[h]
        BY <1>1, <1>2
    <2> QED BY <1>2, <2>1, <2>2, ArrivedStays
\* the message reaches all who were subscribed when it was published
<1>10. ASSUME NEW m \in Message, c = Events!Command("pub", m) PROVE Arrived(m)'
    <2> SUFFICES ASSUME NEW h \in audience[m] PROVE Events!OnItsWay(m, h)'
        BY <1>1 DEF Arrived
    <2>1. h \in Handler /\ call[h] = "subscribed"
        BY <1>2 DEF EventInv, AudienceIsKnown
    <2>2. <<Events!SubOf(h), h>> \in handlers' /\ Events!SubOf(h) \in known
        BY <1>1, <2>1 DEF EventInv, HandlersFit
    <2>3. Events!SubOf(h) \in Events!Sub
        BY <1>2, <2>2 DEF EventTyped, Events!TypeOK
    <2>4. \E i \in DOMAIN inbox'[Events!SubOf(h)] : inbox'[Events!SubOf(h)][i] = m
        BY <1>1, <1>10, <2>2 DEF Events!Command
    <2>5. \E s \in Events!Sub : Way(m, h, s)'
        <3> DEFINE s == Events!SubOf(h)
        <3>1. s \in Events!Sub /\ <<s, h>> \in handlers' /\ \E i \in DOMAIN inbox'[s] : inbox'[s][i] = m
            BY <2>2, <2>3, <2>4
        <3> HIDE DEF s
        <3> QED BY <3>1 DEF Way
    <2> QED BY <2>1, <2>5, WayDefined
<1>11. PingsFollow'
    <2> SUFFICES ASSUME NEW q \in Replica, NEW i \in DOMAIN wire'[q] PROVE PingFollows(q, i)'
        BY DEF PingsFollow
    <2>1. PingFollows(q, j(q, i)) /\ j(q, i) \in DOMAIN wire[q]
        BY <1>5 DEF EventInv, PingsFollow
    <2>2. \A k \in 1..(j(q, i) - 1) :
            \/ q = p /\ wire[q][k] = c
            \/ \E l \in 1..(i - 1) : wire'[q][l] = wire[q][k]
        <3>1. CASE q = p
            <4>1. i \in Nat \ {0} /\ j(q, i) - 1 = i
                BY <1>3, <3>1
            <4>2. \A k \in 1..i : k = 1 \/ k \in 2..i
                BY <4>1
            <4>3. ASSUME NEW k \in 2..i PROVE \E l \in 1..(i - 1) : wire'[q][l] = wire[q][k]
                <5>1. i \in DOMAIN wire'[p]
                    BY <3>1
                <5>2. k - 1 \in 1..(i - 1) /\ wire'[p][k - 1] = wire[p][k]
                    BY <1>3, <5>1
                <5> QED BY <3>1, <5>2
            <4>4. wire[q][1] = c
                BY <1>1, <3>1
            <4> QED BY <3>1, <4>1, <4>2, <4>3, <4>4
        <3>2. CASE q # p
            BY <1>3, <3>2
        <3> QED BY <3>1, <3>2
    <2>3. ASSUME NEW h \in Handler, wire'[q][i] = Events!Command("ping", h)
          PROVE  /\ call'[h] = "flushing" /\ HomeOf[h] = q
                 /\ \/ Events!SubOf(h)' \in known'
                    \/ \E k \in 1..(i - 1) : wire'[q][k] = Events!Command("sub", joined'[h])
        <3>1. wire[q][j(q, i)] = Events!Command("ping", h)
            BY <1>5, <2>3
        <3>2. /\ call[h] = "flushing" /\ HomeOf[h] = q
              /\ \/ Events!SubOf(h) \in known
                 \/ \E k \in 1..(j(q, i) - 1) : wire[q][k] = Events!Command("sub", joined[h])
            BY <2>1, <3>1 DEF PingFollows
        <3>3. c # Events!Command("ping", h)
            <4> SUFFICES ASSUME c = Events!Command("ping", h) PROVE FALSE
                OBVIOUS
            <4>1. q = p
                BY <1>1, <3>2 DEF PingFollows
            <4>2. i \in Nat \ {0} /\ i + 1 \in DOMAIN wire[p]
                BY <1>3, <4>1
            <4>3. wire[p][i + 1] = Events!Command("ping", h) /\ wire[p][1] = Events!Command("ping", h)
                BY <1>1, <3>1, <4>1
            <4>4. i + 1 = 1
                BY <1>3, <4>2, <4>3 DEF EventInv, OnePing
            <4> QED BY <4>2, <4>4
        <3>4. call'[h] = "flushing"
            BY <1>1, <3>2, <3>3
        <3>5. CASE Events!SubOf(h) \in known
            BY <1>1, <1>4, <3>2, <3>4, <3>5
        <3>6. ASSUME NEW k \in 1..(j(q, i) - 1), wire[q][k] = Events!Command("sub", joined[h])
              PROVE  \/ Events!SubOf(h)' \in known'
                     \/ \E l \in 1..(i - 1) : wire'[q][l] = Events!Command("sub", joined'[h])
            <4>1. CASE q = p /\ wire[q][k] = c
                <5>1. c.kind = "sub" /\ <<p, c.what>> = Events!SubOf(h)
                    BY <3>2, <3>6, <4>1 DEF Events!Command, Events!SubOf
                <5>2. <<p, c.what>> \in known'
                    BY <1>1, <5>1
                <5> QED BY <1>4, <5>1, <5>2
            <4>2. CASE \E l \in 1..(i - 1) : wire'[q][l] = wire[q][k]
                BY <1>1, <3>6, <4>2
            <4> QED BY <2>2, <4>1, <4>2
        <3> QED BY <3>2, <3>4, <3>5, <3>6
    <2>4. ASSUME NEW m \in Message, wire'[q][i] = Events!Command("ping", m)
          PROVE  /\ sent'[m] # "new"
                 /\ Arrived(m)' \/ \E k \in 1..(i - 1) : wire'[q][k] = Events!Command("pub", m)
        <3>1. wire[q][j(q, i)] = Events!Command("ping", m)
            BY <1>5, <2>4
        <3>2. /\ sent[m] # "new"
              /\ Arrived(m) \/ \E k \in 1..(j(q, i) - 1) : wire[q][k] = Events!Command("pub", m)
            BY <2>1, <3>1 DEF PingFollows
        <3>3. sent'[m] # "new"
            BY <1>1, <3>2
        <3>4. ASSUME NEW k \in 1..(j(q, i) - 1), wire[q][k] = Events!Command("pub", m)
              PROVE  Arrived(m)' \/ \E l \in 1..(i - 1) : wire'[q][l] = Events!Command("pub", m)
            BY <1>10, <2>2, <3>4
        <3> QED BY <1>9, <3>2, <3>3, <3>4
    <2> QED BY <2>3, <2>4 DEF PingFollows, Events!Command
<1>12. OnePing'
    <2> SUFFICES ASSUME NEW g \in Handler, NEW q \in Replica, NEW i \in DOMAIN wire'[q],
                        NEW k \in DOMAIN wire'[q], wire'[q][i] = Events!Command("ping", g),
                        wire'[q][k] = Events!Command("ping", g)
                 PROVE  i = k
        BY DEF OnePing, Events!Command
    <2>1. j(q, i) = j(q, k)
        BY <1>5 DEF EventInv, OnePing
    <2> QED BY <1>3, <2>1
<1>13. AudienceIsKnown'
    <2> SUFFICES ASSUME NEW m \in Message
                 PROVE  /\ \A h \in audience[m] : call'[h] = "subscribed"
                        /\ sent'[m] = "published" => Arrived(m)'
        BY <1>1 DEF AudienceIsKnown
    <2>1. \A h \in audience[m] : call'[h] = "subscribed"
        BY <1>1, <1>2 DEF EventInv, AudienceIsKnown
    <2>2. ASSUME c = Events!Command("ping", m) PROVE Arrived(m)
        BY <1>1, <2>2 DEF PingFollows
    <2>3. ASSUME sent[m] = "published" PROVE Arrived(m)
        BY <2>3 DEF EventInv, AudienceIsKnown
    <2> QED BY <1>1, <1>9, <2>1, <2>2, <2>3
<1> QED BY <1>6, <1>7, <1>8, <1>11, <1>12, <1>13 DEF EventInv

-----------------------------------------------------------------------------
LEMMA EventStep == EventInv /\ [Events!Next]_Events!vars => EventInv'
<1> SUFFICES ASSUME EventInv, [Events!Next]_Events!vars PROVE EventInv'
    OBVIOUS
<1>1. ASSUME NEW h \in Handler, Events!SubscribeFirst(h) PROVE EventInv'
    BY <1>1, SubscribeFirstStep
<1>2. ASSUME NEW h \in Handler, Events!SubscribeNext(h) PROVE EventInv'
    BY <1>2, SubscribeNextStep
<1>3. ASSUME NEW h \in Handler, Events!Flushed(h) PROVE EventInv'
    BY <1>3, FlushedStep
<1>4. ASSUME NEW h \in Handler, Events!Unsubscribe(h) PROVE EventInv'
    BY <1>4, UnsubscribeStep
<1>5. ASSUME NEW m \in Message, Events!Publish(m) PROVE EventInv'
    BY <1>5, PublishStep
<1>6. ASSUME NEW p \in Replica, Events!Take(p) PROVE EventInv'
    BY <1>6, TakeStep
<1>7. ASSUME NEW s \in Events!Sub, Events!NextMessage(s) PROVE EventInv'
    BY <1>7, NextMessageStep
<1>8. ASSUME NEW s \in Events!Sub, Events!Handle(s) PROVE EventInv'
    BY <1>8, HandleStep
<1>9. ASSUME UNCHANGED Events!vars PROVE EventInv'
    <2>1. UNCHANGED <<wire, known, inbox, current, last, handlers, loop, call, joined, heard, sent, audience>>
        BY <1>9 DEF Events!vars, Events!server, Events!subscriptions, Events!subscribers
    <2>2. EventTyped'
        BY <2>1 DEF EventInv, EventTyped, Events!TypeOK, Events!Sub, Events!Current, Events!SubOf, Events!None
    <2>3. HandlersFit'
        BY <2>1 DEF EventInv, HandlersFit, Events!SubOf, Events!Sub
    <2>4. \A m \in Message : Arrived(m) => Arrived(m)'
        BY <2>1, AllArrivedStay
    <2>5. CommandsFit' /\ PingsFollow' /\ OnePing' /\ AudienceIsKnown'
        BY <2>1, <2>4, QuietSteps
    <2> QED BY <2>2, <2>3, <2>5 DEF EventInv
<1> QED BY <1>1, <1>2, <1>3, <1>4, <1>5, <1>6, <1>7, <1>8, <1>9 DEF Events!Next

\* The events keep their inductive invariant, for any replicas with at most one
\* handler each, any messages and any number of subscriptions.
THEOREM EventInvariant == Events!Spec => []EventInv
<1>1. Events!Init => EventInv
    BY EventInitially
<1>2. EventInv /\ [Events!Next]_Events!vars => EventInv'
    BY EventStep
<1> QED BY <1>1, <1>2, PTL DEF Events!Spec

\* Who has subscribed before an event is published, and stays, hears it or will:
\* neither flush returns before the server has taken what it is for (subscribe,
\* publish).
THEOREM EventsAreHeardAlways == Events!Spec => []EventsAreHeard
<1>1. EventInv => EventsAreHeard
    BY DEF EventInv, EventTyped, AudienceIsKnown, Arrived, EventsAreHeard, Events!PublishedIsHeard
<1> QED BY <1>1, EventInvariant, PTL

-----------------------------------------------------------------------------
(***************************************************************************)
(* Lists by page.  Nothing remembers where a client is but the number of   *)
(* its next page, so the invariant counts the documents ahead of another:  *)
(* its rank.  Pages are right as long as ranks move in one direction only. *)
(***************************************************************************)

\* key j comes before key k
Precedes(o, j, k) == IF o = "asc" THEN j < k ELSE k < j

\* the documents of A with keys D that come before document m
Ahead(o, m, A, D) == {e \in A : Precedes(o, D[e], D[m])}
Rank(o, m, A, D) == Cardinality(Ahead(o, m, A, D))

\* a sequence of the documents of A in order o, as the database may return it
InOrder(o, s, A, D) ==
    /\ s \in Pages!SetToSeqs(A)
    /\ \A i, j \in DOMAIN s : i < j => D[s[i]] = D[s[j]] \/ Precedes(o, D[s[i]], D[s[j]])

\* the page of n documents that begins after k others
PageOf(s, k, n) == SubSeq(s, k + 1, Pages!Min({k + n, Len(s)}))

\* the place of its last document
PageEnd(s, k, n) == IF k + n <= Len(s) THEN k + n ELSE Len(s)

LEMMA PageNames ==
    /\ IsFiniteSet(Document) /\ "unread" \notin Document /\ Key \subseteq Nat
    /\ DefaultSize \in Nat /\ MaxSize \in Nat /\ MaxChanges \in Nat
    /\ Null \notin Nat \union Pages!Orders \union Pages!OrderTexts \union {"400"}
<1>1. Pages!IsFiniteSet(Document) = IsFiniteSet(Document)
    BY DEF Pages!IsFiniteSet, IsFiniteSet
<1> QED
    BY <1>1, PageAssumption DEF Pages!DocumentAssumption, Pages!BoundAssumption, Pages!NullAssumption

LEMMA PagesCount == ASSUME NEW S PROVE Pages!Cardinality(S) = Cardinality(S)
BY DEF Pages!Cardinality, Cardinality

LEMMA LeastOfTwo ==
    ASSUME NEW j \in Int, NEW k \in Int
    PROVE  Pages!Min({j, k}) = IF j <= k THEN j ELSE k
BY DEF Pages!Min

\* sets of documents are finite
LEMMA DocumentsAreFinite ==
    ASSUME NEW S \in SUBSET Document
    PROVE  /\ IsFiniteSet(S) /\ Cardinality(S) \in Nat
           /\ \A T \in SUBSET S : Cardinality(T) <= Cardinality(S)
BY PageNames, FS_Subset, FS_CardinalityType

\* What the database returns is a sequence that names each document once.
LEMMA SequencesOfDocuments ==
    ASSUME NEW A \in SUBSET Document, NEW s \in Pages!SetToSeqs(A)
    PROVE  /\ s \in Seq(A) /\ Len(s) = Cardinality(A) /\ DOMAIN s = 1..Len(s)
           /\ \A i, j \in 1..Len(s) : s[i] = s[j] => i = j
           /\ \A m \in A : \E i \in 1..Len(s) : s[i] = m
<1> DEFINE n == Cardinality(A)
<1>1. n \in Nat /\ IsFiniteSet(A)
    BY DocumentsAreFinite
<1>2. s \in [1..n -> A] /\ \A i, j \in 1..n : i # j => s[i] # s[j]
    BY PagesCount DEF Pages!SetToSeqs
<1>3. s \in Seq(A) /\ Len(s) = n /\ DOMAIN s = 1..n
    BY <1>1, <1>2
<1>4. s \in Injection(1..n, A)
    BY <1>2 DEF Injection, IsInjective
<1>5. IsFiniteSet(1..n) /\ Cardinality(1..n) = n
    BY <1>1, FS_Interval
<1>6. s \in Surjection(1..n, A)
    BY <1>1, <1>4, <1>5, FS_Injection
<1>7. \A m \in A : \E i \in 1..n : s[i] = m
    BY <1>6 DEF Surjection
<1> QED
    BY <1>2, <1>3, <1>7

\* Where keys differ, the rank of a document is its place.
LEMMA RankIsPlace ==
    ASSUME NEW A \in SUBSET Document, NEW D, \A m \in A : D[m] \in Nat,
           \A m, e \in A : m # e => D[m] # D[e],
           NEW o, NEW s, InOrder(o, s, A, D), NEW i \in 1..Len(s)
    PROVE  Rank(o, s[i], A, D) = i - 1
<1> DEFINE P == {s[j] : j \in 1..(i - 1)}
<1>1. /\ s \in Seq(A) /\ DOMAIN s = 1..Len(s) /\ Len(s) \in Nat
      /\ \A j, k \in 1..Len(s) : s[j] = s[k] => j = k
      /\ \A m \in A : \E j \in 1..Len(s) : s[j] = m
    BY SequencesOfDocuments DEF InOrder
<1>2. \A j \in 1..Len(s) : s[j] \in A /\ D[s[j]] \in Nat
    BY <1>1
<1>3. \A j, k \in 1..Len(s) : j < k => Precedes(o, D[s[j]], D[s[k]])
    BY <1>1, <1>2, SMTT(30) DEF InOrder
<1>4. \A j \in 1..Len(s) : Precedes(o, D[s[j]], D[s[i]]) <=> j < i
    <2> TAKE j \in 1..Len(s)
    <2>1. j < i => Precedes(o, D[s[j]], D[s[i]])
        BY <1>3
    <2>2. i < j => Precedes(o, D[s[i]], D[s[j]])
        BY <1>3
    <2>3. j = i \/ j < i \/ i < j
        BY <1>1
    <2> QED
        BY <1>2, <2>1, <2>2, <2>3 DEF Precedes
<1>5. Ahead(o, s[i], A, D) = P
    <2>1. \A e \in Ahead(o, s[i], A, D) : e \in P
        <3> SUFFICES ASSUME NEW e \in A, Precedes(o, D[e], D[s[i]]) PROVE e \in P
            BY DEF Ahead
        <3>1. PICK j \in 1..Len(s) : s[j] = e
            BY <1>1
        <3>2. j < i
            BY <1>4, <3>1
        <3> QED
            BY <1>1, <3>1, <3>2
    <2>2. \A j \in 1..(i - 1) : s[j] \in Ahead(o, s[i], A, D)
        BY <1>1, <1>2, <1>4 DEF Ahead
    <2> QED
        BY <2>1, <2>2
<1>6. Cardinality(P) = i - 1
    <2> DEFINE f == [j \in 1..(i - 1) |-> s[j]]
    <2>1. f \in Bijection(1..(i - 1), P)
        <3>1. f \in [1..(i - 1) -> P]
            OBVIOUS
        <3>2. \A j, k \in 1..(i - 1) : f[j] = f[k] => j = k
            BY <1>1
        <3>3. \A e \in P : \E j \in 1..(i - 1) : f[j] = e
            OBVIOUS
        <3> QED
            BY <3>1, <3>2, <3>3 DEF Bijection, Injection, Surjection, IsInjective
    <2>2. IsFiniteSet(1..(i - 1)) /\ Cardinality(1..(i - 1)) = i - 1
        <3>1. 1 \in Int /\ i - 1 \in Int /\ (IF 1 > i - 1 THEN 0 ELSE (i - 1) - 1 + 1) = i - 1
            BY <1>1
        <3> QED
            BY ONLY <3>1, FS_Interval
    <2>3. ExistsBijection(1..(i - 1), P)
        BY <2>1 DEF ExistsBijection
    <2> HIDE DEF P, f
    <2> QED
        BY <2>2, <2>3, FS_Bijection
<1> QED
    BY <1>5, <1>6 DEF Rank

\* A page is a sequence of documents, no longer than asked for.
LEMMA PagesAreShort ==
    ASSUME NEW A \in SUBSET Document, NEW s \in Pages!SetToSeqs(A), NEW k \in Nat, NEW n \in Nat
    PROVE  /\ PageEnd(s, k, n) \in Nat /\ PageEnd(s, k, n) <= k + n /\ PageEnd(s, k, n) <= Len(s)
           /\ PageEnd(s, k, n) = k + n \/ PageEnd(s, k, n) = Len(s)
           /\ PageOf(s, k, n) \in Seq(A)
           /\ Len(PageOf(s, k, n)) = (IF k < PageEnd(s, k, n) THEN PageEnd(s, k, n) - k ELSE 0)
           /\ Len(PageOf(s, k, n)) <= n
           /\ \A i \in 1..(PageEnd(s, k, n) - k) : PageOf(s, k, n)[i] = s[k + i]
<1> DEFINE m == PageEnd(s, k, n)
<1>1. s \in Seq(A) /\ Len(s) \in Nat
    BY SequencesOfDocuments
<1>2. /\ PageOf(s, k, n) = SubSeq(s, k + 1, m)
      /\ m \in Nat /\ m <= k + n /\ m <= Len(s) /\ (m = k + n \/ m = Len(s))
    BY <1>1, LeastOfTwo DEF PageOf, PageEnd
<1> HIDE DEF m
<1>3. \A i \in (k + 1)..m : s[i] \in A
    <2>1. \A i \in (k + 1)..m : i \in 1..Len(s)
        BY <1>1, <1>2
    <2> QED
        BY <1>1, <2>1
<1>4. /\ SubSeq(s, k + 1, m) \in Seq(A)
      /\ Len(SubSeq(s, k + 1, m)) = (IF k + 1 <= m THEN m - (k + 1) + 1 ELSE 0)
      /\ \A i \in 1..(m - (k + 1) + 1) : SubSeq(s, k + 1, m)[i] = s[(k + 1) + i - 1]
    <2>1. k + 1 \in Int /\ m \in Int
        BY <1>1, <1>2
    <2> QED
        BY <1>3, <2>1, SubSeqProperties
<1>5. /\ Len(SubSeq(s, k + 1, m)) = (IF k < m THEN m - k ELSE 0)
      /\ \A i \in 1..(m - k) : SubSeq(s, k + 1, m)[i] = s[k + i]
    BY <1>2, <1>4
<1> QED
    BY <1>1, <1>2, <1>4, <1>5 DEF m

\* Where keys differ a page has the documents of its ranks, each of them once.
LEMMA PageHasItsRanks ==
    ASSUME NEW A \in SUBSET Document, NEW D, \A m \in A : D[m] \in Nat,
           \A m, e \in A : m # e => D[m] # D[e],
           NEW o, NEW s, InOrder(o, s, A, D), NEW k \in Nat, NEW n \in Nat
    PROVE  /\ Pages!IsInjective(PageOf(s, k, n))
           /\ \A m \in Pages!Range(PageOf(s, k, n)) : m \in A
           /\ \A m \in A : m \in Pages!Range(PageOf(s, k, n)) <=>
                  k <= Rank(o, m, A, D) /\ Rank(o, m, A, D) < k + n
           /\ Len(PageOf(s, k, n)) < n => \A m \in A : Rank(o, m, A, D) < k + n
<1> DEFINE q == PageOf(s, k, n)
           b == PageEnd(s, k, n)
<1>1. /\ s \in Seq(A) /\ Len(s) \in Nat
      /\ \A i, j \in 1..Len(s) : s[i] = s[j] => i = j
      /\ \A m \in A : \E i \in 1..Len(s) : s[i] = m
    BY SequencesOfDocuments DEF InOrder
<1>2. \A i \in 1..Len(s) : Rank(o, s[i], A, D) = i - 1
    BY RankIsPlace
<1>3. /\ q \in Seq(A) /\ Len(q) = (IF k < b THEN b - k ELSE 0)
      /\ b \in Nat /\ b <= k + n /\ b <= Len(s) /\ (b = k + n \/ b = Len(s))
      /\ \A i \in 1..(b - k) : q[i] = s[k + i]
    BY PagesAreShort DEF InOrder
<1> HIDE DEF q, b
<1>4. DOMAIN q = 1..(b - k)
    <2>1. DOMAIN q = 1..Len(q)
        BY <1>3
    <2>2. CASE k < b
        BY <1>3, <2>1, <2>2
    <2>3. CASE ~(k < b)
        <3>1. Len(q) = 0 /\ 1..0 = {} /\ 1..(b - k) = {}
            BY <1>3, <2>3
        <3> QED
            BY <2>1, <3>1
    <2> QED
        BY <2>2, <2>3
<1>5. \A i \in DOMAIN q : i \in 1..(b - k) /\ k + i \in 1..Len(s) /\ q[i] = s[k + i]
    <2>1. ASSUME NEW i \in 1..(b - k) PROVE k + i \in 1..Len(s)
        <3>1. Len(s) \in Nat /\ b \in Nat /\ b <= Len(s) /\ k \in Nat
            BY <1>1, <1>3
        <3> QED
            BY ONLY <3>1, i \in 1..(b - k)
    <2> QED
        BY <1>3, <1>4, <2>1
<1>6. Pages!IsInjective(q)
    <2> SUFFICES ASSUME NEW i \in DOMAIN q, NEW j \in DOMAIN q, q[i] = q[j] PROVE i = j
        BY DEF Pages!IsInjective
    <2>1. k + i \in 1..Len(s) /\ k + j \in 1..Len(s) /\ s[k + i] = s[k + j]
        BY <1>5
    <2>2. k + i = k + j
        BY <1>1, <2>1, Zenon
    <2>3. \A x, y \in 1..(b - k) : k + x = k + y => x = y
        BY <1>3
    <2> QED
        BY <1>5, <2>2, <2>3, Zenon
<1>7. ASSUME NEW m \in A
      PROVE  /\ m \in Pages!Range(q) <=> k <= Rank(o, m, A, D) /\ Rank(o, m, A, D) < k + n
             /\ Len(q) < n => Rank(o, m, A, D) < k + n
    <2>1. PICK i \in 1..Len(s) : s[i] = m
        BY <1>1
    <2>2. Rank(o, m, A, D) = i - 1
        BY <1>2, <2>1
    <2>3. m \in Pages!Range(q) <=> k + 1 <= i /\ i <= b
        <3>1. ASSUME NEW j \in DOMAIN q, q[j] = m PROVE k + 1 <= i /\ i <= b
            <4>1. j \in 1..(b - k) /\ k + j \in 1..Len(s) /\ s[k + j] = s[i]
                BY ONLY <1>5, <2>1, <3>1, ZenonT(30)
            <4>2. k + j = i
                BY ONLY <1>1, <2>1, <4>1, ZenonT(30)
            <4> QED
                BY ONLY <1>3, <4>1, <4>2, k \in Nat
        <3>2. ASSUME k + 1 <= i, i <= b PROVE \E j \in DOMAIN q : q[j] = m
            <4>1. i - k \in DOMAIN q /\ k + (i - k) = i
                BY <1>1, <1>3, <1>4, <3>2
            <4> QED
                BY <1>5, <2>1, <4>1
        <3> QED
            BY <3>1, <3>2 DEF Pages!Range
    <2>4. Len(q) < n => i <= k + n
        <3> SUFFICES ASSUME Len(q) < n PROVE Len(s) <= k + n
            BY <1>1
        <3>1. Len(s) \in Nat /\ b \in Nat /\ b <= k + n /\ (b = k + n \/ b = Len(s))
            BY <1>1, <1>3
        <3>2. b # k + n \/ n = 0
            BY ONLY <1>3, Len(q) < n, k \in Nat, n \in Nat
        <3>3. n # 0
            BY <1>3
        <3> QED
            BY ONLY <3>1, <3>2, <3>3, k \in Nat, n \in Nat
    <2>5. i \in Nat /\ b \in Nat /\ b <= k + n /\ i <= Len(s) /\ (b = k + n \/ b = Len(s))
        BY <1>1, <1>3
    <2>6. i <= b <=> i <= k + n
        BY ONLY <1>1, <2>5, k \in Nat, n \in Nat, SMTT(30)
    <2> QED
        BY ONLY <1>1, <2>2, <2>3, <2>4, <2>5, <2>6, k \in Nat, n \in Nat, SMTT(30)
<1>8. \A m \in Pages!Range(q) : m \in A
    BY ONLY <1>3, <1>4, SMTT(30) DEF Pages!Range
<1> QED
    BY <1>6, <1>7, <1>8 DEF q

-----------------------------------------------------------------------------
\* what a client was given: a page that was found is on its way
Found(w, its, sn) == IF w.step = "query" /\ its # Pages!Unread THEN sn \o its ELSE sn

\* the documents before the place its walk has reached
Reached(w, its) == IF w.step = "query" /\ its = Pages!Unread THEN (w.page - 1) * w.size ELSE w.page * w.size

\* What stayed, and is behind that place, was found; a page that is not full is
\* the last one.
NothingMissed(w, its, sn, si, A, D) ==
    /\ \A m \in si : Rank(w.order, m, A, D) < Reached(w, its) => m \in Pages!Range(Found(w, its, sn))
    /\ w.step = "query" /\ its # Pages!Unread /\ Len(its) < w.size
          => si \subseteq Pages!Range(Found(w, its, sn))
    /\ Pages!Range(Found(w, its, sn)) \subseteq A

\* What was found, and is still there, is behind that place.
NothingRepeated(w, its, sn, A, D) ==
    /\ Pages!IsInjective(Found(w, its, sn))
    /\ \A m \in A : m \in Pages!Range(Found(w, its, sn)) => Rank(w.order, m, A, D) < Reached(w, its)

\* What a walk that is over has shown (PagesAddUp).
AddsUp(c, tot, sn, si, E, L) ==
    /\ c \notin L => si \subseteq Pages!Range(sn)
    /\ c \notin E => Pages!IsInjective(sn)
    /\ c \notin E \union L => Len(sn) = tot

\* The walk w of client c, with what it has found and what it was told, the
\* documents that stayed, the clients who saw one come (E) or go (L), and the
\* documents A with their keys D.
WalkOk(c, w, its, tot, sn, si, E, L, A, D) ==
    /\ w.step \in {"new", "400"} =>
          its = Pages!Unread /\ tot = Null /\ sn = <<>> /\ c \notin E \union L
    /\ w.strict => w.order \in Pages!Orders
    /\ w.step \in {"query", "next"} =>
          /\ w.strict /\ c \notin L => NothingMissed(w, its, sn, si, A, D)
          /\ w.strict /\ c \notin E => NothingRepeated(w, its, sn, A, D)
          /\ c \notin E \union L => si = A /\ tot \in {Null, Cardinality(A)}
    /\ w.step = "done" /\ w.strict => AddsUp(c, tot, sn, si, E, L)

WalksOk == \A c \in Client :
    WalkOk(c, client[c], items[c], total[c], seen[c], since[c], entered, left, active, docs)

WalkRecord ==
    [step : {"new", "query", "next", "done", "400"}, order : Pages!Orders \union {Null},
     size : 0..MaxSize, page : Nat \ {0}, strict : BOOLEAN]

CollectionTyped ==
    /\ DOMAIN docs \subseteq Document /\ docs \in [DOMAIN docs -> Key]
    /\ active \subseteq DOMAIN docs
    /\ \A c \in Client : since[c] \subseteq active

ClientsTyped ==
    /\ client \in [Client -> WalkRecord]
    /\ items \in [Client -> Seq(DOMAIN docs) \union {Pages!Unread}]
    /\ \A c \in Client : items[c] = Pages!Unread \/ Len(items[c]) <= client[c].size
    /\ total \in [Client -> Nat \union {Null}]
    /\ seen \in [Client -> Seq(DOMAIN docs)]
    /\ since \in [Client -> SUBSET Document]
    /\ entered \subseteq Client /\ left \subseteq Client

RemoversTyped ==
    /\ remover \in [Remover -> [step : {"new", "delete"}, ids : SUBSET DOMAIN docs, count : Nat]]
    /\ \A r \in Remover : remover[r].step = "new" => remover[r].ids = {} /\ remover[r].count = 0

\* a pair for each document that a deletion has counted
Counted == UNION {{r} \X (1..remover[r].count) : r \in Remover}

CountsAddUp == IsFiniteSet(Counted) /\ Cardinality(Counted) = Cardinality(DOMAIN docs \ active)

PageInv ==
    /\ CollectionTyped /\ ClientsTyped /\ RemoversTyped
    /\ WalksOk
    /\ CountsAddUp

LEMMA ActiveDocuments ==
    ASSUME CollectionTyped
    PROVE  /\ active \in SUBSET Document /\ IsFiniteSet(active) /\ Cardinality(active) \in Nat
           /\ \A m \in active : docs[m] \in Nat
BY PageNames, DocumentsAreFinite DEF CollectionTyped

\* Ranks are numbers, and fewer documents make them no larger.
LEMMA RanksOfFewer ==
    ASSUME NEW A \in SUBSET Document, NEW B \in SUBSET A, NEW D, NEW C, NEW o, NEW m,
           \A e \in B : D[e] = C[e], D[m] = C[m]
    PROVE  Rank(o, m, A, D) \in Nat /\ Rank(o, m, B, C) \in Nat /\ Rank(o, m, B, C) <= Rank(o, m, A, D)
<1>1. Ahead(o, m, B, C) \subseteq Ahead(o, m, A, D) /\ Ahead(o, m, A, D) \in SUBSET Document
    BY DEF Ahead
<1> QED
    BY <1>1, DocumentsAreFinite DEF Rank

LEMMA RanksAreNumbers ==
    ASSUME NEW A \in SUBSET Document, NEW D, NEW o, NEW m
    PROVE  Rank(o, m, A, D) \in Nat
BY RanksOfFewer

\* Pages follow one another.
LEMMA PagesFollow ==
    ASSUME NEW p \in Nat \ {0}, NEW n \in Nat
    PROVE  (p - 1) * n \in Nat /\ p * n = (p - 1) * n + n /\ ((p + 1) - 1) * n = p * n
OBVIOUS

\* The ranges of sequences put together.
LEMMA RangesOfPages ==
    ASSUME NEW S, NEW s \in Seq(S), NEW q \in Seq(S)
    PROVE  /\ s \o q \in Seq(S)
           /\ Pages!Range(s \o q) = Pages!Range(s) \union Pages!Range(q)
           /\ Pages!IsInjective(s) /\ Pages!IsInjective(q)
                  /\ Pages!Range(s) \intersect Pages!Range(q) = {} => Pages!IsInjective(s \o q)
<1>1. /\ s \o q \in Seq(S) /\ Len(s \o q) = Len(s) + Len(q)
      /\ \A i \in 1 .. Len(s) + Len(q) : (s \o q)[i] = IF i <= Len(s) THEN s[i] ELSE q[i - Len(s)]
    BY ConcatProperties
<1> DEFINE t == s \o q
<1>2. /\ DOMAIN s = 1..Len(s) /\ DOMAIN q = 1..Len(q) /\ DOMAIN t = 1..(Len(s) + Len(q))
      /\ Len(s) \in Nat /\ Len(q) \in Nat
    BY <1>1
<1>3. \A i \in DOMAIN s : i \in DOMAIN t /\ t[i] = s[i]
    BY <1>1, <1>2
<1>4. \A i \in DOMAIN q : Len(s) + i \in DOMAIN t /\ t[Len(s) + i] = q[i]
    BY <1>1, <1>2
<1>5. \A i \in DOMAIN t :
          \/ i \in DOMAIN s /\ t[i] = s[i]
          \/ i - Len(s) \in DOMAIN q /\ t[i] = q[i - Len(s)]
    BY <1>1, <1>2
<1>6. \A i, j \in DOMAIN t : i - Len(s) = j - Len(s) => i = j
    BY <1>2
<1>7. t \in Seq(S)
    BY <1>1
<1> HIDE DEF t
<1>8. Pages!Range(t) = Pages!Range(s) \union Pages!Range(q)
    BY <1>3, <1>4, <1>5 DEF Pages!Range
<1>9. ASSUME Pages!IsInjective(s), Pages!IsInjective(q), Pages!Range(s) \intersect Pages!Range(q) = {}
      PROVE  Pages!IsInjective(t)
    <2> SUFFICES ASSUME NEW i \in DOMAIN t, NEW j \in DOMAIN t, t[i] = t[j] PROVE i = j
        BY DEF Pages!IsInjective
    <2>1. \A x \in DOMAIN s, y \in DOMAIN q : s[x] # q[y]
        BY <1>9 DEF Pages!Range
    <2>2. \/ i \in DOMAIN s /\ j \in DOMAIN s /\ s[i] = s[j]
          \/ /\ i - Len(s) \in DOMAIN q /\ j - Len(s) \in DOMAIN q
             /\ q[i - Len(s)] = q[j - Len(s)]
        BY <1>5, <2>1, Zenon
    <2> QED
        BY <1>6, <1>9, <2>2, Zenon DEF Pages!IsInjective
<1> QED
    BY <1>7, <1>8, <1>9 DEF t

LEMMA PagesInitially == Pages!Init => PageInv
<1> SUFFICES ASSUME Pages!Init PROVE PageInv
    OBVIOUS
<1>1. PICK S \in SUBSET Document : docs \in [S -> Key]
    BY DEF Pages!Init
<1>2. CollectionTyped
    BY <1>1 DEF Pages!Init, CollectionTyped
<1>3. ClientsTyped
    <2>1. 0 \in 0..MaxSize
        BY PageNames
    <2>2. \A X : <<>> \in Seq(X)
        OBVIOUS
    <2> QED
        BY <2>1, <2>2 DEF Pages!Init, ClientsTyped, WalkRecord
<1>4. RemoversTyped
    BY DEF Pages!Init, RemoversTyped
<1>5. WalksOk
    BY DEF Pages!Init, WalksOk, WalkOk
<1>6. CountsAddUp
    <2>1. Counted = {}
        <3>1. \A r \in Remover : remover[r].count = 0
            BY DEF Pages!Init
        <3>2. 1..0 = {}
            OBVIOUS
        <3> QED
            BY <3>1, <3>2 DEF Counted
    <2>2. DOMAIN docs \ active = {}
        BY DEF Pages!Init
    <2> QED
        BY <2>1, <2>2, FS_EmptySet DEF CountsAddUp
<1> QED
    BY <1>2, <1>3, <1>4, <1>5, <1>6 DEF PageInv

\* A change of one client leaves the others' walks as they are.
LEMMA OtherWalksStay ==
    ASSUME PageInv, NEW c \in Client,
           UNCHANGED <<docs, active, entered, left, remover>>,
           \A k \in Client \ {c} : /\ client'[k] = client[k] /\ items'[k] = items[k]
                                   /\ total'[k] = total[k] /\ seen'[k] = seen[k] /\ since'[k] = since[k],
           client' \in [Client -> WalkRecord],
           items' \in [Client -> Seq(DOMAIN docs) \union {Pages!Unread}],
           items'[c] = Pages!Unread \/ Len(items'[c]) <= client'[c].size,
           total' \in [Client -> Nat \union {Null}],
           seen' \in [Client -> Seq(DOMAIN docs)],
           since' \in [Client -> SUBSET active],
           WalkOk(c, client'[c], items'[c], total'[c], seen'[c], since'[c], entered, left, active, docs)
    PROVE  PageInv'
<1>1. CollectionTyped'
    BY DEF PageInv, CollectionTyped
<1>2. ClientsTyped'
    <2>1. since' \in [Client -> SUBSET Document]
        BY DEF PageInv, CollectionTyped
    <2>2. \A k \in Client : items'[k] = Pages!Unread \/ Len(items'[k]) <= client'[k].size
        BY DEF PageInv, ClientsTyped
    <2> QED
        BY <2>1, <2>2 DEF PageInv, ClientsTyped
<1>3. RemoversTyped' /\ CountsAddUp'
    BY DEF PageInv, RemoversTyped, CountsAddUp, Counted
<1>4. WalksOk'
    BY DEF PageInv, WalksOk
<1> QED
    BY <1>1, <1>2, <1>3, <1>4 DEF PageInv

\* What the parts of the invariant say of one client.
LEMMA ClientTyped ==
    ASSUME PageInv, NEW c \in Client
    PROVE  /\ client[c] \in WalkRecord /\ client[c].size \in Nat /\ client[c].page \in Nat \ {0}
           /\ items[c] = Pages!Unread \/ (items[c] \in Seq(DOMAIN docs) /\ Len(items[c]) <= client[c].size)
           /\ total[c] \in Nat \union {Null} /\ seen[c] \in Seq(DOMAIN docs)
           /\ since[c] \subseteq active
           /\ WalkOk(c, client[c], items[c], total[c], seen[c], since[c], entered, left, active, docs)
BY PageNames DEF PageInv, CollectionTyped, ClientsTyped, WalksOk, WalkRecord

LEMMA NothingFoundYet ==
    Pages!Range(<<>>) = {} /\ Pages!IsInjective(<<>>)
BY DEF Pages!Range, Pages!IsInjective

LEMMA AskKeeps ==
    ASSUME PageInv, NEW c \in Client, Pages!Ask(c)
    PROVE  PageInv'
<1>1. UNCHANGED <<docs, active, items, total, seen, entered, left, remover>>
    BY DEF Pages!Ask
<1>2. client[c].step = "new" /\ items[c] = Pages!Unread /\ total[c] = Null /\ seen[c] = <<>> /\ c \notin entered \union left
    <2>1. client[c].step = "new"
        BY DEF Pages!Ask
    <2>2. WalkOk(c, client[c], items[c], total[c], seen[c], since[c], entered, left, active, docs)
        BY ClientTyped
    <2> QED
        BY ONLY <2>1, <2>2, SMTT(30) DEF WalkOk
<1>3. CollectionTyped /\ ClientsTyped
    BY DEF PageInv
<1>4. ASSUME client' = [client EXCEPT ![c].step = "400"], since' = since
      PROVE  PageInv'
    <2>1. client' \in [Client -> WalkRecord] /\ \A k \in Client \ {c} : client'[k] = client[k]
        BY <1>3, <1>4, ZenonT(30) DEF ClientsTyped, WalkRecord
    <2>2. client'[c].step = "400" /\ client'[c].strict = client[c].strict /\ client'[c].order = client[c].order
        BY <1>3, <1>4 DEF ClientsTyped, WalkRecord
    <2>3. WalkOk(c, client'[c], items'[c], total'[c], seen'[c], since'[c], entered, left, active, docs)
        BY <1>1, <1>2, <2>2, ClientTyped DEF WalkOk
    <2>4. since' \in [Client -> SUBSET active]
        BY <1>3, <1>4 DEF ClientsTyped, CollectionTyped
    <2>5. items'[c] = Pages!Unread
        BY <1>1, <1>2
    <2> QED
        BY <1>1, <1>3, <1>4, <2>1, <2>3, <2>4, <2>5, OtherWalksStay DEF ClientsTyped
<1>5. ASSUME NEW o \in Pages!Orders \union {Null}, NEW n \in 1..MaxSize,
             client' = [client EXCEPT ![c] = [step |-> "query", order |-> o, size |-> n, page |-> 1, strict |-> o # Null]],
             since' = [since EXCEPT ![c] = active]
      PROVE  PageInv'
    <2> DEFINE w == [step |-> "query", order |-> o, size |-> n, page |-> 1, strict |-> o # Null]
    <2>1. w \in WalkRecord
        BY PageNames DEF WalkRecord
    <2>2. w.step = "query" /\ w.order = o /\ w.size = n /\ w.page = 1 /\ (w.strict => o \in Pages!Orders)
        OBVIOUS
    <2> HIDE DEF w
    <2>3. client' \in [Client -> WalkRecord] /\ client'[c] = w /\ \A k \in Client \ {c} : client'[k] = client[k]
        BY <1>3, <1>5, <2>1 DEF ClientsTyped, w
    <2>4. since' \in [Client -> SUBSET active] /\ since'[c] = active /\ \A k \in Client \ {c} : since'[k] = since[k]
        BY <1>3, <1>5 DEF ClientsTyped, CollectionTyped
    <2>5. Found(w, items[c], seen[c]) = <<>> /\ Reached(w, items[c]) = 0
        <3>1. (1 - 1) * n = 0
            BY PageNames
        <3> QED
            BY <1>2, <2>2, <3>1 DEF Found, Reached
    <2>6. \A m \in active : Rank(o, m, active, docs) \in Nat
        BY <1>3, ActiveDocuments, RanksAreNumbers
    <2>7. /\ NothingMissed(w, items[c], seen[c], active, active, docs)
          /\ NothingRepeated(w, items[c], seen[c], active, docs)
        BY <1>2, <2>2, <2>5, <2>6, NothingFoundYet DEF NothingMissed, NothingRepeated
    <2>8. WalkOk(c, w, items[c], total[c], seen[c], active, entered, left, active, docs)
        BY <1>2, <2>2, <2>7 DEF WalkOk
    <2> QED
        BY <1>1, <1>2, <1>3, <2>3, <2>4, <2>8, OtherWalksStay DEF ClientsTyped
<1>6. PICK t \in Pages!OrderTexts \union {Null}, n \in (0..(MaxSize + 1)) \union {Null} :
          IF Pages!ParseOrderBy(t) = "400" \/ Pages!SizeOf(n) \notin 1..MaxSize
             THEN client' = [client EXCEPT ![c].step = "400"] /\ UNCHANGED since
             ELSE /\ client' = [client EXCEPT ![c] =
                        [step |-> "query", order |-> Pages!ParseOrderBy(t), size |-> Pages!SizeOf(n), page |-> 1,
                         strict |-> Pages!ParseOrderBy(t) # Null]]
                  /\ since' = [since EXCEPT ![c] = active]
    BY DEF Pages!Ask
<1>7. Pages!ParseOrderBy(t) \in Pages!Orders \union {Null, "400"}
    BY DEF Pages!ParseOrderBy, Pages!Orders
<1> QED
    BY <1>4, <1>5, <1>6, <1>7

LEMMA CountDocumentsKeeps ==
    ASSUME PageInv, NEW c \in Client, Pages!CountDocuments(c)
    PROVE  PageInv'
<1>1. /\ UNCHANGED <<docs, active, client, items, seen, since, entered, left, remover>>
      /\ client[c].step = "query" /\ total' = [total EXCEPT ![c] = Cardinality(active)]
    BY PagesCount DEF Pages!CountDocuments
<1>2. CollectionTyped /\ ClientsTyped
    BY DEF PageInv
<1>3. /\ total' \in [Client -> Nat \union {Null}] /\ total'[c] = Cardinality(active)
      /\ \A k \in Client \ {c} : total'[k] = total[k]
    BY <1>1, <1>2, ActiveDocuments DEF ClientsTyped
<1>4. WalkOk(c, client[c], items[c], total'[c], seen[c], since[c], entered, left, active, docs)
    BY <1>1, <1>3, ClientTyped DEF WalkOk
<1>5. since \in [Client -> SUBSET active]
    BY <1>2 DEF ClientsTyped, CollectionTyped
<1> QED
    BY <1>1, <1>2, <1>3, <1>4, <1>5, OtherWalksStay DEF ClientsTyped

LEMMA NextPageKeeps ==
    ASSUME PageInv, NEW c \in Client, Pages!NextPage(c)
    PROVE  PageInv'
<1>1. /\ UNCHANGED <<docs, active, seen, since, entered, left, remover>>
      /\ client[c].step = "next"
      /\ client' = [client EXCEPT ![c].step = "query", ![c].page = @ + 1]
      /\ items' = [items EXCEPT ![c] = Pages!Unread] /\ total' = [total EXCEPT ![c] = Null]
    BY DEF Pages!NextPage
<1>2. CollectionTyped /\ ClientsTyped
    BY DEF PageInv
<1> DEFINE v == client[c]
           w == client'[c]
<1>3. /\ client' \in [Client -> WalkRecord] /\ \A k \in Client \ {c} : client'[k] = client[k]
      /\ w.step = "query" /\ w.page = v.page + 1 /\ w.size = v.size /\ w.order = v.order /\ w.strict = v.strict
    <2>1. v \in WalkRecord /\ w = [v EXCEPT !.step = "query", !.page = @ + 1]
        BY <1>1, <1>2 DEF ClientsTyped
    <2>2. v.page + 1 \in Nat \ {0}
        BY ClientTyped
    <2>3. /\ w \in WalkRecord
          /\ w.step = "query" /\ w.page = v.page + 1 /\ w.size = v.size /\ w.order = v.order /\ w.strict = v.strict
        <3> HIDE DEF v, w
        <3> QED
            BY <2>1, <2>2 DEF WalkRecord
    <2> QED
        BY <1>1, <1>2, <2>3 DEF ClientsTyped
<1>4. /\ items' \in [Client -> Seq(DOMAIN docs) \union {Pages!Unread}] /\ items'[c] = Pages!Unread
      /\ \A k \in Client \ {c} : items'[k] = items[k]
    BY <1>1, <1>2 DEF ClientsTyped
<1>5. /\ total' \in [Client -> Nat \union {Null}] /\ total'[c] = Null
      /\ \A k \in Client \ {c} : total'[k] = total[k]
    BY <1>1, <1>2 DEF ClientsTyped
<1>6. v.step = "next" /\ WalkOk(c, v, items[c], total[c], seen[c], since[c], entered, left, active, docs)
    BY <1>1, ClientTyped
<1>7. v.page \in Nat \ {0} /\ v.size \in Nat
    BY ClientTyped
<1> HIDE DEF v, w
<1>8. Found(w, items'[c], seen[c]) = Found(v, items[c], seen[c]) /\ Reached(w, items'[c]) = Reached(v, items[c])
    BY <1>3, <1>4, <1>6, <1>7, PagesFollow DEF Found, Reached
<1>9. /\ w.strict /\ c \notin left => NothingMissed(w, items'[c], seen[c], since[c], active, docs)
      /\ w.strict /\ c \notin entered => NothingRepeated(w, items'[c], seen[c], active, docs)
    BY <1>3, <1>4, <1>6, <1>8 DEF WalkOk, NothingMissed, NothingRepeated
<1>10. WalkOk(c, w, items'[c], total'[c], seen[c], since[c], entered, left, active, docs)
    BY <1>3, <1>5, <1>6, <1>9 DEF WalkOk
<1>11. since \in [Client -> SUBSET active]
    BY <1>2 DEF ClientsTyped, CollectionTyped
<1> QED
    BY <1>1, <1>2, <1>3, <1>4, <1>5, <1>10, <1>11, OtherWalksStay DEF ClientsTyped, w

LEMMA ReceiveKeeps ==
    ASSUME PageInv, NEW c \in Client, Pages!Receive(c)
    PROVE  PageInv'
<1> DEFINE v == client[c]
           w == client'[c]
           goal == IF Len(items[c]) < client[c].size THEN "done" ELSE "next"
<1>1. /\ UNCHANGED <<docs, active, items, total, since, entered, left, remover>>
      /\ v.step = "query" /\ items[c] # Pages!Unread /\ total[c] # Null
      /\ seen' = [seen EXCEPT ![c] = @ \o items[c]]
      /\ client' = [client EXCEPT ![c].step = goal]
    BY DEF Pages!Receive
<1>2. CollectionTyped /\ ClientsTyped
    BY DEF PageInv
<1>3. /\ client' \in [Client -> WalkRecord] /\ \A k \in Client \ {c} : client'[k] = client[k]
      /\ w.step = goal /\ w.page = v.page /\ w.size = v.size /\ w.order = v.order /\ w.strict = v.strict
    BY <1>1, <1>2 DEF ClientsTyped, WalkRecord
<1>4. /\ items[c] \in Seq(DOMAIN docs) /\ Len(items[c]) <= v.size /\ seen[c] \in Seq(DOMAIN docs)
      /\ v.page \in Nat \ {0} /\ v.size \in Nat /\ total[c] \in Nat
      /\ WalkOk(c, v, items[c], total[c], seen[c], since[c], entered, left, active, docs)
    BY <1>1, ClientTyped
<1>5. /\ seen' \in [Client -> Seq(DOMAIN docs)] /\ seen'[c] = seen[c] \o items[c]
      /\ \A k \in Client \ {c} : seen'[k] = seen[k]
    BY <1>1, <1>2, <1>4, RangesOfPages DEF ClientsTyped
<1>6. Found(v, items[c], seen[c]) = seen'[c]
    BY <1>1, <1>5 DEF Found
<1>7. WalkOk(c, w, items[c], total[c], seen'[c], since[c], entered, left, active, docs)
    <2>1. CASE goal = "next"
        <3>1. Found(w, items[c], seen'[c]) = seen'[c] /\ Reached(w, items[c]) = Reached(v, items[c])
            BY <1>1, <1>3, <2>1 DEF Found, Reached
        <3>2. /\ w.strict /\ c \notin left => NothingMissed(w, items[c], seen'[c], since[c], active, docs)
              /\ w.strict /\ c \notin entered => NothingRepeated(w, items[c], seen'[c], active, docs)
            BY <1>1, <1>3, <1>4, <1>6, <2>1, <3>1 DEF WalkOk, NothingMissed, NothingRepeated
        <3> QED
            BY <1>1, <1>3, <1>4, <2>1, <3>2 DEF WalkOk
    <2>2. CASE goal = "done"
        <3>1. Len(items[c]) < v.size
            BY <2>2
        <3> SUFFICES ASSUME w.strict PROVE AddsUp(c, total[c], seen'[c], since[c], entered, left)
            BY <1>3, <1>4, <2>2 DEF WalkOk
        <3>2. c \notin left => since[c] \subseteq Pages!Range(seen'[c]) /\ Pages!Range(seen'[c]) \subseteq active
            BY <1>1, <1>3, <1>4, <1>6, <3>1 DEF WalkOk, NothingMissed
        <3>3. c \notin entered => Pages!IsInjective(seen'[c])
            BY <1>1, <1>3, <1>4, <1>6 DEF WalkOk, NothingRepeated
        <3>4. c \notin entered \union left => since[c] = active /\ total[c] = Cardinality(active)
            BY <1>1, <1>4 DEF WalkOk
        <3>5. c \notin entered \union left => Len(seen'[c]) = total[c]
            <4> SUFFICES ASSUME c \notin entered \union left, NEW sn, sn = seen'[c] PROVE Len(sn) = Cardinality(active)
                BY <3>4
            <4>1. Pages!Range(sn) = active /\ Pages!IsInjective(sn)
                BY <3>2, <3>3, <3>4
            <4>2. Len(sn) \in Nat /\ DOMAIN sn = 1..Len(sn) /\ sn \in [1..Len(sn) -> DOMAIN docs]
                <5>1. sn \in Seq(DOMAIN docs)
                    BY <1>5
                <5> QED
                    BY ONLY <5>1
            <4>3. sn \in Bijection(1..Len(sn), active)
                BY <4>1, <4>2 DEF Pages!Range, Pages!IsInjective, Bijection, Injection, Surjection, IsInjective
            <4>4. IsFiniteSet(1..Len(sn)) /\ Cardinality(1..Len(sn)) = Len(sn)
                <5>1. 1 \in Int /\ Len(sn) \in Int /\ (IF 1 > Len(sn) THEN 0 ELSE Len(sn) - 1 + 1) = Len(sn)
                    BY <4>2
                <5> QED
                    BY ONLY <5>1, FS_Interval
            <4>5. ExistsBijection(1..Len(sn), active)
                BY <4>3 DEF ExistsBijection
            <4> QED
                BY <4>4, <4>5, FS_Bijection
        <3> QED
            BY <3>2, <3>3, <3>5 DEF AddsUp
    <2> QED
        BY <2>1, <2>2
<1>8. since \in [Client -> SUBSET active]
    BY <1>2 DEF ClientsTyped, CollectionTyped
<1> QED
    BY <1>1, <1>2, <1>3, <1>4, <1>5, <1>7, <1>8, OtherWalksStay DEF ClientsTyped

\* The database sorts by the field that is asked for.
LEMMA SortedIsInOrder ==
    ASSUME CollectionTyped, NEW o \in Pages!Orders, NEW s \in Pages!Sorted(o)
    PROVE  InOrder(o, s, active, docs)
<1>1. s \in Pages!SetToSeqs(active)
    BY DEF Pages!Sorted
<1>2. \A i \in DOMAIN s : docs[s[i]] \in Nat
    BY <1>1, ActiveDocuments, SequencesOfDocuments
<1>3. \A i, j \in DOMAIN s : i < j =>
          (o = "asc" /\ docs[s[i]] <= docs[s[j]]) \/ (o = "desc" /\ docs[s[i]] >= docs[s[j]])
    BY DEF Pages!Sorted, Pages!Orders
<1> QED
    BY <1>1, <1>2, <1>3 DEF InOrder, Precedes

LEMMA FindItemsKeeps ==
    ASSUME PageInv, NEW c \in Client, Pages!FindItems(c)
    PROVE  PageInv'
<1> DEFINE v == client[c]
           w == client'[c]
           k == (v.page - 1) * v.size
<1>1. /\ UNCHANGED <<docs, active, total, seen, since, entered, left, remover>>
      /\ v.step = "query" /\ items[c] = Pages!Unread
      /\ client' = [client EXCEPT ![c].strict = @ /\ Pages!Distinct]
    BY DEF Pages!FindItems
<1>2. PICK s \in Pages!Sorted(v.order) : items' = [items EXCEPT ![c] = PageOf(s, k, v.size)]
    BY DEF Pages!FindItems, Pages!Skip, PageOf
<1> DEFINE q == PageOf(s, k, v.size)
<1>3. CollectionTyped /\ ClientsTyped /\ active \in SUBSET Document /\ active \subseteq DOMAIN docs
    BY ActiveDocuments DEF PageInv, CollectionTyped
<1>4. /\ v \in WalkRecord /\ v.page \in Nat \ {0} /\ v.size \in Nat
      /\ k \in Nat /\ v.page * v.size = k + v.size
      /\ seen[c] \in Seq(DOMAIN docs) /\ since[c] \subseteq active
      /\ WalkOk(c, v, items[c], total[c], seen[c], since[c], entered, left, active, docs)
    BY ClientTyped, PagesFollow
<1>5. /\ client' \in [Client -> WalkRecord] /\ \A j \in Client \ {c} : client'[j] = client[j]
      /\ w.step = "query" /\ w.page = v.page /\ w.size = v.size /\ w.order = v.order
      /\ w.strict = (v.strict /\ Pages!Distinct)
    <2>1. w = [v EXCEPT !.strict = @ /\ Pages!Distinct]
        BY <1>1, <1>3 DEF ClientsTyped
    <2>2. (v.strict /\ Pages!Distinct) \in BOOLEAN
        BY <1>4 DEF WalkRecord
    <2>3. /\ w \in WalkRecord /\ w.step = "query" /\ w.page = v.page /\ w.size = v.size /\ w.order = v.order
          /\ w.strict = (v.strict /\ Pages!Distinct)
        <3> HIDE DEF v, w
        <3> QED
            BY <1>1, <1>4, <2>1, <2>2 DEF WalkRecord
    <2> QED
        BY <1>1, <1>3, <2>3 DEF ClientsTyped
<1>6. q \in Seq(active) /\ Len(q) <= v.size
    <2>1. s \in Pages!SetToSeqs(active)
        BY <1>2 DEF Pages!Sorted
    <2> HIDE DEF v, k
    <2> QED
        BY <1>3, <1>4, <2>1, PagesAreShort
<1> HIDE DEF v, w, k, q
<1>7. q # Pages!Unread
    <2> SUFFICES ASSUME q = <<"unread">> PROVE FALSE
        BY DEF Pages!Unread
    <2>1. 1 \in DOMAIN q /\ q[1] = "unread"
        OBVIOUS
    <2>2. "unread" \in active
        BY <1>6, <2>1
    <2> QED
        BY <1>3, <2>2, PageNames
<1>8. /\ items' \in [Client -> Seq(DOMAIN docs) \union {Pages!Unread}] /\ items'[c] = q
      /\ \A j \in Client \ {c} : items'[j] = items[j]
    <2>1. q \in Seq(DOMAIN docs)
        BY <1>3, <1>6
    <2> QED
        BY <1>2, <1>3, <2>1 DEF ClientsTyped, q
<1>9. ASSUME w.strict
      PROVE  /\ Pages!IsInjective(q) /\ Pages!Range(q) \subseteq active
             /\ \A m \in active : m \in Pages!Range(q) <=>
                    k <= Rank(v.order, m, active, docs) /\ Rank(v.order, m, active, docs) < k + v.size
             /\ Len(q) < v.size => \A m \in active : Rank(v.order, m, active, docs) < k + v.size
    <2>1. v.strict /\ \A m, e \in active : m # e => docs[m] # docs[e]
        BY <1>5, <1>9 DEF Pages!Distinct
    <2>2. v.order \in Pages!Orders
        BY <1>4, <2>1 DEF WalkOk
    <2>3. InOrder(v.order, s, active, docs)
        BY <1>2, <1>3, <2>2, SortedIsInOrder DEF v
    <2>4. \A m \in active : docs[m] \in Nat
        BY <1>3, ActiveDocuments
    <2> QED
        BY <1>3, <1>4, <2>1, <2>3, <2>4, PageHasItsRanks DEF q
<1>10. /\ Found(v, items[c], seen[c]) = seen[c] /\ Reached(v, items[c]) = k
       /\ Found(w, q, seen[c]) = seen[c] \o q /\ Reached(w, q) = k + v.size
    <2>1. Reached(v, items[c]) = k
        BY <1>1 DEF Reached, k
    <2> QED
        BY <1>1, <1>4, <1>5, <1>7, <2>1 DEF Found, Reached
<1>11. /\ seen[c] \o q \in Seq(DOMAIN docs)
       /\ Pages!Range(seen[c] \o q) = Pages!Range(seen[c]) \union Pages!Range(q)
       /\ Pages!IsInjective(seen[c]) /\ Pages!IsInjective(q)
              /\ Pages!Range(seen[c]) \intersect Pages!Range(q) = {} => Pages!IsInjective(seen[c] \o q)
    <2>1. q \in Seq(DOMAIN docs)
        BY <1>3, <1>6
    <2> QED
        BY <1>4, <2>1, RangesOfPages
<1>12. \A m : Rank(v.order, m, active, docs) \in Nat
    BY <1>3, RanksAreNumbers
<1>13. ASSUME w.strict, c \notin left PROVE NothingMissed(w, q, seen[c], since[c], active, docs)
    <2>1. v.strict /\ NothingMissed(v, items[c], seen[c], since[c], active, docs)
        BY <1>1, <1>4, <1>5, <1>13 DEF WalkOk
    <2>2. /\ \A m \in since[c] : Rank(v.order, m, active, docs) < k => m \in Pages!Range(seen[c])
          /\ Pages!Range(seen[c]) \subseteq active
        BY <1>10, <2>1 DEF NothingMissed
    <2>3. ASSUME NEW m \in since[c], Rank(v.order, m, active, docs) < k + v.size
          PROVE  m \in Pages!Range(seen[c] \o q)
        <3>1. m \in active
            BY <1>4
        <3>2. Rank(v.order, m, active, docs) < k \/ k <= Rank(v.order, m, active, docs)
            BY <1>4, <1>12
        <3> QED
            BY <1>9, <1>11, <1>13, <2>2, <2>3, <3>1, <3>2
    <2>4. Len(q) < v.size => since[c] \subseteq Pages!Range(seen[c] \o q)
        BY <1>4, <1>9, <1>13, <2>3
    <2>5. Pages!Range(seen[c] \o q) \subseteq active
        BY <1>9, <1>11, <1>13, <2>2
    <2> QED
        BY <1>5, <1>10, <2>3, <2>4, <2>5 DEF NothingMissed
<1>14. ASSUME w.strict, c \notin entered PROVE NothingRepeated(w, q, seen[c], active, docs)
    <2>1. v.strict /\ NothingRepeated(v, items[c], seen[c], active, docs)
        BY <1>1, <1>4, <1>5, <1>14 DEF WalkOk
    <2>2. /\ Pages!IsInjective(seen[c])
          /\ \A m \in active : m \in Pages!Range(seen[c]) => Rank(v.order, m, active, docs) < k
        BY <1>10, <2>1 DEF NothingRepeated
    <2>3. Pages!Range(seen[c]) \intersect Pages!Range(q) = {}
        <3> SUFFICES ASSUME NEW m \in active, m \in Pages!Range(seen[c]), m \in Pages!Range(q) PROVE FALSE
            BY <1>9, <1>14
        <3>1. Rank(v.order, m, active, docs) < k /\ k <= Rank(v.order, m, active, docs)
            BY <1>9, <1>14, <2>2
        <3> QED
            BY <1>4, <1>12, <3>1
    <2>4. Pages!IsInjective(seen[c] \o q)
        BY <1>9, <1>11, <1>14, <2>2, <2>3
    <2>5. ASSUME NEW m \in active, m \in Pages!Range(seen[c] \o q)
          PROVE  Rank(v.order, m, active, docs) < k + v.size
        <3>1. Rank(v.order, m, active, docs) < k \/ Rank(v.order, m, active, docs) < k + v.size
            BY <1>9, <1>11, <1>14, <2>2, <2>5
        <3> QED
            BY <1>4, <1>12, <3>1
    <2> QED
        BY <1>5, <1>10, <2>4, <2>5 DEF NothingRepeated
<1>15. WalkOk(c, w, q, total[c], seen[c], since[c], entered, left, active, docs)
    BY <1>1, <1>4, <1>5, <1>13, <1>14 DEF WalkOk
<1>16. since \in [Client -> SUBSET active]
    BY <1>3 DEF ClientsTyped, CollectionTyped
<1> QED
    BY <1>1, <1>3, <1>5, <1>6, <1>8, <1>15, <1>16, OtherWalksStay DEF ClientsTyped, w

-----------------------------------------------------------------------------
\* Who is walking.
LEMMA WalkingClients ==
    ASSUME PageInv, NEW c \in Client
    PROVE  c \in Pages!Walking <=> client[c].step \in {"query", "next"}
BY DEF Pages!Walking

LEMMA SequencesOfMore ==
    ASSUME NEW S, NEW T, S \subseteq T
    PROVE  Seq(S) \subseteq Seq(T)
OBVIOUS

LEMMA InsertOneKeeps ==
    ASSUME PageInv, NEW d \in Document, Pages!InsertOne(d)
    PROVE  PageInv'
<1>1. /\ d \notin DOMAIN docs /\ active' = active \union {d} /\ entered' = entered \union Pages!Walking
      /\ UNCHANGED <<client, items, total, seen, since, left, remover>>
    BY DEF Pages!InsertOne, Pages!walks
<1>2. PICK k \in Key : docs' = [e \in DOMAIN docs \union {d} |-> IF e = d THEN k ELSE docs[e]]
    BY DEF Pages!InsertOne
<1>3. DOMAIN docs' = DOMAIN docs \union {d} /\ \A e \in DOMAIN docs : docs'[e] = docs[e]
    BY <1>1, <1>2
<1>4. CollectionTyped'
    <2>1. docs' \in [DOMAIN docs' -> Key]
        BY <1>2, <1>3 DEF PageInv, CollectionTyped
    <2> QED
        BY <1>1, <1>3, <2>1 DEF PageInv, CollectionTyped
<1>5. ClientsTyped'
    <2>1. Seq(DOMAIN docs) \subseteq Seq(DOMAIN docs')
        BY <1>3, SequencesOfMore
    <2>2. Pages!Walking \subseteq Client
        BY DEF Pages!Walking
    <2>3. /\ items \in [Client -> Seq(DOMAIN docs') \union {Pages!Unread}]
          /\ seen \in [Client -> Seq(DOMAIN docs')]
        BY <2>1 DEF PageInv, ClientsTyped
    <2> QED
        BY <1>1, <2>2, <2>3 DEF PageInv, ClientsTyped
<1>6. RemoversTyped'
    <2>1. SUBSET DOMAIN docs \subseteq SUBSET DOMAIN docs'
        BY <1>3
    <2>2. remover \in [Remover -> [step : {"new", "delete"}, ids : SUBSET DOMAIN docs', count : Nat]]
        BY <2>1 DEF PageInv, RemoversTyped
    <2> QED
        BY <1>1, <2>2 DEF PageInv, RemoversTyped
<1>7. CountsAddUp'
    <2>1. DOMAIN docs' \ active' = DOMAIN docs \ active
        BY <1>1, <1>3
    <2> QED
        BY <1>1, <2>1 DEF PageInv, CountsAddUp, Counted
<1>8. ASSUME NEW c \in Client
      PROVE  WalkOk(c, client[c], items[c], total[c], seen[c], since[c], entered', left, active', docs')
    <2> DEFINE w == client[c]
    <2>1. WalkOk(c, w, items[c], total[c], seen[c], since[c], entered, left, active, docs) /\ since[c] \subseteq active
        BY ClientTyped
    <2>2. c \in entered' <=> c \in entered \/ w.step \in {"query", "next"}
        BY <1>1, WalkingClients
    <2> HIDE DEF w
    <2>3. ASSUME w.step \in {"query", "next"}, NothingMissed(w, items[c], seen[c], since[c], active, docs)
          PROVE  NothingMissed(w, items[c], seen[c], since[c], active', docs')
        <3>1. ASSUME NEW m \in since[c], Rank(w.order, m, active', docs') < Reached(w, items[c])
              PROVE  Rank(w.order, m, active, docs) < Reached(w, items[c])
            <4>1. active' \in SUBSET Document /\ active \in SUBSET active' /\ m \in DOMAIN docs
                  /\ active \subseteq DOMAIN docs
                BY <1>1, <2>1 DEF PageInv, CollectionTyped
            <4>2. /\ Rank(w.order, m, active, docs) \in Nat /\ Rank(w.order, m, active', docs') \in Nat
                  /\ Rank(w.order, m, active, docs) <= Rank(w.order, m, active', docs')
                BY <1>3, <4>1, RanksOfFewer
            <4>3. Reached(w, items[c]) \in Nat
                <5>1. w.page \in Nat \ {0} /\ w.size \in Nat
                    BY ClientTyped DEF w
                <5>2. (w.page - 1) * w.size \in Nat /\ w.page * w.size \in Nat
                    BY <5>1, PagesFollow
                <5> QED
                    BY <5>2 DEF Reached
            <4> QED
                BY <3>1, <4>2, <4>3
        <3>2. Pages!Range(Found(w, items[c], seen[c])) \subseteq active'
            BY <1>1, <2>3 DEF NothingMissed
        <3> QED
            BY <2>3, <3>1, <3>2 DEF NothingMissed
    <2>4. WalkOk(c, w, items[c], total[c], seen[c], since[c], entered', left, active', docs')
        BY <2>1, <2>2, <2>3 DEF WalkOk, AddsUp
    <2> QED
        BY <2>4 DEF w
<1>9. WalksOk'
    BY <1>1, <1>8 DEF WalksOk
<1> QED
    BY <1>4, <1>5, <1>6, <1>7, <1>9 DEF PageInv

\* Nothing but the deletions changes.
LEMMA OnlyDeletionsChange ==
    ASSUME PageInv, UNCHANGED <<docs, active, client, items, total, seen, since, entered, left>>,
           RemoversTyped', Counted' = Counted
    PROVE  PageInv'
BY DEF PageInv, CollectionTyped, ClientsTyped, WalksOk, CountsAddUp

LEMMA DeleteByIdsKeeps ==
    ASSUME PageInv, NEW r \in Remover, Pages!DeleteByIds(r)
    PROVE  PageInv'
<1>1. /\ UNCHANGED <<docs, active, client, items, total, seen, since, entered, left>>
      /\ remover[r].step = "new"
    BY DEF Pages!DeleteByIds, Pages!walks
<1>2. PICK D \in SUBSET DOMAIN docs :
          remover' = [remover EXCEPT ![r] = [step |-> "delete", ids |-> D, count |-> 0]]
    BY DEF Pages!DeleteByIds
<1>3. RemoversTyped /\ remover[r].count = 0
    BY <1>1 DEF PageInv, RemoversTyped
<1>4. RemoversTyped'
    BY <1>1, <1>2, <1>3 DEF RemoversTyped
<1>5. \A x \in Remover : remover'[x].count = remover[x].count
    BY <1>2, <1>3 DEF RemoversTyped
<1>6. Counted' = Counted
    BY <1>5 DEF Counted
<1> QED
    BY <1>1, <1>4, <1>6, OnlyDeletionsChange

LEMMA DeleteOneKeeps ==
    ASSUME PageInv, NEW r \in Remover, Pages!DeleteOne(r)
    PROVE  PageInv'
<1>1. UNCHANGED <<docs, client, items, total, seen, entered>>
    BY DEF Pages!DeleteOne, Pages!walks
<1>2. PICK d \in remover[r].ids :
          /\ remover' = [remover EXCEPT ![r].ids = @ \ {d}, ![r].count = @ + Cardinality({d} \intersect active)]
          /\ active' = active \ ({d} \intersect active)
          /\ since' = [c \in Client |-> since[c] \ ({d} \intersect active)]
          /\ left' = IF {d} \intersect active = {} THEN left ELSE left \union Pages!Walking
    BY PagesCount DEF Pages!DeleteOne, Pages!ActiveFilter
<1>3. /\ CollectionTyped /\ ClientsTyped /\ RemoversTyped /\ CountsAddUp
      /\ remover[r].ids \subseteq DOMAIN docs /\ remover[r].count \in Nat
    BY DEF PageInv, RemoversTyped
<1> DEFINE n == Cardinality({d} \intersect active)
<1>4. n = IF d \in active THEN 1 ELSE 0
    <2>1. d \in active => {d} \intersect active = {d}
        OBVIOUS
    <2>2. d \notin active => {d} \intersect active = {}
        OBVIOUS
    <2> QED
        BY <2>1, <2>2, FS_Singleton, FS_EmptySet
<1>5. /\ RemoversTyped' /\ remover'[r].count = remover[r].count + n
      /\ \A x \in Remover \ {r} : remover'[x] = remover[x]
    <2>1. remover[r].step # "new"
        BY <1>2, <1>3 DEF RemoversTyped
    <2>2. remover'[r] = [remover[r] EXCEPT !.ids = @ \ {d}, !.count = @ + n]
        BY <1>2, <1>3 DEF RemoversTyped
    <2>3. n \in Nat
        BY <1>4
    <2> DEFINE v == remover[r]
               w == remover'[r]
    <2>4. v \in [step : {"new", "delete"}, ids : SUBSET DOMAIN docs, count : Nat]
        BY <1>3 DEF RemoversTyped
    <2> HIDE DEF n, v, w
    <2>5. w = [v EXCEPT !.ids = @ \ {d}, !.count = @ + n] /\ v.step # "new"
        BY <2>1, <2>2 DEF v, w
    <2>6. /\ w \in [step : {"new", "delete"}, ids : SUBSET DOMAIN docs, count : Nat]
           /\ w.step # "new" /\ w.count = v.count + n
        <3>1. v.ids \ {d} \in SUBSET DOMAIN docs /\ v.count + n \in Nat /\ v.step \in {"new", "delete"}
            BY <2>3, <2>4
        <3>2. w = [step |-> v.step, ids |-> v.ids \ {d}, count |-> v.count + n]
            BY ONLY <2>4, <2>5
        <3>3. /\ w.step = v.step /\ w.count = v.count + n
              /\ w \in [step : {"new", "delete"}, ids : SUBSET DOMAIN docs, count : Nat]
            BY <3>1, <3>2
        <3> QED
            BY <2>5, <3>3
    <2>7. /\ remover'[r] \in [step : {"new", "delete"}, ids : SUBSET DOMAIN docs, count : Nat]
          /\ remover'[r].step # "new" /\ remover'[r].count = remover[r].count + n
        BY <2>6 DEF v, w
    <2>8. \A x \in Remover \ {r} : remover'[x] = remover[x]
        BY <1>2, <1>3 DEF RemoversTyped
    <2>9. remover' \in [Remover -> [step : {"new", "delete"}, ids : SUBSET DOMAIN docs', count : Nat]]
        BY <1>1, <1>2, <1>3, <2>7, <2>8 DEF RemoversTyped
    <2>10. \A x \in Remover : remover'[x].step = "new" => remover'[x].ids = {} /\ remover'[x].count = 0
        BY <1>3, <2>7, <2>8 DEF RemoversTyped
    <2> QED
        BY <2>7, <2>8, <2>9, <2>10 DEF RemoversTyped
<1> HIDE DEF n
<1>6. CASE d \notin active
    <2>1. n = 0 /\ {d} \intersect active = {}
        BY <1>4, <1>6
    <2>2. active' = active /\ left' = left
        BY <1>2, <2>1
    <2>3. since' = since
        BY <1>2, <1>3, <2>1 DEF ClientsTyped
    <2>4. \A x \in Remover : remover'[x].count = remover[x].count
        BY <1>3, <1>5, <2>1
    <2>5. Counted' = Counted
        BY <2>4 DEF Counted
    <2> QED
        BY <1>1, <1>5, <2>2, <2>3, <2>5, OnlyDeletionsChange
<1>7. CASE d \in active
    <2>1. /\ n = 1 /\ active' = active \ {d} /\ left' = left \union Pages!Walking
          /\ since' = [c \in Client |-> since[c] \ {d}]
        <3>1. {d} \intersect active = {d}
            BY <1>7
        <3> QED
            BY <1>2, <1>4, <1>7, <3>1
    <2>2. CollectionTyped'
        BY <1>1, <1>3, <2>1 DEF CollectionTyped
    <2>3. ClientsTyped'
        <3>1. Pages!Walking \subseteq Client
            BY DEF Pages!Walking
        <3>2. since' \in [Client -> SUBSET Document]
            BY <1>3, <2>1 DEF ClientsTyped
        <3> QED
            BY <1>1, <1>3, <2>1, <3>1, <3>2 DEF ClientsTyped
    <2>4. CountsAddUp'
        <3> DEFINE new == <<r, remover[r].count + 1>>
        <3>1. Counted' = Counted \union {new} /\ new \notin Counted
            <4>1. \A x \in Remover : remover'[x].count = IF x = r THEN remover[r].count + 1 ELSE remover[x].count
                BY <1>5, <2>1
            <4>2. \A x, i : <<x, i>> \in Counted <=> x \in Remover /\ i \in 1..remover[x].count
                BY DEF Counted
            <4>3. \A x, i : <<x, i>> \in Counted' <=> x \in Remover /\ i \in 1..remover'[x].count
                BY DEF Counted
            <4>4. \A x, i : <<x, i>> \in Counted' <=> <<x, i>> \in Counted \/ (x = r /\ i = remover[r].count + 1)
                <5>1. 1..(remover[r].count + 1) = (1..remover[r].count) \union {remover[r].count + 1}
                    BY <1>3
                <5> QED
                    BY <4>1, <4>2, <4>3, <5>1
            <4>5. new \notin Counted
                BY <1>3, <4>2
            <4>6. \A y \in Counted \union Counted' : \E x, i : y = <<x, i>>
                BY DEF Counted
            <4> QED
                BY <4>4, <4>5, <4>6
        <3>2. DOMAIN docs' \ active' = (DOMAIN docs \ active) \union {d} /\ d \notin DOMAIN docs \ active
            BY <1>1, <1>3, <1>7, <2>1
        <3>3. IsFiniteSet(DOMAIN docs \ active) /\ IsFiniteSet(Counted)
            BY <1>3, DocumentsAreFinite DEF CollectionTyped, CountsAddUp
        <3> HIDE DEF new
        <3>4. IsFiniteSet(Counted') /\ Cardinality(Counted') = Cardinality(Counted) + 1
            BY <3>1, <3>3, FS_AddElement
        <3>5. Cardinality(DOMAIN docs' \ active') = Cardinality(DOMAIN docs \ active) + 1
            BY <3>2, <3>3, FS_AddElement
        <3> QED
            BY <1>3, <3>4, <3>5 DEF CountsAddUp
    <2>5. ASSUME NEW c \in Client
          PROVE  WalkOk(c, client[c], items[c], total[c], seen[c], since'[c], entered, left', active', docs)
        <3> DEFINE w == client[c]
        <3>1. /\ WalkOk(c, w, items[c], total[c], seen[c], since[c], entered, left, active, docs)
              /\ since'[c] \subseteq since[c] /\ since[c] \subseteq active
            BY <2>1, ClientTyped
        <3>2. c \in left' <=> c \in left \/ w.step \in {"query", "next"}
            BY <2>1, WalkingClients
        <3> HIDE DEF w
        <3>3. ASSUME NothingRepeated(w, items[c], seen[c], active, docs)
              PROVE  NothingRepeated(w, items[c], seen[c], active', docs)
            <4>1. ASSUME NEW m \in active', m \in Pages!Range(Found(w, items[c], seen[c]))
                  PROVE  Rank(w.order, m, active', docs) < Reached(w, items[c])
                <5>1. active \in SUBSET Document /\ active' \in SUBSET active
                    BY <1>3, <2>1 DEF CollectionTyped
                <5>2. /\ Rank(w.order, m, active, docs) \in Nat /\ Rank(w.order, m, active', docs) \in Nat
                      /\ Rank(w.order, m, active', docs) <= Rank(w.order, m, active, docs)
                    BY <5>1, RanksOfFewer
                <5>3. Rank(w.order, m, active, docs) < Reached(w, items[c])
                    BY <3>3, <4>1, <5>1 DEF NothingRepeated
                <5>4. Reached(w, items[c]) \in Nat
                    <6>1. w.page \in Nat \ {0} /\ w.size \in Nat
                        BY ClientTyped DEF w
                    <6>2. (w.page - 1) * w.size \in Nat /\ w.page * w.size \in Nat
                        BY <6>1, PagesFollow
                    <6> QED
                        BY <6>2 DEF Reached
                <5> QED
                    BY <5>2, <5>3, <5>4
            <4> QED
                BY <3>3, <4>1 DEF NothingRepeated
        <3>4. WalkOk(c, w, items[c], total[c], seen[c], since'[c], entered, left', active', docs)
            BY <3>1, <3>2, <3>3 DEF WalkOk, AddsUp
        <3> QED
            BY <3>4 DEF w
    <2>6. WalksOk'
        BY <1>1, <2>5 DEF WalksOk
    <2> QED
        BY <1>5, <2>2, <2>3, <2>4, <2>6 DEF PageInv
<1> QED
    BY <1>6, <1>7

LEMMA UpdateKeeps ==
    ASSUME PageInv, NEW d \in Document, Pages!Update(d)
    PROVE  PageInv'
<1>1. /\ d \in active /\ entered' = entered \union Pages!Walking /\ left' = left \union Pages!Walking
      /\ UNCHANGED <<active, client, items, total, seen, since, remover>>
    BY DEF Pages!Update, Pages!walks
<1>2. PICK k \in Key : docs' = [docs EXCEPT ![d] = k]
    BY DEF Pages!Update
<1>3. CollectionTyped' /\ DOMAIN docs' = DOMAIN docs
    BY <1>1, <1>2 DEF PageInv, CollectionTyped
<1>4. ClientsTyped'
    <2>1. Pages!Walking \subseteq Client
        BY DEF Pages!Walking
    <2> QED
        BY <1>1, <1>3, <2>1 DEF PageInv, ClientsTyped
<1>5. RemoversTyped' /\ CountsAddUp'
    BY <1>1, <1>3 DEF PageInv, RemoversTyped, CountsAddUp, Counted
<1>6. ASSUME NEW c \in Client
      PROVE  WalkOk(c, client[c], items[c], total[c], seen[c], since[c], entered', left', active, docs')
    <2>1. WalkOk(c, client[c], items[c], total[c], seen[c], since[c], entered, left, active, docs)
        BY ClientTyped
    <2>2. /\ c \in entered' <=> c \in entered \/ client[c].step \in {"query", "next"}
          /\ c \in left' <=> c \in left \/ client[c].step \in {"query", "next"}
        BY <1>1, WalkingClients
    <2> QED
        BY <2>1, <2>2 DEF WalkOk, AddsUp
<1>7. WalksOk'
    BY <1>1, <1>6 DEF WalksOk
<1> QED
    BY <1>3, <1>4, <1>5, <1>7 DEF PageInv

LEMMA PagesStep == PageInv /\ [Pages!Next]_Pages!vars => PageInv'
<1> SUFFICES ASSUME PageInv, [Pages!Next]_Pages!vars PROVE PageInv'
    OBVIOUS
<1>1. ASSUME NEW c \in Client,
             \/ Pages!Ask(c) \/ Pages!FindItems(c) \/ Pages!CountDocuments(c)
             \/ Pages!Receive(c) \/ Pages!NextPage(c)
      PROVE  PageInv'
    BY <1>1, AskKeeps, FindItemsKeeps, CountDocumentsKeeps, ReceiveKeeps, NextPageKeeps
<1>2. ASSUME NEW d \in Document, Pages!InsertOne(d) \/ Pages!Update(d)
      PROVE  PageInv'
    BY <1>2, InsertOneKeeps, UpdateKeeps
<1>3. ASSUME NEW r \in Remover, Pages!DeleteByIds(r) \/ Pages!DeleteOne(r)
      PROVE  PageInv'
    BY <1>3, DeleteByIdsKeeps, DeleteOneKeeps
<1>4. ASSUME UNCHANGED Pages!vars PROVE PageInv'
    <2>1. UNCHANGED <<docs, active, client, items, total, seen, since, entered, left, remover>>
        BY <1>4 DEF Pages!vars, Pages!walks
    <2>2. RemoversTyped' /\ Counted' = Counted
        BY <2>1 DEF PageInv, RemoversTyped, Counted
    <2> QED
        BY <2>1, <2>2, OnlyDeletionsChange
<1> QED
    BY <1>1, <1>2, <1>3, <1>4 DEF Pages!Next

\* The collection and the walks over it keep their inductive invariant.
THEOREM PageInvariant == Pages!Spec => []PageInv
BY PagesInitially, PagesStep, PTL DEF Pages!Spec

LEMMA WalksAddUp == PageInv => PagesAreSound
<1> SUFFICES ASSUME PageInv PROVE PagesAreSound
    OBVIOUS
<1>1. Pages!TypeOK
    <2>1. DOMAIN docs \subseteq Document /\ active \subseteq DOMAIN docs /\ \A d \in DOMAIN docs : docs[d] \in Key
        BY DEF PageInv, CollectionTyped
    <2>2. ASSUME NEW c \in Client
          PROVE  /\ client[c].step \in {"new", "query", "next", "done", "400"}
                 /\ client[c].order \in Pages!Orders \union {Null}
                 /\ client[c].size \in 0..MaxSize /\ client[c].page \in Nat
                 /\ \/ items[c] = Pages!Unread
                    \/ Len(items[c]) <= client[c].size /\ Pages!Range(items[c]) \subseteq DOMAIN docs
                 /\ since[c] \subseteq active
        <3>1. client[c] \in WalkRecord
            BY ClientTyped
        <3>2. items[c] \in Seq(DOMAIN docs) => Pages!Range(items[c]) \subseteq DOMAIN docs
            BY DEF Pages!Range
        <3> QED
            BY <3>1, <3>2, ClientTyped DEF WalkRecord
    <2> QED
        BY <2>1, <2>2 DEF Pages!TypeOK
<1>2. Pages!PagesAddUp
    BY ClientTyped DEF Pages!PagesAddUp, WalkOk, AddsUp
<1>3. Pages!DeletionsAddUp
    BY PagesCount DEF Pages!DeletionsAddUp, PageInv, CountsAddUp, Counted
<1> QED
    BY <1>1, <1>2, <1>3 DEF PagesAreSound

\* For any collection, clients and changes, a walk in a strict order misses what
\* stayed only if something left, repeats something only if something came, and
\* of several deletions of one document one counts it (findWithPagination,
\* deleteByIds).
THEOREM PagesAreSoundAlways == Pages!Spec => []PagesAreSound
BY PageInvariant, WalksAddUp, PTL

-----------------------------------------------------------------------------
(***************************************************************************)
(* The recommendation.  The genres of what was watched are in a strict     *)
(* order (PreferringIsAnOrder), so their points are ranks (PointsAreRanks) *)
(* and scores, compared place by place, respect it.  A movie that is       *)
(* watched moves its own genre up and no other past it                     *)
(* (WatchingRaisesItsGenre).                                               *)
(***************************************************************************)

LEMMA PicksCount == ASSUME NEW S PROVE Picks!Cardinality(S) = Cardinality(S)
BY DEF Picks!Cardinality, Cardinality

LEMMA PickNames ==
    /\ IsFiniteSet(Movies) /\ Movies \subseteq Nat /\ IsFiniteSet(Genre)
    /\ GenresOf \in [Movies -> Seq(Genre)] /\ ReleaseOf \in [Movies -> Nat]
    /\ Recent \in Nat /\ MaxRecords \in Nat
<1>1. ASSUME NEW S PROVE Picks!IsFiniteSet(S) = IsFiniteSet(S)
    BY DEF Picks!IsFiniteSet, IsFiniteSet
<1> QED
    BY <1>1, PickAssumption DEF Picks!MovieAssumption, Picks!BoundAssumption

\* A list of genres has finitely many places.
LEMMA ListsAreFinite ==
    ASSUME NEW m \in Movies
    PROVE  /\ GenresOf[m] \in Seq(Genre) /\ Len(GenresOf[m]) \in Nat
           /\ DOMAIN GenresOf[m] = 1..Len(GenresOf[m]) /\ IsFiniteSet(DOMAIN GenresOf[m])
           /\ DOMAIN GenresOf[m] \subseteq Nat
           /\ Cardinality(DOMAIN GenresOf[m]) = Len(GenresOf[m])
           /\ \A i \in DOMAIN GenresOf[m] : GenresOf[m][i] \in Genre
<1>1. GenresOf[m] \in Seq(Genre) /\ Len(GenresOf[m]) \in Nat /\ DOMAIN GenresOf[m] = 1..Len(GenresOf[m])
    BY PickNames
<1>2. \A i \in DOMAIN GenresOf[m] : GenresOf[m][i] \in Genre
    BY <1>1
<1>3. IsFiniteSet(1..Len(GenresOf[m])) /\ Cardinality(1..Len(GenresOf[m])) = Len(GenresOf[m])
    <2>1. 1 \in Int /\ Len(GenresOf[m]) \in Int
          /\ (IF 1 > Len(GenresOf[m]) THEN 0 ELSE Len(GenresOf[m]) - 1 + 1) = Len(GenresOf[m])
        BY <1>1
    <2> QED
        BY ONLY <2>1, FS_Interval
<1> QED
    BY <1>1, <1>2, <1>3

\* Of finitely many places one is the first.
LEMMA OneIsFirst ==
    ASSUME NEW P \in SUBSET (Nat \X Nat), IsFiniteSet(P), P # {}
    PROVE  \E p \in P : \A q \in P \ {p} : Picks!Earlier(p, q)
<1> DEFINE Before(p) == {q \in P : Picks!Earlier(q, p)}
           T == {Before(p) : p \in P}
<1>1. \A p \in P : Before(p) \in FiniteSubsetsOf(P)
    BY FS_Subset DEF FiniteSubsetsOf
<1>2. PICK p \in P : \A q \in P : ~ (<<Before(q), Before(p)>> \in StrictSubsetOrdering(P))
    <2>1. T \subseteq FiniteSubsetsOf(P) /\ T # {}
        BY <1>1
    <2>2. IsWellFoundedOn(StrictSubsetOrdering(P), FiniteSubsetsOf(P))
        BY FS_StrictSubsetOrderingWellFounded
    <2>3. \E x \in T : \A y \in T : ~ (<<y, x>> \in StrictSubsetOrdering(P))
        <3> HIDE DEF T
        <3> QED
            BY <2>1, <2>2, WFMin
    <2> QED
        BY <2>3
<1>3. \A q \in P : ~Picks!Earlier(q, p)
    <2> SUFFICES ASSUME NEW q \in P, Picks!Earlier(q, p) PROVE FALSE
        OBVIOUS
    <2>1. q \in Before(p) /\ q \notin Before(q)
        BY DEF Picks!Earlier
    <2>2. Before(q) \subseteq Before(p)
        <3> SUFFICES ASSUME NEW r \in P, Picks!Earlier(r, q) PROVE Picks!Earlier(r, p)
            OBVIOUS
        <3>1. {p[1], p[2], q[1], q[2], r[1], r[2]} \subseteq Nat
            OBVIOUS
        <3> QED
            BY <3>1 DEF Picks!Earlier
    <2>3. <<Before(q), Before(p)>> \in StrictSubsetOrdering(P)
        BY <2>1, <2>2 DEF StrictSubsetOrdering
    <2> QED
        BY <1>2, <2>3
<1>4. \A q \in P \ {p} : Picks!Earlier(p, q)
    <2> SUFFICES ASSUME NEW q \in P \ {p} PROVE Picks!Earlier(p, q)
        OBVIOUS
    <2>1. p = <<p[1], p[2]>> /\ q = <<q[1], q[2]>> /\ {p[1], p[2], q[1], q[2]} \subseteq Nat
        OBVIOUS
    <2>2. p[1] # q[1] \/ p[2] # q[2]
        BY <2>1
    <2> QED
        BY <1>3, <2>1, <2>2 DEF Picks!Earlier
<1> QED
    BY <1>4

\* The places of a genre, and the first of them.
LEMMA PlacesAreFinite ==
    ASSUME NEW W \in SUBSET Movies, NEW g
    PROVE  /\ Picks!Places(W, g) \subseteq Nat \X Nat /\ IsFiniteSet(Picks!Places(W, g))
           /\ \A m, i : <<m, i>> \in Picks!Places(W, g) <=>
                 m \in W /\ i \in DOMAIN GenresOf[m] /\ GenresOf[m][i] = g
           /\ Picks!Frequency(W, g) \in Nat
           /\ Picks!Frequency(W, g) = Cardinality(Picks!Places(W, g))
           /\ g \in Picks!Favorites(W) <=> Picks!Places(W, g) # {}
           /\ g \in Picks!Favorites(W) <=> Picks!Frequency(W, g) > 0
           /\ g \in Picks!Favorites(W) => Picks!FirstSeen(W, g) \in Picks!Places(W, g)
<1> DEFINE P == Picks!Places(W, g)
           at(m) == {i \in DOMAIN GenresOf[m] : GenresOf[m][i] = g}
<1>1. P = UNION {{m} \X at(m) : m \in W}
    BY DEF Picks!Places
<1>2. \A m, i : <<m, i>> \in P <=> m \in W /\ i \in at(m)
    BY <1>1
<1>3. P \subseteq Nat \X Nat
    <2>1. \A m \in W : m \in Nat /\ at(m) \subseteq Nat
        BY PickNames, ListsAreFinite
    <2> QED
        BY <1>1, <2>1
<1>4. IsFiniteSet(P)
    <2>1. \A m \in W : IsFiniteSet({m} \X at(m))
        <3> SUFFICES ASSUME NEW m \in W PROVE IsFiniteSet({m} \X at(m))
            OBVIOUS
        <3>1. IsFiniteSet(at(m))
            BY ListsAreFinite, FS_Subset
        <3> HIDE DEF at
        <3> QED
            BY <3>1, FS_Singleton, FS_Product
    <2>2. IsFiniteSet({{m} \X at(m) : m \in W})
        <3> DEFINE f == [m \in W |-> {m} \X at(m)]
        <3>1. f \in Surjection(W, {{m} \X at(m) : m \in W})
            BY DEF Surjection
        <3>2. IsFiniteSet(W)
            BY PickNames, FS_Subset
        <3> HIDE DEF f, at
        <3> QED
            BY <3>1, <3>2, FS_Surjection
    <2> HIDE DEF at
    <2> QED
        BY <1>1, <2>1, <2>2, FS_UNION, ZenonT(30)
<1>5. Picks!Frequency(W, g) = Cardinality(P) /\ Cardinality(P) \in Nat /\ (Cardinality(P) = 0 <=> P = {})
    BY <1>4, PicksCount, FS_CardinalityType, FS_EmptySet DEF Picks!Frequency
<1>6. g \in Picks!Favorites(W) <=> P # {}
    <2>1. g \in Picks!Favorites(W) <=> \E m \in W : \E i \in DOMAIN GenresOf[m] : GenresOf[m][i] = g
        BY DEF Picks!Favorites, Picks!Genres
    <2>2. P # {} <=> \E m \in W : \E i \in at(m) : TRUE
        <3>1. ASSUME P # {} PROVE \E m \in W : \E i \in at(m) : TRUE
            BY <1>1, <3>1
        <3>2. ASSUME NEW m \in W, NEW i \in at(m) PROVE P # {}
            BY <1>2, <3>2
        <3> QED
            BY <3>1, <3>2
    <2> QED
        BY <2>1, <2>2
<1>7. ASSUME P # {} PROVE Picks!FirstSeen(W, g) \in P
    <2>1. \E p \in P : \A q \in P \ {p} : Picks!Earlier(p, q)
        <3> HIDE DEF P
        <3> QED
            BY <1>3, <1>4, <1>7, OneIsFirst
    <2> QED
        BY <2>1 DEF Picks!FirstSeen
<1> QED
    BY <1>2, <1>3, <1>4, <1>5, <1>6, <1>7

\* Preferring is a strict order in which any two favorite genres can be compared.
LEMMA PreferringIsAnOrder ==
    ASSUME NEW W \in SUBSET Movies, NEW g \in Picks!Favorites(W), NEW h \in Picks!Favorites(W)
    PROVE  /\ ~Picks!Preferred(W, g, g)
           /\ g # h => Picks!Preferred(W, g, h) \/ Picks!Preferred(W, h, g)
           /\ Picks!Preferred(W, g, h) => ~Picks!Preferred(W, h, g)
           /\ \A x \in Picks!Favorites(W) :
                  Picks!Preferred(W, g, h) /\ Picks!Preferred(W, h, x) => Picks!Preferred(W, g, x)
<1> DEFINE F(x) == Picks!Frequency(W, x)
           p(x) == Picks!FirstSeen(W, x)
<1>1. \A x \in Picks!Favorites(W) :
          F(x) \in Nat /\ p(x) \in Nat \X Nat /\ p(x) \in Picks!Places(W, x)
    BY PlacesAreFinite
<1>2. \A x \in Picks!Favorites(W) :
          /\ F(x) \in Nat /\ p(x)[1] \in Nat /\ p(x)[2] \in Nat /\ p(x) = <<p(x)[1], p(x)[2]>>
          /\ GenresOf[p(x)[1]][p(x)[2]] = x
    BY <1>1, PlacesAreFinite
<1>3. g # h => p(g)[1] # p(h)[1] \/ p(g)[2] # p(h)[2]
    BY <1>2
<1>4. \A x, y : Picks!Preferred(W, x, y) <=>
          F(x) > F(y) \/ (F(x) = F(y) /\ (p(x)[1] < p(y)[1] \/ (p(x)[1] = p(y)[1] /\ p(x)[2] < p(y)[2])))
    BY DEF Picks!Preferred, Picks!Earlier
<1> HIDE DEF F, p
<1>5. ~Picks!Preferred(W, g, g)
    BY <1>2, <1>4
<1>6. g # h => Picks!Preferred(W, g, h) \/ Picks!Preferred(W, h, g)
    BY <1>2, <1>3, <1>4
<1>7. Picks!Preferred(W, g, h) => ~Picks!Preferred(W, h, g)
    BY <1>2, <1>4
<1>8. ASSUME NEW x \in Picks!Favorites(W), Picks!Preferred(W, g, h), Picks!Preferred(W, h, x)
      PROVE  Picks!Preferred(W, g, x)
    BY <1>2, <1>4, <1>8
<1> QED
    BY <1>5, <1>6, <1>7, <1>8

\* the favorite genres that one is preferred to
Beneath(W, g) == {h \in Picks!Favorites(W) : Picks!Preferred(W, g, h)}

LEMMA FavoritesAreFinite ==
    ASSUME NEW W \in SUBSET Movies
    PROVE  /\ Picks!Favorites(W) \subseteq Genre /\ IsFiniteSet(Picks!Favorites(W))
           /\ Cardinality(Picks!Favorites(W)) \in Nat
           /\ \A S \in SUBSET Picks!Favorites(W) :
                  /\ IsFiniteSet(S) /\ Cardinality(S) \in Nat
                  /\ Cardinality(S) <= Cardinality(Picks!Favorites(W))
                  /\ S # Picks!Favorites(W) => Cardinality(S) < Cardinality(Picks!Favorites(W))
<1>1. Picks!Favorites(W) \subseteq Genre
    BY ListsAreFinite DEF Picks!Favorites, Picks!Genres
<1> QED
    BY <1>1, PickNames, FS_Subset, FS_CardinalityType

\* Points are ranks: the preferred genre has more, and no two have the same.
LEMMA PointsAreRanks ==
    ASSUME NEW W \in SUBSET Movies
    PROVE  /\ \A g : Picks!Points(W, g) \in Nat
           /\ \A g : g \notin Picks!Favorites(W) => Picks!Points(W, g) = 0
           /\ \A g \in Picks!Favorites(W) :
                 /\ Picks!Points(W, g) = 1 + Cardinality(Beneath(W, g))
                 /\ Picks!Points(W, g) \in 1..Cardinality(Picks!Favorites(W))
           /\ \A g, h \in Picks!Favorites(W) :
                 Picks!Preferred(W, g, h) => Picks!Points(W, g) > Picks!Points(W, h)
           /\ {Picks!Points(W, g) : g \in Picks!Favorites(W)} = 1..Cardinality(Picks!Favorites(W))
<1> DEFINE F == Picks!Favorites(W)
           n == Cardinality(F)
           pt(g) == Picks!Points(W, g)
<1>1. n \in Nat /\ IsFiniteSet(F)
    BY FavoritesAreFinite
<1>2. \A g \in F : pt(g) = 1 + Cardinality(Beneath(W, g))
    BY PicksCount DEF Picks!Points, Beneath
<1>3. \A g : g \notin F => pt(g) = 0
    BY DEF Picks!Points
<1>4. \A g \in F : Beneath(W, g) \in SUBSET F /\ g \notin Beneath(W, g)
    BY PreferringIsAnOrder DEF Beneath
<1>5. \A g \in F : pt(g) \in 1..n
    <2> SUFFICES ASSUME NEW g \in F PROVE pt(g) \in 1..n
        OBVIOUS
    <2>1. Cardinality(Beneath(W, g)) \in Nat /\ Cardinality(Beneath(W, g)) < n
        BY <1>4, FavoritesAreFinite
    <2> QED
        BY <1>1, <1>2, <2>1
<1>6. ASSUME NEW g \in F, NEW h \in F, Picks!Preferred(W, g, h)
      PROVE  pt(g) > pt(h)
    <2>1. Beneath(W, h) \subseteq Beneath(W, g) /\ h \in Beneath(W, g) /\ h \notin Beneath(W, h)
        BY <1>6, PreferringIsAnOrder DEF Beneath
    <2>2. IsFiniteSet(Beneath(W, g)) /\ Cardinality(Beneath(W, g)) \in Nat /\ Cardinality(Beneath(W, h)) \in Nat
        BY <1>4, FavoritesAreFinite
    <2>3. Cardinality(Beneath(W, h)) <= Cardinality(Beneath(W, g))
          /\ Cardinality(Beneath(W, g)) # Cardinality(Beneath(W, h))
        BY <2>1, <2>2, FS_Subset
    <2> QED
        BY <1>2, <2>2, <2>3
<1>7. \A g, h \in F : pt(g) = pt(h) => g = h
    BY <1>1, <1>5, <1>6, PreferringIsAnOrder
<1>8. {pt(g) : g \in F} = 1..n
    <2> DEFINE f == [g \in F |-> pt(g)]
    <2> HIDE DEF n, F
    <2>1. f \in Injection(F, 1..n)
        BY <1>5, <1>7 DEF Injection, IsInjective
    <2>2. IsFiniteSet(1..n) /\ Cardinality(1..n) = Cardinality(F)
        <3>1. 1 \in Int /\ n \in Int /\ (IF 1 > n THEN 0 ELSE n - 1 + 1) = n
            BY <1>1
        <3> QED
            BY ONLY <3>1, FS_Interval DEF n
    <2>3. f \in Surjection(F, 1..n)
        <3> HIDE DEF f
        <3> QED
            BY <2>1, <2>2, FS_Injection
    <2>4. \A k \in 1..n : \E g \in F : pt(g) = k
        BY <2>3 DEF Surjection
    <2> QED
        BY <1>5, <2>4
<1> QED
    BY <1>1, <1>2, <1>3, <1>5, <1>6, <1>8

\* what a movie gets: the points of the genre at each place
Gains(W, m) == UNION {{i} \X (1..Picks!Points(W, GenresOf[m][i])) : i \in DOMAIN GenresOf[m]}

LEMMA ScoresAreNumbers ==
    ASSUME NEW W \in SUBSET Movies, NEW m \in Movies
    PROVE  /\ IsFiniteSet(Gains(W, m)) /\ Picks!Score(W, m) = Cardinality(Gains(W, m))
           /\ Picks!Score(W, m) \in Nat
           /\ \A i, j : <<i, j>> \in Gains(W, m) <=>
                  i \in DOMAIN GenresOf[m] /\ j \in 1..Picks!Points(W, GenresOf[m][i])
           /\ \A q \in Gains(W, m) : q = <<q[1], q[2]>>
<1> DEFINE to(i) == Picks!Points(W, GenresOf[m][i])
           n == Cardinality(Picks!Favorites(W))
<1>1. \A i, j : <<i, j>> \in Gains(W, m) <=> i \in DOMAIN GenresOf[m] /\ j \in 1..to(i)
    BY DEF Gains
<1>2. \A q \in Gains(W, m) : q = <<q[1], q[2]>>
    BY DEF Gains
<1>3. \A i : to(i) \in Nat /\ to(i) <= n
    BY PointsAreRanks, FavoritesAreFinite
<1>4. IsFiniteSet(Gains(W, m))
    <2>1. IsFiniteSet(1..n)
        BY FavoritesAreFinite, FS_Interval
    <2>2. IsFiniteSet((DOMAIN GenresOf[m]) \X (1..n))
        <3> HIDE DEF n
        <3> DEFINE places == DOMAIN GenresOf[m]
                   rank == 1..n
        <3>1. IsFiniteSet(places) /\ IsFiniteSet(rank)
            BY <2>1, ListsAreFinite
        <3> HIDE DEF places, rank
        <3>2. IsFiniteSet(places \X rank)
            BY <3>1, FS_Product
        <3> QED
            BY <3>2 DEF places, rank
    <2>3. Gains(W, m) \subseteq (DOMAIN GenresOf[m]) \X (1..n)
        <3>1. \A i : 1..to(i) \subseteq 1..n
            BY <1>3, FavoritesAreFinite
        <3> HIDE DEF to, n
        <3>2. ASSUME NEW q \in Gains(W, m)
              PROVE  q \in (DOMAIN GenresOf[m]) \X (1..n)
            <4>1. q = <<q[1], q[2]>>
                BY <1>2
            <4>2. q[1] \in DOMAIN GenresOf[m] /\ q[2] \in 1..to(q[1])
                BY <1>1, <3>2, <4>1
            <4>3. q[2] \in 1..n
                BY <3>1, <4>2
            <4>4. \A A, B : q[1] \in A /\ q[2] \in B => q \in A \X B
                BY ONLY <4>1
            <4> QED
                BY ONLY <4>2, <4>3, <4>4, Zenon
        <3> QED
            BY <3>2
    <2> QED
        BY <2>2, <2>3, FS_Subset
<1> QED
    BY <1>1, <1>2, <1>4, PicksCount, FS_CardinalityType DEF Picks!Score, Gains

\* A movie all of whose genres are preferred to those of the other has the
\* higher score.
LEMMA FavoritesComeFirst ==
    ASSUME NEW W \in SUBSET Movies, NEW m \in Movies, NEW n \in Movies,
           Len(GenresOf[m]) >= Len(GenresOf[n]), GenresOf[n] # <<>>,
           \A g \in Picks!Genres(m), h \in Picks!Genres(n) :
               Picks!Frequency(W, g) > Picks!Frequency(W, h)
    PROVE  Picks!Above(W, m, n)
<1> DEFINE to(k, i) == Picks!Points(W, GenresOf[k][i])
<1>1. \A k \in {m, n} : DOMAIN GenresOf[k] = 1..Len(GenresOf[k]) /\ Len(GenresOf[k]) \in Nat
    BY ListsAreFinite
<1>2. Len(GenresOf[n]) >= 1
    <2>1. GenresOf[n] \in Seq(Genre)
        BY ListsAreFinite
    <2> QED
        BY <1>1, <2>1
<1>3. ASSUME NEW i \in DOMAIN GenresOf[m], NEW j \in DOMAIN GenresOf[n]
      PROVE  to(m, i) > to(n, j) /\ to(m, i) \in Nat /\ to(n, j) \in Nat
    <2> DEFINE g == GenresOf[m][i]
               h == GenresOf[n][j]
    <2>1. Picks!Frequency(W, g) > Picks!Frequency(W, h)
        BY DEF Picks!Genres
    <2>2. Picks!Frequency(W, g) \in Nat /\ Picks!Frequency(W, h) \in Nat
          /\ (g \in Picks!Favorites(W) <=> Picks!Frequency(W, g) > 0)
        BY PlacesAreFinite
    <2>3. Picks!Preferred(W, g, h) /\ g \in Picks!Favorites(W)
        BY <2>1, <2>2 DEF Picks!Preferred
    <2> HIDE DEF g, h
    <2>4. Picks!Points(W, g) > Picks!Points(W, h) /\ Picks!Points(W, g) \in Nat /\ Picks!Points(W, h) \in Nat
        <3>1. CASE h \in Picks!Favorites(W)
            BY <2>3, <3>1, PointsAreRanks
        <3>2. CASE h \notin Picks!Favorites(W)
            <4>1. Picks!Points(W, h) = 0 /\ Picks!Points(W, g) \in 1..Cardinality(Picks!Favorites(W))
                BY <2>3, <3>2, PointsAreRanks
            <4> QED
                BY <4>1, FavoritesAreFinite
        <3> QED
            BY <3>1, <3>2
    <2> QED
        BY <2>4 DEF g, h
<1>4. /\ IsFiniteSet(Gains(W, m))
      /\ Picks!Score(W, m) \in Nat /\ Picks!Score(W, n) \in Nat
      /\ Picks!Score(W, m) = Cardinality(Gains(W, m)) /\ Picks!Score(W, n) = Cardinality(Gains(W, n))
    BY ScoresAreNumbers
<1>5. Gains(W, n) \subseteq Gains(W, m)
    <2> SUFFICES ASSUME NEW q \in Gains(W, n) PROVE q \in Gains(W, m)
        OBVIOUS
    <2>1. q = <<q[1], q[2]>>
        BY ScoresAreNumbers
    <2>2. q[1] \in DOMAIN GenresOf[n] /\ q[2] \in 1..to(n, q[1])
        BY <2>1, ScoresAreNumbers
    <2>3. q[1] \in DOMAIN GenresOf[m]
        BY <1>1, <2>2
    <2>4. to(m, q[1]) > to(n, q[1]) /\ to(m, q[1]) \in Nat /\ to(n, q[1]) \in Nat
        BY <1>3, <2>2, <2>3
    <2>5. q[2] \in 1..to(m, q[1])
        <3> HIDE DEF to
        <3> QED
            BY <2>2, <2>4
    <2> QED
        BY <2>1, <2>3, <2>5, ScoresAreNumbers
<1>6. Gains(W, n) # Gains(W, m)
    <2>1. 1 \in DOMAIN GenresOf[m] /\ 1 \in DOMAIN GenresOf[n]
        BY <1>1, <1>2
    <2>2. to(m, 1) \in 1..to(m, 1) /\ to(m, 1) \notin 1..to(n, 1)
        <3>1. to(m, 1) > to(n, 1) /\ to(m, 1) \in Nat /\ to(n, 1) \in Nat
            BY <1>3, <2>1
        <3> HIDE DEF to
        <3> QED
            BY <3>1
    <2>3. <<1, to(m, 1)>> \in Gains(W, m) /\ <<1, to(m, 1)>> \notin Gains(W, n)
        BY <2>1, <2>2, ScoresAreNumbers
    <2> QED
        BY <2>3
<1>7. Picks!Score(W, m) > Picks!Score(W, n)
    BY <1>4, <1>5, <1>6, FS_Subset
<1> QED
    BY <1>7 DEF Picks!Above

-----------------------------------------------------------------------------
\* Watching a movie of one genre alone adds places of that genre and no other.
LEMMA WatchingAddsPlaces ==
    ASSUME NEW W \in SUBSET Movies, NEW w \in Movies, w \notin W,
           NEW g, Picks!Genres(w) = {g}
    PROVE  /\ \A x : x # g => /\ Picks!Places(W \union {w}, x) = Picks!Places(W, x)
                              /\ Picks!Frequency(W \union {w}, x) = Picks!Frequency(W, x)
                              /\ Picks!FirstSeen(W \union {w}, x) = Picks!FirstSeen(W, x)
           /\ Picks!Frequency(W \union {w}, g) > Picks!Frequency(W, g)
           /\ Picks!Favorites(W \union {w}) = Picks!Favorites(W) \union {g}
<1> DEFINE V == W \union {w}
<1>1. V \in SUBSET Movies
    OBVIOUS
<1>2. \A x : /\ Picks!Places(W, x) \subseteq Nat \X Nat /\ Picks!Places(V, x) \subseteq Nat \X Nat
             /\ \A m, i : <<m, i>> \in Picks!Places(W, x) <=>
                   m \in W /\ i \in DOMAIN GenresOf[m] /\ GenresOf[m][i] = x
             /\ \A m, i : <<m, i>> \in Picks!Places(V, x) <=>
                   m \in V /\ i \in DOMAIN GenresOf[m] /\ GenresOf[m][i] = x
    BY <1>1, PlacesAreFinite
<1>3. \A i \in DOMAIN GenresOf[w] : GenresOf[w][i] = g
    BY DEF Picks!Genres
<1>4. ASSUME NEW x, x # g PROVE Picks!Places(V, x) = Picks!Places(W, x)
    <2>1. \A m, i : <<m, i>> \in Picks!Places(V, x) <=> <<m, i>> \in Picks!Places(W, x)
        <3> SUFFICES ASSUME NEW m, NEW i, i \in DOMAIN GenresOf[m], GenresOf[m][i] = x
                     PROVE  m \in V => m \in W
            BY <1>2
        <3>1. m # w
            BY <1>3, <1>4
        <3> QED
            BY <3>1
    <2>2. \A q \in Picks!Places(V, x) \union Picks!Places(W, x) : q = <<q[1], q[2]>>
        BY <1>2
    <2>3. ASSUME NEW q \in Picks!Places(V, x) PROVE q \in Picks!Places(W, x)
        <3>1. q = <<q[1], q[2]>>
            BY <2>2
        <3>2. <<q[1], q[2]>> \in Picks!Places(W, x)
            BY <2>1, <3>1
        <3> QED
            BY <3>1, <3>2
    <2>4. ASSUME NEW q \in Picks!Places(W, x) PROVE q \in Picks!Places(V, x)
        <3>1. q = <<q[1], q[2]>>
            BY <2>2
        <3>2. <<q[1], q[2]>> \in Picks!Places(V, x)
            BY <2>1, <3>1
        <3> QED
            BY <3>1, <3>2
    <2> QED
        BY <2>3, <2>4
<1>5. \A x : x # g => /\ Picks!Frequency(V, x) = Picks!Frequency(W, x)
                      /\ Picks!FirstSeen(V, x) = Picks!FirstSeen(W, x)
    BY <1>4 DEF Picks!Frequency, Picks!FirstSeen
<1>6. Picks!Frequency(V, g) > Picks!Frequency(W, g)
    <2>1. PICK i \in DOMAIN GenresOf[w] : GenresOf[w][i] = g
        BY DEF Picks!Genres
    <2>2. <<w, i>> \in Picks!Places(V, g) /\ <<w, i>> \notin Picks!Places(W, g)
        BY <1>2, <2>1
    <2>3. Picks!Places(W, g) \subseteq Picks!Places(V, g)
        <3>1. \A m, k : <<m, k>> \in Picks!Places(W, g) => <<m, k>> \in Picks!Places(V, g)
            BY <1>2
        <3>2. \A q \in Picks!Places(W, g) : q = <<q[1], q[2]>>
            BY <1>2
        <3> QED
            BY <3>1, <3>2
    <2>4. /\ IsFiniteSet(Picks!Places(V, g))
          /\ Picks!Frequency(V, g) \in Nat /\ Picks!Frequency(W, g) \in Nat
          /\ Picks!Frequency(V, g) = Cardinality(Picks!Places(V, g))
          /\ Picks!Frequency(W, g) = Cardinality(Picks!Places(W, g))
        BY <1>1, PlacesAreFinite
    <2> HIDE DEF V
    <2>5. Cardinality(Picks!Places(W, g)) <= Cardinality(Picks!Places(V, g))
          /\ Cardinality(Picks!Places(V, g)) # Cardinality(Picks!Places(W, g))
        BY <2>2, <2>3, <2>4, FS_Subset
    <2> QED
        BY <2>4, <2>5
<1>7. Picks!Favorites(V) = Picks!Favorites(W) \union {g}
    BY DEF Picks!Favorites
<1> QED
    BY <1>4, <1>5, <1>6, <1>7

\* Its genre rises, and no other rises above one that had points before.
LEMMA WatchingRaisesItsGenre ==
    ASSUME NEW W \in SUBSET Movies, NEW w \in Movies, w \notin W,
           NEW g, Picks!Genres(w) = {g}
    PROVE  /\ Picks!Points(W \union {w}, g) >= Picks!Points(W, g)
           /\ \A x : x # g /\ (g \in Picks!Favorites(W) \/ x \notin Picks!Favorites(W))
                 => Picks!Points(W \union {w}, x) <= Picks!Points(W, x)
<1>0. /\ \A x : x # g => /\ Picks!Places(W \union {w}, x) = Picks!Places(W, x)
                         /\ Picks!Frequency(W \union {w}, x) = Picks!Frequency(W, x)
                         /\ Picks!FirstSeen(W \union {w}, x) = Picks!FirstSeen(W, x)
      /\ Picks!Frequency(W \union {w}, g) > Picks!Frequency(W, g)
      /\ Picks!Favorites(W \union {w}) = Picks!Favorites(W) \union {g}
    BY WatchingAddsPlaces, Zenon
<1> DEFINE V == W \union {w}
           F == Picks!Favorites(W)
<1>1. V \in SUBSET Movies
    OBVIOUS
<1>2. /\ \A x : x # g => /\ Picks!Frequency(V, x) = Picks!Frequency(W, x)
                         /\ Picks!FirstSeen(V, x) = Picks!FirstSeen(W, x)
      /\ Picks!Frequency(V, g) > Picks!Frequency(W, g)
      /\ Picks!Favorites(V) = F \union {g}
    BY <1>0
<1>3. \A x : /\ Picks!Frequency(V, x) \in Nat /\ Picks!Frequency(W, x) \in Nat
             /\ Picks!Points(V, x) \in Nat /\ Picks!Points(W, x) \in Nat
    BY <1>1, PlacesAreFinite, PointsAreRanks
<1> HIDE DEF V
<1>4. \A x, y : x # g /\ y # g => (Picks!Preferred(V, x, y) <=> Picks!Preferred(W, x, y))
    BY <1>2 DEF Picks!Preferred
<1>5. \A y : y # g /\ Picks!Preferred(W, g, y) => Picks!Preferred(V, g, y)
    BY <1>2, <1>3 DEF Picks!Preferred
<1>6. CASE g \in F
    <2>1. Picks!Favorites(V) = F
        BY <1>2, <1>6
    <2>2. Beneath(W, g) \subseteq Beneath(V, g)
        BY <1>5, <1>6, <2>1, PreferringIsAnOrder DEF Beneath
    <2>3. \A x \in F : x # g => Beneath(V, x) \subseteq Beneath(W, x)
        <3> SUFFICES ASSUME NEW x \in F, x # g, NEW y \in F, Picks!Preferred(V, x, y)
                     PROVE  Picks!Preferred(W, x, y)
            BY <2>1 DEF Beneath
        <3>1. CASE y # g
            BY <1>4, <3>1
        <3>2. CASE y = g
            <4>1. ~Picks!Preferred(V, g, x)
                BY <1>1, <1>6, <2>1, <3>2, PreferringIsAnOrder
            <4>2. ~Picks!Preferred(W, g, x)
                BY <1>5, <4>1
            <4> QED
                BY <1>6, <3>2, <4>2, PreferringIsAnOrder
        <3> QED
            BY <3>1, <3>2
    <2>4. \A x \in F : /\ IsFiniteSet(Beneath(W, x)) /\ IsFiniteSet(Beneath(V, x))
                       /\ Cardinality(Beneath(W, x)) \in Nat /\ Cardinality(Beneath(V, x)) \in Nat
        <3>1. \A x : Beneath(W, x) \subseteq F /\ Beneath(V, x) \subseteq F
            BY <2>1 DEF Beneath
        <3> QED
            BY <3>1, FavoritesAreFinite
    <2>5. \A x \in F : /\ Picks!Points(W, x) = 1 + Cardinality(Beneath(W, x))
                       /\ Picks!Points(V, x) = 1 + Cardinality(Beneath(V, x))
        BY <1>1, <2>1, PointsAreRanks
    <2>6. \A x : x \notin F => Picks!Points(V, x) = 0
        BY <1>1, <2>1, PointsAreRanks
    <2>7. Picks!Points(V, g) >= Picks!Points(W, g)
        <3>1. Cardinality(Beneath(W, g)) <= Cardinality(Beneath(V, g))
            BY <1>6, <2>2, <2>4, FS_Subset
        <3> QED
            BY <1>6, <2>4, <2>5, <3>1
    <2>8. ASSUME NEW x, x # g PROVE Picks!Points(V, x) <= Picks!Points(W, x)
        <3>1. CASE x \in F
            <4>1. Cardinality(Beneath(V, x)) <= Cardinality(Beneath(W, x))
                BY <2>3, <2>4, <2>8, <3>1, FS_Subset
            <4> QED
                BY <2>4, <2>5, <3>1, <4>1
        <3>2. CASE x \notin F
            BY <1>3, <2>6, <3>2
        <3> QED
            BY <3>1, <3>2
    <2> QED
        BY <2>7, <2>8 DEF V
<1>7. CASE g \notin F
    <2>1. Picks!Points(W, g) = 0
        BY <1>7, PointsAreRanks
    <2>2. ASSUME NEW x, x # g, x \notin F PROVE Picks!Points(V, x) = 0
        BY <1>1, <1>2, <2>2, PointsAreRanks
    <2> QED
        BY <1>3, <1>7, <2>1, <2>2 DEF V
<1> QED
    BY <1>6, <1>7

LEMMA ProductsGrow ==
    ASSUME NEW c \in Nat, NEW k \in Nat, NEW d \in Nat, NEW p \in Nat, c <= k
    PROVE  /\ k * (p + d) = k * p + k * d /\ c * d <= k * d
           /\ k * p \in Nat /\ c * d \in Nat /\ k * d \in Nat
<1>1. k * (p + d) = k * p + k * d
    OBVIOUS
<1>2. k * p \in Nat /\ c * d \in Nat /\ k * d \in Nat
    OBVIOUS
<1>3. c * d <= k * d
    <2> DEFINE e == k - c
    <2>1. e \in Nat /\ k = c + e
        OBVIOUS
    <2> HIDE DEF e
    <2>2. (c + e) * d = c * d + e * d /\ e * d \in Nat
        BY <2>1
    <2> QED
        BY <1>2, <2>1, <2>2
<1> QED
    BY <1>1, <1>2, <1>3

\* A movie whose every genre is g has the points of g at each place.
LEMMA PureScores ==
    ASSUME NEW W \in SUBSET Movies, NEW m \in Movies, NEW g, Picks!Genres(m) = {g}
    PROVE  Picks!Score(W, m) = Len(GenresOf[m]) * Picks!Points(W, g)
<1> DEFINE places == DOMAIN GenresOf[m]
           rank == 1..Picks!Points(W, g)
<1>1. \A i \in places : GenresOf[m][i] = g
    BY DEF Picks!Genres
<1>2. /\ IsFiniteSet(places) /\ Cardinality(places) = Len(GenresOf[m])
      /\ IsFiniteSet(rank) /\ Cardinality(rank) = Picks!Points(W, g)
    <2>1. Picks!Points(W, g) \in Nat
        BY PointsAreRanks
    <2>2. 1 \in Int /\ Picks!Points(W, g) \in Int
          /\ (IF 1 > Picks!Points(W, g) THEN 0 ELSE Picks!Points(W, g) - 1 + 1) = Picks!Points(W, g)
        BY <2>1
    <2>3. IsFiniteSet(rank) /\ Cardinality(rank) = Picks!Points(W, g)
        BY ONLY <2>2, FS_Interval
    <2> QED
        BY <2>3, ListsAreFinite
<1>3. Gains(W, m) = places \X rank
    <2>1. Gains(W, m) = UNION {{i} \X rank : i \in places}
        BY <1>1 DEF Gains
    <2> HIDE DEF places, rank
    <2> QED
        BY <2>1
<1> HIDE DEF places, rank
<1>4. Cardinality(places \X rank) = Cardinality(places) * Cardinality(rank)
    BY <1>2, FS_Product
<1> QED
    BY <1>2, <1>3, <1>4, ScoresAreNumbers

\* Another movie gains no more than the rise of the genre at the places it has it.
LEMMA OthersGainLess ==
    ASSUME NEW W \in SUBSET Movies, NEW w \in Movies, w \notin W,
           NEW g, Picks!Genres(w) = {g}, NEW n \in Movies, NEW c \in Nat, NEW d \in Nat,
           c = Cardinality({i \in DOMAIN GenresOf[n] : GenresOf[n][i] = g}),
           d = Picks!Points(W \union {w}, g) - Picks!Points(W, g),
           g \in Picks!Favorites(W) \/ Picks!Score(W, n) = 0
    PROVE  Picks!Score(W \union {w}, n) <= Picks!Score(W, n) + c * d
<1> DEFINE V == W \union {w}
           own == {i \in DOMAIN GenresOf[n] : GenresOf[n][i] = g}
           old == Picks!Points(W, g)
           rise == (old + 1)..(old + d)
<1>1. V \in SUBSET Movies
    OBVIOUS
<1>2. Picks!Points(V, g) = old + d /\ old \in Nat
    <2>1. Picks!Points(V, g) \in Nat /\ old \in Nat
        BY <1>1, PointsAreRanks
    <2> QED
        BY <2>1
<1>3. \A x : x # g /\ (g \in Picks!Favorites(W) \/ x \notin Picks!Favorites(W))
                 => Picks!Points(V, x) <= Picks!Points(W, x)
    BY WatchingRaisesItsGenre, Zenon
<1>4. \A x : Picks!Points(V, x) \in Nat /\ Picks!Points(W, x) \in Nat
    BY <1>1, PointsAreRanks
<1>5. /\ \A q \in Gains(V, n) : q = <<q[1], q[2]>>
      /\ \A i, j : <<i, j>> \in Gains(V, n) <=>
             i \in DOMAIN GenresOf[n] /\ j \in 1..Picks!Points(V, GenresOf[n][i])
      /\ \A i, j : <<i, j>> \in Gains(W, n) <=>
             i \in DOMAIN GenresOf[n] /\ j \in 1..Picks!Points(W, GenresOf[n][i])
      /\ IsFiniteSet(Gains(V, n)) /\ IsFiniteSet(Gains(W, n))
      /\ Picks!Score(V, n) \in Nat /\ Picks!Score(W, n) \in Nat
      /\ Picks!Score(V, n) = Cardinality(Gains(V, n)) /\ Picks!Score(W, n) = Cardinality(Gains(W, n))
    BY <1>1, ScoresAreNumbers
<1> HIDE DEF V
<1>6. ASSUME NEW i \in DOMAIN GenresOf[n], GenresOf[n][i] # g
      PROVE  Picks!Points(V, GenresOf[n][i]) <= Picks!Points(W, GenresOf[n][i])
    <2> DEFINE x == GenresOf[n][i]
    <2>1. CASE g \in Picks!Favorites(W)
        BY <1>3, <1>6, <2>1
    <2>2. CASE Picks!Score(W, n) = 0
        <3>1. Gains(W, n) = {}
            BY <1>5, <2>2, FS_EmptySet
        <3>2. ~(1 \in 1..Picks!Points(W, x))
            BY <1>5, <3>1
        <3>3. x \notin Picks!Favorites(W)
            <4>1. ASSUME x \in Picks!Favorites(W) PROVE FALSE
                <5>1. Picks!Points(W, x) >= 1
                    BY <4>1, PointsAreRanks, FavoritesAreFinite
                <5> QED
                    BY <1>4, <3>2, <5>1
            <4> QED
                BY <4>1
        <3> QED
            BY <1>3, <1>6, <3>3
    <2> QED
        BY <2>1, <2>2
<1>7. Gains(V, n) \subseteq Gains(W, n) \union (own \X rise)
    <2> SUFFICES ASSUME NEW q \in Gains(V, n), q \notin Gains(W, n) PROVE q \in own \X rise
        OBVIOUS
    <2> DEFINE i == q[1]
               j == q[2]
    <2>1. q = <<i, j>>
        BY <1>5
    <2> HIDE DEF i, j
    <2>2. i \in DOMAIN GenresOf[n] /\ j \in 1..Picks!Points(V, GenresOf[n][i])
        BY <1>5, <2>1
    <2>3. ~(j \in 1..Picks!Points(W, GenresOf[n][i]))
        BY <1>5, <2>1, <2>2
    <2>4. GenresOf[n][i] = g
        BY <1>4, <1>6, <2>2, <2>3
    <2>5. j \in rise
        BY <1>2, <2>2, <2>3, <2>4
    <2>6. i \in own
        BY <2>2, <2>4
    <2> HIDE DEF own, rise
    <2> QED
        BY <2>1, <2>5, <2>6
<1>8. IsFiniteSet(own) /\ IsFiniteSet(rise) /\ Cardinality(rise) = d
    <2>1. old + 1 \in Int /\ old + d \in Int
          /\ (IF old + 1 > old + d THEN 0 ELSE (old + d) - (old + 1) + 1) = d
        BY <1>2
    <2>2. IsFiniteSet(rise) /\ Cardinality(rise) = d
        BY ONLY <2>1, FS_Interval
    <2>3. IsFiniteSet(own)
        BY ListsAreFinite, FS_Subset
    <2> QED
        BY <2>2, <2>3
<1>9. IsFiniteSet(own \X rise) /\ Cardinality(own \X rise) = c * d
    <2> HIDE DEF rise
    <2>1. c = Cardinality(own)
        OBVIOUS
    <2> HIDE DEF own
    <2> QED
        BY <1>8, <2>1, FS_Product
<1> DEFINE more == own \X rise
<1> HIDE DEF more
<1>10. Cardinality(Gains(W, n) \union more) <= Cardinality(Gains(W, n)) + c * d
    <2>1. IsFiniteSet(more) /\ Cardinality(more) = c * d
        BY <1>9 DEF more
    <2>2. Cardinality(Gains(W, n) \union more)
            = Cardinality(Gains(W, n)) + Cardinality(more) - Cardinality(Gains(W, n) \intersect more)
        BY <1>5, <2>1, FS_Union
    <2>3. Cardinality(Gains(W, n) \intersect more) \in Nat
        BY <1>5, FS_Subset, FS_CardinalityType
    <2>4. Cardinality(Gains(W, n)) \in Nat /\ c * d \in Nat
        BY <1>5
    <2> QED
        BY ONLY <2>1, <2>2, <2>3, <2>4
<1>11. Cardinality(Gains(V, n)) <= Cardinality(Gains(W, n) \union more)
    <2>1. IsFiniteSet(Gains(W, n) \union more) /\ Gains(V, n) \subseteq Gains(W, n) \union more
        BY <1>5, <1>7, <1>9, FS_Union DEF more
    <2> QED
        BY <2>1, FS_Subset
<1>12. Cardinality(Gains(W, n) \union more) \in Nat /\ c * d \in Nat
    BY <1>5, <1>9, FS_Union, FS_CardinalityType DEF more
<1> QED
    BY <1>5, <1>10, <1>11, <1>12 DEF V

\* What is above another stays above it when one more movie of its genre alone
\* has been watched.
LEMMA WatchingKeepsAbove ==
    ASSUME NEW W \in SUBSET Movies, NEW w \in Movies, Cardinality(Picks!Genres(w)) = 1,
           NEW m \in Movies, NEW n \in Movies, GenresOf[m] = GenresOf[w],
           Cardinality({i \in DOMAIN GenresOf[n] : GenresOf[n][i] \in Picks!Genres(w)})
               <= Len(GenresOf[m]),
           Picks!Above(W, m, n)
    PROVE  Picks!Above(W \union {w}, m, n)
<1> DEFINE V == W \union {w}
<1>1. CASE w \in W
    BY <1>1
<1>2. CASE w \notin W
    <2>1. PICK g : Picks!Genres(w) = {g}
        <3>1. IsFiniteSet(Picks!Genres(w))
            BY PickNames, ListsAreFinite, FS_Subset DEF Picks!Genres
        <3> QED
            BY <3>1, FS_Singleton
    <2>2. Picks!Genres(m) = {g}
        BY <2>1 DEF Picks!Genres
    <2> DEFINE own == {i \in DOMAIN GenresOf[n] : GenresOf[n][i] = g}
               c == Cardinality(own)
               k == Len(GenresOf[m])
               p == Picks!Points(W, g)
               d == Picks!Points(V, g) - p
    <2>3. V \in SUBSET Movies
        OBVIOUS
    <2>4. k \in Nat /\ c \in Nat /\ c <= k
        <3>1. own = {i \in DOMAIN GenresOf[n] : GenresOf[n][i] \in Picks!Genres(w)}
            BY <2>1
        <3>2. IsFiniteSet(own)
            BY ListsAreFinite, FS_Subset
        <3>3. c \in Nat
            BY <3>2, FS_CardinalityType
        <3> QED
            BY <3>1, <3>3, ListsAreFinite
    <2>5. p \in Nat /\ d \in Nat /\ Picks!Points(V, g) = p + d
        <3>1. Picks!Points(V, g) >= p
            BY <1>2, <2>1, WatchingRaisesItsGenre, Zenon
        <3>2. Picks!Points(V, g) \in Nat /\ p \in Nat
            BY <2>3, PointsAreRanks
        <3> QED
            BY <3>1, <3>2
    <2>6. Picks!Score(W, m) = k * p /\ Picks!Score(V, m) = k * (p + d)
        BY <2>2, <2>3, <2>5, PureScores
    <2>7. \A x \in {m, n} : Picks!Score(W, x) \in Nat /\ Picks!Score(V, x) \in Nat
        BY <2>3, ScoresAreNumbers
    <2>8. \/ Picks!Score(W, m) > Picks!Score(W, n)
          \/ /\ Picks!Score(W, m) = Picks!Score(W, n)
             /\ ReleaseOf[m] > ReleaseOf[n] \/ (ReleaseOf[m] = ReleaseOf[n] /\ m < n)
        BY DEF Picks!Above
    <2>9. g \in Picks!Favorites(W) \/ Picks!Score(W, n) = 0
        <3>1. ASSUME g \notin Picks!Favorites(W) PROVE Picks!Score(W, n) = 0
            <4>1. p = 0
                BY <3>1, PointsAreRanks
            <4>2. Picks!Score(W, m) = 0
                BY <2>4, <2>6, <4>1
            <4> QED
                BY <2>7, <2>8, <4>2
        <3> QED
            BY <3>1
    <2>10. Picks!Score(V, n) <= Picks!Score(W, n) + c * d
        BY <1>2, <2>1, <2>4, <2>5, <2>9, OthersGainLess
    <2> HIDE DEF c, k, p, d
    <2>11. k * (p + d) = k * p + k * d /\ c * d <= k * d /\ {k * p, c * d, k * d} \subseteq Nat
        BY <2>4, <2>5, ProductsGrow
    <2>12. \/ Picks!Score(V, m) > Picks!Score(V, n)
           \/ /\ Picks!Score(V, m) = Picks!Score(V, n)
              /\ Picks!Score(W, m) = Picks!Score(W, n)
        BY <2>6, <2>7, <2>8, <2>10, <2>11
    <2> QED
        BY <2>7, <2>8, <2>12 DEF Picks!Above
<1> QED
    BY <1>1, <1>2

-----------------------------------------------------------------------------
PickInv ==
    /\ records \in Seq(Movies) /\ Len(records) <= MaxRecords
    /\ showing \subseteq Movies

LEMMA WatchedAreMovies ==
    ASSUME PickInv
    PROVE  Picks!Watched \in SUBSET Movies /\ Picks!Recommended \in SUBSET Movies
BY DEF PickInv, Picks!Watched, Picks!Recommended

LEMMA PicksInitially == Picks!Init => PickInv
BY PickNames DEF Picks!Init, PickInv

LEMMA PicksStep == PickInv /\ [Picks!Next]_Picks!vars => PickInv'
<1> SUFFICES ASSUME PickInv, [Picks!Next]_Picks!vars PROVE PickInv'
    OBVIOUS
<1> USE DEF PickInv
<1>1. ASSUME NEW m \in Movies, Picks!Watch(m) PROVE PickInv'
    <2>1. records' \in Seq(Movies) /\ Len(records') = Len(records) + 1
        BY <1>1, AppendProperties DEF Picks!Watch
    <2>2. Len(records) \in Nat /\ Len(records) < MaxRecords /\ showing' = showing
        BY <1>1 DEF Picks!Watch
    <2> QED
        BY <2>1, <2>2, PickNames
<1>2. ASSUME NEW m \in Movies, Picks!Programme(m) PROVE PickInv'
    BY <1>2 DEF Picks!Programme
<1>3. CASE UNCHANGED Picks!vars
    BY <1>3 DEF Picks!vars
<1> QED
    BY <1>1, <1>2, <1>3 DEF Picks!Next

\* A record that pushes out no older one adds its movie to the watched ones.
LEMMA RecordsAddUp ==
    ASSUME PickInv, NEW w \in Movies, records' = Append(records, w), Len(records) < Recent
    PROVE  Picks!Watched' = Picks!Watched \union {w}
<1>1. /\ Len(records) \in Nat /\ records \in Seq(Movies) /\ Recent \in Nat
      /\ DOMAIN records = 1..Len(records)
    BY PickNames DEF PickInv
<1>2. /\ Len(records') = Len(records) + 1 /\ DOMAIN records' = 1..(Len(records) + 1)
      /\ \A i \in 1..Len(records) : records'[i] = records[i]
      /\ records'[Len(records) + 1] = w
    BY <1>1, AppendProperties
<1>3. Picks!Watched = {records[i] : i \in 1..Len(records)}
    <2>1. {j \in DOMAIN records : Len(records) - j < Recent} = 1..Len(records)
        BY <1>1
    <2> QED
        BY <2>1 DEF Picks!Watched
<1>4. Picks!Watched' = {records'[i] : i \in 1..(Len(records) + 1)}
    <2>1. {j \in DOMAIN records' : Len(records') - j < Recent} = 1..(Len(records) + 1)
        BY <1>1, <1>2
    <2> QED
        BY <2>1 DEF Picks!Watched
<1>5. 1..(Len(records) + 1) = (1..Len(records)) \union {Len(records) + 1}
    BY <1>1
<1> QED
    BY <1>2, <1>3, <1>4, <1>5

\* what WatchingHelps says of a step
WatchingHelpsNow ==
    \A w \in Movies :
        /\ records' = Append(records, w) /\ Len(records) < Recent
        /\ Picks!Cardinality(Picks!Genres(w)) = 1
        => \A m, n \in Picks!Recommended \ {w} :
               /\ GenresOf[m] = GenresOf[w]
               /\ Picks!Cardinality({i \in DOMAIN GenresOf[n] : GenresOf[n][i] \in Picks!Genres(w)})
                    <= Len(GenresOf[m])
               /\ Picks!Above(Picks!Watched, m, n)
               => Picks!Above(Picks!Watched', m, n)

LEMMA PicksHelp == PickInv => WatchingHelpsNow
<1> SUFFICES ASSUME PickInv, NEW w \in Movies, records' = Append(records, w), Len(records) < Recent,
                    Picks!Cardinality(Picks!Genres(w)) = 1,
                    NEW m \in Picks!Recommended \ {w}, NEW n \in Picks!Recommended \ {w},
                    GenresOf[m] = GenresOf[w],
                    Picks!Cardinality({i \in DOMAIN GenresOf[n] : GenresOf[n][i] \in Picks!Genres(w)})
                        <= Len(GenresOf[m]),
                    Picks!Above(Picks!Watched, m, n)
             PROVE  Picks!Above(Picks!Watched', m, n)
    BY Zenon DEF WatchingHelpsNow
<1>1. m \in Movies /\ n \in Movies /\ Picks!Watched \in SUBSET Movies
    BY WatchedAreMovies
<1>2. /\ Cardinality(Picks!Genres(w)) = 1
      /\ Cardinality({i \in DOMAIN GenresOf[n] : GenresOf[n][i] \in Picks!Genres(w)})
             <= Len(GenresOf[m])
    BY PicksCount
<1>3. Picks!Above(Picks!Watched \union {w}, m, n)
    BY <1>1, <1>2, WatchingKeepsAbove
<1> QED
    BY <1>3, RecordsAddUp

\* The records and the programme keep their types, for any movies and genres.
THEOREM PickInvariant == Picks!Spec => []PickInv
BY PicksInitially, PicksStep, PTL DEF Picks!Spec

\* For any movies, lists of genres and records, no two genres share a rank, movies
\* of genres that were watched more often come first, and watching a movie of one
\* genre does not push another of that genre back (MovieRecommender.recommend).
THEOREM PicksAreFairAlways == Picks!Spec => PicksAreFair
<1>1. PickInv => Picks!TypeOK /\ Picks!FavoritesFirst
    <2> SUFFICES ASSUME PickInv PROVE Picks!TypeOK /\ Picks!FavoritesFirst
        OBVIOUS
    <2>1. Picks!Watched \in SUBSET Movies /\ Picks!Recommended \in SUBSET Movies
        BY WatchedAreMovies
    <2>2. Picks!TypeOK
        BY <2>1, PointsAreRanks, PicksCount DEF PickInv, Picks!TypeOK
    <2>3. Picks!FavoritesFirst
        <3> SUFFICES ASSUME NEW m \in Picks!Recommended, NEW n \in Picks!Recommended,
                            Len(GenresOf[m]) >= Len(GenresOf[n]), GenresOf[n] # <<>>,
                            \A g \in Picks!Genres(m), h \in Picks!Genres(n) :
                                Picks!Frequency(Picks!Watched, g) > Picks!Frequency(Picks!Watched, h)
                     PROVE  Picks!Above(Picks!Watched, m, n)
            BY DEF Picks!FavoritesFirst
        <3> QED
            BY <2>1, FavoritesComeFirst
    <2> QED
        BY <2>2, <2>3
<1>2. Picks!Spec => [](Picks!TypeOK /\ Picks!FavoritesFirst)
    BY <1>1, PickInvariant, PTL
<1>3. PickInv /\ [Picks!Next]_Picks!vars => [WatchingHelpsNow]_Picks!vars
    BY PicksHelp
<1>4. Picks!Spec => [][WatchingHelpsNow]_Picks!vars
    BY <1>3, PickInvariant, PTL DEF Picks!Spec
<1>5. Picks!Spec => Picks!WatchingHelps
    BY <1>4, PTL DEF WatchingHelpsNow, Picks!WatchingHelps
<1> QED
    BY <1>2, <1>5 DEF PicksAreFair
=============================================================================
