-------------------------- MODULE LoginRateLimiter --------------------------
(***************************************************************************)
(* A login is counted when it fails, for its account and for its address,  *)
(* in two Redis counters that begin with the first failure and expire a    *)
(* window later.  It is refused (429) when either has reached its limit.   *)
(* The check comes before the password is compared and the count after, so *)
(* that logins at the same time all pass the check; the count then refuses *)
(* those over the limit.  A login that succeeds resets its account.        *)
(***************************************************************************)
EXTENDS Naturals, FiniteSets

CONSTANTS
    Login, Account, Ip,
    AccountOf, IpOf,       \* each login's account, by its normalized email, and address
    AccountLimit, IpLimit

Counter == Account \union Ip

ASSUME LoginAssumption ==
    IsFiniteSet(Login) /\ AccountOf \in [Login -> Account] /\ IpOf \in [Login -> Ip]
ASSUME CounterAssumption == Account \intersect Ip = {}
ASSUME LimitAssumption == {AccountLimit, IpLimit} \subseteq Nat \ {0}

VARIABLES
    count, expires,    \* the counters; whether they have a time to live
    step, toCount,     \* where each login is; the counters it has yet to increment
    over,              \* whether a count it was told is over the limit
    answer,
    counted            \* history: the logins counted in each counter since it began

counters == <<count, expires, counted>>
vars == <<counters, step, toCount, over, answer>>

CountersOf(l) == {AccountOf[l], IpOf[l]}
Limit(k) == IF k \in Account THEN AccountLimit ELSE IpLimit

Init ==
    /\ count = [k \in Counter |-> 0] /\ expires = [k \in Counter |-> FALSE]
    /\ counted = [k \in Counter |-> {}]
    /\ step = [l \in Login |-> "new"] /\ toCount = [l \in Login |-> {}]
    /\ over = [l \in Login |-> FALSE] /\ answer = [l \in Login |-> "none"]

Finish(l, a) ==
    /\ answer' = [answer EXCEPT ![l] = a]
    /\ step' = [step EXCEPT ![l] = "done"]

-----------------------------------------------------------------------------
\* assertAllowed reads both counters
AssertAllowed(l) ==
    /\ step[l] = "new"
    /\ IF \E k \in CountersOf(l) : Limit(k) <= count[k]
          THEN Finish(l, "429")
          ELSE step' = [step EXCEPT ![l] = "compare"] /\ UNCHANGED answer
    /\ UNCHANGED <<counters, toCount, over>>

\* the password is wrong, or right; a right one may still be refused by the
\* token service, which is not counted
Compare(l) ==
    /\ step[l] = "compare"
    /\ \/ /\ step' = [step EXCEPT ![l] = "record"]
          /\ toCount' = [toCount EXCEPT ![l] = CountersOf(l)]
          /\ UNCHANGED answer
       \/ step' = [step EXCEPT ![l] = "reset"] /\ UNCHANGED <<toCount, answer>>
       \/ Finish(l, "uncounted") /\ UNCHANGED toCount
    /\ UNCHANGED <<counters, over>>

\* the time to live is set before the first count
SetsExpiry_Faulty(n) == n = 0

SetsExpiry(n) == n = 1

\* the script INCREMENT_WITH_TTL
Increment(l, k) ==
    /\ step[l] = "record" /\ k \in toCount[l]
    /\ count' = [count EXCEPT ![k] = @ + 1]
    /\ expires' = [expires EXCEPT ![k] = @ \/ SetsExpiry(count[k] + 1)]
    /\ counted' = [counted EXCEPT ![k] = @ \union {l}]
    /\ toCount' = [toCount EXCEPT ![l] = @ \ {k}]
    /\ over' = [over EXCEPT ![l] = @ \/ Limit(k) < count[k] + 1]
    /\ UNCHANGED <<step, answer>>

\* recordFailure leaves the refusal to the next check
Answer_Faulty(l) == "401"

Answer(l) == IF over[l] THEN "429" ELSE "401"

RecordFailure(l) ==
    /\ step[l] = "record" /\ toCount[l] = {}
    /\ Finish(l, Answer(l))
    /\ UNCHANGED <<counters, toCount, over>>

Reset(l) == {AccountOf[l]}

\* resetAccount
ResetAccount(l) ==
    /\ step[l] = "reset"
    /\ count' = [k \in Counter |-> IF k \in Reset(l) THEN 0 ELSE count[k]]
    /\ expires' = [k \in Counter |-> IF k \in Reset(l) THEN FALSE ELSE expires[k]]
    /\ counted' = [counted EXCEPT ![AccountOf[l]] = {}]
    /\ Finish(l, "200")
    /\ UNCHANGED <<toCount, over>>

\* the server dies, or a call to Redis or MongoDB fails
Dies(l) ==
    /\ step[l] \notin {"new", "done"}
    /\ Finish(l, "500")
    /\ UNCHANGED <<counters, toCount, over>>

\* the window of a counter ends; a window begins with a login, and those are
\* bounded by Login
Expire(k) ==
    /\ expires[k]
    /\ count' = [count EXCEPT ![k] = 0] /\ expires' = [expires EXCEPT ![k] = FALSE]
    /\ counted' = [counted EXCEPT ![k] = {}]
    /\ UNCHANGED <<step, toCount, over, answer>>

Next ==
    \/ \E l \in Login : \/ AssertAllowed(l) \/ Compare(l) \/ RecordFailure(l) \/ ResetAccount(l)
                        \/ Dies(l)
                        \/ \E k \in Counter : Increment(l, k)
    \/ \E k \in Counter : Expire(k)

Spec == Init /\ [][Next]_vars

\* Redis expires what has a time to live
Fairness == \A k \in Counter : WF_vars(Expire(k))

-----------------------------------------------------------------------------
\* The types, and that a counter that was begun expires.
TypeOK ==
    /\ \A k \in Counter : /\ count[k] \in 0..Cardinality(Login)
                          /\ expires[k] <=> count[k] > 0
    /\ \A l \in Login : /\ step[l] \in {"new", "compare", "record", "reset", "done"}
                        /\ toCount[l] \subseteq CountersOf(l)
                        /\ answer[l] # "none" <=> step[l] = "done"

\* However many logins are compared at once, no more of them are told that
\* their password is wrong, while a counter lasts, than its limit allows; a
\* success elsewhere does not make an address forget.
FailuresAreBounded ==
    \A k \in Counter :
        Cardinality({l \in counted[k] : answer[l] = "401"}) <= Limit(k)

\* Who is locked out is let in again when the window ends.
LockoutEnds ==
    \A k \in Counter : (count[k] >= Limit(k)) ~> (count[k] < Limit(k))
=============================================================================
