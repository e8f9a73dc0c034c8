---------------------------- MODULE JwtAuthProofs ----------------------------
(***************************************************************************)
(* Theorems about JwtAuth for any logins, refreshes, logouts, revocations  *)
(* of the account and number of faults.                                    *)
(***************************************************************************)
EXTENDS JwtAuth, FiniteSetTheorems, TLAPS

-----------------------------------------------------------------------------
(***************************************************************************)
(* The inductive invariant.                                                *)
(***************************************************************************)

Rotating == {"lookup", "consume", "duplicate", "alive"}
Issuing == {"index", "store", "unstore", "confirm"}
Revoking == {"fence", "list", "delete", "unindex"}
Sweeping == {"families", "next", "drop"}

\* Where a request can be, by what it does, and what it knows there.
RequestsKeepTheirPath ==
    \A p \in Request :
        /\ step[p] \in Rotating => p \in Refresh
        /\ step[p] \in Issuing => p \in Token
        /\ step[p] \in Sweeping => p \in Revoker
        /\ step[p] \in Revoking => target[p] \in Family
        /\ step[p] \notin Revoking \union {"next", "drop", "done"} => target[p] = Nobody
        /\ step[p] \in {"start"} \union Rotating \union Issuing => answer[p] = "none"
        /\ answer[p] = "ok" /\ p \notin Logout => step[p] = "done"
        /\ answer[p] = "ok" /\ p \in Token => target[p] = Nobody

\* A token that a client brings was delivered to it.
PresentedWasDelivered ==
    \A p \in Request :
        /\ presented[p] # Nobody => presented[p] \in Delivered
        /\ step[p] \in Rotating => presented[p] # Nobody
        /\ p \in Refresh /\ (step[p] \in Issuing \/ answer[p] = "ok") => presented[p] # Nobody

\* A token's payload is made once, before it is stored, and never changed.
PayloadIsMadeOnce ==
    \A t \in Token :
        /\ step[t] \in {"start"} \union Rotating => familyOf[t] = Nobody
        /\ step[t] \in Issuing \/ answer[t] = "ok" => familyOf[t] \in Family
        /\ t \in stored =>
              /\ familyOf[t] \in Family
              /\ step[t] \notin {"start", "index", "store", "unstore"} \union Rotating

\* p consumed the token it brought
Won(p) == p \in Refresh /\ (step[p] \in Issuing \/ answer[p] = "ok")

\* A token is consumed by one request and never comes back.
OneWinner ==
    /\ \A p \in Refresh : Won(p) => presented[p] \notin stored
    /\ \A p, q \in Refresh : Won(p) /\ Won(q) /\ p # q => presented[p] # presented[q]

\* the revocations of the account that have begun
BegunRevokers == {p \in Revoker : step[p] # "start"}

\* A revocation of the account is preceded by a new version.
RevokersFollowTheVersion ==
    /\ active \/ version > 0
    /\ \A p \in BegunRevokers : version > 0
    /\ version <= Cardinality(BegunRevokers)

\* p has emptied the family it revoked
Emptied(p) ==
    /\ target[p] # Nobody
    /\ \/ step[p] \in {"unindex", "next", "drop"}
       \/ step[p] = "done" /\ answer[p] \in {"ok", "reuse"}

\* From the fence on a family only loses tokens, until none is left.
FencedFamiliesShrink ==
    /\ \A p \in Request :
          /\ step[p] \in {"list", "delete"} => target[p] \in fence
          /\ Emptied(p) => target[p] \in fence /\ FamilyTokens(target[p]) \intersect members = {}
          /\ step[p] = "delete" =>
                /\ listed[p] \subseteq FamilyTokens(target[p])
                /\ FamilyTokens(target[p]) \intersect members \subseteq listed[p]
    /\ \A p \in Token : step[p] = "unstore" => familyOf[p] \in fence

\* f may be revoked
Justified(f) ==
    \/ version > 0
    \/ \E p \in Logout : target[p] = f
    \/ \E t \in FamilyTokens(f) : tombstone[t] = "lapsed"

\* A token that was delivered is stored until it is consumed, for good, or its
\* family revoked; and who finds it missing while its tombstone is live raises
\* no alarm.
AlarmsAreJustified ==
    /\ \A t \in Token : tombstone[t] # "none" => t \in Delivered /\ t \notin stored
    /\ \A t \in Token : step[t] = "confirm" \/ t \in Delivered =>
          t \in stored \/ tombstone[t] # "none" \/ familyOf[t] \in fence
    /\ \A p \in Request :
          /\ step[p] \in {"duplicate", "alive"} =>
                tombstone[presented[p]] # "none" \/ familyOf[presented[p]] \in fence
          /\ step[p] = "alive" =>
                tombstone[presented[p]] = "lapsed" \/ familyOf[presented[p]] \in fence
          /\ step[p] = "fence" => Justified(target[p])
    /\ NoFalseAlarm

\* q is going to delete t
Deletes(q, t) ==
    /\ target[q] = familyOf[t]
    /\ \/ step[q] = "list"
       \/ step[q] = "delete" /\ t \in listed[q]

\* somebody is going to revoke the family of t
Doomed(t) ==
    \/ step[t] = "confirm"
    \/ \E q \in Request : target[q] = familyOf[t] /\ step[q] = "fence"
    \/ \E q \in Request : Deletes(q, t)
    \/ \E q \in Revoker : familyOf[t] \in todo[q] /\ step[q] \in Revoking \union {"next"}
    \/ /\ familyOf[t] \in index
       /\ \E q \in Revoker : step[q] = "families"
       /\ \A q \in Revoker : step[q] \in {"start", "families", "done"}

\* While no request has died, the index leads the first revocation of the
\* account to all tokens that were confirmed before it.
RevocationsReachTokens ==
    faults = 0 =>
        /\ \A t \in stored : familyOf[t] \in fence => \E q \in Request : Deletes(q, t)
        /\ version = 0 => \A t \in Token :
              t \in stored \/ step[t] = "store" => familyOf[t] \in index \union fence
        /\ version > 0 => \A t \in stored : versionOf[t] = 0 => Doomed(t)

IInv ==
    /\ TypeOK
    /\ RequestsKeepTheirPath
    /\ PresentedWasDelivered
    /\ PayloadIsMadeOnce
    /\ OneWinner
    /\ RevokersFollowTheVersion
    /\ FencedFamiliesShrink
    /\ FamilyListsItsTokens
    /\ AlarmsAreJustified
    /\ RevocationsReachTokens

\* A token that gets its payload takes no reason for a revocation away.
LEMMA JustifiedStays ==
    ASSUME IInv, NEW p \in Token, step[p] \in {"start"} \union Rotating, NEW g,
           familyOf' = [familyOf EXCEPT ![p] = g], UNCHANGED <<version, target>>,
           \A t \in Token : tombstone[t] = "lapsed" => tombstone'[t] = "lapsed",
           NEW f \in Family, Justified(f)
    PROVE  Justified(f)'
<1>1. familyOf[p] = Nobody /\ f # Nobody
    BY NobodyAssumption DEF IInv, PayloadIsMadeOnce, Family, Request
<1>2. FamilyTokens(f) \subseteq FamilyTokens(f)'
    BY <1>1 DEF FamilyTokens, IInv, TypeOK
<1> QED
    BY <1>2 DEF Justified, FamilyTokens

-----------------------------------------------------------------------------
(***************************************************************************)
(* Every step keeps it.                                                    *)
(***************************************************************************)

\* A login makes the first token of its family.
LEMMA StepLogIn ==
    ASSUME IInv, NEW p \in Request, LogIn(p)
    PROVE  IInv'
<1> USE DEF account, redis, payload, local
<1> /\ TypeOK /\ RequestsKeepTheirPath /\ PresentedWasDelivered /\ PayloadIsMadeOnce
    /\ OneWinner /\ RevokersFollowTheVersion /\ FencedFamiliesShrink
    /\ FamilyListsItsTokens /\ AlarmsAreJustified /\ RevocationsReachTokens
    BY DEF IInv
<1>1. CASE active
    <2>0. /\ p \in Login
          /\ step[p] = "start"
          /\ familyOf' = [familyOf EXCEPT ![p] = p]
          /\ versionOf' = [versionOf EXCEPT ![p] = version]
          /\ step' = [step EXCEPT ![p] = "index"]
          /\ answer' = answer
          /\ UNCHANGED <<kind, version, active, stored, members, fence, tombstone>>
          /\ UNCHANGED <<index, presented, target, listed, todo, faults>>
        BY <1>1 DEF LogIn, GoTo, Reply
    <2>1. TypeOK'
        BY <1>1, <2>0, RequestAssumption DEF TypeOK, Step, Answer, Token, Request, Family
    <2>2. RequestsKeepTheirPath'
        BY <1>1, <2>0
           DEF TypeOK, RequestsKeepTheirPath, Rotating, Issuing, Revoking, Sweeping, Token,
               Request
    <2>3. PresentedWasDelivered'
        BY <1>1, <2>0, RequestAssumption, NobodyAssumption
           DEF TypeOK, PresentedWasDelivered, Delivered, Rotating, Issuing, Token, Request
    <2>4. PayloadIsMadeOnce'
        BY <1>1, <2>0, RequestAssumption, NobodyAssumption
           DEF TypeOK, PayloadIsMadeOnce, Rotating, Issuing, Token, Request, Family
    <2>5. OneWinner'
        BY <1>1, <2>0, RequestAssumption
           DEF TypeOK, OneWinner, Won, Issuing, Token, Request, PresentedWasDelivered, Delivered,
               Rotating
    <2>6. RevokersFollowTheVersion'
        <3>1. BegunRevokers' = BegunRevokers
            BY <2>0, RequestAssumption DEF TypeOK, BegunRevokers, Request
        <3> QED
            BY <2>0, <3>1 DEF RevokersFollowTheVersion
    <2>7. FencedFamiliesShrink'
        BY <1>1, <2>0, RequestAssumption, NobodyAssumption
           DEF TypeOK, FencedFamiliesShrink, Emptied, FamilyTokens, Token, Request,
               PayloadIsMadeOnce, Rotating, Issuing, FamilyListsItsTokens, RequestsKeepTheirPath,
               Revoking, Sweeping, Family
    <2>8. FamilyListsItsTokens'
        BY <1>1, <2>0 DEF FamilyListsItsTokens
    <2>9. AlarmsAreJustified'
        <3>1. \A f \in Family : Justified(f) => Justified(f)'
            BY <2>0, JustifiedStays DEF Token, Rotating, TypeOK
        <3> QED
            BY <2>0, <3>1, NobodyAssumption
               DEF TypeOK, AlarmsAreJustified, NoFalseAlarm, Justified, RequestsKeepTheirPath, Revoking,
                   PresentedWasDelivered, Delivered, Rotating, Token, Request
    <2>10. RevocationsReachTokens'
        BY <1>1, <2>0, RequestAssumption
           DEF TypeOK, RevocationsReachTokens, Doomed, Deletes, Revoking, Token, Request,
               PayloadIsMadeOnce, Rotating, Issuing, RequestsKeepTheirPath, Sweeping
    <2> QED
        BY <2>1, <2>2, <2>3, <2>4, <2>5, <2>6, <2>7, <2>8, <2>9, <2>10 DEF IInv
<1>2. CASE ~active
    <2>0. /\ p \in Login
          /\ step[p] = "start"
          /\ answer' = [answer EXCEPT ![p] = "invalid"]
          /\ step' = [step EXCEPT ![p] = "done"]
          /\ UNCHANGED <<kind, version, active, stored, members, fence, tombstone, index>>
          /\ UNCHANGED <<familyOf, versionOf, presented, target, listed, todo, faults>>
        BY <1>2 DEF LogIn, GoTo, Reply
    <2>1. TypeOK'
        BY <1>2, <2>0 DEF TypeOK, Step, Answer, Token, Request, Family
    <2>2. RequestsKeepTheirPath'
        BY <1>2, <2>0
           DEF TypeOK, RequestsKeepTheirPath, Rotating, Issuing, Revoking, Sweeping, Token,
               Request
    <2>3. PresentedWasDelivered'
        BY <1>2, <2>0
           DEF TypeOK, PresentedWasDelivered, Delivered, Rotating, Issuing, Token, Request
    <2>4. PayloadIsMadeOnce'
        BY <1>2, <2>0 DEF TypeOK, PayloadIsMadeOnce, Rotating, Issuing, Token, Request
    <2>5. OneWinner'
        BY <1>2, <2>0 DEF TypeOK, OneWinner, Won, Issuing, Token, Request
    <2>6. RevokersFollowTheVersion'
        <3>1. BegunRevokers' = BegunRevokers
            BY <2>0, RequestAssumption DEF TypeOK, BegunRevokers, Request
        <3> QED
            BY <2>0, <3>1 DEF RevokersFollowTheVersion
    <2>7. FencedFamiliesShrink'
        BY <1>2, <2>0 DEF TypeOK, FencedFamiliesShrink, Emptied, FamilyTokens, Token, Request
    <2>8. FamilyListsItsTokens'
        BY <1>2, <2>0 DEF FamilyListsItsTokens
    <2>9. AlarmsAreJustified'
        BY <1>2, <2>0
           DEF TypeOK, AlarmsAreJustified, NoFalseAlarm, Justified, FamilyTokens, Delivered,
               Token, Request
    <2>10. RevocationsReachTokens'
        BY <1>2, <2>0 DEF TypeOK, RevocationsReachTokens, Doomed, Deletes, Revoking, Token, Request
    <2> QED
        BY <2>1, <2>2, <2>3, <2>4, <2>5, <2>6, <2>7, <2>8, <2>9, <2>10 DEF IInv
<1> QED
    BY <1>1, <1>2

LEMMA StepLookup ==
    ASSUME IInv, NEW p \in Request, Lookup(p)
    PROVE  IInv'
<1> USE DEF account, redis, payload, local
<1> /\ TypeOK /\ RequestsKeepTheirPath /\ PresentedWasDelivered /\ PayloadIsMadeOnce
    /\ OneWinner /\ RevokersFollowTheVersion /\ FencedFamiliesShrink
    /\ FamilyListsItsTokens /\ AlarmsAreJustified /\ RevocationsReachTokens
    BY DEF IInv
<1>1. CASE presented[p] \in stored
    <2>0. /\ step[p] = "lookup"
          /\ step' = [step EXCEPT ![p] = "consume"]
          /\ answer' = answer
          /\ UNCHANGED <<kind, version, active, stored, members, fence, tombstone, index>>
          /\ UNCHANGED <<familyOf, versionOf, presented, target, listed, todo, faults>>
        BY <1>1 DEF Lookup, GoTo
    <2>1. TypeOK'
        BY <1>1, <2>0 DEF TypeOK, Step, Answer, Token, Request, Family
    <2>2. RequestsKeepTheirPath'
        BY <1>1, <2>0
           DEF TypeOK, RequestsKeepTheirPath, Rotating, Issuing, Revoking, Sweeping, Token,
               Request
    <2>3. PresentedWasDelivered'
        BY <1>1, <2>0
           DEF TypeOK, PresentedWasDelivered, Delivered, Rotating, Issuing, Token, Request
    <2>4. PayloadIsMadeOnce'
        BY <1>1, <2>0 DEF TypeOK, PayloadIsMadeOnce, Rotating, Issuing, Token, Request
    <2>5. OneWinner'
        BY <1>1, <2>0 DEF TypeOK, OneWinner, Won, Issuing, Token, Request
    <2>6. RevokersFollowTheVersion'
        BY <1>1, <2>0 DEF TypeOK, RevokersFollowTheVersion, BegunRevokers, Request
    <2>7. FencedFamiliesShrink'
        BY <1>1, <2>0 DEF TypeOK, FencedFamiliesShrink, Emptied, FamilyTokens, Token, Request
    <2>8. FamilyListsItsTokens'
        BY <1>1, <2>0 DEF FamilyListsItsTokens
    <2>9. AlarmsAreJustified'
        BY <1>1, <2>0
           DEF TypeOK, AlarmsAreJustified, NoFalseAlarm, Justified, FamilyTokens, Delivered,
               Token, Request
    <2>10. RevocationsReachTokens'
        BY <1>1, <2>0 DEF TypeOK, RevocationsReachTokens, Doomed, Deletes, Revoking, Token, Request
    <2> QED
        BY <2>1, <2>2, <2>3, <2>4, <2>5, <2>6, <2>7, <2>8, <2>9, <2>10 DEF IInv
<1>2. CASE presented[p] \notin stored
    <2>0. /\ step[p] = "lookup"
          /\ step' = [step EXCEPT ![p] = "duplicate"]
          /\ answer' = answer
          /\ UNCHANGED <<kind, version, active, stored, members, fence, tombstone, index>>
          /\ UNCHANGED <<familyOf, versionOf, presented, target, listed, todo, faults>>
        BY <1>2 DEF Lookup, GoTo
    <2>1. TypeOK'
        BY <1>2, <2>0 DEF TypeOK, Step, Answer, Token, Request, Family
    <2>2. RequestsKeepTheirPath'
        BY <1>2, <2>0
           DEF TypeOK, RequestsKeepTheirPath, Rotating, Issuing, Revoking, Sweeping, Token,
               Request
    <2>3. PresentedWasDelivered'
        BY <1>2, <2>0
           DEF TypeOK, PresentedWasDelivered, Delivered, Rotating, Issuing, Token, Request
    <2>4. PayloadIsMadeOnce'
        BY <1>2, <2>0 DEF TypeOK, PayloadIsMadeOnce, Rotating, Issuing, Token, Request
    <2>5. OneWinner'
        BY <1>2, <2>0 DEF TypeOK, OneWinner, Won, Issuing, Token, Request
    <2>6. RevokersFollowTheVersion'
        BY <1>2, <2>0 DEF TypeOK, RevokersFollowTheVersion, BegunRevokers, Request
    <2>7. FencedFamiliesShrink'
        BY <1>2, <2>0 DEF TypeOK, FencedFamiliesShrink, Emptied, FamilyTokens, Token, Request
    <2>8. FamilyListsItsTokens'
        BY <1>2, <2>0 DEF FamilyListsItsTokens
    <2>9. AlarmsAreJustified'
        BY <1>2, <2>0
           DEF TypeOK, AlarmsAreJustified, NoFalseAlarm, Justified, FamilyTokens, Delivered,
               Token, Request, PresentedWasDelivered, Rotating, Issuing
    <2>10. RevocationsReachTokens'
        BY <1>2, <2>0 DEF TypeOK, RevocationsReachTokens, Doomed, Deletes, Revoking, Token, Request
    <2> QED
        BY <2>1, <2>2, <2>3, <2>4, <2>5, <2>6, <2>7, <2>8, <2>9, <2>10 DEF IInv
<1> QED
    BY <1>1, <1>2

LEMMA StepRejectDuplicate ==
    ASSUME IInv, NEW p \in Request, RejectDuplicate(p)
    PROVE  IInv'
<1> USE DEF account, redis, payload, local
<1> /\ TypeOK /\ RequestsKeepTheirPath /\ PresentedWasDelivered /\ PayloadIsMadeOnce
    /\ OneWinner /\ RevokersFollowTheVersion /\ FencedFamiliesShrink
    /\ FamilyListsItsTokens /\ AlarmsAreJustified /\ RevocationsReachTokens
    BY DEF IInv
<1>1. CASE tombstone[presented[p]] = "live"
    <2>0. /\ step[p] = "duplicate"
          /\ answer' = [answer EXCEPT ![p] = "concurrent"]
          /\ step' = [step EXCEPT ![p] = "done"]
          /\ UNCHANGED <<kind, version, active, stored, members, fence, tombstone, index>>
          /\ UNCHANGED <<familyOf, versionOf, presented, target, listed, todo, faults>>
        BY <1>1 DEF RejectDuplicate, GoTo, Reply, IsConcurrentDuplicate
    <2>1. TypeOK'
        BY <1>1, <2>0 DEF TypeOK, Step, Answer, Token, Request, Family
    <2>2. RequestsKeepTheirPath'
        BY <1>1, <2>0
           DEF TypeOK, RequestsKeepTheirPath, Rotating, Issuing, Revoking, Sweeping, Token,
               Request
    <2>3. PresentedWasDelivered'
        BY <1>1, <2>0
           DEF TypeOK, PresentedWasDelivered, Delivered, Rotating, Issuing, Token, Request
    <2>4. PayloadIsMadeOnce'
        BY <1>1, <2>0 DEF TypeOK, PayloadIsMadeOnce, Rotating, Issuing, Token, Request
    <2>5. OneWinner'
        BY <1>1, <2>0 DEF TypeOK, OneWinner, Won, Issuing, Token, Request
    <2>6. RevokersFollowTheVersion'
        BY <1>1, <2>0 DEF TypeOK, RevokersFollowTheVersion, BegunRevokers, Request
    <2>7. FencedFamiliesShrink'
        BY <1>1, <2>0 DEF TypeOK, FencedFamiliesShrink, Emptied, FamilyTokens, Token, Request
    <2>8. FamilyListsItsTokens'
        BY <1>1, <2>0 DEF FamilyListsItsTokens
    <2>9. AlarmsAreJustified'
        BY <1>1, <2>0
           DEF TypeOK, AlarmsAreJustified, NoFalseAlarm, Justified, FamilyTokens, Delivered,
               Token, Request
    <2>10. RevocationsReachTokens'
        BY <1>1, <2>0 DEF TypeOK, RevocationsReachTokens, Doomed, Deletes, Revoking, Token, Request
    <2> QED
        BY <2>1, <2>2, <2>3, <2>4, <2>5, <2>6, <2>7, <2>8, <2>9, <2>10 DEF IInv
<1>2. CASE tombstone[presented[p]] # "live"
    <2>0. /\ step[p] = "duplicate"
          /\ step' = [step EXCEPT ![p] = "alive"]
          /\ answer' = answer
          /\ UNCHANGED <<kind, version, active, stored, members, fence, tombstone, index>>
          /\ UNCHANGED <<familyOf, versionOf, presented, target, listed, todo, faults>>
        BY <1>2 DEF RejectDuplicate, GoTo, Reply, IsConcurrentDuplicate
    <2>1. TypeOK'
        BY <1>2, <2>0 DEF TypeOK, Step, Answer, Token, Request, Family
    <2>2. RequestsKeepTheirPath'
        BY <1>2, <2>0
           DEF TypeOK, RequestsKeepTheirPath, Rotating, Issuing, Revoking, Sweeping, Token,
               Request
    <2>3. PresentedWasDelivered'
        BY <1>2, <2>0
           DEF TypeOK, PresentedWasDelivered, Delivered, Rotating, Issuing, Token, Request
    <2>4. PayloadIsMadeOnce'
        BY <1>2, <2>0 DEF TypeOK, PayloadIsMadeOnce, Rotating, Issuing, Token, Request
    <2>5. OneWinner'
        BY <1>2, <2>0 DEF TypeOK, OneWinner, Won, Issuing, Token, Request
    <2>6. RevokersFollowTheVersion'
        BY <1>2, <2>0 DEF TypeOK, RevokersFollowTheVersion, BegunRevokers, Request
    <2>7. FencedFamiliesShrink'
        BY <1>2, <2>0 DEF TypeOK, FencedFamiliesShrink, Emptied, FamilyTokens, Token, Request
    <2>8. FamilyListsItsTokens'
        BY <1>2, <2>0 DEF FamilyListsItsTokens
    <2>9. AlarmsAreJustified'
        BY <1>2, <2>0
           DEF TypeOK, AlarmsAreJustified, NoFalseAlarm, Justified, FamilyTokens, Delivered,
               Token, Request, PresentedWasDelivered, Rotating, Issuing
    <2>10. RevocationsReachTokens'
        BY <1>2, <2>0 DEF TypeOK, RevocationsReachTokens, Doomed, Deletes, Revoking, Token, Request
    <2> QED
        BY <2>1, <2>2, <2>3, <2>4, <2>5, <2>6, <2>7, <2>8, <2>9, <2>10 DEF IInv
<1> QED
    BY <1>1, <1>2

LEMMA StepIndex ==
    ASSUME IInv, NEW p \in Request, Index(p)
    PROVE  IInv'
<1> USE DEF account, redis, payload, local
<1> /\ TypeOK /\ RequestsKeepTheirPath /\ PresentedWasDelivered /\ PayloadIsMadeOnce
    /\ OneWinner /\ RevokersFollowTheVersion /\ FencedFamiliesShrink
    /\ FamilyListsItsTokens /\ AlarmsAreJustified /\ RevocationsReachTokens
    BY DEF IInv
<1>0. /\ step[p] = "index"
      /\ index' = index \union {familyOf[p]}
      /\ step' = [step EXCEPT ![p] = "store"]
      /\ answer' = answer
      /\ UNCHANGED <<kind, version, active, stored, members, fence, tombstone, familyOf>>
      /\ UNCHANGED <<versionOf, presented, target, listed, todo, faults>>
    BY DEF Index, GoTo
<1>1. TypeOK'
    BY <1>0
       DEF TypeOK, Step, Answer, Token, Request, Family, PayloadIsMadeOnce, Rotating, Issuing,
           RequestsKeepTheirPath, Revoking, Sweeping
<1>2. RequestsKeepTheirPath'
    BY <1>0 DEF TypeOK, RequestsKeepTheirPath, Rotating, Issuing, Revoking, Sweeping, Token, Request
<1>3. PresentedWasDelivered'
    BY <1>0 DEF TypeOK, PresentedWasDelivered, Delivered, Rotating, Issuing, Token, Request
<1>4. PayloadIsMadeOnce'
    BY <1>0 DEF TypeOK, PayloadIsMadeOnce, Rotating, Issuing, Token, Request
<1>5. OneWinner'
    BY <1>0 DEF TypeOK, OneWinner, Won, Issuing, Token, Request
<1>6. RevokersFollowTheVersion'
    BY <1>0 DEF TypeOK, RevokersFollowTheVersion, BegunRevokers, Request
<1>7. FencedFamiliesShrink'
    BY <1>0 DEF TypeOK, FencedFamiliesShrink, Emptied, FamilyTokens, Token, Request
<1>8. FamilyListsItsTokens'
    BY <1>0 DEF FamilyListsItsTokens
<1>9. AlarmsAreJustified'
    BY <1>0
       DEF TypeOK, AlarmsAreJustified, NoFalseAlarm, Justified, FamilyTokens, Delivered, Token,
           Request
<1>10. RevocationsReachTokens'
    BY <1>0 DEF TypeOK, RevocationsReachTokens, Doomed, Deletes, Revoking, Token, Request
<1> QED
    BY <1>1, <1>2, <1>3, <1>4, <1>5, <1>6, <1>7, <1>8, <1>9, <1>10 DEF IInv

LEMMA StepStore ==
    ASSUME IInv, NEW p \in Request, Store(p)
    PROVE  IInv'
<1> USE DEF account, redis, payload, local
<1> /\ TypeOK /\ RequestsKeepTheirPath /\ PresentedWasDelivered /\ PayloadIsMadeOnce
    /\ OneWinner /\ RevokersFollowTheVersion /\ FencedFamiliesShrink
    /\ FamilyListsItsTokens /\ AlarmsAreJustified /\ RevocationsReachTokens
    BY DEF IInv
<1>1. CASE familyOf[p] \in fence
    <2>0. /\ step[p] = "store"
          /\ step' = [step EXCEPT ![p] = "unstore"]
          /\ answer' = answer
          /\ UNCHANGED <<kind, version, active, stored, members, fence, tombstone, index>>
          /\ UNCHANGED <<familyOf, versionOf, presented, target, listed, todo, faults>>
        BY <1>1 DEF Store, GoTo, Fenced
    <2>1. TypeOK'
        BY <1>1, <2>0 DEF TypeOK, Step, Answer, Token, Request, Family
    <2>2. RequestsKeepTheirPath'
        BY <1>1, <2>0
           DEF TypeOK, RequestsKeepTheirPath, Rotating, Issuing, Revoking, Sweeping, Token,
               Request
    <2>3. PresentedWasDelivered'
        BY <1>1, <2>0
           DEF TypeOK, PresentedWasDelivered, Delivered, Rotating, Issuing, Token, Request
    <2>4. PayloadIsMadeOnce'
        BY <1>1, <2>0 DEF TypeOK, PayloadIsMadeOnce, Rotating, Issuing, Token, Request
    <2>5. OneWinner'
        BY <1>1, <2>0 DEF TypeOK, OneWinner, Won, Issuing, Token, Request
    <2>6. RevokersFollowTheVersion'
        BY <1>1, <2>0 DEF TypeOK, RevokersFollowTheVersion, BegunRevokers, Request
    <2>7. FencedFamiliesShrink'
        BY <1>1, <2>0 DEF TypeOK, FencedFamiliesShrink, Emptied, FamilyTokens, Token, Request
    <2>8. FamilyListsItsTokens'
        BY <1>1, <2>0 DEF FamilyListsItsTokens
    <2>9. AlarmsAreJustified'
        BY <1>1, <2>0
           DEF TypeOK, AlarmsAreJustified, NoFalseAlarm, Justified, FamilyTokens, Delivered,
               Token, Request
    <2>10. RevocationsReachTokens'
        BY <1>1, <2>0 DEF TypeOK, RevocationsReachTokens, Doomed, Deletes, Revoking, Token, Request
    <2> QED
        BY <2>1, <2>2, <2>3, <2>4, <2>5, <2>6, <2>7, <2>8, <2>9, <2>10 DEF IInv
<1>2. CASE familyOf[p] \notin fence
    <2>0. /\ step[p] = "store"
          /\ stored' = stored \union {p}
          /\ members' = members \union {p}
          /\ step' = [step EXCEPT ![p] = "confirm"]
          /\ answer' = answer
          /\ UNCHANGED <<kind, version, active, fence, tombstone, index, familyOf>>
          /\ UNCHANGED <<versionOf, presented, target, listed, todo, faults>>
        BY <1>2 DEF Store, GoTo, Fenced
    <2>1. TypeOK'
        BY <1>2, <2>0
           DEF TypeOK, Step, Answer, Token, Request, Family, RequestsKeepTheirPath, Rotating,
               Issuing, Revoking, Sweeping
    <2>2. RequestsKeepTheirPath'
        BY <1>2, <2>0
           DEF TypeOK, RequestsKeepTheirPath, Rotating, Issuing, Revoking, Sweeping, Token,
               Request
    <2>3. PresentedWasDelivered'
        BY <1>2, <2>0
           DEF TypeOK, PresentedWasDelivered, Delivered, Rotating, Issuing, Token, Request
    <2>4. PayloadIsMadeOnce'
        BY <1>2, <2>0
           DEF TypeOK, PayloadIsMadeOnce, Rotating, Issuing, Token, Request,
               RequestsKeepTheirPath, Revoking, Sweeping
    <2>5. OneWinner'
        BY <1>2, <2>0
           DEF TypeOK, OneWinner, Won, Issuing, Token, Request, PresentedWasDelivered, Delivered,
               Rotating
    <2>6. RevokersFollowTheVersion'
        BY <1>2, <2>0 DEF TypeOK, RevokersFollowTheVersion, BegunRevokers, Request
    <2>7. FencedFamiliesShrink'
        BY <1>2, <2>0
           DEF TypeOK, FencedFamiliesShrink, Emptied, FamilyTokens, Token, Request,
               RequestsKeepTheirPath, Rotating, Issuing, Revoking, Sweeping
    <2>8. FamilyListsItsTokens'
        BY <1>2, <2>0 DEF FamilyListsItsTokens
    <2>9. AlarmsAreJustified'
        BY <1>2, <2>0
           DEF TypeOK, AlarmsAreJustified, NoFalseAlarm, Justified, FamilyTokens, Delivered,
               Token, Request
    <2>10. RevocationsReachTokens'
        BY <1>2, <2>0
           DEF TypeOK, RevocationsReachTokens, Doomed, Deletes, Revoking, Token, Request,
               RequestsKeepTheirPath, Rotating, Issuing, Sweeping
    <2> QED
        BY <2>1, <2>2, <2>3, <2>4, <2>5, <2>6, <2>7, <2>8, <2>9, <2>10 DEF IInv
<1> QED
    BY <1>1, <1>2

LEMMA StepUnstore ==
    ASSUME IInv, NEW p \in Request, Unstore(p)
    PROVE  IInv'
<1> USE DEF account, redis, payload, local
<1> /\ TypeOK /\ RequestsKeepTheirPath /\ PresentedWasDelivered /\ PayloadIsMadeOnce
    /\ OneWinner /\ RevokersFollowTheVersion /\ FencedFamiliesShrink
    /\ FamilyListsItsTokens /\ AlarmsAreJustified /\ RevocationsReachTokens
    BY DEF IInv
<1>0. /\ step[p] = "unstore"
      /\ index' = index \ {familyOf[p]}
      /\ answer' = [answer EXCEPT ![p] = "invalid"]
      /\ step' = [step EXCEPT ![p] = "done"]
      /\ UNCHANGED <<kind, version, active, stored, members, fence, tombstone, familyOf>>
      /\ UNCHANGED <<versionOf, presented, target, listed, todo, faults>>
    BY DEF Unstore, Reply
<1>1. TypeOK'
    BY <1>0
       DEF TypeOK, Step, Answer, Token, Request, Family, RequestsKeepTheirPath, Rotating, Issuing,
           Revoking, Sweeping
<1>2. RequestsKeepTheirPath'
    BY <1>0 DEF TypeOK, RequestsKeepTheirPath, Rotating, Issuing, Revoking, Sweeping, Token, Request
<1>3. PresentedWasDelivered'
    BY <1>0 DEF TypeOK, PresentedWasDelivered, Delivered, Rotating, Issuing, Token, Request
<1>4. PayloadIsMadeOnce'
    BY <1>0 DEF TypeOK, PayloadIsMadeOnce, Rotating, Issuing, Token, Request
<1>5. OneWinner'
    BY <1>0 DEF TypeOK, OneWinner, Won, Issuing, Token, Request
<1>6. RevokersFollowTheVersion'
    BY <1>0 DEF TypeOK, RevokersFollowTheVersion, BegunRevokers, Request
<1>7. FencedFamiliesShrink'
    BY <1>0 DEF TypeOK, FencedFamiliesShrink, Emptied, FamilyTokens, Token, Request
<1>8. FamilyListsItsTokens'
    BY <1>0 DEF FamilyListsItsTokens
<1>9. AlarmsAreJustified'
    BY <1>0
       DEF TypeOK, AlarmsAreJustified, NoFalseAlarm, Justified, FamilyTokens, Delivered, Token,
           Request
<1>10. RevocationsReachTokens'
    BY <1>0
       DEF TypeOK, RevocationsReachTokens, Doomed, Deletes, Revoking, Token, Request,
           FencedFamiliesShrink, Emptied, FamilyTokens, RequestsKeepTheirPath, Rotating, Issuing,
           Sweeping
<1> QED
    BY <1>1, <1>2, <1>3, <1>4, <1>5, <1>6, <1>7, <1>8, <1>9, <1>10 DEF IInv

LEMMA StepConfirm ==
    ASSUME IInv, NEW p \in Request, Confirm(p)
    PROVE  IInv'
<1> USE DEF account, redis, payload, local
<1> /\ TypeOK /\ RequestsKeepTheirPath /\ PresentedWasDelivered /\ PayloadIsMadeOnce
    /\ OneWinner /\ RevokersFollowTheVersion /\ FencedFamiliesShrink
    /\ FamilyListsItsTokens /\ AlarmsAreJustified /\ RevocationsReachTokens
    BY DEF IInv
<1>1. CASE active /\ version = versionOf[p]
    <2>0. /\ step[p] = "confirm"
          /\ answer' = [answer EXCEPT ![p] = "ok"]
          /\ step' = [step EXCEPT ![p] = "done"]
          /\ UNCHANGED <<kind, version, active, stored, members, fence, tombstone, index>>
          /\ UNCHANGED <<familyOf, versionOf, presented, target, listed, todo, faults>>
        BY <1>1 DEF Confirm, Reply, Revoke, StillCurrent, Current
    <2>1. TypeOK'
        BY <1>1, <2>0 DEF TypeOK, Step, Answer, Token, Request, Family
    <2>2. RequestsKeepTheirPath'
        BY <1>1, <2>0, RequestAssumption
           DEF TypeOK, RequestsKeepTheirPath, Rotating, Issuing, Revoking, Sweeping, Token,
               Request
    <2>3. PresentedWasDelivered'
        BY <1>1, <2>0
           DEF TypeOK, PresentedWasDelivered, Delivered, Rotating, Issuing, Token, Request,
               RequestsKeepTheirPath, Revoking, Sweeping
    <2>4. PayloadIsMadeOnce'
        BY <1>1, <2>0 DEF TypeOK, PayloadIsMadeOnce, Rotating, Issuing, Token, Request
    <2>5. OneWinner'
        BY <1>1, <2>0
           DEF TypeOK, OneWinner, Won, Issuing, Token, Request, RequestsKeepTheirPath, Rotating,
               Revoking, Sweeping
    <2>6. RevokersFollowTheVersion'
        BY <1>1, <2>0 DEF TypeOK, RevokersFollowTheVersion, BegunRevokers, Request
    <2>7. FencedFamiliesShrink'
        BY <1>1, <2>0
           DEF TypeOK, FencedFamiliesShrink, Emptied, FamilyTokens, Token, Request,
               RequestsKeepTheirPath, Rotating, Issuing, Revoking, Sweeping
    <2>8. FamilyListsItsTokens'
        BY <1>1, <2>0 DEF FamilyListsItsTokens
    <2>9. AlarmsAreJustified'
        BY <1>1, <2>0
           DEF TypeOK, AlarmsAreJustified, NoFalseAlarm, Justified, FamilyTokens, Delivered,
               Token, Request
    <2>10. RevocationsReachTokens'
        BY <1>1, <2>0
           DEF TypeOK, RevocationsReachTokens, Doomed, Deletes, Revoking, Token, Request,
               RequestsKeepTheirPath, Rotating, Issuing, Sweeping, RevokersFollowTheVersion,
               BegunRevokers
    <2> QED
        BY <2>1, <2>2, <2>3, <2>4, <2>5, <2>6, <2>7, <2>8, <2>9, <2>10 DEF IInv
<1>2. CASE ~(active /\ version = versionOf[p])
    <2>0. /\ step[p] = "confirm"
          /\ target' = [target EXCEPT ![p] = familyOf[p]]
          /\ answer' = [answer EXCEPT ![p] = "invalid"]
          /\ step' = [step EXCEPT ![p] = "fence"]
          /\ UNCHANGED <<kind, version, active, stored, members, fence, tombstone, index>>
          /\ UNCHANGED <<familyOf, versionOf, presented, listed, todo, faults>>
        BY <1>2 DEF Confirm, Reply, Revoke, StillCurrent, Current
    <2>1. TypeOK'
        BY <1>2, <2>0
           DEF TypeOK, Step, Answer, Token, Request, Family, PayloadIsMadeOnce, Rotating, Issuing,
               RequestsKeepTheirPath, Revoking, Sweeping
    <2>2. RequestsKeepTheirPath'
        BY <1>2, <2>0
           DEF TypeOK, RequestsKeepTheirPath, Rotating, Issuing, Revoking, Sweeping, Token,
               Request, PayloadIsMadeOnce
    <2>3. PresentedWasDelivered'
        BY <1>2, <2>0
           DEF TypeOK, PresentedWasDelivered, Delivered, Rotating, Issuing, Token, Request
    <2>4. PayloadIsMadeOnce'
        BY <1>2, <2>0 DEF TypeOK, PayloadIsMadeOnce, Rotating, Issuing, Token, Request
    <2>5. OneWinner'
        BY <1>2, <2>0 DEF TypeOK, OneWinner, Won, Issuing, Token, Request
    <2>6. RevokersFollowTheVersion'
        BY <1>2, <2>0 DEF TypeOK, RevokersFollowTheVersion, BegunRevokers, Request
    <2>7. FencedFamiliesShrink'
        BY <1>2, <2>0
           DEF TypeOK, FencedFamiliesShrink, Emptied, FamilyTokens, Token, Request,
               RequestsKeepTheirPath, Rotating, Issuing, Revoking, Sweeping, PayloadIsMadeOnce
    <2>8. FamilyListsItsTokens'
        BY <1>2, <2>0 DEF FamilyListsItsTokens
    <2>9. AlarmsAreJustified'
        BY <1>2, <2>0
           DEF TypeOK, AlarmsAreJustified, NoFalseAlarm, Justified, FamilyTokens, Delivered,
               Token, Request, RequestsKeepTheirPath, Rotating, Issuing, Revoking, Sweeping,
               RevokersFollowTheVersion, BegunRevokers
    <2>10. RevocationsReachTokens'
        BY <1>2, <2>0
           DEF TypeOK, RevocationsReachTokens, Doomed, Deletes, Revoking, Token, Request,
               RequestsKeepTheirPath, Rotating, Issuing, Sweeping, PayloadIsMadeOnce
    <2> QED
        BY <2>1, <2>2, <2>3, <2>4, <2>5, <2>6, <2>7, <2>8, <2>9, <2>10 DEF IInv
<1> QED
    BY <1>1, <1>2

LEMMA StepSetFence ==
    ASSUME IInv, NEW p \in Request, SetFence(p)
    PROVE  IInv'
<1> USE DEF account, redis, payload, local
<1> /\ TypeOK /\ RequestsKeepTheirPath /\ PresentedWasDelivered /\ PayloadIsMadeOnce
    /\ OneWinner /\ RevokersFollowTheVersion /\ FencedFamiliesShrink
    /\ FamilyListsItsTokens /\ AlarmsAreJustified /\ RevocationsReachTokens
    BY DEF IInv
<1>0. /\ step[p] = "fence"
      /\ fence' = fence \union {target[p]}
      /\ step' = [step EXCEPT ![p] = "list"]
      /\ answer' = answer
      /\ UNCHANGED <<kind, version, active, stored, members, tombstone, index, familyOf>>
      /\ UNCHANGED <<versionOf, presented, target, listed, todo, faults>>
    BY DEF SetFence, GoTo
<1>1. TypeOK'
    BY <1>0
       DEF TypeOK, Step, Answer, Token, Request, Family, RequestsKeepTheirPath, Rotating, Issuing,
           Revoking, Sweeping
<1>2. RequestsKeepTheirPath'
    BY <1>0 DEF TypeOK, RequestsKeepTheirPath, Rotating, Issuing, Revoking, Sweeping, Token, Request
<1>3. PresentedWasDelivered'
    BY <1>0 DEF TypeOK, PresentedWasDelivered, Delivered, Rotating, Issuing, Token, Request
<1>4. PayloadIsMadeOnce'
    BY <1>0 DEF TypeOK, PayloadIsMadeOnce, Rotating, Issuing, Token, Request
<1>5. OneWinner'
    BY <1>0 DEF TypeOK, OneWinner, Won, Issuing, Token, Request
<1>6. RevokersFollowTheVersion'
    BY <1>0 DEF TypeOK, RevokersFollowTheVersion, BegunRevokers, Request
<1>7. FencedFamiliesShrink'
    BY <1>0 DEF TypeOK, FencedFamiliesShrink, Emptied, FamilyTokens, Token, Request
<1>8. FamilyListsItsTokens'
    BY <1>0 DEF FamilyListsItsTokens
<1>9. AlarmsAreJustified'
    BY <1>0
       DEF TypeOK, AlarmsAreJustified, NoFalseAlarm, Justified, FamilyTokens, Delivered, Token,
           Request
<1>10. RevocationsReachTokens'
    BY <1>0 DEF TypeOK, RevocationsReachTokens, Doomed, Deletes, Revoking, Token, Request
<1> QED
    BY <1>1, <1>2, <1>3, <1>4, <1>5, <1>6, <1>7, <1>8, <1>9, <1>10 DEF IInv

LEMMA StepListFamily ==
    ASSUME IInv, NEW p \in Request, ListFamily(p)
    PROVE  IInv'
<1> USE DEF account, redis, payload, local
<1> /\ TypeOK /\ RequestsKeepTheirPath /\ PresentedWasDelivered /\ PayloadIsMadeOnce
    /\ OneWinner /\ RevokersFollowTheVersion /\ FencedFamiliesShrink
    /\ FamilyListsItsTokens /\ AlarmsAreJustified /\ RevocationsReachTokens
    BY DEF IInv
<1>0. /\ step[p] = "list"
      /\ listed' = [listed EXCEPT ![p] = members \intersect FamilyTokens(target[p])]
      /\ step' = [step EXCEPT ![p] = "delete"]
      /\ answer' = answer
      /\ UNCHANGED <<kind, version, active, stored, members, fence, tombstone, index>>
      /\ UNCHANGED <<familyOf, versionOf, presented, target, todo, faults>>
    BY DEF ListFamily, GoTo
<1>1. TypeOK'
    BY <1>0 DEF TypeOK, Step, Answer, Token, Request, Family
<1>2. RequestsKeepTheirPath'
    BY <1>0 DEF TypeOK, RequestsKeepTheirPath, Rotating, Issuing, Revoking, Sweeping, Token, Request
<1>3. PresentedWasDelivered'
    BY <1>0 DEF TypeOK, PresentedWasDelivered, Delivered, Rotating, Issuing, Token, Request
<1>4. PayloadIsMadeOnce'
    BY <1>0 DEF TypeOK, PayloadIsMadeOnce, Rotating, Issuing, Token, Request
<1>5. OneWinner'
    BY <1>0 DEF TypeOK, OneWinner, Won, Issuing, Token, Request
<1>6. RevokersFollowTheVersion'
    BY <1>0 DEF TypeOK, RevokersFollowTheVersion, BegunRevokers, Request
<1>7. FencedFamiliesShrink'
    BY <1>0 DEF TypeOK, FencedFamiliesShrink, Emptied, FamilyTokens, Token, Request
<1>8. FamilyListsItsTokens'
    BY <1>0 DEF FamilyListsItsTokens
<1>9. AlarmsAreJustified'
    BY <1>0
       DEF TypeOK, AlarmsAreJustified, NoFalseAlarm, Justified, FamilyTokens, Delivered, Token,
           Request
<1>10. RevocationsReachTokens'
    BY <1>0
       DEF TypeOK, RevocationsReachTokens, Doomed, Deletes, Revoking, Token, Request,
           FamilyListsItsTokens, FamilyTokens
<1> QED
    BY <1>1, <1>2, <1>3, <1>4, <1>5, <1>6, <1>7, <1>8, <1>9, <1>10 DEF IInv

LEMMA StepDeleteFamily ==
    ASSUME IInv, NEW p \in Request, DeleteFamily(p)
    PROVE  IInv'
<1> USE DEF account, redis, payload, local
<1> /\ TypeOK /\ RequestsKeepTheirPath /\ PresentedWasDelivered /\ PayloadIsMadeOnce
    /\ OneWinner /\ RevokersFollowTheVersion /\ FencedFamiliesShrink
    /\ FamilyListsItsTokens /\ AlarmsAreJustified /\ RevocationsReachTokens
    BY DEF IInv
<1>0. /\ step[p] = "delete"
      /\ stored' = stored \ listed[p]
      /\ members' = members \ FamilyTokens(target[p])
      /\ step' = [step EXCEPT ![p] = "unindex"]
      /\ answer' = answer
      /\ UNCHANGED <<kind, version, active, fence, tombstone, index, familyOf>>
      /\ UNCHANGED <<versionOf, presented, target, listed, todo, faults>>
    BY DEF DeleteFamily, GoTo
<1>1. TypeOK'
    BY <1>0 DEF TypeOK, Step, Answer, Token, Request, Family
<1>2. RequestsKeepTheirPath'
    BY <1>0 DEF TypeOK, RequestsKeepTheirPath, Rotating, Issuing, Revoking, Sweeping, Token, Request
<1>3. PresentedWasDelivered'
    BY <1>0 DEF TypeOK, PresentedWasDelivered, Delivered, Rotating, Issuing, Token, Request
<1>4. PayloadIsMadeOnce'
    BY <1>0 DEF TypeOK, PayloadIsMadeOnce, Rotating, Issuing, Token, Request
<1>5. OneWinner'
    BY <1>0 DEF TypeOK, OneWinner, Won, Issuing, Token, Request
<1>6. RevokersFollowTheVersion'
    BY <1>0 DEF TypeOK, RevokersFollowTheVersion, BegunRevokers, Request
<1>7. FencedFamiliesShrink'
    BY <1>0 DEF TypeOK, FencedFamiliesShrink, Emptied, FamilyTokens, Token, Request
<1>8. FamilyListsItsTokens'
    BY <1>0 DEF FamilyListsItsTokens, FencedFamiliesShrink, Emptied, FamilyTokens
<1>9. AlarmsAreJustified'
    BY <1>0
       DEF TypeOK, AlarmsAreJustified, NoFalseAlarm, Justified, FamilyTokens, Delivered, Token,
           Request, FencedFamiliesShrink, Emptied
<1>10. RevocationsReachTokens'
    BY <1>0 DEF TypeOK, RevocationsReachTokens, Doomed, Deletes, Revoking, Token, Request
<1> QED
    BY <1>1, <1>2, <1>3, <1>4, <1>5, <1>6, <1>7, <1>8, <1>9, <1>10 DEF IInv

LEMMA StepListFamilies ==
    ASSUME IInv, NEW p \in Request, ListFamilies(p)
    PROVE  IInv'
<1> USE DEF account, redis, payload, local
<1> /\ TypeOK /\ RequestsKeepTheirPath /\ PresentedWasDelivered /\ PayloadIsMadeOnce
    /\ OneWinner /\ RevokersFollowTheVersion /\ FencedFamiliesShrink
    /\ FamilyListsItsTokens /\ AlarmsAreJustified /\ RevocationsReachTokens
    BY DEF IInv
<1>0. /\ step[p] = "families"
      /\ todo' = [todo EXCEPT ![p] = index]
      /\ step' = [step EXCEPT ![p] = "next"]
      /\ answer' = answer
      /\ UNCHANGED <<kind, version, active, stored, members, fence, tombstone, index>>
      /\ UNCHANGED <<familyOf, versionOf, presented, target, listed, faults>>
    BY DEF ListFamilies, GoTo
<1>1. TypeOK'
    BY <1>0
       DEF TypeOK, Step, Answer, Token, Request, Family, RequestsKeepTheirPath, Rotating, Issuing,
           Revoking, Sweeping
<1>2. RequestsKeepTheirPath'
    BY <1>0 DEF TypeOK, RequestsKeepTheirPath, Rotating, Issuing, Revoking, Sweeping, Token, Request
<1>3. PresentedWasDelivered'
    BY <1>0 DEF TypeOK, PresentedWasDelivered, Delivered, Rotating, Issuing, Token, Request
<1>4. PayloadIsMadeOnce'
    BY <1>0 DEF TypeOK, PayloadIsMadeOnce, Rotating, Issuing, Token, Request
<1>5. OneWinner'
    BY <1>0 DEF TypeOK, OneWinner, Won, Issuing, Token, Request
<1>6. RevokersFollowTheVersion'
    BY <1>0 DEF TypeOK, RevokersFollowTheVersion, BegunRevokers, Request
<1>7. FencedFamiliesShrink'
    BY <1>0
       DEF TypeOK, FencedFamiliesShrink, Emptied, FamilyTokens, Token, Request,
           RequestsKeepTheirPath, Rotating, Issuing, Revoking, Sweeping
<1>8. FamilyListsItsTokens'
    BY <1>0 DEF FamilyListsItsTokens
<1>9. AlarmsAreJustified'
    BY <1>0
       DEF TypeOK, AlarmsAreJustified, NoFalseAlarm, Justified, FamilyTokens, Delivered, Token,
           Request
<1>10. RevocationsReachTokens'
    BY <1>0
       DEF TypeOK, RevocationsReachTokens, Doomed, Deletes, Revoking, Token, Request,
           RequestsKeepTheirPath, Rotating, Issuing, Sweeping
<1> QED
    BY <1>1, <1>2, <1>3, <1>4, <1>5, <1>6, <1>7, <1>8, <1>9, <1>10 DEF IInv

LEMMA StepDropIndex ==
    ASSUME IInv, NEW p \in Request, DropIndex(p)
    PROVE  IInv'
<1> USE DEF account, redis, payload, local
<1> /\ TypeOK /\ RequestsKeepTheirPath /\ PresentedWasDelivered /\ PayloadIsMadeOnce
    /\ OneWinner /\ RevokersFollowTheVersion /\ FencedFamiliesShrink
    /\ FamilyListsItsTokens /\ AlarmsAreJustified /\ RevocationsReachTokens
    BY DEF IInv
<1>0. /\ step[p] = "drop"
      /\ index' = {}
      /\ answer' = [answer EXCEPT ![p] = "ok"]
      /\ step' = [step EXCEPT ![p] = "done"]
      /\ UNCHANGED <<kind, version, active, stored, members, fence, tombstone, familyOf>>
      /\ UNCHANGED <<versionOf, presented, target, listed, todo, faults>>
    BY DEF DropIndex, Reply
<1>1. TypeOK'
    BY <1>0 DEF TypeOK, Step, Answer, Token, Request, Family
<1>2. RequestsKeepTheirPath'
    BY <1>0, RequestAssumption
       DEF TypeOK, RequestsKeepTheirPath, Rotating, Issuing, Revoking, Sweeping, Token, Request
<1>3. PresentedWasDelivered'
    BY <1>0, RequestAssumption
       DEF TypeOK, PresentedWasDelivered, Delivered, Rotating, Issuing, Token, Request,
           RequestsKeepTheirPath, Revoking, Sweeping
<1>4. PayloadIsMadeOnce'
    BY <1>0, RequestAssumption
       DEF TypeOK, PayloadIsMadeOnce, Rotating, Issuing, Token, Request, RequestsKeepTheirPath,
           Revoking, Sweeping
<1>5. OneWinner'
    BY <1>0, RequestAssumption
       DEF TypeOK, OneWinner, Won, Issuing, Token, Request, RequestsKeepTheirPath, Rotating,
           Revoking, Sweeping
<1>6. RevokersFollowTheVersion'
    BY <1>0 DEF TypeOK, RevokersFollowTheVersion, BegunRevokers, Request
<1>7. FencedFamiliesShrink'
    BY <1>0 DEF TypeOK, FencedFamiliesShrink, Emptied, FamilyTokens, Token, Request
<1>8. FamilyListsItsTokens'
    BY <1>0 DEF FamilyListsItsTokens
<1>9. AlarmsAreJustified'
    BY <1>0, RequestAssumption
       DEF TypeOK, AlarmsAreJustified, NoFalseAlarm, Justified, FamilyTokens, Delivered, Token,
           Request, RequestsKeepTheirPath, Rotating, Issuing, Revoking, Sweeping
<1>10. RevocationsReachTokens'
    BY <1>0
       DEF TypeOK, RevocationsReachTokens, Doomed, Deletes, Revoking, Token, Request,
           RequestsKeepTheirPath, Rotating, Issuing, Sweeping, RevokersFollowTheVersion,
           BegunRevokers
<1> QED
    BY <1>1, <1>2, <1>3, <1>4, <1>5, <1>6, <1>7, <1>8, <1>9, <1>10 DEF IInv

LEMMA StepPresent ==
    ASSUME IInv, NEW p \in Request, Present(p)
    PROVE  IInv'
<1> USE DEF account, redis, payload, local
<1> /\ TypeOK /\ RequestsKeepTheirPath /\ PresentedWasDelivered /\ PayloadIsMadeOnce
    /\ OneWinner /\ RevokersFollowTheVersion /\ FencedFamiliesShrink
    /\ FamilyListsItsTokens /\ AlarmsAreJustified /\ RevocationsReachTokens
    BY DEF IInv
<1>0. PICK t \in Delivered :
            /\ p \in Refresh /\ step[p] = "start"
            /\ presented' = [presented EXCEPT ![p] = t]
            /\ IF Current(versionOf[t])
                  THEN GoTo(p, "lookup") /\ UNCHANGED target
                  ELSE Revoke(p, familyOf[t], "invalid")
            /\ UNCHANGED <<account, redis, payload, listed, todo, faults>>
    BY DEF Present
<1>1. CASE Current(versionOf[t])
    <2>0. /\ p \in Refresh
          /\ step[p] = "start"
          /\ t \in Token
          /\ presented' = [presented EXCEPT ![p] = t]
          /\ step' = [step EXCEPT ![p] = "lookup"]
          /\ answer' = answer
          /\ UNCHANGED <<kind, version, active, stored, members, fence, tombstone, index>>
          /\ UNCHANGED <<familyOf, versionOf, target, listed, todo, faults>>
        BY <1>0, <1>1 DEF GoTo, Delivered
    <2>1. TypeOK'
        BY <1>0, <1>1, <2>0 DEF TypeOK, Step, Answer, Token, Request, Family
    <2>2. RequestsKeepTheirPath'
        BY <1>0, <1>1, <2>0
           DEF TypeOK, RequestsKeepTheirPath, Rotating, Issuing, Revoking, Sweeping, Token,
               Request
    <2>3. PresentedWasDelivered'
        BY <1>0, <1>1, <2>0, NobodyAssumption
           DEF TypeOK, PresentedWasDelivered, Delivered, Rotating, Issuing, Token, Request
    <2>4. PayloadIsMadeOnce'
        BY <1>0, <1>1, <2>0 DEF TypeOK, PayloadIsMadeOnce, Rotating, Issuing, Token, Request
    <2>5. OneWinner'
        BY <1>0, <1>1, <2>0
           DEF TypeOK, OneWinner, Won, Issuing, Token, Request, RequestsKeepTheirPath
    <2>6. RevokersFollowTheVersion'
        <3>1. BegunRevokers' = BegunRevokers
            BY <2>0, RequestAssumption DEF TypeOK, BegunRevokers, Request
        <3> QED
            BY <2>0, <3>1 DEF RevokersFollowTheVersion
    <2>7. FencedFamiliesShrink'
        BY <1>0, <1>1, <2>0, RequestAssumption
           DEF TypeOK, FencedFamiliesShrink, Emptied, FamilyTokens, Token, Request
    <2>8. FamilyListsItsTokens'
        BY <1>0, <1>1, <2>0 DEF FamilyListsItsTokens
    <2>9. AlarmsAreJustified'
        <3>1. Delivered' = Delivered
            BY <2>0 DEF TypeOK, Delivered, Token, Request
        <3>2. /\ \A q \in Request \ {p} : step'[q] = step[q] /\ presented'[q] = presented[q]
              /\ step'[p] = "lookup"
            BY <2>0 DEF TypeOK
        <3> QED
            BY <2>0, <3>1, <3>2
               DEF AlarmsAreJustified, NoFalseAlarm, Justified, FamilyTokens, Token, Request
    <2>10. RevocationsReachTokens'
        BY <1>0, <1>1, <2>0, RequestAssumption
           DEF TypeOK, RevocationsReachTokens, Doomed, Deletes, Revoking, Token, Request
    <2> QED
        BY <2>1, <2>2, <2>3, <2>4, <2>5, <2>6, <2>7, <2>8, <2>9, <2>10 DEF IInv
<1>2. CASE ~Current(versionOf[t])
    <2>0. /\ p \in Refresh
          /\ step[p] = "start"
          /\ t \in Token
          /\ presented' = [presented EXCEPT ![p] = t]
          /\ target' = [target EXCEPT ![p] = familyOf[t]]
          /\ answer' = [answer EXCEPT ![p] = "invalid"]
          /\ step' = [step EXCEPT ![p] = "fence"]
          /\ UNCHANGED <<kind, version, active, stored, members, fence, tombstone>>
          /\ UNCHANGED <<index, familyOf, versionOf, listed, todo, faults>>
        BY <1>0, <1>2 DEF Revoke, Delivered
    <2>1. TypeOK'
        BY <1>0, <1>2, <2>0
           DEF TypeOK, Step, Answer, Token, Request, Family, PayloadIsMadeOnce, Rotating, Issuing,
               PresentedWasDelivered, Delivered
    <2>2. RequestsKeepTheirPath'
        BY <1>0, <1>2, <2>0, RequestAssumption
           DEF TypeOK, RequestsKeepTheirPath, Rotating, Issuing, Revoking, Sweeping, Token,
               Request, PayloadIsMadeOnce, PresentedWasDelivered, Delivered
    <2>3. PresentedWasDelivered'
        BY <1>0, <1>2, <2>0, NobodyAssumption
           DEF TypeOK, PresentedWasDelivered, Delivered, Rotating, Issuing, Token, Request
    <2>4. PayloadIsMadeOnce'
        BY <1>0, <1>2, <2>0 DEF TypeOK, PayloadIsMadeOnce, Rotating, Issuing, Token, Request
    <2>5. OneWinner'
        BY <1>0, <1>2, <2>0 DEF TypeOK, OneWinner, Won, Issuing, Token, Request
    <2>6. RevokersFollowTheVersion'
        <3>1. BegunRevokers' = BegunRevokers
            BY <2>0, RequestAssumption DEF TypeOK, BegunRevokers, Request
        <3> QED
            BY <2>0, <3>1 DEF RevokersFollowTheVersion
    <2>7. FencedFamiliesShrink'
        BY <1>0, <1>2, <2>0
           DEF TypeOK, FencedFamiliesShrink, Emptied, FamilyTokens, Token, Request,
               RequestsKeepTheirPath, Rotating, Issuing, Revoking, Sweeping
    <2>8. FamilyListsItsTokens'
        BY <1>0, <1>2, <2>0 DEF FamilyListsItsTokens
    <2>9. AlarmsAreJustified'
        <3>1. Delivered' = Delivered
            BY <2>0 DEF TypeOK, Delivered, Token, Request, RequestsKeepTheirPath
        <3>2. version > 0
            BY <1>2, <2>0 DEF Current, TypeOK, RevokersFollowTheVersion
        <3>3. /\ \A q \in Request \ {p} : step'[q] = step[q] /\ presented'[q] = presented[q]
              /\ step'[p] = "fence"
            BY <2>0 DEF TypeOK
        <3> QED
            BY <2>0, <3>1, <3>2, <3>3 DEF AlarmsAreJustified, NoFalseAlarm, Justified, Token, Request
    <2>10. RevocationsReachTokens'
        BY <1>0, <1>2, <2>0, RequestAssumption
           DEF TypeOK, RevocationsReachTokens, Doomed, Deletes, Revoking, Token, Request,
               RequestsKeepTheirPath, Rotating, Issuing, Sweeping
    <2> QED
        BY <2>1, <2>2, <2>3, <2>4, <2>5, <2>6, <2>7, <2>8, <2>9, <2>10 DEF IInv
<1> QED
    BY <1>1, <1>2

LEMMA StepConsume ==
    ASSUME IInv, NEW p \in Request, Consume(p)
    PROVE  IInv'
<1> USE DEF account, redis, payload, local
<1> /\ TypeOK /\ RequestsKeepTheirPath /\ PresentedWasDelivered /\ PayloadIsMadeOnce
    /\ OneWinner /\ RevokersFollowTheVersion /\ FencedFamiliesShrink
    /\ FamilyListsItsTokens /\ AlarmsAreJustified /\ RevocationsReachTokens
    BY DEF IInv
<1>1. CASE presented[p] \in stored
    <2>0. /\ step[p] = "consume"
          /\ p \in Refresh
          /\ presented[p] \in Delivered
          /\ p # presented[p]
          /\ stored' = stored \ {presented[p]}
          /\ members' = members \ {presented[p]}
          /\ tombstone' = [tombstone EXCEPT ![presented[p]] = "live"]
          /\ familyOf' = [familyOf EXCEPT ![p] = familyOf[presented[p]]]
          /\ versionOf' = [versionOf EXCEPT ![p] = versionOf[presented[p]]]
          /\ step' = [step EXCEPT ![p] = "index"]
          /\ answer' = answer
          /\ UNCHANGED <<kind, version, active, fence, index, presented>>
          /\ UNCHANGED <<target, listed, todo, faults>>
        BY <1>1 DEF Consume, ConsumeScript, GoTo, RequestsKeepTheirPath, PresentedWasDelivered,
                      Delivered, Rotating
    <2>1. TypeOK'
        BY <1>1, <2>0
           DEF TypeOK, Step, Answer, Token, Request, Family, PayloadIsMadeOnce, Rotating, Issuing
    <2>2. RequestsKeepTheirPath'
        BY <1>1, <2>0
           DEF TypeOK, RequestsKeepTheirPath, Rotating, Issuing, Revoking, Sweeping, Token,
               Request
    <2>3. PresentedWasDelivered'
        BY <1>1, <2>0, NobodyAssumption
           DEF TypeOK, PresentedWasDelivered, Delivered, Rotating, Issuing, Token, Request
    <2>4. PayloadIsMadeOnce'
        BY <1>1, <2>0, NobodyAssumption
           DEF TypeOK, PayloadIsMadeOnce, Rotating, Issuing, Token, Request
    <2>5. OneWinner'
        BY <1>1, <2>0 DEF TypeOK, OneWinner, Won, Issuing, Token, Request
    <2>6. RevokersFollowTheVersion'
        BY <1>1, <2>0 DEF TypeOK, RevokersFollowTheVersion, BegunRevokers, Request
    <2>7. FencedFamiliesShrink'
        BY <1>1, <2>0, NobodyAssumption
           DEF TypeOK, FencedFamiliesShrink, Emptied, FamilyTokens, Token, Request,
               PayloadIsMadeOnce, Rotating, Issuing, FamilyListsItsTokens, RequestsKeepTheirPath,
               Revoking, Sweeping, Family
    <2>8. FamilyListsItsTokens'
        BY <1>1, <2>0 DEF FamilyListsItsTokens
    <2>9. AlarmsAreJustified'
        <3>1. \A f \in Family : Justified(f) => Justified(f)'
            <4>1. p \in Token /\ step[p] \in Rotating /\ tombstone[presented[p]] = "none"
                BY <1>1, <2>0 DEF Token, Rotating, AlarmsAreJustified, Delivered, TypeOK
            <4>2. \A t \in Token : tombstone[t] = "lapsed" => tombstone'[t] = "lapsed"
                BY <2>0, <4>1 DEF TypeOK
            <4> QED
                BY <2>0, <4>1, <4>2, JustifiedStays
        <3>2. Delivered' = Delivered
            BY <2>0 DEF TypeOK, Delivered, Token, Request
        <3>3. /\ \A t \in Token \ {p} : familyOf'[t] = familyOf[t]
              /\ \A t \in Token \ {presented[p]} : tombstone'[t] = tombstone[t]
              /\ tombstone'[presented[p]] = "live" /\ presented[p] \in Token
              /\ \A q \in Request \ {p} : step'[q] = step[q]
              /\ step'[p] = "index"
            BY <2>0 DEF TypeOK, Delivered, Token, Request
        <3>4. \A q \in Request : step[q] \in {"duplicate", "alive"} =>
                 /\ presented[q] \in Token \ {p}
                 /\ presented[q] = presented[p] => familyOf[presented[q]] \in fence
            BY <1>1, <2>0 DEF PresentedWasDelivered, Delivered, Rotating, AlarmsAreJustified
        <3>5. p \notin Delivered
            BY <2>0 DEF Delivered
        <3>6. \A q \in Request : step[q] \in {"duplicate", "alive"} =>
                 /\ \/ tombstone'[presented[q]] = tombstone[presented[q]]
                    \/ familyOf[presented[q]] \in fence
                 /\ familyOf'[presented[q]] = familyOf[presented[q]]
            BY <3>3, <3>4
        <3> QED
            BY <1>1, <2>0, <3>1, <3>2, <3>3, <3>5, <3>6
               DEF AlarmsAreJustified, NoFalseAlarm, Justified, RequestsKeepTheirPath, Revoking,
                   TypeOK, Token, Request
    <2>10. RevocationsReachTokens'
        BY <1>1, <2>0
           DEF TypeOK, RevocationsReachTokens, Doomed, Deletes, Revoking, Token, Request,
               PayloadIsMadeOnce, Rotating, Issuing, RequestsKeepTheirPath, Sweeping
    <2> QED
        BY <2>1, <2>2, <2>3, <2>4, <2>5, <2>6, <2>7, <2>8, <2>9, <2>10 DEF IInv
<1>2. CASE presented[p] \notin stored
    <2>0. /\ step[p] = "consume"
          /\ step' = [step EXCEPT ![p] = "duplicate"]
          /\ answer' = answer
          /\ UNCHANGED <<kind, version, active, stored, members, fence, tombstone, index>>
          /\ UNCHANGED <<familyOf, versionOf, presented, target, listed, todo, faults>>
        BY <1>2 DEF Consume, ConsumeScript, GoTo
    <2>1. TypeOK'
        BY <1>2, <2>0 DEF TypeOK, Step, Answer, Token, Request, Family
    <2>2. RequestsKeepTheirPath'
        BY <1>2, <2>0
           DEF TypeOK, RequestsKeepTheirPath, Rotating, Issuing, Revoking, Sweeping, Token,
               Request
    <2>3. PresentedWasDelivered'
        BY <1>2, <2>0
           DEF TypeOK, PresentedWasDelivered, Delivered, Rotating, Issuing, Token, Request
    <2>4. PayloadIsMadeOnce'
        BY <1>2, <2>0 DEF TypeOK, PayloadIsMadeOnce, Rotating, Issuing, Token, Request
    <2>5. OneWinner'
        BY <1>2, <2>0 DEF TypeOK, OneWinner, Won, Issuing, Token, Request
    <2>6. RevokersFollowTheVersion'
        BY <1>2, <2>0 DEF TypeOK, RevokersFollowTheVersion, BegunRevokers, Request
    <2>7. FencedFamiliesShrink'
        BY <1>2, <2>0 DEF TypeOK, FencedFamiliesShrink, Emptied, FamilyTokens, Token, Request
    <2>8. FamilyListsItsTokens'
        BY <1>2, <2>0 DEF FamilyListsItsTokens
    <2>9. AlarmsAreJustified'
        BY <1>2, <2>0
           DEF TypeOK, AlarmsAreJustified, NoFalseAlarm, Justified, FamilyTokens, Delivered,
               Token, Request, PresentedWasDelivered, Rotating, Issuing
    <2>10. RevocationsReachTokens'
        BY <1>2, <2>0 DEF TypeOK, RevocationsReachTokens, Doomed, Deletes, Revoking, Token, Request
    <2> QED
        BY <2>1, <2>2, <2>3, <2>4, <2>5, <2>6, <2>7, <2>8, <2>9, <2>10 DEF IInv
<1> QED
    BY <1>1, <1>2

LEMMA StepRejectReuse ==
    ASSUME IInv, NEW p \in Request, RejectReuse(p)
    PROVE  IInv'
<1> USE DEF account, redis, payload, local
<1> /\ TypeOK /\ RequestsKeepTheirPath /\ PresentedWasDelivered /\ PayloadIsMadeOnce
    /\ OneWinner /\ RevokersFollowTheVersion /\ FencedFamiliesShrink
    /\ FamilyListsItsTokens /\ AlarmsAreJustified /\ RevocationsReachTokens
    BY DEF IInv
<1>1. CASE FamilyTokens(familyOf[presented[p]]) \intersect members # {}
    <2>0. /\ step[p] = "alive"
          /\ target' = [target EXCEPT ![p] = familyOf[presented[p]]]
          /\ answer' = [answer EXCEPT ![p] = "reuse"]
          /\ step' = [step EXCEPT ![p] = "fence"]
          /\ UNCHANGED <<kind, version, active, stored, members, fence, tombstone, index>>
          /\ UNCHANGED <<familyOf, versionOf, presented, listed, todo, faults>>
        BY <1>1 DEF RejectReuse, Reply, Revoke
    <2>1. TypeOK'
        BY <1>1, <2>0
           DEF TypeOK, Step, Answer, Token, Request, Family, PayloadIsMadeOnce, Rotating, Issuing,
               PresentedWasDelivered, Delivered
    <2>2. RequestsKeepTheirPath'
        BY <1>1, <2>0
           DEF TypeOK, RequestsKeepTheirPath, Rotating, Issuing, Revoking, Sweeping, Token,
               Request, PayloadIsMadeOnce, PresentedWasDelivered, Delivered
    <2>3. PresentedWasDelivered'
        BY <1>1, <2>0
           DEF TypeOK, PresentedWasDelivered, Delivered, Rotating, Issuing, Token, Request
    <2>4. PayloadIsMadeOnce'
        BY <1>1, <2>0 DEF TypeOK, PayloadIsMadeOnce, Rotating, Issuing, Token, Request
    <2>5. OneWinner'
        BY <1>1, <2>0 DEF TypeOK, OneWinner, Won, Issuing, Token, Request
    <2>6. RevokersFollowTheVersion'
        BY <1>1, <2>0 DEF TypeOK, RevokersFollowTheVersion, BegunRevokers, Request
    <2>7. FencedFamiliesShrink'
        BY <1>1, <2>0
           DEF TypeOK, FencedFamiliesShrink, Emptied, FamilyTokens, Token, Request,
               RequestsKeepTheirPath, Rotating, Issuing, Revoking, Sweeping
    <2>8. FamilyListsItsTokens'
        BY <1>1, <2>0 DEF FamilyListsItsTokens
    <2>9. AlarmsAreJustified'
        <3>1. Delivered' = Delivered
            BY <2>0 DEF TypeOK, Delivered, Token, Request
        <3>2. presented[p] \in Token /\ p \in Refresh
            BY <2>0 DEF PresentedWasDelivered, Delivered, Rotating, RequestsKeepTheirPath
        <3>3. Justified(familyOf[presented[p]])
            BY <2>0, <3>2 DEF AlarmsAreJustified, NoFalseAlarm, Justified, FamilyTokens
        <3>4. \A f : Justified(f) => Justified(f)'
            BY <2>0, <3>2, RequestAssumption DEF Justified, FamilyTokens, TypeOK, Request
        <3>5. /\ \A q \in Request \ {p} : step'[q] = step[q] /\ target'[q] = target[q]
              /\ step'[p] = "fence" /\ target'[p] = familyOf[presented[p]]
            BY <2>0 DEF TypeOK
        <3>6. \A t \in Token : step'[t] = "confirm" => step[t] = "confirm"
            BY <3>5 DEF Token, Request
        <3> QED
            BY <2>0, <3>1, <3>3, <3>4, <3>5, <3>6 DEF AlarmsAreJustified, NoFalseAlarm, Justified
    <2>10. RevocationsReachTokens'
        BY <1>1, <2>0
           DEF TypeOK, RevocationsReachTokens, Doomed, Deletes, Revoking, Token, Request,
               RequestsKeepTheirPath, Rotating, Issuing, Sweeping, PayloadIsMadeOnce
    <2> QED
        BY <2>1, <2>2, <2>3, <2>4, <2>5, <2>6, <2>7, <2>8, <2>9, <2>10 DEF IInv
<1>2. CASE FamilyTokens(familyOf[presented[p]]) \intersect members = {}
    <2>0. /\ step[p] = "alive"
          /\ answer' = [answer EXCEPT ![p] = "invalid"]
          /\ step' = [step EXCEPT ![p] = "done"]
          /\ UNCHANGED <<kind, version, active, stored, members, fence, tombstone, index>>
          /\ UNCHANGED <<familyOf, versionOf, presented, target, listed, todo, faults>>
        BY <1>2 DEF RejectReuse, Reply, Revoke
    <2>1. TypeOK'
        BY <1>2, <2>0 DEF TypeOK, Step, Answer, Token, Request, Family
    <2>2. RequestsKeepTheirPath'
        BY <1>2, <2>0
           DEF TypeOK, RequestsKeepTheirPath, Rotating, Issuing, Revoking, Sweeping, Token,
               Request
    <2>3. PresentedWasDelivered'
        BY <1>2, <2>0
           DEF TypeOK, PresentedWasDelivered, Delivered, Rotating, Issuing, Token, Request
    <2>4. PayloadIsMadeOnce'
        BY <1>2, <2>0 DEF TypeOK, PayloadIsMadeOnce, Rotating, Issuing, Token, Request
    <2>5. OneWinner'
        BY <1>2, <2>0 DEF TypeOK, OneWinner, Won, Issuing, Token, Request
    <2>6. RevokersFollowTheVersion'
        BY <1>2, <2>0 DEF TypeOK, RevokersFollowTheVersion, BegunRevokers, Request
    <2>7. FencedFamiliesShrink'
        BY <1>2, <2>0 DEF TypeOK, FencedFamiliesShrink, Emptied, FamilyTokens, Token, Request
    <2>8. FamilyListsItsTokens'
        BY <1>2, <2>0 DEF FamilyListsItsTokens
    <2>9. AlarmsAreJustified'
        BY <1>2, <2>0
           DEF TypeOK, AlarmsAreJustified, NoFalseAlarm, Justified, FamilyTokens, Delivered,
               Token, Request
    <2>10. RevocationsReachTokens'
        BY <1>2, <2>0 DEF TypeOK, RevocationsReachTokens, Doomed, Deletes, Revoking, Token, Request
    <2> QED
        BY <2>1, <2>2, <2>3, <2>4, <2>5, <2>6, <2>7, <2>8, <2>9, <2>10 DEF IInv
<1> QED
    BY <1>1, <1>2

LEMMA StepUnindex ==
    ASSUME IInv, NEW p \in Request, Unindex(p)
    PROVE  IInv'
<1> USE DEF account, redis, payload, local
<1> /\ TypeOK /\ RequestsKeepTheirPath /\ PresentedWasDelivered /\ PayloadIsMadeOnce
    /\ OneWinner /\ RevokersFollowTheVersion /\ FencedFamiliesShrink
    /\ FamilyListsItsTokens /\ AlarmsAreJustified /\ RevocationsReachTokens
    BY DEF IInv
<1>1. CASE p \in Revoker
    <2>0. /\ step[p] = "unindex"
          /\ index' = index \ {target[p]}
          /\ step' = [step EXCEPT ![p] = "next"]
          /\ answer' = answer
          /\ UNCHANGED <<kind, version, active, stored, members, fence, tombstone, familyOf>>
          /\ UNCHANGED <<versionOf, presented, target, listed, todo, faults>>
        BY <1>1 DEF Unindex, GoTo
    <2>1. TypeOK'
        BY <1>1, <2>0 DEF TypeOK, Step, Answer, Token, Request, Family
    <2>2. RequestsKeepTheirPath'
        BY <1>1, <2>0, RequestAssumption
           DEF TypeOK, RequestsKeepTheirPath, Rotating, Issuing, Revoking, Sweeping, Token,
               Request
    <2>3. PresentedWasDelivered'
        BY <1>1, <2>0, RequestAssumption
           DEF TypeOK, PresentedWasDelivered, Delivered, Rotating, Issuing, Token, Request,
               RequestsKeepTheirPath, Revoking, Sweeping
    <2>4. PayloadIsMadeOnce'
        BY <1>1, <2>0, RequestAssumption
           DEF TypeOK, PayloadIsMadeOnce, Rotating, Issuing, Token, Request
    <2>5. OneWinner'
        BY <1>1, <2>0, RequestAssumption DEF TypeOK, OneWinner, Won, Issuing, Token, Request
    <2>6. RevokersFollowTheVersion'
        BY <1>1, <2>0 DEF TypeOK, RevokersFollowTheVersion, BegunRevokers, Request
    <2>7. FencedFamiliesShrink'
        BY <1>1, <2>0 DEF TypeOK, FencedFamiliesShrink, Emptied, FamilyTokens, Token, Request
    <2>8. FamilyListsItsTokens'
        BY <1>1, <2>0 DEF FamilyListsItsTokens
    <2>9. AlarmsAreJustified'
        BY <1>1, <2>0, RequestAssumption
           DEF TypeOK, AlarmsAreJustified, NoFalseAlarm, Justified, FamilyTokens, Delivered,
               Token, Request
    <2>10. RevocationsReachTokens'
        <3>1. target[p] \in fence /\ \A t \in stored : familyOf[t] # target[p]
            BY <2>0, NobodyAssumption
               DEF FencedFamiliesShrink, Emptied, FamilyTokens, FamilyListsItsTokens, TypeOK,
                   RequestsKeepTheirPath, Revoking, Family, Request
        <3>2. /\ \A q \in Request \ {p} : step'[q] = step[q]
              /\ step'[p] \in {"next", "done"} /\ (step'[p] = "next" \/ p \notin Revoker)
            BY <1>1, <2>0 DEF TypeOK
        <3>3. \A t \in Token : step'[t] \in {"store", "confirm"} <=> step[t] \in {"store", "confirm"}
            BY <2>0, <3>2 DEF Token, Request
        <3>4. \A t \in stored, q \in Request : Deletes(q, t) => Deletes(q, t)'
            BY <2>0, <3>1, <3>2 DEF Deletes
        <3> QED
            BY <2>0, <3>1, <3>2, <3>3, <3>4
               DEF TypeOK, RevocationsReachTokens, Doomed, Revoking, Token, Request
    <2> QED
        BY <2>1, <2>2, <2>3, <2>4, <2>5, <2>6, <2>7, <2>8, <2>9, <2>10 DEF IInv
<1>2. CASE p \notin Revoker
    <2>0. /\ step[p] = "unindex"
          /\ index' = index \ {target[p]}
          /\ step' = [step EXCEPT ![p] = "done"]
          /\ answer' = answer
          /\ UNCHANGED <<kind, version, active, stored, members, fence, tombstone, familyOf>>
          /\ UNCHANGED <<versionOf, presented, target, listed, todo, faults>>
        BY <1>2 DEF Unindex, GoTo
    <2>1. TypeOK'
        BY <1>2, <2>0 DEF TypeOK, Step, Answer, Token, Request, Family
    <2>2. RequestsKeepTheirPath'
        BY <1>2, <2>0
           DEF TypeOK, RequestsKeepTheirPath, Rotating, Issuing, Revoking, Sweeping, Token,
               Request
    <2>3. PresentedWasDelivered'
        BY <1>2, <2>0
           DEF TypeOK, PresentedWasDelivered, Delivered, Rotating, Issuing, Token, Request,
               RequestsKeepTheirPath, Revoking, Sweeping
    <2>4. PayloadIsMadeOnce'
        BY <1>2, <2>0
           DEF TypeOK, PayloadIsMadeOnce, Rotating, Issuing, Token, Request,
               RequestsKeepTheirPath, Revoking, Sweeping
    <2>5. OneWinner'
        BY <1>2, <2>0
           DEF TypeOK, OneWinner, Won, Issuing, Token, Request, RequestsKeepTheirPath, Rotating,
               Revoking, Sweeping
    <2>6. RevokersFollowTheVersion'
        BY <1>2, <2>0 DEF TypeOK, RevokersFollowTheVersion, BegunRevokers, Request
    <2>7. FencedFamiliesShrink'
        BY <1>2, <2>0, NobodyAssumption
           DEF TypeOK, FencedFamiliesShrink, Emptied, FamilyTokens, Token, Request, Family,
               RequestsKeepTheirPath, Revoking
    <2>8. FamilyListsItsTokens'
        BY <1>2, <2>0 DEF FamilyListsItsTokens
    <2>9. AlarmsAreJustified'
        <3>1. Delivered' = Delivered
            BY <2>0, RequestAssumption
               DEF TypeOK, Delivered, Token, Request, RequestsKeepTheirPath, Revoking
        <3>2. \A q \in Request \ {p} : step'[q] = step[q]
            BY <2>0 DEF TypeOK
        <3>3. step'[p] = "done"
            BY <2>0 DEF TypeOK
        <3> QED
            BY <2>0, <3>1, <3>2, <3>3
               DEF AlarmsAreJustified, NoFalseAlarm, Justified, FamilyTokens, Token, Request
    <2>10. RevocationsReachTokens'
        <3>1. target[p] \in fence /\ \A t \in stored : familyOf[t] # target[p]
            BY <2>0, NobodyAssumption
               DEF FencedFamiliesShrink, Emptied, FamilyTokens, FamilyListsItsTokens, TypeOK,
                   RequestsKeepTheirPath, Revoking, Family, Request
        <3>2. /\ \A q \in Request \ {p} : step'[q] = step[q]
              /\ step'[p] \in {"next", "done"} /\ (step'[p] = "next" \/ p \notin Revoker)
            BY <1>2, <2>0 DEF TypeOK
        <3>3. \A t \in Token : step'[t] \in {"store", "confirm"} <=> step[t] \in {"store", "confirm"}
            BY <2>0, <3>2 DEF Token, Request
        <3>4. \A t \in stored, q \in Request : Deletes(q, t) => Deletes(q, t)'
            BY <2>0, <3>1, <3>2 DEF Deletes
        <3> QED
            BY <2>0, <3>1, <3>2, <3>3, <3>4
               DEF TypeOK, RevocationsReachTokens, Doomed, Revoking, Token, Request
    <2> QED
        BY <2>1, <2>2, <2>3, <2>4, <2>5, <2>6, <2>7, <2>8, <2>9, <2>10 DEF IInv
<1> QED
    BY <1>1, <1>2

LEMMA StepFails ==
    ASSUME IInv, NEW p \in Request, Fails(p)
    PROVE  IInv'
<1> USE DEF account, redis, payload, local
<1> /\ TypeOK /\ RequestsKeepTheirPath /\ PresentedWasDelivered /\ PayloadIsMadeOnce
    /\ OneWinner /\ RevokersFollowTheVersion /\ FencedFamiliesShrink
    /\ FamilyListsItsTokens /\ AlarmsAreJustified /\ RevocationsReachTokens
    BY DEF IInv
<1>0. /\ step[p] \notin {"start", "done"}
      /\ faults' \in 0..MaxFaults /\ faults' > 0
      /\ answer' = [answer EXCEPT ![p] = "error"]
      /\ step' = [step EXCEPT ![p] = "done"]
      /\ UNCHANGED <<kind, version, active, stored, members, fence, tombstone, index>>
      /\ UNCHANGED <<familyOf, versionOf, presented, target, listed, todo>>
    BY FaultAssumption DEF Fails, Reply, TypeOK
<1>1. TypeOK'
    BY <1>0 DEF TypeOK, Step, Answer, Token, Request, Family
<1>2. RequestsKeepTheirPath'
    BY <1>0 DEF TypeOK, RequestsKeepTheirPath, Rotating, Issuing, Revoking, Sweeping, Token, Request
<1>3. PresentedWasDelivered'
    BY <1>0 DEF TypeOK, PresentedWasDelivered, Delivered, Rotating, Issuing, Token, Request
<1>4. PayloadIsMadeOnce'
    BY <1>0 DEF TypeOK, PayloadIsMadeOnce, Rotating, Issuing, Token, Request
<1>5. OneWinner'
    BY <1>0 DEF TypeOK, OneWinner, Won, Issuing, Token, Request
<1>6. RevokersFollowTheVersion'
    BY <1>0 DEF TypeOK, RevokersFollowTheVersion, BegunRevokers, Request
<1>7. FencedFamiliesShrink'
    BY <1>0 DEF TypeOK, FencedFamiliesShrink, Emptied, FamilyTokens, Token, Request
<1>8. FamilyListsItsTokens'
    BY <1>0 DEF FamilyListsItsTokens
<1>9. AlarmsAreJustified'
    BY <1>0
       DEF TypeOK, AlarmsAreJustified, NoFalseAlarm, Justified, FamilyTokens, Delivered, Token,
           Request
<1>10. RevocationsReachTokens'
    BY <1>0 DEF TypeOK, RevocationsReachTokens, Doomed, Deletes, Revoking, Token, Request
<1> QED
    BY <1>1, <1>2, <1>3, <1>4, <1>5, <1>6, <1>7, <1>8, <1>9, <1>10 DEF IInv

LEMMA StepLogOut ==
    ASSUME IInv, NEW p \in Request, LogOut(p)
    PROVE  IInv'
<1> USE DEF account, redis, payload, local
<1> /\ TypeOK /\ RequestsKeepTheirPath /\ PresentedWasDelivered /\ PayloadIsMadeOnce
    /\ OneWinner /\ RevokersFollowTheVersion /\ FencedFamiliesShrink
    /\ FamilyListsItsTokens /\ AlarmsAreJustified /\ RevocationsReachTokens
    BY DEF IInv
<1>0. PICK t \in Delivered :
        /\ p \in Logout /\ step[p] = "start"
        /\ presented' = [presented EXCEPT ![p] = t]
        /\ target' = [target EXCEPT ![p] = familyOf[t]]
        /\ answer' = [answer EXCEPT ![p] = "ok"]
        /\ step' = [step EXCEPT ![p] = "fence"]
        /\ UNCHANGED <<kind, version, active, stored, members, fence, tombstone, index>>
        /\ UNCHANGED <<familyOf, versionOf, listed, todo, faults>>
    BY DEF LogOut, Revoke
<1>1. TypeOK'
    BY <1>0
       DEF TypeOK, Step, Answer, Token, Request, Family, PayloadIsMadeOnce, Rotating, Issuing,
           Delivered
<1>2. RequestsKeepTheirPath'
    BY <1>0, RequestAssumption
       DEF TypeOK, RequestsKeepTheirPath, Rotating, Issuing, Revoking, Sweeping, Token, Request,
           PayloadIsMadeOnce, Delivered
<1>3. PresentedWasDelivered'
    BY <1>0, RequestAssumption, NobodyAssumption
       DEF TypeOK, PresentedWasDelivered, Delivered, Rotating, Issuing, Token, Request
<1>4. PayloadIsMadeOnce'
    BY <1>0, RequestAssumption DEF TypeOK, PayloadIsMadeOnce, Rotating, Issuing, Token, Request
<1>5. OneWinner'
    BY <1>0, RequestAssumption
       DEF TypeOK, OneWinner, Won, Issuing, Token, Request, PresentedWasDelivered, Delivered,
           Rotating
<1>6. RevokersFollowTheVersion'
    <2>1. BegunRevokers' = BegunRevokers
        BY <1>0, RequestAssumption DEF TypeOK, BegunRevokers, Request
    <2> QED
        BY <1>0, <2>1 DEF RevokersFollowTheVersion
<1>7. FencedFamiliesShrink'
    BY <1>0
       DEF TypeOK, FencedFamiliesShrink, Emptied, FamilyTokens, Token, Request,
           RequestsKeepTheirPath, Rotating, Issuing, Revoking, Sweeping
<1>8. FamilyListsItsTokens'
    BY <1>0 DEF FamilyListsItsTokens
<1>9. AlarmsAreJustified'
    <2>1. Delivered' = Delivered /\ p \notin Token
        BY <1>0, RequestAssumption DEF TypeOK, Delivered, Token, Request
    <2>2. /\ \A q \in Request \ {p} : /\ step'[q] = step[q] /\ target'[q] = target[q]
                                      /\ presented'[q] = presented[q]
          /\ step'[p] = "fence" /\ target'[p] = familyOf[t] /\ target[p] = Nobody
        BY <1>0 DEF TypeOK, RequestsKeepTheirPath, Revoking
    <2>3. \A f \in Family : Justified(f) => Justified(f)'
        BY <1>0, <2>2, NobodyAssumption DEF Justified, FamilyTokens, Request, Family
    <2>4. Justified(familyOf[t])'
        BY <1>0, <2>2 DEF Justified, FamilyTokens
    <2>5. \A f \in fence : Justified(f)
        BY DEF AlarmsAreJustified, NoFalseAlarm, Justified
    <2>6. NoFalseAlarm'
        BY <1>0, <2>3, <2>5 DEF NoFalseAlarm, Justified, TypeOK
    <2>7. \A q \in Request : (step[q] = "fence" => Justified(target[q]))'
        BY <1>0, <2>2, <2>3, <2>4 DEF AlarmsAreJustified, RequestsKeepTheirPath, Revoking
    <2> QED
        BY <1>0, <2>1, <2>2, <2>6, <2>7 DEF AlarmsAreJustified, Token, Request
<1>10. RevocationsReachTokens'
    BY <1>0, RequestAssumption
       DEF TypeOK, RevocationsReachTokens, Doomed, Deletes, Revoking, Token, Request,
           RequestsKeepTheirPath, Rotating, Issuing, Sweeping
<1> QED
    BY <1>1, <1>2, <1>3, <1>4, <1>5, <1>6, <1>7, <1>8, <1>9, <1>10 DEF IInv

\* There are no more versions than revocations that have begun.
LEMMA VersionIsBounded ==
    ASSUME IInv, NEW p \in Revoker, step[p] = "start",
           step' \in [Request -> Step], step'[p] # "start",
           \A q \in Request \ {p} : step'[q] = step[q]
    PROVE  /\ Cardinality(BegunRevokers) \in Nat
           /\ Cardinality(BegunRevokers') = Cardinality(BegunRevokers) + 1
           /\ version + 1 \in 0..Cardinality(Revoker)
<1>1. BegunRevokers' = BegunRevokers \union {p} /\ p \notin BegunRevokers
    BY DEF BegunRevokers, Request
<1>2. BegunRevokers' \subseteq Revoker /\ IsFiniteSet(Revoker) /\ IsFiniteSet(BegunRevokers)
    BY RequestAssumption, FS_Subset DEF BegunRevokers
<1>3. Cardinality(BegunRevokers') = Cardinality(BegunRevokers) + 1
    BY <1>1, <1>2, FS_AddElement
<1>4. /\ Cardinality(BegunRevokers) \in Nat /\ Cardinality(Revoker) \in Nat
      /\ Cardinality(BegunRevokers') <= Cardinality(Revoker)
    BY <1>2, FS_CardinalityType, FS_Subset
<1>5. version \in Nat /\ version <= Cardinality(BegunRevokers)
    BY <1>4 DEF IInv, TypeOK, RevokersFollowTheVersion
<1> QED
    BY <1>3, <1>4, <1>5

LEMMA StepRevokeAll ==
    ASSUME IInv, NEW p \in Request, RevokeAll(p)
    PROVE  IInv'
<1> USE DEF account, redis, payload, local
<1> /\ TypeOK /\ RequestsKeepTheirPath /\ PresentedWasDelivered /\ PayloadIsMadeOnce
    /\ OneWinner /\ RevokersFollowTheVersion /\ FencedFamiliesShrink
    /\ FamilyListsItsTokens /\ AlarmsAreJustified /\ RevocationsReachTokens
    BY DEF IInv
<1>0. /\ version \in Nat /\ version + 1 # version
      /\ p \in Revoker /\ step[p] = "start"
      /\ UNCHANGED <<kind, stored, members, fence, tombstone, index, familyOf>>
      /\ UNCHANGED <<versionOf, presented, target, listed, todo, faults>>
      /\ \/ /\ active /\ active' \in BOOLEAN /\ version' = version + 1
            /\ step' = [step EXCEPT ![p] = "families"] /\ answer' = answer
         \/ /\ ~active /\ active' = FALSE /\ version' = version
            /\ step' = [step EXCEPT ![p] = "families"] /\ answer' = answer
         \/ /\ ~active /\ active' = FALSE /\ version' = version
            /\ step' = [step EXCEPT ![p] = "done"]
            /\ answer' = [answer EXCEPT ![p] = "error"]
    <2>1. version \in Nat
        BY RequestAssumption, FS_CardinalityType DEF TypeOK
    <2>2. /\ p \in Revoker /\ step[p] = "start" /\ active \in BOOLEAN
          /\ LogOutAll(p) \/ ChangePassword(p) \/ DeleteUser(p) \/ RemoveAdmin(p)
          /\ UNCHANGED <<kind, stored, members, fence, tombstone, index, familyOf>>
          /\ UNCHANGED <<versionOf, presented, target, listed, todo, faults>>
        BY DEF RevokeAll, TypeOK
    <2>3. CASE LogOutAll(p)
        BY <2>1, <2>2, <2>3 DEF LogOutAll, AdvanceAuthVersion, GoTo, Reply
    <2>4. CASE ChangePassword(p)
        BY <2>1, <2>2, <2>4 DEF ChangePassword, AdvanceAuthVersion, GoTo, Reply
    <2>5. CASE DeleteUser(p)
        <3>1. active' = FALSE /\ active' \in BOOLEAN
            BY <2>5 DEF DeleteUser
        <3> QED
            BY <2>1, <2>2, <2>5, <3>1 DEF DeleteUser, AdvanceAuthVersion, GoTo, Reply
    <2>6. CASE RemoveAdmin(p)
        <3>1. active' = FALSE /\ active' \in BOOLEAN
            BY <2>6 DEF RemoveAdmin
        <3> QED
            BY <2>1, <2>2, <2>6, <3>1 DEF RemoveAdmin, AdvanceAuthVersion, GoTo, Reply
    <2> QED
        BY <2>2, <2>3, <2>4, <2>5, <2>6
<1>1. CASE /\ active /\ active' \in BOOLEAN /\ version' = version + 1
           /\ step' = [step EXCEPT ![p] = "families"] /\ answer' = answer
    <2>0. /\ p \in Revoker
          /\ step[p] = "start"
          /\ active /\ active' \in BOOLEAN
          /\ version' = version + 1
          /\ step' = [step EXCEPT ![p] = "families"]
          /\ answer' = answer
          /\ UNCHANGED <<kind, stored, members, fence, tombstone, index, familyOf>>
          /\ UNCHANGED <<versionOf, presented, target, listed, todo, faults>>
        BY <1>0, <1>1
    <2>1. TypeOK'
        <3>1. version' \in 0..Cardinality(Revoker)
            <4>1. /\ step' \in [Request -> Step] /\ step'[p] # "start"
                  /\ \A q \in Request \ {p} : step'[q] = step[q]
                BY <2>0 DEF TypeOK, Step
            <4> QED
                BY <2>0, <4>1, VersionIsBounded
        <3>2. versionOf' \in [Token -> 0..version']
            BY <2>0, <3>1 DEF TypeOK
        <3> QED
            BY <2>0, <3>1, <3>2 DEF TypeOK, Step, Request
    <2>2. RequestsKeepTheirPath'
        BY <2>0, RequestAssumption
           DEF TypeOK, RequestsKeepTheirPath, Rotating, Issuing, Revoking, Sweeping, Token,
               Request
    <2>3. PresentedWasDelivered'
        BY <2>0, RequestAssumption
           DEF TypeOK, PresentedWasDelivered, Delivered, Rotating, Issuing, Token, Request
    <2>4. PayloadIsMadeOnce'
        BY <2>0, RequestAssumption DEF TypeOK, PayloadIsMadeOnce, Rotating, Issuing, Token, Request
    <2>5. OneWinner'
        BY <2>0, RequestAssumption DEF TypeOK, OneWinner, Won, Issuing, Token, Request
    <2>6. RevokersFollowTheVersion'
        <3>1. /\ Cardinality(BegunRevokers) \in Nat
              /\ Cardinality(BegunRevokers') = Cardinality(BegunRevokers) + 1
            <4>1. /\ step' \in [Request -> Step] /\ step'[p] # "start"
                  /\ \A q \in Request \ {p} : step'[q] = step[q]
                BY <2>0 DEF TypeOK, Step
            <4> QED
                BY <2>0, <4>1, VersionIsBounded
        <3> QED
            BY <1>0, <2>0, <3>1 DEF RevokersFollowTheVersion
    <2>7. FencedFamiliesShrink'
        BY <2>0 DEF TypeOK, FencedFamiliesShrink, Emptied, FamilyTokens, Token, Request
    <2>8. FamilyListsItsTokens'
        BY <2>0 DEF FamilyListsItsTokens
    <2>9. AlarmsAreJustified'
        BY <2>0, RequestAssumption
           DEF TypeOK, AlarmsAreJustified, NoFalseAlarm, Justified, FamilyTokens, Delivered,
               Token, Request
    <2>10. RevocationsReachTokens'
        BY <2>0, RequestAssumption
           DEF TypeOK, RevocationsReachTokens, Doomed, Deletes, Revoking, Token, Request,
               RevokersFollowTheVersion, BegunRevokers, RequestsKeepTheirPath, Rotating, Issuing,
               Sweeping, FamilyListsItsTokens, PayloadIsMadeOnce
    <2> QED
        BY <2>1, <2>2, <2>3, <2>4, <2>5, <2>6, <2>7, <2>8, <2>9, <2>10 DEF IInv
<1>2. CASE /\ ~active /\ active' = FALSE /\ version' = version
           /\ step' = [step EXCEPT ![p] = "families"] /\ answer' = answer
    <2>0. /\ p \in Revoker
          /\ step[p] = "start"
          /\ ~active /\ active' = FALSE
          /\ version' = version
          /\ step' = [step EXCEPT ![p] = "families"]
          /\ answer' = answer
          /\ UNCHANGED <<kind, stored, members, fence, tombstone, index, familyOf>>
          /\ UNCHANGED <<versionOf, presented, target, listed, todo, faults>>
        BY <1>0, <1>2
    <2>1. TypeOK'
        BY <2>0 DEF TypeOK, Step, Answer, Token, Request, Family
    <2>2. RequestsKeepTheirPath'
        BY <2>0, RequestAssumption
           DEF TypeOK, RequestsKeepTheirPath, Rotating, Issuing, Revoking, Sweeping, Token,
               Request
    <2>3. PresentedWasDelivered'
        BY <2>0, RequestAssumption
           DEF TypeOK, PresentedWasDelivered, Delivered, Rotating, Issuing, Token, Request
    <2>4. PayloadIsMadeOnce'
        BY <2>0, RequestAssumption DEF TypeOK, PayloadIsMadeOnce, Rotating, Issuing, Token, Request
    <2>5. OneWinner'
        BY <2>0, RequestAssumption DEF TypeOK, OneWinner, Won, Issuing, Token, Request
    <2>6. RevokersFollowTheVersion'
        <3>1. /\ Cardinality(BegunRevokers) \in Nat
              /\ Cardinality(BegunRevokers') = Cardinality(BegunRevokers) + 1
            <4>1. /\ step' \in [Request -> Step] /\ step'[p] # "start"
                  /\ \A q \in Request \ {p} : step'[q] = step[q]
                BY <2>0 DEF TypeOK, Step
            <4> QED
                BY <2>0, <4>1, VersionIsBounded
        <3> QED
            BY <1>0, <2>0, <3>1 DEF RevokersFollowTheVersion
    <2>7. FencedFamiliesShrink'
        BY <2>0 DEF TypeOK, FencedFamiliesShrink, Emptied, FamilyTokens, Token, Request
    <2>8. FamilyListsItsTokens'
        BY <2>0 DEF FamilyListsItsTokens
    <2>9. AlarmsAreJustified'
        BY <2>0, RequestAssumption
           DEF TypeOK, AlarmsAreJustified, NoFalseAlarm, Justified, FamilyTokens, Delivered,
               Token, Request
    <2>10. RevocationsReachTokens'
        BY <2>0
           DEF TypeOK, RevocationsReachTokens, Doomed, Deletes, Revoking, Token, Request,
               RevokersFollowTheVersion, BegunRevokers, RequestsKeepTheirPath, Rotating, Issuing,
               Sweeping
    <2> QED
        BY <2>1, <2>2, <2>3, <2>4, <2>5, <2>6, <2>7, <2>8, <2>9, <2>10 DEF IInv
<1>3. CASE /\ ~active /\ active' = FALSE /\ version' = version
           /\ step' = [step EXCEPT ![p] = "done"]
           /\ answer' = [answer EXCEPT ![p] = "error"]
    <2>0. /\ p \in Revoker
          /\ step[p] = "start"
          /\ ~active /\ active' = FALSE
          /\ version' = version
          /\ answer' = [answer EXCEPT ![p] = "error"]
          /\ step' = [step EXCEPT ![p] = "done"]
          /\ UNCHANGED <<kind, stored, members, fence, tombstone, index, familyOf>>
          /\ UNCHANGED <<versionOf, presented, target, listed, todo, faults>>
        BY <1>0, <1>3
    <2>1. TypeOK'
        BY <2>0 DEF TypeOK, Step, Answer, Token, Request, Family
    <2>2. RequestsKeepTheirPath'
        BY <2>0, RequestAssumption
           DEF TypeOK, RequestsKeepTheirPath, Rotating, Issuing, Revoking, Sweeping, Token,
               Request
    <2>3. PresentedWasDelivered'
        BY <2>0, RequestAssumption
           DEF TypeOK, PresentedWasDelivered, Delivered, Rotating, Issuing, Token, Request
    <2>4. PayloadIsMadeOnce'
        BY <2>0, RequestAssumption DEF TypeOK, PayloadIsMadeOnce, Rotating, Issuing, Token, Request
    <2>5. OneWinner'
        BY <2>0, RequestAssumption DEF TypeOK, OneWinner, Won, Issuing, Token, Request
    <2>6. RevokersFollowTheVersion'
        <3>1. /\ Cardinality(BegunRevokers) \in Nat
              /\ Cardinality(BegunRevokers') = Cardinality(BegunRevokers) + 1
            <4>1. /\ step' \in [Request -> Step] /\ step'[p] # "start"
                  /\ \A q \in Request \ {p} : step'[q] = step[q]
                BY <2>0 DEF TypeOK, Step
            <4> QED
                BY <2>0, <4>1, VersionIsBounded
        <3> QED
            BY <1>0, <2>0, <3>1 DEF RevokersFollowTheVersion
    <2>7. FencedFamiliesShrink'
        BY <2>0 DEF TypeOK, FencedFamiliesShrink, Emptied, FamilyTokens, Token, Request
    <2>8. FamilyListsItsTokens'
        BY <2>0 DEF FamilyListsItsTokens
    <2>9. AlarmsAreJustified'
        BY <2>0, RequestAssumption
           DEF TypeOK, AlarmsAreJustified, NoFalseAlarm, Justified, FamilyTokens, Delivered,
               Token, Request
    <2>10. RevocationsReachTokens'
        BY <2>0
           DEF TypeOK, RevocationsReachTokens, Doomed, Deletes, Revoking, Token, Request,
               RevokersFollowTheVersion, BegunRevokers, RequestsKeepTheirPath, Rotating, Issuing,
               Sweeping
    <2> QED
        BY <2>1, <2>2, <2>3, <2>4, <2>5, <2>6, <2>7, <2>8, <2>9, <2>10 DEF IInv
<1> QED
    BY <1>0, <1>1, <1>2, <1>3

LEMMA StepNextFamily ==
    ASSUME IInv, NEW p \in Request, NextFamily(p)
    PROVE  IInv'
<1> USE DEF account, redis, payload, local
<1> /\ TypeOK /\ RequestsKeepTheirPath /\ PresentedWasDelivered /\ PayloadIsMadeOnce
    /\ OneWinner /\ RevokersFollowTheVersion /\ FencedFamiliesShrink
    /\ FamilyListsItsTokens /\ AlarmsAreJustified /\ RevocationsReachTokens
    BY DEF IInv
<1>1. CASE todo[p] = {}
    <2>0. /\ step[p] = "next"
          /\ step' = [step EXCEPT ![p] = "drop"]
          /\ answer' = answer
          /\ UNCHANGED <<kind, version, active, stored, members, fence, tombstone, index>>
          /\ UNCHANGED <<familyOf, versionOf, presented, target, listed, todo, faults>>
        BY <1>1 DEF NextFamily, GoTo
    <2>1. TypeOK'
        BY <1>1, <2>0 DEF TypeOK, Step, Answer, Token, Request, Family
    <2>2. RequestsKeepTheirPath'
        BY <1>1, <2>0
           DEF TypeOK, RequestsKeepTheirPath, Rotating, Issuing, Revoking, Sweeping, Token,
               Request
    <2>3. PresentedWasDelivered'
        BY <1>1, <2>0
           DEF TypeOK, PresentedWasDelivered, Delivered, Rotating, Issuing, Token, Request
    <2>4. PayloadIsMadeOnce'
        BY <1>1, <2>0 DEF TypeOK, PayloadIsMadeOnce, Rotating, Issuing, Token, Request
    <2>5. OneWinner'
        BY <1>1, <2>0 DEF TypeOK, OneWinner, Won, Issuing, Token, Request
    <2>6. RevokersFollowTheVersion'
        BY <1>1, <2>0 DEF TypeOK, RevokersFollowTheVersion, BegunRevokers, Request
    <2>7. FencedFamiliesShrink'
        BY <1>1, <2>0 DEF TypeOK, FencedFamiliesShrink, Emptied, FamilyTokens, Token, Request
    <2>8. FamilyListsItsTokens'
        BY <1>1, <2>0 DEF FamilyListsItsTokens
    <2>9. AlarmsAreJustified'
        BY <1>1, <2>0
           DEF TypeOK, AlarmsAreJustified, NoFalseAlarm, Justified, FamilyTokens, Delivered,
               Token, Request
    <2>10. RevocationsReachTokens'
        BY <1>1, <2>0 DEF TypeOK, RevocationsReachTokens, Doomed, Deletes, Revoking, Token, Request
    <2> QED
        BY <2>1, <2>2, <2>3, <2>4, <2>5, <2>6, <2>7, <2>8, <2>9, <2>10 DEF IInv
<1>2. CASE todo[p] # {}
    <2>0. PICK f \in todo[p] :
            /\ step[p] = "next" /\ p \in Revoker
            /\ todo' = [todo EXCEPT ![p] = todo[p] \ {f}]
            /\ target' = [target EXCEPT ![p] = f]
            /\ step' = [step EXCEPT ![p] = "fence"]
            /\ UNCHANGED <<kind, version, active, stored, members, fence, tombstone, index>>
            /\ UNCHANGED <<familyOf, versionOf, answer, presented, listed, faults>>
        BY <1>2 DEF NextFamily, GoTo, RequestsKeepTheirPath, Sweeping
    <2>1. TypeOK'
        BY <2>0
           DEF TypeOK, Step, Answer, Token, Request, Family, RequestsKeepTheirPath, Rotating,
               Issuing, Revoking, Sweeping
    <2>2. RequestsKeepTheirPath'
        BY <2>0, RequestAssumption
           DEF TypeOK, RequestsKeepTheirPath, Rotating, Issuing, Revoking, Sweeping, Token,
               Request
    <2>3. PresentedWasDelivered'
        BY <2>0 DEF TypeOK, PresentedWasDelivered, Delivered, Rotating, Issuing, Token, Request
    <2>4. PayloadIsMadeOnce'
        BY <2>0 DEF TypeOK, PayloadIsMadeOnce, Rotating, Issuing, Token, Request
    <2>5. OneWinner'
        BY <2>0 DEF TypeOK, OneWinner, Won, Issuing, Token, Request
    <2>6. RevokersFollowTheVersion'
        BY <2>0 DEF TypeOK, RevokersFollowTheVersion, BegunRevokers, Request
    <2>7. FencedFamiliesShrink'
        BY <2>0 DEF TypeOK, FencedFamiliesShrink, Emptied, FamilyTokens, Token, Request
    <2>8. FamilyListsItsTokens'
        BY <2>0 DEF FamilyListsItsTokens
    <2>9. AlarmsAreJustified'
        BY <2>0, RequestAssumption
           DEF TypeOK, AlarmsAreJustified, NoFalseAlarm, Justified, FamilyTokens, Delivered,
               Token, Request, RevokersFollowTheVersion, BegunRevokers
    <2>10. RevocationsReachTokens'
        BY <2>0 DEF TypeOK, RevocationsReachTokens, Doomed, Deletes, Revoking, Token, Request
    <2> QED
        BY <2>1, <2>2, <2>3, <2>4, <2>5, <2>6, <2>7, <2>8, <2>9, <2>10 DEF IInv
<1> QED
    BY <1>1, <1>2

LEMMA StepTombstoneExpires ==
    ASSUME IInv, NEW t \in Token, TombstoneExpires(t)
    PROVE  IInv'
<1> USE DEF account, redis, payload, local
<1> /\ TypeOK /\ RequestsKeepTheirPath /\ PresentedWasDelivered /\ PayloadIsMadeOnce
    /\ OneWinner /\ RevokersFollowTheVersion /\ FencedFamiliesShrink
    /\ FamilyListsItsTokens /\ AlarmsAreJustified /\ RevocationsReachTokens
    BY DEF IInv
<1>0. /\ tombstone[t] = "live"
      /\ tombstone' = [tombstone EXCEPT ![t] = "lapsed"]
      /\ UNCHANGED <<kind, version, active, stored, members, fence, index, familyOf>>
      /\ UNCHANGED <<versionOf, presented, target, listed, todo, faults>>
      /\ UNCHANGED <<step, answer>>
    BY DEF TombstoneExpires
<1>1. TypeOK'
    BY <1>0 DEF TypeOK, Step, Answer, Token, Request, Family
<1>2. RequestsKeepTheirPath'
    BY <1>0 DEF TypeOK, RequestsKeepTheirPath, Rotating, Issuing, Revoking, Sweeping, Token, Request
<1>3. PresentedWasDelivered'
    BY <1>0 DEF TypeOK, PresentedWasDelivered, Delivered, Rotating, Issuing, Token, Request
<1>4. PayloadIsMadeOnce'
    BY <1>0 DEF TypeOK, PayloadIsMadeOnce, Rotating, Issuing, Token, Request
<1>5. OneWinner'
    BY <1>0 DEF TypeOK, OneWinner, Won, Issuing, Token, Request
<1>6. RevokersFollowTheVersion'
    BY <1>0 DEF TypeOK, RevokersFollowTheVersion, BegunRevokers, Request
<1>7. FencedFamiliesShrink'
    BY <1>0 DEF TypeOK, FencedFamiliesShrink, Emptied, FamilyTokens, Token, Request
<1>8. FamilyListsItsTokens'
    BY <1>0 DEF FamilyListsItsTokens
<1>9. AlarmsAreJustified'
    BY <1>0
       DEF TypeOK, AlarmsAreJustified, NoFalseAlarm, Justified, FamilyTokens, Delivered, Token,
           Request, PresentedWasDelivered, Rotating, Issuing
<1>10. RevocationsReachTokens'
    BY <1>0 DEF TypeOK, RevocationsReachTokens, Doomed, Deletes, Revoking, Token, Request
<1> QED
    BY <1>1, <1>2, <1>3, <1>4, <1>5, <1>6, <1>7, <1>8, <1>9, <1>10 DEF IInv

LEMMA Stutters ==
    ASSUME IInv, UNCHANGED vars
    PROVE  IInv'
<1> USE DEF account, redis, payload, local
<1> /\ TypeOK /\ RequestsKeepTheirPath /\ PresentedWasDelivered /\ PayloadIsMadeOnce
    /\ OneWinner /\ RevokersFollowTheVersion /\ FencedFamiliesShrink
    /\ FamilyListsItsTokens /\ AlarmsAreJustified /\ RevocationsReachTokens
    BY DEF IInv
<1>0. /\ UNCHANGED <<kind, version, active, stored, members, fence, tombstone, index>>
      /\ UNCHANGED <<familyOf, versionOf, presented, target, listed, todo, faults>>
      /\ UNCHANGED <<step, answer>>
    BY DEF vars
<1>1. TypeOK'
    BY <1>0 DEF TypeOK, Step, Answer, Token, Request, Family
<1>2. RequestsKeepTheirPath'
    BY <1>0 DEF TypeOK, RequestsKeepTheirPath, Rotating, Issuing, Revoking, Sweeping, Token, Request
<1>3. PresentedWasDelivered'
    BY <1>0 DEF TypeOK, PresentedWasDelivered, Delivered, Rotating, Issuing, Token, Request
<1>4. PayloadIsMadeOnce'
    BY <1>0 DEF TypeOK, PayloadIsMadeOnce, Rotating, Issuing, Token, Request
<1>5. OneWinner'
    BY <1>0 DEF TypeOK, OneWinner, Won, Issuing, Token, Request
<1>6. RevokersFollowTheVersion'
    BY <1>0 DEF TypeOK, RevokersFollowTheVersion, BegunRevokers, Request
<1>7. FencedFamiliesShrink'
    BY <1>0 DEF TypeOK, FencedFamiliesShrink, Emptied, FamilyTokens, Token, Request
<1>8. FamilyListsItsTokens'
    BY <1>0 DEF FamilyListsItsTokens
<1>9. AlarmsAreJustified'
    BY <1>0
       DEF TypeOK, AlarmsAreJustified, NoFalseAlarm, Justified, FamilyTokens, Delivered, Token,
           Request
<1>10. RevocationsReachTokens'
    BY <1>0 DEF TypeOK, RevocationsReachTokens, Doomed, Deletes, Revoking, Token, Request
<1> QED
    BY <1>1, <1>2, <1>3, <1>4, <1>5, <1>6, <1>7, <1>8, <1>9, <1>10 DEF IInv

-----------------------------------------------------------------------------
(***************************************************************************)
(* The invariant holds in every state.                                     *)
(***************************************************************************)

LEMMA InitiallyNothingIsIssued == Init => IInv
<1> SUFFICES ASSUME Init PROVE IInv
    OBVIOUS
<1>1. Cardinality(Revoker) \in Nat /\ BegunRevokers = {} /\ Cardinality(BegunRevokers) = 0
    BY RequestAssumption, FS_CardinalityType, FS_EmptySet DEF Init, BegunRevokers, Request
<1>2. TypeOK
    <2>1. 0 \in 0..Cardinality(Revoker) /\ 0 \in 0..MaxFaults /\ 0 \in 0..version
        BY <1>1, FaultAssumption DEF Init
    <2> QED
        BY <2>1 DEF Init, TypeOK, Step, Answer
<1>3. Delivered = {}
    BY DEF Init, Delivered, Token, Request
<1>4. RequestsKeepTheirPath /\ PresentedWasDelivered /\ PayloadIsMadeOnce /\ OneWinner
    BY DEF Init, RequestsKeepTheirPath, PresentedWasDelivered, PayloadIsMadeOnce, OneWinner, Won,
           Rotating, Issuing, Revoking, Sweeping, Token, Request
<1>5. RevokersFollowTheVersion /\ FencedFamiliesShrink /\ FamilyListsItsTokens
    BY <1>1 DEF Init, RevokersFollowTheVersion, FencedFamiliesShrink, FamilyListsItsTokens,
                Emptied, Token, Request
<1>6. AlarmsAreJustified /\ RevocationsReachTokens
    BY <1>3 DEF Init, AlarmsAreJustified, NoFalseAlarm, RevocationsReachTokens, Token, Request
<1> QED
    BY <1>2, <1>4, <1>5, <1>6 DEF IInv

LEMMA EveryStepKeepsIInv == IInv /\ [Next]_vars => IInv'
<1>1. ASSUME IInv, NEW p \in Request, Handle(p)
      PROVE  IInv'
    BY <1>1, StepLogIn, StepPresent, StepLookup, StepConsume, StepRejectDuplicate, StepRejectReuse,
       StepIndex, StepStore, StepUnstore, StepConfirm, StepSetFence, StepListFamily,
       StepDeleteFamily, StepUnindex, StepLogOut, StepRevokeAll, StepListFamilies, StepNextFamily,
       StepDropIndex
       DEF Handle
<1> QED
    BY <1>1, StepFails, StepTombstoneExpires, Stutters DEF Next

\* JwtAuthService and the revocation of an account keep the Redis keys, the
\* payloads and the requests consistent, whatever the interleaving of their
\* calls and wherever a request dies: the inductive invariant always holds.
THEOREM JwtAuthInvariant == Spec => []IInv
BY InitiallyNothingIsIssued, EveryStepKeepsIInv, PTL DEF Spec

\* Parallel refreshes with one token have one winner (CONSUME_TOKEN_SCRIPT
\* decides), and a family is fenced only for a logout, a change of the account
\* or a replay whose tombstone has lapsed: refresh's grace period ends no
\* session by itself.
THEOREM RotationIsSafeAlways == Spec => []RotationIsSafe
<1>1. IInv => RotationIsSafe
    <2> SUFFICES ASSUME IInv PROVE RotationIsSafe
        OBVIOUS
    <2>1. OneSuccessor
        BY DEF IInv, OneWinner, Won, OneSuccessor
    <2> QED
        BY <2>1 DEF IInv, AlarmsAreJustified, RotationIsSafe
<1> QED
    BY <1>1, JwtAuthInvariant, PTL

\* After revokeFamily no token of the family is stored and STORE_TOKEN_SCRIPT
\* stores none any more; the family sets list every stored token; and after
\* revokeAllForUser, unless a request died, none is left from before it.
THEOREM RevocationIsFinalAlways == Spec => []RevocationIsFinal
<1>1. IInv => RevocationIsFinal
    <2> SUFFICES ASSUME IInv PROVE RevocationIsFinal
        OBVIOUS
    <2>1. RevokedFamilyStaysEmpty
        BY DEF IInv, FencedFamiliesShrink, FamilyListsItsTokens, Emptied, RevokedFamilyStaysEmpty
    <2>2. RevocationSweeps
        <3> SUFFICES ASSUME \A p \in Request : ~Running(p), faults = 0,
                            NEW t \in stored, versionOf[t] = 0
                     PROVE  Current(0)
            BY DEF RevocationSweeps
        <3>1. t \in Request /\ version \in Nat
            BY RequestAssumption, FS_CardinalityType DEF IInv, TypeOK, Token, Request
        <3>2. ~Doomed(t)
            BY <3>1 DEF Doomed, Deletes, Running, Revoking, Request
        <3>3. version = 0
            BY <3>1, <3>2 DEF IInv, RevocationsReachTokens
        <3> QED
            BY <3>3 DEF IInv, RevokersFollowTheVersion, Current
    <2> QED
        BY <2>1, <2>2 DEF IInv, RevocationIsFinal
<1> QED
    BY <1>1, JwtAuthInvariant, PTL

=============================================================================
