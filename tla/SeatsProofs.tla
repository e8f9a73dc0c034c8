----------------------------- MODULE SeatsProofs -----------------------------
(***************************************************************************)
(* Theorems about the seats: TicketHolding for any users, purchases,       *)
(* tickets, showtimes, times to live and length of time; Booking for any   *)
(* catalog, sagas, deletions and pages; Seatmap for seatmaps of any size.  *)
(***************************************************************************)
EXTENDS MCSeats, Sequences, FiniteSetTheorems, WellFoundedInduction, TLAPS

-----------------------------------------------------------------------------
(***************************************************************************)
(* The inductive invariant.                                                *)
(***************************************************************************)

\* No expiry lies further ahead than its time to live, and what a purchase has
\* captured was promised to its customer.
ExpiriesAreBounded ==
    /\ \A t \in Ticket, u \in User : granted[t][u] <= now + HoldTtl
    /\ \A u \in User, s \in Showtime : listUntil[u][s] <= now + HoldTtl
    /\ \A p \in Purchase, s \in Showtime : capturedList[p][s] <= now + HoldTtl
    /\ \A p \in Purchase, t \in Ticket : captured[p][t] <= granted[t][Buyer[p]]

\* Where a purchase can own a seat: only what it buys, and as far as its loops
\* have come.
ClaimsFollowTheLoop ==
    \A p \in Purchase, t \in Ticket : owner[t] = p =>
        /\ t \in Items[p] /\ until[t] <= now + ClaimTtl
        /\ step[p] \notin {"idle", "refused", "released"}
        /\ step[p] = "claiming" => ShowtimeOf[t] \notin left[p]
        /\ step[p] = "rollingBack" => ShowtimeOf[t] \in rolling[p]
        /\ step[p] = "releasing" => ShowtimeOf[t] \in left[p]

\* The loops reach the showtimes of the purchase; a rollback comes after a
\* refusal only.
LoopsReachTheGroups ==
    \A p \in Purchase :
        /\ step[p] \in {"claiming", "claimed", "confirmed", "releasing"} => left[p] \subseteq Groups(p)
        /\ step[p] \in {"idle", "claiming", "claimed"} => rolling[p] = {}

\* A claim confirmed before lasts as long as one that is still to be confirmed.
ConfirmedLastsLonger ==
    \A p \in Purchase : step[p] = "claimed" => \A t, r \in Items[p] :
        ShowtimeOf[t] \notin left[p] /\ ShowtimeOf[r] \in left[p] /\ owner[r] = p
            => owner[t] = p /\ until[r] <= until[t]

IInv ==
    /\ TypeOK
    /\ NoHiddenHold
    /\ HoldIsNotExtended
    /\ ExpiriesAreBounded
    /\ ClaimsFollowTheLoop
    /\ LoopsReachTheGroups
    /\ ConfirmedLastsLonger

\* For any customer, a change of seats by which somebody loses one: it leaves
\* their list as well, but for the clock (HoldsEndKnowingly).
LosesKnowingly ==
    \A t \in Ticket, u \in User :
        now' = now /\ owner[t] = u /\ owner'[t] # u => t \notin listed'[u]

\* A purchase that is confirmed by this step owns all its seats (ConfirmedIsWhole).
ConfirmsAll ==
    \A p \in Purchase :
        step[p] # "confirmed" /\ step'[p] = "confirmed" => \A t \in Items[p] : owner'[t] = p

-----------------------------------------------------------------------------
(***************************************************************************)
(* Numbers.                                                                *)
(***************************************************************************)

\* A set of numbers that is not empty has a least one.
LEMMA LeastNumber ==
    ASSUME NEW S, S \subseteq Nat, S # {}
    PROVE  \E n \in S : \A e \in S : n <= e
<1>1. PICK n \in S : \A e \in S : <<e, n>> \notin OpToRel(<, Nat)
    BY WFMin, NatLessThanWellFounded, Zenon
<1>2. \A e \in S : ~(e < n)
    BY <1>1 DEF OpToRel
<1> QED
    BY <1>2

\* A bounded one has a greatest.
LEMMA GreatestNumber ==
    ASSUME NEW S, S \subseteq Nat, S # {}, NEW b \in Nat, \A e \in S : e <= b
    PROVE  Max(S) \in S /\ \A e \in S : e <= Max(S)
<1> DEFINE Above == {n \in Nat : \A e \in S : e <= n}
<1>1. PICK n \in Above : \A m \in Above : n <= m
    <2>1. Above \subseteq Nat /\ Above # {}
        OBVIOUS
    <2> HIDE DEF Above
    <2> QED
        BY <2>1, LeastNumber
<1>2. n \in S
    <2> SUFFICES ASSUME n \notin S PROVE FALSE
        OBVIOUS
    <2>1. \A e \in S : e < n
        BY <1>1
    <2>2. n \in Nat /\ n > 0
        <3>1. PICK e \in S : e \in Nat
            OBVIOUS
        <3> QED
            BY <1>1, <2>1, <3>1
    <2>3. n - 1 \in Nat /\ \A e \in S : e <= n - 1
        BY <2>1, <2>2
    <2> QED
        BY <1>1, <2>2, <2>3
<1> QED
    BY <1>1, <1>2 DEF Max

\* What TypeOK says of the single values.
LEMMA ValuesAreTyped ==
    ASSUME TypeOK
    PROVE  /\ now \in Nat /\ HoldTtl \in Nat /\ ClaimTtl \in Nat /\ HoldTtl > 0 /\ ClaimTtl > 0
           /\ \A t \in Ticket : /\ until[t] \in Nat /\ ShowtimeOf[t] \in Showtime
                                /\ owner[t] \in User \union Purchase \union {Nobody}
                                /\ owner[t] # Nobody => until[t] > now
                                /\ owner[t] = Nobody => until[t] = 0
           /\ \A u \in User : listed[u] \subseteq Ticket
           /\ \A u \in User, s \in Showtime :
                 /\ listUntil[u][s] \in Nat
                 /\ Listed(u, s) = {} => listUntil[u][s] = 0
                 /\ Listed(u, s) # {} => listUntil[u][s] > now
           /\ \A t \in Ticket, u \in User : granted[t][u] \in Nat
           /\ \A p \in Purchase : /\ Buyer[p] \in User
                                  /\ Items[p] \subseteq Ticket /\ Items[p] # {}
           /\ \A p \in Purchase, t \in Ticket : captured[p][t] \in Nat
           /\ \A p \in Purchase, s \in Showtime : capturedList[p][s] \in Nat
<1>1. now \in Nat /\ HoldTtl \in Nat /\ ClaimTtl \in Nat /\ HoldTtl > 0 /\ ClaimTtl > 0
    BY TimeAssumption DEF TypeOK
<1>2. \A t \in Ticket : /\ until[t] \in Nat /\ ShowtimeOf[t] \in Showtime
                        /\ owner[t] \in User \union Purchase \union {Nobody}
                        /\ owner[t] # Nobody => until[t] > now
                        /\ owner[t] = Nobody => until[t] = 0
    BY ItemAssumption DEF TypeOK
<1>3. \A u \in User, s \in Showtime :
         /\ listed[u] \subseteq Ticket
         /\ listUntil[u][s] \in Nat
         /\ Listed(u, s) = {} => listUntil[u][s] = 0
         /\ Listed(u, s) # {} => listUntil[u][s] > now
    BY DEF TypeOK
<1>4. \A t \in Ticket, u \in User : granted[t][u] \in Nat
    BY DEF TypeOK
<1>5. \A p \in Purchase : Buyer[p] \in User /\ Items[p] \in (SUBSET Ticket) \ {{}}
    BY ItemAssumption
<1>6. /\ \A p \in Purchase, t \in Ticket : captured[p][t] \in Nat
      /\ \A p \in Purchase, s \in Showtime : capturedList[p][s] \in Nat
    BY DEF TypeOK
<1>7. \A u \in User : listed[u] \subseteq Ticket
    BY DEF TypeOK
<1> QED
    BY <1>1, <1>2, <1>3, <1>4, <1>5, <1>6, <1>7

\* A purchase is of finitely many showtimes, and of one at least.
LEMMA GroupsAreFinite ==
    ASSUME NEW p \in Purchase
    PROVE  IsFiniteSet(Groups(p)) /\ Groups(p) # {} /\ Groups(p) \subseteq Showtime
<1>1. IsFiniteSet(Items[p])
    BY ItemAssumption
<1>2. Items[p] \in (SUBSET Ticket) \ {{}}
    BY ItemAssumption
<1> DEFINE f == [t \in Items[p] |-> ShowtimeOf[t]]
<1>3. f \in Surjection(Items[p], Groups(p))
    BY DEF Surjection, Groups
<1>4. IsFiniteSet(Groups(p))
    BY <1>1, <1>3, FS_Surjection
<1> QED
    BY <1>2, <1>4, ItemAssumption DEF Groups

\* Of two showtimes or more, one is taken; the only one is the next.
LEMMA NextShowtime ==
    ASSUME NEW p \in Purchase, left[p] \subseteq Groups(p), Cardinality(left[p]) = 1
    PROVE  left[p] = {Min(left[p])}
<1>1. IsFiniteSet(left[p])
    BY GroupsAreFinite, FS_Subset
<1>2. PICK s : left[p] = {s}
    BY <1>1, FS_Singleton
<1>3. s \in Nat
    BY <1>2, GroupsAreFinite, ItemAssumption
<1> QED
    BY <1>2, <1>3 DEF Min

-----------------------------------------------------------------------------
(***************************************************************************)
(* Every step keeps the invariant.                                         *)
(***************************************************************************)

\* Forgetting the captured times keeps the bounds.
LEMMA ForgottenIsBounded ==
    ASSUME IInv, NEW p \in Purchase, Forget(p)
    PROVE  /\ \A q \in Purchase, s \in Showtime : capturedList'[q][s] <= now + HoldTtl
           /\ \A q \in Purchase, t \in Ticket : captured'[q][t] <= granted[t][Buyer[q]]
<1>1. now \in Nat /\ HoldTtl \in Nat /\ 0 <= now + HoldTtl
    BY ValuesAreTyped DEF IInv
<1>2. \A q \in Purchase, t \in Ticket : granted[t][Buyer[q]] >= 0
    BY ValuesAreTyped DEF IInv
<1>3. /\ \A q \in Purchase, s \in Showtime : capturedList'[q][s] \in {0, capturedList[q][s]}
      /\ \A q \in Purchase, t \in Ticket : captured'[q][t] \in {0, captured[q][t]}
    BY DEF IInv, TypeOK, Forget
<1> QED
    BY <1>1, <1>2, <1>3 DEF IInv, ExpiriesAreBounded

LEMMA StepHold ==
    ASSUME IInv, NEW u \in User, NEW s \in Showtime, NEW T \in SUBSET Seats(s), Hold(u, s, T)
    PROVE  IInv' /\ LosesKnowingly /\ ConfirmsAll
<1> /\ TypeOK /\ NoHiddenHold /\ HoldIsNotExtended /\ ExpiriesAreBounded
    /\ ClaimsFollowTheLoop /\ LoopsReachTheGroups /\ ConfirmedLastsLonger
    BY DEF IInv
<1>0. /\ now \in Nat /\ HoldTtl \in Nat /\ HoldTtl > 0 /\ now + HoldTtl > now
    BY ValuesAreTyped
<1>1. /\ T # {} /\ \A t \in T : t \in Ticket /\ ShowtimeOf[t] = s /\ owner[t] \in {u, Nobody}
      /\ \A t \in Ticket : owner'[t] = IF t \in T THEN u
                                   ELSE IF t \in GivenUp(u, s, T) THEN Nobody ELSE owner[t]
      /\ \A t \in Ticket : until'[t] = IF t \in T THEN now + HoldTtl
                                   ELSE IF t \in GivenUp(u, s, T) THEN 0 ELSE until[t]
      /\ \A v \in User : listed'[v] = IF v = u THEN (listed[u] \ Seats(s)) \union T ELSE listed[v]
      /\ \A v \in User, r \in Showtime :
            listUntil'[v][r] = IF v = u /\ r = s THEN now + HoldTtl ELSE listUntil[v][r]
      /\ \A t \in Ticket, v \in User :
            granted'[t][v] = IF t \in T /\ v = u THEN now + HoldTtl ELSE granted[t][v]
      /\ UNCHANGED <<now, step, left, rolling, captured, capturedList>>
    BY DEF Hold, SetList, TypeOK, process, Seats
<1>2. \A t \in GivenUp(u, s, T) : t \in Ticket /\ t \notin T /\ ShowtimeOf[t] = s /\ owner[t] = u
    BY DEF GivenUp, Listed, Seats
<1>3. \A t \in Ticket : owner[t] = u /\ ShowtimeOf[t] = s => t \in T \union GivenUp(u, s, T)
    BY DEF NoHiddenHold, GivenUp, Listed, Seats
<1>4. u \notin Purchase /\ Nobody \notin User \union Purchase
    BY NameAssumption
<1>5. TypeOK'
    <2>1. /\ owner' \in [Ticket -> User \union Purchase \union {Nobody}]
          /\ until' \in [Ticket -> Nat]
          /\ listed' \in [User -> SUBSET Ticket]
          /\ listUntil' \in [User -> [Showtime -> Nat]]
          /\ granted' \in [Ticket -> [User -> Nat]]
        <3>1. now + HoldTtl \in Nat /\ 0 \in Nat
            BY <1>0
        <3>2. u \in User \union Purchase \union {Nobody} /\ T \subseteq Ticket
            BY <1>1
        <3> QED
            BY <3>1, <3>2 DEF Hold, SetList, TypeOK
    <2>2. \A t \in Ticket : IF owner'[t] = Nobody THEN until'[t] = 0 ELSE until'[t] > now
        <3>1. TypeOK
            OBVIOUS
        <3> QED
            BY <3>1, <1>0, <1>1, <1>2, <1>4, ValuesAreTyped
    <2>3. \A v \in User, r \in Showtime :
             IF listed'[v] \intersect Seats(r) = {} THEN listUntil'[v][r] = 0
                                                    ELSE listUntil'[v][r] > now
        <3> TAKE v \in User, r \in Showtime
        <3>1. CASE v = u /\ r = s
            <4>1. T \subseteq listed'[u] \intersect Seats(s)
                BY <1>1 DEF Seats
            <4> QED
                BY <1>0, <1>1, <3>1, <4>1
        <3>2. CASE v # u \/ r # s
            <4>1. listed'[v] \intersect Seats(r) = listed[v] \intersect Seats(r)
                BY <1>1, <3>2 DEF Seats
            <4> QED
                BY <1>1, <3>2, <4>1 DEF TypeOK, Listed
        <3> QED
            BY <3>1, <3>2
    <2> QED
        BY <1>1, <2>1, <2>2, <2>3 DEF TypeOK, Listed, Seats
<1>6. NoHiddenHold' /\ HoldIsNotExtended'
    <2> SUFFICES ASSUME NEW t \in Ticket, NEW v \in User, owner'[t] = v
                 PROVE  /\ t \in listed'[v] /\ until'[t] <= listUntil'[v][ShowtimeOf[t]]
                        /\ until'[t] <= granted'[t][v]
        BY DEF NoHiddenHold, HoldIsNotExtended
    <2>1. ShowtimeOf[t] \in Showtime /\ until[t] \in Nat
        BY ValuesAreTyped
    <2>2. CASE t \in T
        BY <1>0, <1>1, <1>4, <2>1, <2>2
    <2>3. CASE t \notin T
        <3>1. /\ owner[t] = v /\ until'[t] = until[t] /\ granted'[t][v] = granted[t][v]
              /\ v # u \/ ShowtimeOf[t] # s
            BY <1>1, <1>2, <1>3, <1>4, <2>3
        <3> QED
            <4>1. listUntil'[v][ShowtimeOf[t]] = listUntil[v][ShowtimeOf[t]]
                BY <1>1, <2>1, <3>1
            <4>2. t \in listed'[v]
                BY <1>1, <3>1 DEF NoHiddenHold, Seats
            <4> QED
                BY <3>1, <4>1, <4>2 DEF NoHiddenHold, HoldIsNotExtended
    <2> QED
        BY <2>2, <2>3
<1>8. ExpiriesAreBounded'
    <2>1. \A t \in Ticket, v \in User :
             granted[t][v] <= granted'[t][v] /\ granted'[t][v] <= now + HoldTtl
        BY <1>0, <1>1, ValuesAreTyped DEF ExpiriesAreBounded
    <2>2. \A v \in User, r \in Showtime : listUntil'[v][r] <= now + HoldTtl
        BY <1>0, <1>1, ValuesAreTyped DEF ExpiriesAreBounded
    <2>3. \A p \in Purchase, t \in Ticket : captured[p][t] <= granted'[t][Buyer[p]]
        <3> TAKE p \in Purchase, t \in Ticket
        <3>1. /\ Buyer[p] \in User /\ captured[p][t] \in Nat /\ granted[t][Buyer[p]] \in Nat
              /\ granted'[t][Buyer[p]] \in Nat
            BY <1>5, ValuesAreTyped DEF TypeOK
        <3> QED
            BY <2>1, <3>1 DEF ExpiriesAreBounded
    <2> QED
        BY <1>1, <2>1, <2>2, <2>3 DEF ExpiriesAreBounded
<1>9. \A p \in Purchase, t \in Ticket :
         /\ owner'[t] = p => owner[t] = p /\ until'[t] = until[t]
         /\ owner[t] = p => owner'[t] = p
    BY <1>1, <1>2, <1>4
<1>10. ClaimsFollowTheLoop' /\ LoopsReachTheGroups'
    BY <1>1, <1>9 DEF ClaimsFollowTheLoop, LoopsReachTheGroups, Groups
<1>11. ConfirmedLastsLonger'
    BY <1>1, <1>9, ItemAssumption DEF ConfirmedLastsLonger
<1>12. LosesKnowingly
    <2> SUFFICES ASSUME NEW t \in Ticket, NEW v \in User, owner[t] = v, owner'[t] # v
                 PROVE  t \notin listed'[v]
        BY DEF LosesKnowingly
    <2>1. v = u /\ t \in GivenUp(u, s, T)
        BY <1>1, <1>2, <1>4
    <2> QED
        BY <1>1, <1>2, <2>1 DEF Seats
<1> QED
    BY <1>1, <1>5, <1>6, <1>8, <1>10, <1>11, <1>12 DEF IInv, ConfirmsAll

LEMMA StepStart ==
    ASSUME IInv, NEW p \in Purchase, Start(p)
    PROVE  IInv' /\ LosesKnowingly /\ ConfirmsAll
<1> /\ TypeOK /\ NoHiddenHold /\ HoldIsNotExtended /\ ExpiriesAreBounded
    /\ ClaimsFollowTheLoop /\ LoopsReachTheGroups /\ ConfirmedLastsLonger
    BY DEF IInv
<1>1. /\ step[p] = "idle"
      /\ step' = [step EXCEPT ![p] = "claiming"]
      /\ left' = [left EXCEPT ![p] = Groups(p)]
      /\ UNCHANGED <<now, owner, until, listed, listUntil, granted, rolling>>
      /\ UNCHANGED <<captured, capturedList>>
    BY DEF Start, GoTo, keys
<1>2. TypeOK'
    BY <1>1, GroupsAreFinite DEF TypeOK, Step, Listed
<1>3. NoHiddenHold' /\ HoldIsNotExtended' /\ ExpiriesAreBounded'
    BY <1>1 DEF NoHiddenHold, HoldIsNotExtended, ExpiriesAreBounded
<1>4. ClaimsFollowTheLoop'
    BY <1>1 DEF ClaimsFollowTheLoop, TypeOK
<1>5. LoopsReachTheGroups'
    BY <1>1 DEF LoopsReachTheGroups, TypeOK, Groups
<1>6. ConfirmedLastsLonger'
    BY <1>1 DEF ConfirmedLastsLonger, TypeOK
<1>7. LosesKnowingly /\ ConfirmsAll
    BY <1>1 DEF LosesKnowingly, ConfirmsAll, TypeOK
<1> QED
    BY <1>2, <1>3, <1>4, <1>5, <1>6, <1>7 DEF IInv

LEMMA StepClaimRefused ==
    ASSUME IInv, NEW p \in Purchase, ClaimRefused(p)
    PROVE  IInv' /\ LosesKnowingly /\ ConfirmsAll
<1> /\ TypeOK /\ NoHiddenHold /\ HoldIsNotExtended /\ ExpiriesAreBounded
    /\ ClaimsFollowTheLoop /\ LoopsReachTheGroups /\ ConfirmedLastsLonger
    BY DEF IInv
<1>1. /\ step[p] = "claiming"
      /\ rolling' = [rolling EXCEPT ![p] = Groups(p) \ left[p]]
      /\ step' = [step EXCEPT ![p] = IF Groups(p) \ left[p] = {} THEN "refused" ELSE "rollingBack"]
      /\ UNCHANGED <<now, owner, until, listed, listUntil, granted, left>>
      /\ UNCHANGED <<captured, capturedList>>
    BY DEF ClaimRefused, GoTo, keys
<1>2. TypeOK'
    <2>1. Groups(p) \ left[p] \subseteq Showtime
        BY GroupsAreFinite
    <2> QED
        BY <1>1, <2>1 DEF TypeOK, Step, Listed
<1>3. NoHiddenHold' /\ HoldIsNotExtended' /\ ExpiriesAreBounded'
    BY <1>1 DEF NoHiddenHold, HoldIsNotExtended, ExpiriesAreBounded
<1>4. ClaimsFollowTheLoop'
    <2>1. \A t \in Ticket : owner[t] = p => ShowtimeOf[t] \in Groups(p) \ left[p]
        BY <1>1 DEF ClaimsFollowTheLoop, Groups
    <2> QED
        BY <1>1, <2>1 DEF ClaimsFollowTheLoop, TypeOK
<1>5. LoopsReachTheGroups'
    BY <1>1 DEF LoopsReachTheGroups, TypeOK, Groups
<1>6. ConfirmedLastsLonger'
    BY <1>1 DEF ConfirmedLastsLonger, TypeOK
<1>7. LosesKnowingly /\ ConfirmsAll
    BY <1>1 DEF LosesKnowingly, ConfirmsAll, TypeOK
<1> QED
    BY <1>2, <1>3, <1>4, <1>5, <1>6, <1>7 DEF IInv

LEMMA StepCompensate ==
    ASSUME IInv, NEW p \in Purchase, Compensate(p)
    PROVE  IInv' /\ LosesKnowingly /\ ConfirmsAll
<1> /\ TypeOK /\ NoHiddenHold /\ HoldIsNotExtended /\ ExpiriesAreBounded
    /\ ClaimsFollowTheLoop /\ LoopsReachTheGroups /\ ConfirmedLastsLonger
    BY DEF IInv
<1>1. /\ step' = [step EXCEPT ![p] = "releasing"]
      /\ left' = [left EXCEPT ![p] = Groups(p)]
      /\ UNCHANGED <<now, owner, until, listed, listUntil, granted, rolling>>
      /\ \/ Forget(p)
         \/ UNCHANGED <<captured, capturedList>>
    BY DEF Compensate, GoTo, keys
<1>2. TypeOK'
    <2>1. captured' \in [Purchase -> [Ticket -> Nat]] /\ capturedList' \in [Purchase -> [Showtime -> Nat]]
        <3>1. [t \in Ticket |-> 0] \in [Ticket -> Nat] /\ [r \in Showtime |-> 0] \in [Showtime -> Nat]
            OBVIOUS
        <3>2. CASE Forget(p)
            BY <3>1, <3>2 DEF Forget, TypeOK
        <3>3. CASE UNCHANGED <<captured, capturedList>>
            BY <3>3 DEF TypeOK
        <3> QED
            BY <1>1, <3>2, <3>3
    <2> QED
        BY <1>1, <2>1, GroupsAreFinite DEF TypeOK, Step, Listed
<1>3. NoHiddenHold' /\ HoldIsNotExtended' /\ ExpiriesAreBounded'
    <2>1. NoHiddenHold' /\ HoldIsNotExtended'
        BY <1>1 DEF NoHiddenHold, HoldIsNotExtended
    <2> QED
        BY <1>1, <2>1, ForgottenIsBounded DEF ExpiriesAreBounded
<1>4. ClaimsFollowTheLoop'
    BY <1>1 DEF ClaimsFollowTheLoop, TypeOK, Groups
<1>5. LoopsReachTheGroups'
    BY <1>1 DEF LoopsReachTheGroups, TypeOK, Groups
<1>6. ConfirmedLastsLonger'
    BY <1>1 DEF ConfirmedLastsLonger, TypeOK
<1>7. LosesKnowingly /\ ConfirmsAll
    BY <1>1 DEF LosesKnowingly, ConfirmsAll, TypeOK
<1> QED
    BY <1>2, <1>3, <1>4, <1>5, <1>6, <1>7 DEF IInv

LEMMA StepRelease ==
    ASSUME IInv, NEW p \in Purchase, NEW s \in Showtime, Release(p, s)
    PROVE  IInv' /\ LosesKnowingly /\ ConfirmsAll
<1> /\ TypeOK /\ NoHiddenHold /\ HoldIsNotExtended /\ ExpiriesAreBounded
    /\ ClaimsFollowTheLoop /\ LoopsReachTheGroups /\ ConfirmedLastsLonger
    BY DEF IInv
<1>1. /\ step[p] = "releasing" /\ s \in left[p]
      /\ \A t \in Ticket : owner'[t] = IF t \in Group(p, s) /\ owner[t] = p THEN Nobody ELSE owner[t]
      /\ \A t \in Ticket : until'[t] = IF t \in Group(p, s) /\ owner[t] = p THEN 0 ELSE until[t]
      /\ left' = [left EXCEPT ![p] = left[p] \ {s}]
      /\ step' = IF left[p] = {s} THEN [step EXCEPT ![p] = "released"] ELSE step
      /\ UNCHANGED <<now, listed, listUntil, granted, rolling, captured, capturedList>>
    BY DEF Release, SetOwner, GoTo, Group, Seats
<1>2. p \notin User /\ Nobody \notin User \union Purchase
    BY NameAssumption
<1>3. TypeOK'
    <2>1. owner' \in [Ticket -> User \union Purchase \union {Nobody}] /\ until' \in [Ticket -> Nat]
        BY DEF Release, SetOwner, TypeOK
    <2>2. \A t \in Ticket : IF owner'[t] = Nobody THEN until'[t] = 0 ELSE until'[t] > now
        BY <1>1, ValuesAreTyped
    <2> QED
        BY <1>1, <2>1, <2>2 DEF TypeOK, Step, Listed
<1>4. NoHiddenHold' /\ HoldIsNotExtended'
    BY <1>1, <1>2 DEF NoHiddenHold, HoldIsNotExtended
<1>5. ExpiriesAreBounded'
    BY <1>1 DEF ExpiriesAreBounded
<1>6. ClaimsFollowTheLoop'
    <2> SUFFICES ASSUME NEW q \in Purchase, NEW t \in Ticket, owner'[t] = q
                 PROVE  /\ t \in Items[q] /\ until'[t] <= now + ClaimTtl
                        /\ step'[q] \notin {"idle", "refused", "released"}
                        /\ step'[q] = "claiming" => ShowtimeOf[t] \notin left'[q]
                        /\ step'[q] = "rollingBack" => ShowtimeOf[t] \in rolling'[q]
                        /\ step'[q] = "releasing" => ShowtimeOf[t] \in left'[q]
        BY <1>1 DEF ClaimsFollowTheLoop
    <2>1. owner[t] = q /\ until'[t] = until[t]
        BY <1>1, <1>2
    <2>2. CASE q # p
        BY <1>1, <2>1, <2>2 DEF ClaimsFollowTheLoop, TypeOK
    <2>3. CASE q = p
        <3>1. t \in Items[p] /\ until[t] <= now + ClaimTtl /\ ShowtimeOf[t] \in left[p]
            BY <1>1, <2>1, <2>3 DEF ClaimsFollowTheLoop
        <3>2. ShowtimeOf[t] # s
            BY <1>1, <1>2, <2>1, <2>3, <3>1 DEF Group, Seats
        <3> QED
            BY <1>1, <2>1, <2>3, <3>1, <3>2 DEF TypeOK
    <2> QED
        BY <2>2, <2>3
<1>7. LoopsReachTheGroups'
    BY <1>1 DEF LoopsReachTheGroups, TypeOK, Groups
<1>8. ConfirmedLastsLonger'
    <2>1. \A q \in Purchase, t \in Ticket : step'[q] = "claimed" =>
             /\ q # p /\ step[q] = "claimed" /\ left'[q] = left[q]
             /\ owner'[t] = q => owner[t] = q
             /\ owner[t] = q => owner'[t] = q /\ until'[t] = until[t]
        BY <1>1, <1>2 DEF TypeOK
    <2> QED
        BY <2>1, ItemAssumption DEF ConfirmedLastsLonger
<1>9. LosesKnowingly /\ ConfirmsAll
    BY <1>1, <1>2 DEF LosesKnowingly, ConfirmsAll, TypeOK
<1> QED
    BY <1>3, <1>4, <1>5, <1>6, <1>7, <1>8, <1>9 DEF IInv

LEMMA StepTick ==
    ASSUME IInv, Tick
    PROVE  IInv' /\ LosesKnowingly /\ ConfirmsAll
<1> /\ TypeOK /\ NoHiddenHold /\ HoldIsNotExtended /\ ExpiriesAreBounded
    /\ ClaimsFollowTheLoop /\ LoopsReachTheGroups /\ ConfirmedLastsLonger
    BY DEF IInv
<1>0. now \in Nat /\ HoldTtl \in Nat /\ ClaimTtl \in Nat
    BY ValuesAreTyped
<1>1. /\ now' = now + 1 /\ now' \in 0..MaxTime
      /\ \A t \in Ticket : owner'[t] = IF until[t] = now + 1 THEN Nobody ELSE owner[t]
      /\ \A t \in Ticket : until'[t] = IF until[t] = now + 1 THEN 0 ELSE until[t]
      /\ UNCHANGED <<granted, step, left, rolling, captured, capturedList>>
    BY <1>0, TimeAssumption DEF Tick, SetOwner, TypeOK, process
<1>2. \A u \in User, s \in Showtime :
         listUntil'[u][s] = IF listUntil[u][s] = now + 1 THEN 0 ELSE listUntil[u][s]
    BY DEF Tick
<1>3. \A u \in User : listed'[u] = {t \in listed[u] : listUntil[u][ShowtimeOf[t]] # now + 1}
    BY ItemAssumption DEF Tick, TypeOK
<1>4. Nobody \notin User \union Purchase
    BY NameAssumption
<1>5. TypeOK'
    <2>1. /\ owner' \in [Ticket -> User \union Purchase \union {Nobody}] /\ until' \in [Ticket -> Nat]
          /\ listed' \in [User -> SUBSET Ticket]
        BY DEF Tick, SetOwner, TypeOK
    <2>2. listUntil' \in [User -> [Showtime -> Nat]]
        BY DEF Tick, TypeOK
    <2>3. \A t \in Ticket : IF owner'[t] = Nobody THEN until'[t] = 0 ELSE until'[t] > now'
        BY <1>0, <1>1, ValuesAreTyped
    <2>4. \A u \in User, s \in Showtime :
             IF listed'[u] \intersect Seats(s) = {} THEN listUntil'[u][s] = 0
                                                    ELSE listUntil'[u][s] > now'
        <3> TAKE u \in User, s \in Showtime
        <3>1. CASE listUntil[u][s] = now + 1
            <4>1. listed'[u] \intersect Seats(s) = {}
                BY <1>3, <3>1 DEF Seats
            <4> QED
                BY <1>2, <3>1, <4>1
        <3>2. CASE listUntil[u][s] # now + 1
            <4>1. listed'[u] \intersect Seats(s) = Listed(u, s)
                BY <1>3, <3>2 DEF Seats, Listed
            <4> QED
                BY <1>0, <1>1, <1>2, <3>2, <4>1, ValuesAreTyped
        <3> QED
            BY <3>1, <3>2
    <2> QED
        BY <1>1, <2>1, <2>2, <2>3, <2>4 DEF TypeOK, Listed, Seats
<1>6. \A t \in Ticket : owner'[t] # Nobody =>
         owner'[t] = owner[t] /\ until'[t] = until[t] /\ until[t] > now + 1
    BY <1>0, <1>1, ValuesAreTyped
<1>7. NoHiddenHold'
    <2> SUFFICES ASSUME NEW t \in Ticket, NEW u \in User, owner'[t] = u
                 PROVE  t \in listed'[u] /\ until'[t] <= listUntil'[u][ShowtimeOf[t]]
        BY DEF NoHiddenHold
    <2>1. /\ t \in listed[u] /\ until[t] <= listUntil[u][ShowtimeOf[t]]
          /\ until'[t] = until[t] /\ until[t] > now + 1
        BY <1>4, <1>6 DEF NoHiddenHold
    <2>2. /\ ShowtimeOf[t] \in Showtime /\ until[t] \in Nat
          /\ listUntil[u][ShowtimeOf[t]] \in Nat
        BY ValuesAreTyped
    <2>3. listUntil[u][ShowtimeOf[t]] # now + 1
        BY <1>0, <2>1, <2>2
    <2> QED
        BY <1>2, <1>3, <2>1, <2>2, <2>3
<1>8. HoldIsNotExtended'
    BY <1>1, <1>4, <1>6 DEF HoldIsNotExtended
<1>9. ExpiriesAreBounded'
    <2>1. \A n \in Nat : n <= now + HoldTtl => n <= now' + HoldTtl
        BY <1>0, <1>1
    <2>2. 0 <= now' + HoldTtl
        BY <1>0, <1>1
    <2> QED
        BY <1>1, <1>2, <2>1, <2>2, ValuesAreTyped DEF ExpiriesAreBounded
<1>10. ClaimsFollowTheLoop'
    <2>1. \A t \in Ticket : until[t] <= now + ClaimTtl => until[t] <= now' + ClaimTtl
        BY <1>0, <1>1, ValuesAreTyped
    <2> QED
        BY <1>1, <1>4, <1>6, <2>1 DEF ClaimsFollowTheLoop
<1>11. LoopsReachTheGroups'
    BY <1>1 DEF LoopsReachTheGroups, Groups
<1>12. ConfirmedLastsLonger'
    <2> SUFFICES ASSUME NEW p \in Purchase, step[p] = "claimed", NEW t \in Items[p],
                        NEW r \in Items[p], ShowtimeOf[t] \notin left[p],
                        ShowtimeOf[r] \in left[p], owner'[r] = p
                 PROVE  owner'[t] = p /\ until'[r] <= until'[t]
        BY <1>1 DEF ConfirmedLastsLonger
    <2>1. t \in Ticket /\ r \in Ticket
        BY ValuesAreTyped
    <2>2. owner[r] = p /\ until'[r] = until[r] /\ until[r] > now + 1
        BY <1>4, <1>6, <2>1
    <2>3. owner[t] = p /\ until[r] <= until[t]
        BY <2>2 DEF ConfirmedLastsLonger
    <2>4. until[t] # now + 1
        BY <1>0, <2>1, <2>2, <2>3, ValuesAreTyped
    <2> QED
        BY <1>1, <2>1, <2>2, <2>3, <2>4
<1>13. LosesKnowingly /\ ConfirmsAll
    BY <1>0, <1>1 DEF LosesKnowingly, ConfirmsAll
<1> QED
    BY <1>5, <1>7, <1>8, <1>9, <1>10, <1>11, <1>12, <1>13 DEF IInv

LEMMA Stutters ==
    ASSUME IInv, UNCHANGED vars
    PROVE  IInv' /\ LosesKnowingly /\ ConfirmsAll
<1>1. /\ UNCHANGED <<now, owner, until, listed, listUntil, granted, step, left, rolling>>
      /\ UNCHANGED <<captured, capturedList>>
    BY DEF vars, keys, process
<1>2. TypeOK'
    BY <1>1 DEF IInv, TypeOK, Listed
<1> QED
    BY <1>1, <1>2
       DEF IInv, NoHiddenHold, HoldIsNotExtended, ExpiriesAreBounded, ClaimsFollowTheLoop,
           LoopsReachTheGroups, Groups, ConfirmedLastsLonger, LosesKnowingly, ConfirmsAll

\* The list that a rollback writes lasts as long as what it names.
LEMMA MergedLasts ==
    ASSUME IInv, NEW p \in Purchase, NEW s \in Showtime
    PROVE  /\ MergedUntil(p, s) \in Nat /\ MergedUntil(p, s) <= now + HoldTtl
           /\ listUntil[Buyer[p]][s] <= MergedUntil(p, s)
           /\ \A t \in Restorable(p, s) : captured[p][t] <= MergedUntil(p, s)
<1> DEFINE times == {capturedList[p][s], listUntil[Buyer[p]][s]}
                       \union {captured[p][t] : t \in Restorable(p, s)}
<1>1. \A t \in Restorable(p, s) : t \in Ticket
    BY DEF Restorable, Group, Seats
<1>2. now + HoldTtl \in Nat /\ Buyer[p] \in User
    BY ValuesAreTyped DEF IInv
<1>3. \A n \in times : n \in Nat /\ n <= now + HoldTtl
    <2>1. capturedList[p][s] \in Nat /\ capturedList[p][s] <= now + HoldTtl
        BY ValuesAreTyped DEF IInv, ExpiriesAreBounded
    <2>2. listUntil[Buyer[p]][s] \in Nat /\ listUntil[Buyer[p]][s] <= now + HoldTtl
        BY <1>2, ValuesAreTyped DEF IInv, ExpiriesAreBounded
    <2>3. ASSUME NEW t \in Ticket
          PROVE  captured[p][t] \in Nat /\ captured[p][t] <= now + HoldTtl
        <3>1. captured[p][t] \in Nat /\ granted[t][Buyer[p]] \in Nat
            BY <1>2, ValuesAreTyped DEF IInv
        <3>2. captured[p][t] <= granted[t][Buyer[p]] /\ granted[t][Buyer[p]] <= now + HoldTtl
            BY <1>2 DEF IInv, ExpiriesAreBounded
        <3> QED
            BY <1>2, <3>1, <3>2
    <2> QED
        BY <1>1, <2>1, <2>2, <2>3
<1>4. Max(times) \in times /\ \A n \in times : n <= Max(times)
    <2>1. times \subseteq Nat /\ times # {}
        BY <1>3
    <2> HIDE DEF times
    <2> QED
        BY <1>2, <1>3, <2>1, GreatestNumber
<1>5. MergedUntil(p, s) = Max(times)
    BY DEF MergedUntil
<1> QED
    BY <1>3, <1>4, <1>5

LEMMA StepRollback ==
    ASSUME IInv, NEW p \in Purchase, NEW s \in Showtime, Rollback(p, s)
    PROVE  IInv' /\ LosesKnowingly /\ ConfirmsAll
<1> /\ TypeOK /\ NoHiddenHold /\ HoldIsNotExtended /\ ExpiriesAreBounded
    /\ ClaimsFollowTheLoop /\ LoopsReachTheGroups /\ ConfirmedLastsLonger
    BY DEF IInv
<1>0. /\ now \in Nat /\ HoldTtl \in Nat /\ Buyer[p] \in User /\ 0 \in Nat
      /\ p \notin User /\ Buyer[p] \notin Purchase /\ Nobody \notin User \union Purchase
    BY ValuesAreTyped, NameAssumption
<1>1. /\ s \in rolling[p]
      /\ rolling' = [rolling EXCEPT ![p] = rolling[p] \ {s}]
      /\ step' = IF step[p] = "rollingBack" /\ rolling[p] = {s}
                    THEN [step EXCEPT ![p] = "refused"] ELSE step
      /\ Forget(p) \/ UNCHANGED <<captured, capturedList>>
      /\ UNCHANGED <<now, granted, left>>
    BY DEF Rollback, GoTo
<1>2. \A t \in Restorable(p, s) :
         /\ t \in Ticket /\ t \in Items[p] /\ ShowtimeOf[t] = s /\ owner[t] = p
         /\ captured[p][t] > now
    BY DEF Restorable, Group, Seats
<1>3. \A t \in Dropped(p, s) : t \notin Restorable(p, s) /\ owner[t] = p
    BY DEF Dropped
<1>4. \A t \in Ticket :
         /\ owner'[t] = IF t \in Restorable(p, s) THEN Buyer[p]
                        ELSE IF t \in Dropped(p, s) THEN Nobody ELSE owner[t]
         /\ until'[t] = IF t \in Restorable(p, s) THEN captured[p][t]
                        ELSE IF t \in Dropped(p, s) THEN 0 ELSE until[t]
    BY DEF Rollback, RestoreHolds, RestoredUntil
<1>5. \A t \in Ticket :
         owner[t] = p /\ ShowtimeOf[t] = s => t \in Restorable(p, s) \union Dropped(p, s)
    BY DEF ClaimsFollowTheLoop, Dropped, Group, Seats
<1> DEFINE kept == {t \in Listed(Buyer[p], s) : owner[t] = Buyer[p]} \union Restorable(p, s)
<1>6. /\ Restorable(p, s) # {} =>
            /\ listed' = [listed EXCEPT ![Buyer[p]] = (@ \ Seats(s)) \union kept]
            /\ listUntil' = [listUntil EXCEPT ![Buyer[p]][s] = MergedUntil(p, s)]
      /\ Restorable(p, s) = {} => UNCHANGED <<listed, listUntil>>
    BY DEF Rollback, RestoreHolds, SetList
<1>7. kept \subseteq Ticket /\ kept \subseteq Seats(s)
    BY <1>2, ValuesAreTyped DEF Listed, Seats
<1>8. TypeOK'
    <2>1. owner' \in [Ticket -> User \union Purchase \union {Nobody}]
        BY <1>0 DEF Rollback, RestoreHolds, TypeOK
    <2>2. until' \in [Ticket -> Nat]
        BY <1>0, ValuesAreTyped DEF Rollback, RestoreHolds, RestoredUntil, TypeOK
    <2>3. \A t \in Ticket : IF owner'[t] = Nobody THEN until'[t] = 0 ELSE until'[t] > now
        BY <1>0, <1>2, <1>3, <1>4, ValuesAreTyped
    <2>4. listed' \in [User -> SUBSET Ticket]
        <3>1. (listed[Buyer[p]] \ Seats(s)) \union kept \in SUBSET Ticket
            BY <1>0, <1>7, ValuesAreTyped
        <3> HIDE DEF kept
        <3>2. CASE Restorable(p, s) # {}
            BY <1>6, <3>1, <3>2 DEF TypeOK
        <3>3. CASE Restorable(p, s) = {}
            BY <1>6, <3>3 DEF TypeOK
        <3> QED
            BY <3>2, <3>3
    <2>5. listUntil' \in [User -> [Showtime -> Nat]]
        <3>1. MergedUntil(p, s) \in Nat
            BY MergedLasts
        <3>2. CASE Restorable(p, s) # {}
            <4>1. [listUntil[Buyer[p]] EXCEPT ![s] = MergedUntil(p, s)] \in [Showtime -> Nat]
                BY <1>0, <3>1 DEF TypeOK
            <4> QED
                BY <1>6, <3>2, <4>1 DEF TypeOK
        <3>3. CASE Restorable(p, s) = {}
            BY <1>6, <3>3 DEF TypeOK
        <3> QED
            BY <3>2, <3>3
    <2>6. \A v \in User, r \in Showtime :
             IF listed'[v] \intersect Seats(r) = {} THEN listUntil'[v][r] = 0
                                                    ELSE listUntil'[v][r] > now
        <3> TAKE v \in User, r \in Showtime
        <3>1. CASE Restorable(p, s) # {} /\ v = Buyer[p] /\ r = s
            <4>1. PICK t \in Restorable(p, s) : captured[p][t] > now
                BY <1>2, <3>1
            <4>2. captured[p][t] \in Nat /\ captured[p][t] <= MergedUntil(p, s)
                BY <1>2, MergedLasts, ValuesAreTyped
            <4>3. MergedUntil(p, s) > now
                BY <1>0, <4>1, <4>2, MergedLasts
            <4>4. t \in listed'[v] \intersect Seats(r)
                BY <1>2, <1>6, <1>7, <3>1 DEF TypeOK
            <4>5. listUntil'[v][r] = MergedUntil(p, s)
                BY <1>6, <3>1 DEF TypeOK
            <4> QED
                BY <4>3, <4>4, <4>5
        <3>2. CASE ~(Restorable(p, s) # {} /\ v = Buyer[p] /\ r = s)
            <4>1. listed'[v] \intersect Seats(r) = Listed(v, r)
                BY <1>6, <1>7, <3>2 DEF Listed, Seats, TypeOK
            <4>2. listUntil'[v][r] = listUntil[v][r]
                BY <1>6, <3>2 DEF TypeOK
            <4> QED
                BY <4>1, <4>2, ValuesAreTyped
        <3> QED
            BY <3>1, <3>2
    <2>7. captured' \in [Purchase -> [Ticket -> Nat]] /\ capturedList' \in [Purchase -> [Showtime -> Nat]]
        <3>1. [t \in Ticket |-> 0] \in [Ticket -> Nat] /\ [r \in Showtime |-> 0] \in [Showtime -> Nat]
            OBVIOUS
        <3>2. CASE Forget(p)
            BY <3>1, <3>2 DEF Forget, TypeOK
        <3>3. CASE UNCHANGED <<captured, capturedList>>
            BY <3>3 DEF TypeOK
        <3> QED
            BY <1>1, <3>2, <3>3
    <2> QED
        BY <1>1, <2>1, <2>2, <2>3, <2>4, <2>5, <2>6, <2>7 DEF TypeOK, Step, Listed, Seats
<1>9. NoHiddenHold' /\ HoldIsNotExtended'
    <2> SUFFICES ASSUME NEW t \in Ticket, NEW v \in User, owner'[t] = v
                 PROVE  /\ t \in listed'[v] /\ until'[t] <= listUntil'[v][ShowtimeOf[t]]
                        /\ until'[t] <= granted[t][v]
        BY <1>1 DEF NoHiddenHold, HoldIsNotExtended
    <2>1. CASE t \in Restorable(p, s)
        <3>1. v = Buyer[p] /\ until'[t] = captured[p][t] /\ ShowtimeOf[t] = s
            BY <1>2, <1>4, <2>1
        <3>2. t \in listed'[v] /\ listUntil'[v][s] = MergedUntil(p, s)
            BY <1>6, <2>1, <3>1 DEF TypeOK
        <3> QED
            BY <2>1, <3>1, <3>2, MergedLasts DEF ExpiriesAreBounded
    <2>2. CASE t \notin Restorable(p, s)
        <3>1. owner[t] = v /\ until'[t] = until[t]
            BY <1>0, <1>4, <2>2
        <3>2. /\ t \in listed[v] /\ until[t] <= listUntil[v][ShowtimeOf[t]]
              /\ until[t] <= granted[t][v] /\ ShowtimeOf[t] \in Showtime
              /\ until[t] \in Nat /\ listUntil[v][ShowtimeOf[t]] \in Nat
            BY <3>1, ValuesAreTyped DEF NoHiddenHold, HoldIsNotExtended
        <3>3. CASE Restorable(p, s) # {} /\ v = Buyer[p] /\ ShowtimeOf[t] = s
            <4>1. t \in kept
                BY <3>1, <3>2, <3>3 DEF Listed, Seats
            <4>2. t \in listed'[v] /\ listUntil'[v][s] = MergedUntil(p, s)
                BY <1>6, <3>3, <4>1 DEF TypeOK
            <4>3. listUntil[v][s] <= MergedUntil(p, s) /\ MergedUntil(p, s) \in Nat
                BY <3>3, MergedLasts
            <4> QED
                BY <3>1, <3>2, <3>3, <4>2, <4>3
        <3>4. CASE ~(Restorable(p, s) # {} /\ v = Buyer[p] /\ ShowtimeOf[t] = s)
            <4>1. t \in listed'[v] /\ listUntil'[v][ShowtimeOf[t]] = listUntil[v][ShowtimeOf[t]]
                BY <1>6, <3>2, <3>4 DEF TypeOK, Seats
            <4> QED
                BY <3>1, <3>2, <4>1
        <3> QED
            BY <3>3, <3>4
    <2> QED
        BY <2>1, <2>2
<1>10. ExpiriesAreBounded'
    <2>1. \A v \in User, r \in Showtime : listUntil'[v][r] <= now + HoldTtl
        <3> TAKE v \in User, r \in Showtime
        <3>1. listUntil'[v][r] \in {listUntil[v][r], MergedUntil(p, s)}
            <4>1. CASE Restorable(p, s) # {}
                <5>1. CASE v = Buyer[p] /\ r = s
                    BY <1>6, <4>1, <5>1 DEF TypeOK
                <5>2. CASE ~(v = Buyer[p] /\ r = s)
                    BY <1>6, <4>1, <5>2 DEF TypeOK
                <5> QED
                    BY <5>1, <5>2
            <4>2. CASE Restorable(p, s) = {}
                BY <1>6, <4>2
            <4> QED
                BY <4>1, <4>2
        <3> QED
            BY <3>1, MergedLasts DEF ExpiriesAreBounded
    <2> QED
        BY <1>1, <2>1, ForgottenIsBounded DEF ExpiriesAreBounded
<1>11. \A q \in Purchase, t \in Ticket : owner'[t] = q =>
          owner[t] = q /\ until'[t] = until[t] /\ (q = p => ShowtimeOf[t] # s)
    BY <1>0, <1>3, <1>4, <1>5
<1>12. ClaimsFollowTheLoop'
    <2> SUFFICES ASSUME NEW q \in Purchase, NEW t \in Ticket, owner'[t] = q
                 PROVE  /\ t \in Items[q] /\ until'[t] <= now + ClaimTtl
                        /\ step'[q] \notin {"idle", "refused", "released"}
                        /\ step'[q] = "claiming" => ShowtimeOf[t] \notin left[q]
                        /\ step'[q] = "rollingBack" => ShowtimeOf[t] \in rolling'[q]
                        /\ step'[q] = "releasing" => ShowtimeOf[t] \in left[q]
        BY <1>1 DEF ClaimsFollowTheLoop
    <2> QED
        BY <1>1, <1>11 DEF ClaimsFollowTheLoop, TypeOK
<1>13. LoopsReachTheGroups'
    BY <1>1 DEF LoopsReachTheGroups, TypeOK, Groups
<1>14. ConfirmedLastsLonger'
    <2>1. \A q \in Purchase, t \in Ticket : step'[q] = "claimed" =>
             /\ step[q] = "claimed"
             /\ owner[t] = q => owner'[t] = q /\ until'[t] = until[t]
        BY <1>1, <1>2, <1>3, <1>4 DEF TypeOK, LoopsReachTheGroups
    <2> QED
        BY <1>1, <1>11, <2>1, ValuesAreTyped DEF ConfirmedLastsLonger
<1>15. LosesKnowingly
    BY <1>0, <1>2, <1>3, <1>4 DEF LosesKnowingly
<1>16. ConfirmsAll
    BY <1>1 DEF ConfirmsAll, TypeOK
<1> QED
    BY <1>8, <1>9, <1>10, <1>12, <1>13, <1>14, <1>15, <1>16 DEF IInv

\* A loop that advances stays within the showtimes of its purchase.
LEMMA AdvanceIsSmall ==
    ASSUME IInv, NEW p \in Purchase, NEW c \in {"claimed", "confirmed"},
           step[p] \in {"claiming", "claimed"}, Advance(p, c)
    PROVE  /\ step' \in [Purchase -> Step] /\ left' \in [Purchase -> SUBSET Showtime]
           /\ \A q \in Purchase \ {p} : step'[q] = step[q] /\ left'[q] = left[q]
           /\ \/ /\ Cardinality(left[p]) = 1
                 /\ step'[p] = c /\ left'[p] = Groups(p)
              \/ /\ step'[p] = step[p] /\ left'[p] = left[p] \ {Min(left[p])}
<1>1. /\ step \in [Purchase -> Step] /\ left \in [Purchase -> SUBSET Showtime] /\ c \in Step
      /\ Groups(p) \in SUBSET Showtime
    BY GroupsAreFinite DEF IInv, TypeOK, Step
<1>2. CASE Cardinality(left[p]) = 1
    <2>1. step' = [step EXCEPT ![p] = c] /\ left' = [left EXCEPT ![p] = Groups(p)]
        BY <1>2 DEF Advance, GoTo
    <2> QED
        BY <1>1, <1>2, <2>1
<1>3. CASE Cardinality(left[p]) # 1
    <2>1. step' = step /\ left' = [left EXCEPT ![p] = left[p] \ {Min(left[p])}]
        BY <1>3 DEF Advance
    <2> QED
        BY <1>1, <1>3, <2>1
<1> QED
    BY <1>2, <1>3

LEMMA StepConfirm ==
    ASSUME IInv, NEW p \in Purchase, Confirm(p)
    PROVE  IInv' /\ LosesKnowingly /\ ConfirmsAll
<1> /\ TypeOK /\ NoHiddenHold /\ HoldIsNotExtended /\ ExpiriesAreBounded
    /\ ClaimsFollowTheLoop /\ LoopsReachTheGroups /\ ConfirmedLastsLonger
    BY DEF IInv
<1> DEFINE s == Min(left[p])
<1>0. /\ now \in Nat /\ ClaimTtl \in Nat /\ ClaimTtl > 0
      /\ p \notin User /\ Nobody \notin User \union Purchase
    BY ValuesAreTyped, NameAssumption
<1>1. /\ step[p] = "claimed"
      /\ \A t \in Group(p, s) : t \in Ticket /\ t \in Items[p] /\ ShowtimeOf[t] = s /\ owner[t] = p
      /\ \A t \in Items[p] : ShowtimeOf[t] = s => t \in Group(p, s)
      /\ \A t \in Ticket : until'[t] = IF t \in Group(p, s) THEN now + ClaimTtl ELSE until[t]
      /\ Advance(p, "confirmed")
      /\ UNCHANGED <<now, owner, listed, listUntil, granted, rolling, captured, capturedList>>
    BY ValuesAreTyped DEF Confirm, OwnsAll, ConfirmedUntil, Group, Seats
<1>2. /\ step' \in [Purchase -> Step] /\ left' \in [Purchase -> SUBSET Showtime]
      /\ \A q \in Purchase \ {p} : step'[q] = step[q] /\ left'[q] = left[q]
      /\ \/ /\ Cardinality(left[p]) = 1
            /\ step'[p] = "confirmed" /\ left'[p] = Groups(p)
         \/ /\ step'[p] = "claimed" /\ left'[p] = left[p] \ {s}
    BY <1>1, AdvanceIsSmall
<1> HIDE DEF s
<1>3. TypeOK'
    <2>1. until' \in [Ticket -> Nat]
        BY <1>0, ValuesAreTyped DEF Confirm, ConfirmedUntil
    <2>2. \A t \in Ticket : IF owner[t] = Nobody THEN until'[t] = 0 ELSE until'[t] > now
        BY <1>0, <1>1, ValuesAreTyped
    <2> QED
        BY <1>1, <1>2, <2>1, <2>2 DEF TypeOK, Listed
<1>4. NoHiddenHold' /\ HoldIsNotExtended'
    BY <1>0, <1>1 DEF NoHiddenHold, HoldIsNotExtended
<1>5. ExpiriesAreBounded'
    BY <1>1 DEF ExpiriesAreBounded
<1>6. ClaimsFollowTheLoop'
    <2>1. \A t \in Ticket : until'[t] = until[t] \/ until'[t] = now + ClaimTtl
        BY <1>1
    <2>2. now + ClaimTtl <= now + ClaimTtl
        BY <1>0
    <2> QED
        BY <1>1, <1>2, <2>1, <2>2 DEF ClaimsFollowTheLoop
<1>7. LoopsReachTheGroups'
    BY <1>1, <1>2 DEF LoopsReachTheGroups, Groups
<1>8. ConfirmedLastsLonger'
    <2> SUFFICES ASSUME NEW q \in Purchase, step'[q] = "claimed", NEW t \in Items[q],
                        NEW r \in Items[q], ShowtimeOf[t] \notin left'[q],
                        ShowtimeOf[r] \in left'[q], owner[r] = q
                 PROVE  owner[t] = q /\ until'[r] <= until'[t]
        BY <1>1 DEF ConfirmedLastsLonger
    <2>0. t \in Ticket /\ r \in Ticket /\ until[r] \in Nat /\ until[t] \in Nat
        BY ValuesAreTyped
    <2>1. CASE q # p
        <3>1. owner[t] = q /\ until[r] <= until[t]
            BY <1>2, <2>1 DEF ConfirmedLastsLonger
        <3> QED
            BY <1>1, <2>0, <2>1, <3>1
    <2>2. CASE q = p
        <3>1. left'[p] = left[p] \ {s} /\ r \notin Group(p, s) /\ until'[r] = until[r]
            BY <1>1, <1>2, <2>0, <2>2
        <3>2. CASE t \in Group(p, s)
            BY <1>0, <1>1, <2>0, <2>2, <3>1, <3>2 DEF ClaimsFollowTheLoop
        <3>3. CASE t \notin Group(p, s)
            BY <1>1, <2>0, <2>2, <3>1, <3>3 DEF ConfirmedLastsLonger
        <3> QED
            BY <3>2, <3>3
    <2> QED
        BY <2>1, <2>2
<1>9. LosesKnowingly
    BY <1>1 DEF LosesKnowingly
<1>10. ConfirmsAll
    <2> SUFFICES ASSUME step'[p] = "confirmed", NEW t \in Items[p]
                 PROVE  owner[t] = p
        BY <1>1, <1>2 DEF ConfirmsAll
    <2>1. left[p] = {s} /\ s \in Groups(p)
        BY <1>1, <1>2, NextShowtime DEF LoopsReachTheGroups, s
    <2>2. PICK r \in Items[p] : ShowtimeOf[r] = s
        BY <2>1 DEF Groups
    <2>3. owner[r] = p
        BY <1>1, <2>2
    <2> QED
        BY <1>1, <2>1, <2>2, <2>3 DEF ConfirmedLastsLonger
<1> QED
    BY <1>3, <1>4, <1>5, <1>6, <1>7, <1>8, <1>9, <1>10 DEF IInv

LEMMA StepClaim ==
    ASSUME IInv, NEW p \in Purchase, Claim(p)
    PROVE  IInv' /\ LosesKnowingly /\ ConfirmsAll
<1> /\ TypeOK /\ NoHiddenHold /\ HoldIsNotExtended /\ ExpiriesAreBounded
    /\ ClaimsFollowTheLoop /\ LoopsReachTheGroups /\ ConfirmedLastsLonger
    BY DEF IInv
<1> DEFINE u == Buyer[p]
           s == Min(left[p])
           T == Group(p, s)
           rest == {t \in Listed(u, s) \ T : owner[t] = u}
<1>0. /\ now \in Nat /\ HoldTtl \in Nat /\ ClaimTtl \in Nat /\ ClaimTtl > 0 /\ 0 \in Nat
      /\ u \in User /\ p \notin User /\ u \notin Purchase /\ Nobody \notin User \union Purchase
    BY ValuesAreTyped, NameAssumption
<1>1. /\ step[p] = "claiming"
      /\ \A t \in T : t \in Ticket /\ t \in Items[p] /\ ShowtimeOf[t] = s /\ owner[t] = u
      /\ \A t \in Ticket : owner'[t] = IF t \in T THEN p ELSE owner[t]
      /\ \A t \in Ticket : until'[t] = IF t \in T THEN now + ClaimTtl ELSE until[t]
      /\ listed' = [listed EXCEPT ![u] = (@ \ Seats(s)) \union rest]
      /\ listUntil' = [listUntil EXCEPT ![u][s] = IF rest = {} THEN 0 ELSE listUntil[u][s]]
      /\ Advance(p, "claimed")
      /\ \/ Forget(p)
         \/ /\ captured' = [captured EXCEPT ![p] = [t \in Ticket |-> IF t \in T THEN until[t] ELSE @[t]]]
            /\ capturedList' = [capturedList EXCEPT ![p][s] = listUntil[u][s]]
      /\ UNCHANGED <<now, granted, rolling>>
    BY DEF Claim, OwnsAll, SetOwner, SetList, Group, Seats
<1>2. /\ step' \in [Purchase -> Step] /\ left' \in [Purchase -> SUBSET Showtime]
      /\ \A q \in Purchase \ {p} : step'[q] = step[q] /\ left'[q] = left[q]
      /\ \/ step'[p] = "claimed" /\ left'[p] = Groups(p)
         \/ step'[p] = "claiming" /\ left'[p] = left[p] \ {s}
    BY <1>1, AdvanceIsSmall
<1>3. rest \subseteq Ticket /\ rest \subseteq Seats(s) /\ rest \subseteq listed[u]
    BY <1>0, ValuesAreTyped DEF Listed
<1>4. \A t \in Ticket : owner[t] = u /\ ShowtimeOf[t] = s => t \in T \union rest
    BY <1>0 DEF NoHiddenHold, Listed, Seats
<1>5. \A v \in User, r \in Showtime :
         /\ v = u /\ r = s => listUntil'[v][r] = IF rest = {} THEN 0 ELSE listUntil[v][r]
         /\ v # u \/ r # s => listUntil'[v][r] = listUntil[v][r]
    BY <1>0, <1>1 DEF TypeOK
<1>6. \A v \in User :
         /\ v = u => listed'[v] = (listed[v] \ Seats(s)) \union rest
         /\ v # u => listed'[v] = listed[v]
    BY <1>0, <1>1 DEF TypeOK
<1>7. listed' \in [User -> SUBSET Ticket]
    <2>1. (listed[u] \ Seats(s)) \union rest \in SUBSET Ticket
        BY <1>0, <1>3, ValuesAreTyped
    <2> QED
        BY <1>1, <2>1 DEF TypeOK
<1>8. listUntil' \in [User -> [Showtime -> Nat]]
    <2> DEFINE end == IF rest = {} THEN 0 ELSE listUntil[u][s]
    <2>1. rest # {} => s \in Showtime
        BY <1>3, ValuesAreTyped DEF Seats
    <2>2. end \in Nat
        BY <1>0, <2>1, ValuesAreTyped
    <2>3. [listUntil[u] EXCEPT ![s] = end] \in [Showtime -> Nat]
        BY <1>0, <2>2 DEF TypeOK
    <2> QED
        BY <1>1, <2>3 DEF TypeOK
<1>9. /\ captured' \in [Purchase -> [Ticket -> Nat]] /\ capturedList' \in [Purchase -> [Showtime -> Nat]]
      /\ \A q \in Purchase, r \in Showtime : capturedList'[q][r] <= now + HoldTtl
      /\ \A q \in Purchase, t \in Ticket : captured'[q][t] <= granted[t][Buyer[q]]
    <2>1. CASE Forget(p)
        <3>1. [t \in Ticket |-> 0] \in [Ticket -> Nat] /\ [r \in Showtime |-> 0] \in [Showtime -> Nat]
            OBVIOUS
        <3>2. /\ captured' \in [Purchase -> [Ticket -> Nat]]
              /\ capturedList' \in [Purchase -> [Showtime -> Nat]]
            BY <2>1, <3>1 DEF Forget, TypeOK
        <3> QED
            BY <2>1, <3>2, ForgottenIsBounded
    <2>2. CASE /\ captured' = [captured EXCEPT ![p] = [t \in Ticket |-> IF t \in T THEN until[t] ELSE @[t]]]
               /\ capturedList' = [capturedList EXCEPT ![p][s] = listUntil[u][s]]
        <3>1. captured' \in [Purchase -> [Ticket -> Nat]]
            BY <2>2, ValuesAreTyped DEF TypeOK
        <3>2. \A t \in Ticket :
                 \/ captured'[p][t] = until[t] /\ until[t] <= granted[t][u]
                 \/ captured'[p][t] = captured[p][t]
            BY <1>0, <1>1, <2>2 DEF HoldIsNotExtended, TypeOK
        <3>3. \A q \in Purchase \ {p} :
                 captured'[q] = captured[q] /\ capturedList'[q] = capturedList[q]
            BY <2>2 DEF TypeOK
        <3>4. \A r \in Showtime : capturedList'[p][r] \in {listUntil[u][r], capturedList[p][r]}
            BY <2>2 DEF TypeOK
        <3>5. [capturedList[p] EXCEPT ![s] = listUntil[u][s]] \in [Showtime -> Nat]
            BY <1>0, ValuesAreTyped DEF TypeOK
        <3>6. capturedList' \in [Purchase -> [Showtime -> Nat]]
            BY <2>2, <3>5 DEF TypeOK
        <3>7. \A q \in Purchase, r \in Showtime : capturedList'[q][r] <= now + HoldTtl
            BY <1>0, <3>3, <3>4 DEF ExpiriesAreBounded
        <3>8. \A q \in Purchase, t \in Ticket : captured'[q][t] <= granted[t][Buyer[q]]
            BY <3>2, <3>3 DEF ExpiriesAreBounded
        <3> QED
            BY <3>1, <3>6, <3>7, <3>8
    <2> QED
        BY <1>1, <2>1, <2>2
<1>10. TypeOK'
    <2>1. owner' \in [Ticket -> User \union Purchase \union {Nobody}]
        BY DEF Claim, SetOwner, TypeOK
    <2>2. until' \in [Ticket -> Nat]
        BY <1>0 DEF Claim, SetOwner, TypeOK
    <2>3. \A t \in Ticket : IF owner'[t] = Nobody THEN until'[t] = 0 ELSE until'[t] > now
        BY <1>0, <1>1, ValuesAreTyped
    <2>4. \A v \in User, r \in Showtime :
             IF listed'[v] \intersect Seats(r) = {} THEN listUntil'[v][r] = 0
                                                    ELSE listUntil'[v][r] > now
        <3> TAKE v \in User, r \in Showtime
        <3>1. CASE v = u /\ r = s
            <4>1. listed'[v] \intersect Seats(r) = rest
                BY <1>3, <1>6, <3>1
            <4>2. rest # {} => Listed(v, r) # {}
                BY <1>3, <3>1 DEF Listed
            <4> QED
                BY <1>5, <3>1, <4>1, <4>2, ValuesAreTyped
        <3>2. CASE v # u \/ r # s
            <4>1. listed'[v] \intersect Seats(r) = Listed(v, r)
                BY <1>3, <1>6, <3>2 DEF Listed, Seats
            <4> QED
                BY <1>5, <3>2, <4>1, ValuesAreTyped
        <3> QED
            BY <3>1, <3>2
    <2> QED
        BY <1>1, <1>2, <1>7, <1>8, <1>9, <2>1, <2>2, <2>3, <2>4 DEF TypeOK, Listed, Seats
<1>11. NoHiddenHold' /\ HoldIsNotExtended'
    <2> SUFFICES ASSUME NEW t \in Ticket, NEW v \in User, owner'[t] = v
                 PROVE  /\ t \in listed'[v] /\ until'[t] <= listUntil'[v][ShowtimeOf[t]]
                        /\ until'[t] <= granted[t][v]
        BY <1>1 DEF NoHiddenHold, HoldIsNotExtended
    <2>1. owner[t] = v /\ until'[t] = until[t] /\ t \notin T
        BY <1>0, <1>1
    <2>2. /\ t \in listed[v] /\ until[t] <= listUntil[v][ShowtimeOf[t]]
          /\ until[t] <= granted[t][v] /\ ShowtimeOf[t] \in Showtime
        BY <2>1, ValuesAreTyped DEF NoHiddenHold, HoldIsNotExtended
    <2>3. CASE v = u /\ ShowtimeOf[t] = s
        <3>1. t \in rest
            BY <1>4, <2>1, <2>3
        <3>2. t \in listed'[v] /\ listUntil'[v][ShowtimeOf[t]] = listUntil[v][ShowtimeOf[t]]
            BY <1>5, <1>6, <2>2, <2>3, <3>1
        <3> QED
            BY <2>1, <2>2, <3>2
    <2>4. CASE v # u \/ ShowtimeOf[t] # s
        BY <1>5, <1>6, <2>1, <2>2, <2>4 DEF Seats
    <2> QED
        BY <2>3, <2>4
<1>12. ExpiriesAreBounded'
    <2>1. \A v \in User, r \in Showtime : listUntil'[v][r] \in {0, listUntil[v][r]}
        BY <1>5
    <2>2. 0 <= now + HoldTtl
        BY <1>0
    <2> QED
        BY <1>1, <1>9, <2>1, <2>2 DEF ExpiriesAreBounded
<1>13. ClaimsFollowTheLoop'
    <2> SUFFICES ASSUME NEW q \in Purchase, NEW t \in Ticket, owner'[t] = q
                 PROVE  /\ t \in Items[q] /\ until'[t] <= now + ClaimTtl
                        /\ step'[q] \notin {"idle", "refused", "released"}
                        /\ step'[q] = "claiming" => ShowtimeOf[t] \notin left'[q]
                        /\ step'[q] = "rollingBack" => ShowtimeOf[t] \in rolling[q]
                        /\ step'[q] = "releasing" => ShowtimeOf[t] \in left'[q]
        BY <1>1 DEF ClaimsFollowTheLoop
    <2>1. CASE t \in T
        BY <1>0, <1>1, <1>2, <2>1
    <2>2. CASE t \notin T
        BY <1>1, <1>2, <2>2 DEF ClaimsFollowTheLoop
    <2> QED
        BY <2>1, <2>2
<1>14. LoopsReachTheGroups'
    BY <1>1, <1>2 DEF LoopsReachTheGroups, Groups
<1>15. ConfirmedLastsLonger'
    <2> SUFFICES ASSUME NEW q \in Purchase, step'[q] = "claimed", NEW t \in Items[q],
                        NEW r \in Items[q], ShowtimeOf[t] \notin left'[q],
                        ShowtimeOf[r] \in left'[q], owner'[r] = q
                 PROVE  owner'[t] = q /\ until'[r] <= until'[t]
        BY DEF ConfirmedLastsLonger
    <2>1. q # p
        BY <1>2 DEF Groups
    <2>2. t \in Ticket /\ r \in Ticket
        BY ValuesAreTyped
    <2>3. owner[r] = q /\ until'[r] = until[r]
        BY <1>1, <2>1, <2>2
    <2>4. owner[t] = q /\ until[r] <= until[t]
        BY <1>2, <2>1, <2>3 DEF ConfirmedLastsLonger
    <2> QED
        BY <1>0, <1>1, <2>2, <2>3, <2>4
<1>16. LosesKnowingly
    <2> SUFFICES ASSUME NEW t \in Ticket, NEW v \in User, owner[t] = v, owner'[t] # v
                 PROVE  t \notin listed'[v]
        BY DEF LosesKnowingly
    <2>1. t \in T /\ v = u /\ t \in Seats(s)
        BY <1>1 DEF Seats
    <2> QED
        BY <1>6, <2>1
<1>17. ConfirmsAll
    BY <1>2 DEF ConfirmsAll
<1> QED
    BY <1>10, <1>11, <1>12, <1>13, <1>14, <1>15, <1>16, <1>17 DEF IInv

-----------------------------------------------------------------------------
(***************************************************************************)
(* The theorems.                                                           *)
(***************************************************************************)

LEMMA InitiallyNothingIsHeld == Init => IInv
<1> SUFFICES ASSUME Init PROVE IInv
    OBVIOUS
<1>1. now = 0 /\ MaxTime \in Nat /\ HoldTtl \in Nat /\ 0 \in 0..MaxTime /\ 0 <= now + HoldTtl
    BY TimeAssumption DEF Init
<1>2. \A t \in Ticket : owner[t] = Nobody
    BY DEF Init
<1>3. TypeOK
    <2>1. /\ [s \in Showtime |-> 0] \in [Showtime -> Nat]
          /\ [t \in Ticket |-> 0] \in [Ticket -> Nat] /\ [u \in User |-> 0] \in [User -> Nat]
        OBVIOUS
    <2>2. /\ listUntil \in [User -> [Showtime -> Nat]] /\ granted \in [Ticket -> [User -> Nat]]
          /\ captured \in [Purchase -> [Ticket -> Nat]]
          /\ capturedList \in [Purchase -> [Showtime -> Nat]]
        BY <2>1 DEF Init
    <2> QED
        BY <1>1, <2>2 DEF Init, TypeOK, Step, Listed
<1>4. NoHiddenHold /\ HoldIsNotExtended /\ ClaimsFollowTheLoop
    BY <1>2, NameAssumption DEF NoHiddenHold, HoldIsNotExtended, ClaimsFollowTheLoop
<1>5. ExpiriesAreBounded
    BY <1>1, ItemAssumption DEF Init, ExpiriesAreBounded
<1>6. LoopsReachTheGroups /\ ConfirmedLastsLonger
    BY DEF Init, LoopsReachTheGroups, ConfirmedLastsLonger
<1> QED
    BY <1>3, <1>4, <1>5, <1>6 DEF IInv

LEMMA EveryStepIsSound == IInv /\ [Next]_vars => IInv' /\ LosesKnowingly /\ ConfirmsAll
BY StepHold, StepStart, StepClaim, StepClaimRefused, StepConfirm, StepCompensate, StepRollback,
   StepRelease, StepTick, Stutters
   DEF Next

\* The scripts of TicketHoldingService keep keys, lists, captured times and the
\* loops over the showtimes consistent: the inductive invariant always holds.
THEOREM TicketHoldingInvariant == Spec => []IInv
<1>1. IInv /\ [Next]_vars => IInv'
    BY EveryStepIsSound
<1> QED
    BY <1>1, InitiallyNothingIsHeld, PTL DEF Spec

\* holdTickets, claimTicketsForPurchase and its rollback: what a user holds is in
\* their list for as long, no rollback makes a hold outlast what HOLD gave, and a
\* refused claim leaves no seat behind.
THEOREM HoldsAreKeptAlways == Spec => []HoldsAreKept
<1>1. IInv => HoldsAreKept
    BY DEF IInv, HoldsAreKept, RefusalLeavesNothing, ClaimsFollowTheLoop
<1> QED
    BY <1>1, TicketHoldingInvariant, PTL

\* No script takes a seat from a customer whose list goes on naming it, and
\* confirmPurchaseClaims returns true only when all seats of the purchase, over all
\* showtimes, are still claimed.
THEOREM ClaimsAreSoundAlways == Spec => ClaimsAreSound
<1>1. IInv /\ [Next]_vars => [LosesKnowingly /\ ConfirmsAll]_vars
    BY EveryStepIsSound
<1>2. [LosesKnowingly /\ ConfirmsAll]_vars =>
         /\ [\A t \in Ticket, u \in User :
                now' = now /\ owner[t] = u /\ owner'[t] # u => t \notin listed'[u]]_vars
         /\ [\A p \in Purchase :
                step[p] # "confirmed" /\ step'[p] = "confirmed"
                    => \A t \in Items[p] : owner'[t] = p]_vars
    BY DEF LosesKnowingly, ConfirmsAll
<1> QED
    BY <1>1, <1>2, TicketHoldingInvariant, PTL
       DEF Spec, ClaimsAreSound, HoldsEndKnowingly, ConfirmedIsWhole

-----------------------------------------------------------------------------
(***************************************************************************)
(* What is for sale (Booking).  Pages and sagas rely on what nobody locks: *)
(* the invariant says what a theater, a movie and a deletion owe to the    *)
(* showtimes that refer to them.                                           *)
(***************************************************************************)

\* the ticket belongs to showtime x
TicketsOf(T, x) == {k \in T : k[1] = x}

\* A saga that holds its theaters will insert a ticket for each of their seats
\* as they are.
PlansAreCurrent ==
    \A s \in Saga : saga[s] = "guarded" => planned[s] = Sales!Planned(s)

\* A showtime has the tickets that were planned for it.
TicketsArePlanned ==
    \A x \in showtimes : TicketsOf(tickets, x) = TicketsOf(planned[x.saga], x)

\* What is gone was deleted.
GoneWereDeleted ==
    \A y \in (Movie \ movies) \union (Theater \ theaters) :
        \E d \in Deletion : stage[d] = "deleted" /\ Target[d] = y

\* A deletion that found no showtimes has raced with all there are now.
PassedHaveRaced == \A x \in showtimes : Sales!Passed(x) => x \in raced

\* A page is answered once; what it has listed the dates of is of one movie in one
\* theater, and before that it has read nothing.
PagesAreInOrder ==
    \A r \in Reader :
        /\ page[r] # "done" => answer[r] = "none"
        /\ page[r] = "new" => read[r] = {}
        /\ page[r] = "dates" =>
              \A x, y \in read[r] : x.theater = y.theater /\ Sales!TheMovie(x) = Sales!TheMovie(y)

SalesInv ==
    /\ Sales!TypeOK
    /\ PagesAreInOrder
    /\ PlansAreCurrent
    /\ TicketsArePlanned
    /\ GoneWereDeleted
    /\ PassedHaveRaced
    /\ Sales!SearchesFailKnowingly
    /\ Sales!OnlyRacesFail

\* A showtime that appears has the seats of its theater (TicketsAreTheSeats).
NewOnesAreFurnished ==
    \A x \in showtimes' \ showtimes :
        {k[2] : k \in {l \in tickets' : l[1] = x}} = seatmap[x.theater]

-----------------------------------------------------------------------------
LEMMA SalesNames ==
    /\ MovieOf \in [Saga -> Movie] /\ TheatersOf \in [Saga -> SUBSET Theater]
    /\ Seatmaps \subseteq SUBSET Seat /\ Seatmaps # {}
    /\ StartsOf \in [Saga -> SUBSET Nat]
    /\ Target \in [Deletion -> Movie \union Theater]
    /\ {Duration, MaxTickets, Cutoff, MaxEdits, MaxNow} \subseteq Nat
BY SalesAssumption DEF Sales!InputAssumption, Sales!BoundAssumption

LEMMA ShowsAreOfSagas ==
    ASSUME NEW x \in Sales!Show
    PROVE  /\ x.saga \in Saga /\ x.theater \in TheatersOf[x.saga] /\ x.theater \in Theater
           /\ Sales!TheMovie(x) \in Movie /\ x.start \in Nat
           /\ x \in Sales!ShowtimesOf(x.saga)
BY SalesNames DEF Sales!Show, Sales!ShowtimesOf, Sales!TheMovie

LEMMA SagaOfItsShowtimes ==
    ASSUME NEW s, NEW x \in Sales!ShowtimesOf(s)
    PROVE  x \in Sales!Show /\ x.saga = s
BY DEF Sales!ShowtimesOf

\* What the parts of TypeOK say.
LEMMA SalesTyped ==
    ASSUME Sales!TypeOK
    PROVE  /\ showtimes \subseteq Sales!Show /\ tickets \subseteq showtimes \X Seat
           /\ \A x \in showtimes : saga[x.saga] = "created"
           /\ \A s \in Saga : planned[s] \subseteq Sales!ShowtimesOf(s) \X Seat
<1>1. ASSUME NEW x \in showtimes PROVE saga[x.saga] = "created"
    BY ShowsAreOfSagas DEF Sales!TypeOK
<1> QED
    BY <1>1 DEF Sales!TypeOK

LEMMA SalesInitially == Sales!Init => SalesInv
<1> SUFFICES ASSUME Sales!Init PROVE SalesInv
    OBVIOUS
<1> USE DEF Sales!Init
<1>1. Sales!TypeOK
    <2>1. Sales!Cardinality({}) = 0
        BY FS_EmptySet DEF Sales!Cardinality, Cardinality
    <2>2. 0 \in 0..MaxNow /\ 0 \in 0..MaxEdits /\ 0 <= MaxTickets
        BY SalesNames
    <2>3. \A s \in Saga : /\ planned[s] \subseteq Sales!ShowtimesOf(s) \X Seat
                          /\ Sales!Cardinality(planned[s]) <= MaxTickets
                          /\ \A x \in Sales!ShowtimesOf(s) : x \in showtimes <=> saga[s] = "created"
        BY <2>1, <2>2
    <2> QED
        BY <2>2, <2>3 DEF Sales!TypeOK, Sales!Page
<1>2. PagesAreInOrder /\ PlansAreCurrent /\ TicketsArePlanned /\ GoneWereDeleted /\ PassedHaveRaced
    BY DEF PagesAreInOrder, PlansAreCurrent, TicketsArePlanned, GoneWereDeleted, PassedHaveRaced
<1>3. Sales!SearchesFailKnowingly /\ Sales!OnlyRacesFail
    BY DEF Sales!SearchesFailKnowingly, Sales!OnlyRacesFail, PagesAreInOrder
<1> QED
    BY <1>1, <1>2, <1>3 DEF SalesInv

-----------------------------------------------------------------------------
LEMMA StartSagaKeeps ==
    ASSUME SalesInv, NEW s \in Saga, Sales!StartSaga(s)
    PROVE  SalesInv' /\ NewOnesAreFurnished
<1> USE DEF SalesInv
<1>1. UNCHANGED <<movies, theaters, seatmap, edits, showtimes, tickets, sold, raced, stage,
                  page, read, answer, clock>>
    BY DEF Sales!StartSaga, Sales!catalog, Sales!sales, Sales!requests
<1>2. saga[s] = "new"
    BY DEF Sales!StartSaga
<1>3. \A r \in Saga : r # s => saga'[r] = saga[r] /\ planned'[r] = planned[r]
    BY DEF Sales!StartSaga, Sales!TypeOK
<1>4. \/ saga' = [saga EXCEPT ![s] = "guarded"] /\ planned' = [planned EXCEPT ![s] = Sales!Planned(s)]
         /\ Sales!Allowed(s)
      \/ saga' = [saga EXCEPT ![s] = "refused"] /\ UNCHANGED planned
    BY DEF Sales!StartSaga
<1>5. Sales!TypeOK'
    <2>1. saga' \in [Saga -> {"new", "guarded", "created", "refused"}]
        BY <1>4 DEF Sales!TypeOK
    <2>2. Sales!Planned(s) \subseteq Sales!ShowtimesOf(s) \X Seat
        BY DEF Sales!Planned
    <2>3. Sales!ShowtimesOf(s) \subseteq Sales!Show
        BY DEF Sales!ShowtimesOf
    <2>4. planned' \in [Saga -> SUBSET (Sales!Show \X Seat)]
        BY <1>4, <2>2, <2>3 DEF Sales!TypeOK
    <2>5. planned'[s] \subseteq Sales!ShowtimesOf(s) \X Seat /\ Sales!Cardinality(planned'[s]) <= MaxTickets
        BY <1>4, <2>2 DEF Sales!TypeOK, Sales!Allowed
    <2>6. saga'[s] # "created"
        BY <1>4 DEF Sales!TypeOK
    <2>7. \A x \in Sales!ShowtimesOf(s) : x \notin showtimes
        BY <1>2 DEF Sales!TypeOK
    <2>8. \A r \in Saga : /\ planned'[r] \subseteq Sales!ShowtimesOf(r) \X Seat
                          /\ Sales!Cardinality(planned'[r]) <= MaxTickets
                          /\ \A x \in Sales!ShowtimesOf(r) : x \in showtimes' <=> saga'[r] = "created"
        BY <1>1, <1>3, <2>5, <2>6, <2>7 DEF Sales!TypeOK
    <2> QED
        BY <1>1, <2>1, <2>4, <2>8 DEF Sales!TypeOK
<1>6. PlansAreCurrent'
    <2>1. \A r \in Saga : Sales!Planned(r)' = Sales!Planned(r)
        BY <1>1 DEF Sales!Planned
    <2>2. saga'[s] = "guarded" => planned'[s] = Sales!Planned(s)
        BY <1>4 DEF Sales!TypeOK
    <2> QED
        BY <1>3, <2>1, <2>2 DEF PlansAreCurrent
<1>7. TicketsArePlanned'
    <2>1. \A x \in showtimes : x.saga \in Saga /\ x.saga # s
        BY <1>2, SalesTyped, ShowsAreOfSagas
    <2> QED
        BY <1>1, <1>3, <2>1 DEF TicketsArePlanned
<1>8. GoneWereDeleted' /\ PassedHaveRaced'
    BY <1>1 DEF GoneWereDeleted, PassedHaveRaced, Sales!Passed, Sales!TheMovie
<1>9. Sales!SearchesFailKnowingly'
    <2>1. \A r \in Reader : read[r] \subseteq showtimes
        BY DEF Sales!TypeOK
    <2>2. \A x \in showtimes : x.saga \in Saga /\ x.saga # s
        BY <1>2, SalesTyped, ShowsAreOfSagas
    <2> QED
        BY <1>1, <1>3, <2>1, <2>2 DEF Sales!SearchesFailKnowingly, Sales!Ended
<1>10. Sales!OnlyRacesFail' /\ PagesAreInOrder'
    BY <1>1 DEF Sales!OnlyRacesFail, PagesAreInOrder, Sales!TheMovie
<1> QED
    BY <1>1, <1>5, <1>6, <1>7, <1>8, <1>9, <1>10 DEF NewOnesAreFurnished

LEMMA CommitSagaKeeps ==
    ASSUME SalesInv, NEW s \in Saga, Sales!CommitSaga(s)
    PROVE  SalesInv' /\ NewOnesAreFurnished
<1> USE DEF SalesInv
<1>1. UNCHANGED <<movies, theaters, seatmap, edits, sold, planned, stage, page, read, answer, clock>>
    BY DEF Sales!CommitSaga, Sales!catalog, Sales!requests
<1>2. /\ saga[s] = "guarded" /\ saga' = [saga EXCEPT ![s] = "created"]
      /\ showtimes' = showtimes \union Sales!ShowtimesOf(s)
      /\ tickets' = tickets \union planned[s]
      /\ raced' = raced \union {x \in Sales!ShowtimesOf(s) : Sales!Passed(x)}
    BY DEF Sales!CommitSaga, Sales!Inserted
<1>3. Sales!ShowtimesOf(s) \intersect showtimes = {}
    BY <1>2 DEF Sales!TypeOK
<1>4. planned[s] \subseteq Sales!ShowtimesOf(s) \X Seat /\ Sales!ShowtimesOf(s) \subseteq Sales!Show
    BY DEF Sales!ShowtimesOf, Sales!TypeOK
<1>5. Sales!TypeOK'
    <2>1. saga' \in [Saga -> {"new", "guarded", "created", "refused"}]
        BY <1>2 DEF Sales!TypeOK
    <2>2. showtimes' \subseteq Sales!Show /\ tickets' \subseteq showtimes' \X Seat
        BY <1>2, <1>4 DEF Sales!TypeOK
    <2>3. sold' \subseteq tickets' /\ raced' \subseteq showtimes' /\ read' \in [Reader -> SUBSET showtimes']
        BY <1>1, <1>2 DEF Sales!TypeOK
    <2>4. ASSUME NEW r \in Saga, NEW x \in Sales!ShowtimesOf(r)
          PROVE  x \in showtimes' <=> saga'[r] = "created"
        BY <1>2, SagaOfItsShowtimes DEF Sales!TypeOK
    <2> QED
        BY <1>1, <2>1, <2>2, <2>3, <2>4 DEF Sales!TypeOK
<1>6. PlansAreCurrent'
    <2>1. \A r \in Saga : Sales!Planned(r)' = Sales!Planned(r)
        BY <1>1 DEF Sales!Planned
    <2> QED
        BY <1>1, <1>2, <2>1 DEF PlansAreCurrent, Sales!TypeOK
<1>7. TicketsArePlanned'
    <2> SUFFICES ASSUME NEW x \in showtimes'
                 PROVE  TicketsOf(tickets', x) = TicketsOf(planned'[x.saga], x)
        BY DEF TicketsArePlanned
    <2>1. CASE x \in showtimes
        <3>1. \A k \in planned[s] : k[1] # x
            BY <1>3, <1>4, <2>1
        <3> QED
            BY <1>1, <1>2, <2>1, <3>1 DEF TicketsArePlanned, TicketsOf
    <2>2. CASE x \notin showtimes
        <3>1. x \in Sales!ShowtimesOf(s) /\ x.saga = s
            BY <1>2, <2>2, SagaOfItsShowtimes
        <3>2. \A k \in tickets : k[1] # x
            BY <2>2 DEF Sales!TypeOK
        <3> QED
            BY <1>1, <1>2, <3>1, <3>2 DEF TicketsOf
    <2> QED
        BY <2>1, <2>2
<1>8. GoneWereDeleted'
    BY <1>1 DEF GoneWereDeleted
<1>9. PassedHaveRaced'
    <2>1. \A x : Sales!Passed(x)' = Sales!Passed(x)
        BY <1>1 DEF Sales!Passed, Sales!TheMovie
    <2> QED
        BY <1>2, <2>1 DEF PassedHaveRaced
<1>10. Sales!SearchesFailKnowingly' /\ Sales!OnlyRacesFail' /\ PagesAreInOrder'
    BY <1>1, <1>2 DEF Sales!SearchesFailKnowingly, Sales!OnlyRacesFail, PagesAreInOrder,
           Sales!Ended, Sales!TheMovie
<1>11. NewOnesAreFurnished
    <2> SUFFICES ASSUME NEW x \in showtimes' \ showtimes
                 PROVE  {k[2] : k \in {l \in tickets' : l[1] = x}} = seatmap[x.theater]
        BY DEF NewOnesAreFurnished
    <2>1. x \in Sales!ShowtimesOf(s) /\ x \in Sales!Show
        BY <1>2, SagaOfItsShowtimes
    <2>2. \A k \in tickets : k[1] # x
        BY DEF Sales!TypeOK
    <2>3. seatmap[x.theater] \subseteq Seat
        BY <2>1, ShowsAreOfSagas, SalesNames DEF Sales!TypeOK
    <2>4. planned[s] = {k \in Sales!ShowtimesOf(s) \X Seat : k[2] \in seatmap[k[1].theater]}
        BY <1>2 DEF PlansAreCurrent, Sales!Planned
    <2>5. {l \in tickets' : l[1] = x} = {l \in planned[s] : l[1] = x}
        BY <1>2, <2>2
    <2>6. ASSUME NEW c \in seatmap[x.theater]
          PROVE  \E k \in {l \in planned[s] : l[1] = x} : k[2] = c
        <3>1. <<x, c>> \in {l \in planned[s] : l[1] = x}
            BY <2>1, <2>3, <2>4
        <3> QED
            BY <3>1
    <2> QED
        BY <2>4, <2>5, <2>6
<1> QED
    BY <1>5, <1>6, <1>7, <1>8, <1>9, <1>10, <1>11

-----------------------------------------------------------------------------
LEMMA UpdateTheaterKeeps ==
    ASSUME SalesInv, NEW t \in Theater, NEW c \in Seatmaps, Sales!UpdateTheater(t, c)
    PROVE  SalesInv' /\ NewOnesAreFurnished
<1> USE DEF SalesInv
<1>1. UNCHANGED <<movies, theaters, showtimes, tickets, sold, raced, saga, planned, stage,
                  page, read, answer, clock>>
    BY DEF Sales!UpdateTheater, Sales!sales, Sales!requests
<1>2. seatmap' = [seatmap EXCEPT ![t] = c] /\ ~Sales!Guarded(t) /\ edits < MaxEdits /\ edits' = edits + 1
    BY DEF Sales!UpdateTheater
<1>3. Sales!TypeOK'
    <2>1. edits' \in 0..MaxEdits
        BY <1>2, SalesNames DEF Sales!TypeOK
    <2>2. seatmap' \in [Theater -> Seatmaps]
        BY <1>2 DEF Sales!TypeOK
    <2> QED
        BY <1>1, <2>1, <2>2 DEF Sales!TypeOK
<1>4. PlansAreCurrent'
    <2> SUFFICES ASSUME NEW s \in Saga, saga[s] = "guarded"
                 PROVE  planned[s] = Sales!Planned(s)'
        BY <1>1 DEF PlansAreCurrent
    <2>1. t \notin TheatersOf[s]
        BY <1>2 DEF Sales!Guarded
    <2>2. \A x \in Sales!ShowtimesOf(s) : x.theater \in Theater /\ x.theater # t
        BY <2>1, SagaOfItsShowtimes, ShowsAreOfSagas
    <2>3. \A x \in Sales!ShowtimesOf(s) : seatmap'[x.theater] = seatmap[x.theater]
        BY <1>2, <2>2 DEF Sales!TypeOK
    <2>4. \A k \in Sales!ShowtimesOf(s) \X Seat : k[2] \in seatmap'[k[1].theater] <=> k[2] \in seatmap[k[1].theater]
        BY <2>3
    <2>5. Sales!Planned(s)' = Sales!Planned(s)
        BY <2>4 DEF Sales!Planned
    <2> QED
        BY <2>5 DEF PlansAreCurrent
<1>5. TicketsArePlanned' /\ GoneWereDeleted' /\ PassedHaveRaced'
    BY <1>1 DEF TicketsArePlanned, GoneWereDeleted, PassedHaveRaced, Sales!Passed, Sales!TheMovie
<1>6. Sales!SearchesFailKnowingly' /\ Sales!OnlyRacesFail' /\ PagesAreInOrder'
    BY <1>1 DEF Sales!SearchesFailKnowingly, Sales!OnlyRacesFail, PagesAreInOrder,
           Sales!Ended, Sales!TheMovie
<1> QED
    BY <1>1, <1>3, <1>4, <1>5, <1>6 DEF NewOnesAreFurnished

LEMMA CheckDeletionKeeps ==
    ASSUME SalesInv, NEW d \in Deletion, Sales!CheckDeletion(d)
    PROVE  SalesInv' /\ NewOnesAreFurnished
<1> USE DEF SalesInv
<1>1. UNCHANGED <<movies, theaters, seatmap, edits, showtimes, tickets, sold, raced, saga, planned,
                  page, read, answer, clock>>
    BY DEF Sales!CheckDeletion, Sales!catalog, Sales!sales, Sales!requests
<1>2. /\ stage[d] = "check"
      /\ stage' = [stage EXCEPT ![d] =
            IF \E x \in showtimes : Sales!Blocks(x, Target[d]) THEN "refused" ELSE "delete"]
    BY DEF Sales!CheckDeletion
<1>3. Sales!TypeOK'
    BY <1>1, <1>2 DEF Sales!TypeOK
<1>4. PlansAreCurrent' /\ TicketsArePlanned'
    BY <1>1 DEF PlansAreCurrent, TicketsArePlanned, Sales!Planned
<1>5. GoneWereDeleted'
    BY <1>1, <1>2 DEF GoneWereDeleted, Sales!TypeOK
<1>6. PassedHaveRaced'
    <2> SUFFICES ASSUME NEW x \in showtimes, NEW e \in Deletion, stage'[e] \in {"delete", "deleted"},
                        Target[e] \in {x.theater, Sales!TheMovie(x)}
                 PROVE  x \in raced
        BY <1>1 DEF PassedHaveRaced, Sales!Passed, Sales!TheMovie
    <2>1. e # d
        BY <1>2 DEF Sales!Blocks, Sales!TypeOK
    <2>2. stage[e] \in {"delete", "deleted"}
        BY <1>2, <2>1 DEF Sales!TypeOK
    <2> QED
        BY <2>2 DEF PassedHaveRaced, Sales!Passed
<1>7. Sales!SearchesFailKnowingly' /\ Sales!OnlyRacesFail' /\ PagesAreInOrder'
    BY <1>1 DEF Sales!SearchesFailKnowingly, Sales!OnlyRacesFail, PagesAreInOrder,
           Sales!Ended, Sales!TheMovie
<1> QED
    BY <1>1, <1>3, <1>4, <1>5, <1>6, <1>7 DEF NewOnesAreFurnished

LEMMA DeleteKeeps ==
    ASSUME SalesInv, NEW d \in Deletion, Sales!Delete(d)
    PROVE  SalesInv' /\ NewOnesAreFurnished
<1> USE DEF SalesInv
<1>1. UNCHANGED <<seatmap, edits, showtimes, tickets, sold, raced, saga, planned,
                  page, read, answer, clock>>
    BY DEF Sales!Delete, Sales!sales, Sales!requests
<1>2. /\ stage[d] = "delete" /\ stage' = [stage EXCEPT ![d] = "deleted"]
      /\ movies' = movies \ {Target[d]} /\ theaters' = theaters \ {Target[d]}
    BY DEF Sales!Delete
<1>3. Sales!TypeOK'
    BY <1>1, <1>2 DEF Sales!TypeOK
<1>4. PlansAreCurrent' /\ TicketsArePlanned'
    BY <1>1 DEF PlansAreCurrent, TicketsArePlanned, Sales!Planned
<1>5. GoneWereDeleted'
    <2> SUFFICES ASSUME NEW y \in (Movie \ movies') \union (Theater \ theaters')
                 PROVE  \E e \in Deletion : stage'[e] = "deleted" /\ Target[e] = y
        BY DEF GoneWereDeleted
    <2>1. CASE y = Target[d]
        BY <1>2, <2>1 DEF Sales!TypeOK
    <2>2. CASE y # Target[d]
        <3>1. PICK e \in Deletion : stage[e] = "deleted" /\ Target[e] = y
            BY <1>2, <2>2 DEF GoneWereDeleted
        <3> QED
            BY <1>2, <3>1 DEF Sales!TypeOK
    <2> QED
        BY <2>1, <2>2
<1>6. PassedHaveRaced'
    <2>1. \A e \in Deletion : stage'[e] \in {"delete", "deleted"} <=> stage[e] \in {"delete", "deleted"}
        BY <1>2 DEF Sales!TypeOK
    <2> QED
        BY <1>1, <2>1 DEF PassedHaveRaced, Sales!Passed, Sales!TheMovie
<1>7. Sales!SearchesFailKnowingly' /\ Sales!OnlyRacesFail' /\ PagesAreInOrder'
    BY <1>1 DEF Sales!SearchesFailKnowingly, Sales!OnlyRacesFail, PagesAreInOrder,
           Sales!Ended, Sales!TheMovie
<1> QED
    BY <1>1, <1>3, <1>4, <1>5, <1>6, <1>7 DEF NewOnesAreFurnished

-----------------------------------------------------------------------------
\* A page that is refused.
LEMMA RefusedPages ==
    ASSUME SalesInv, NEW r \in Reader
    PROVE  /\ (~\A x \in read[r] : Sales!HasTickets(x))
                => \E x \in read[r] : \A k \in planned[x.saga] : k[1] # x
           /\ Sales!Missing(read[r]) # {} => read[r] \intersect raced # {}
           /\ ~({Sales!TheMovie(x) : x \in read[r]} \subseteq movies) => read[r] \intersect raced # {}
<1>1. read[r] \subseteq showtimes /\ showtimes \subseteq Sales!Show
    BY DEF SalesInv, Sales!TypeOK
<1>2. ASSUME NEW x \in read[r], ~Sales!HasTickets(x) PROVE \A k \in planned[x.saga] : k[1] # x
    <2>1. TicketsOf(tickets, x) = {}
        BY <1>2 DEF Sales!HasTickets, TicketsOf
    <2>2. TicketsOf(planned[x.saga], x) = {}
        BY <1>1, <2>1 DEF SalesInv, TicketsArePlanned
    <2> QED
        BY <2>2 DEF TicketsOf
<1>3. ASSUME NEW x \in read[r], NEW y, y \in {x.theater, Sales!TheMovie(x)},
             y \in (Movie \ movies) \union (Theater \ theaters)
      PROVE  x \in raced
    <2>1. PICK d \in Deletion : stage[d] = "deleted" /\ Target[d] = y
        BY <1>3 DEF SalesInv, GoneWereDeleted
    <2>2. Sales!Passed(x)
        BY <1>3, <2>1 DEF Sales!Passed
    <2> QED
        BY <1>1, <2>2 DEF SalesInv, PassedHaveRaced
<1>4. Sales!Missing(read[r]) # {} => read[r] \intersect raced # {}
    <2> SUFFICES ASSUME NEW x \in read[r], x.theater \notin theaters PROVE x \in raced
        BY DEF Sales!Missing
    <2>1. x.theater \in Theater \ theaters
        BY <1>1, ShowsAreOfSagas
    <2> QED
        BY <1>3, <2>1
<1>5. ~({Sales!TheMovie(x) : x \in read[r]} \subseteq movies) => read[r] \intersect raced # {}
    <2> SUFFICES ASSUME NEW x \in read[r], Sales!TheMovie(x) \notin movies PROVE x \in raced
        OBVIOUS
    <2>1. Sales!TheMovie(x) \in Movie \ movies
        BY <1>1, ShowsAreOfSagas
    <2> QED
        BY <1>3, <2>1
<1> QED
    BY <1>2, <1>4, <1>5

LEMMA ReadKeeps ==
    ASSUME SalesInv, NEW r \in Reader, Sales!Read(r)
    PROVE  SalesInv' /\ NewOnesAreFurnished
<1> USE DEF SalesInv
<1>1. UNCHANGED <<movies, theaters, seatmap, edits, showtimes, tickets, sold, raced, saga, planned,
                  stage, clock>>
    BY DEF Sales!Read, Sales!catalog, Sales!sales
<1>2. PlansAreCurrent' /\ TicketsArePlanned' /\ GoneWereDeleted' /\ PassedHaveRaced'
    BY <1>1 DEF PlansAreCurrent, TicketsArePlanned, Sales!Planned, GoneWereDeleted,
                PassedHaveRaced, Sales!Passed, Sales!TheMovie
\* an answer, about what was read
<1>3. ASSUME NEW a, Sales!Answer(r, a), a \in {"200", "400", "404", "500"},
             NEW xs \in SUBSET showtimes, read' = [read EXCEPT ![r] = xs],
             a = "500" => \E x \in xs : \A k \in planned[x.saga] : k[1] # x,
             a = "400" => \A x \in xs : Sales!Ended(x),
             a = "404" => xs \intersect raced # {}
      PROVE  SalesInv' /\ NewOnesAreFurnished
    <2>1. answer' = [answer EXCEPT ![r] = a] /\ page' = [page EXCEPT ![r] = "done"]
        BY <1>3 DEF Sales!Answer
    <2>2. Sales!TypeOK'
        BY <1>1, <1>3, <2>1 DEF Sales!TypeOK, Sales!Page
    <2>3. /\ answer'[r] = a /\ \A q \in Reader : q # r => answer'[q] = answer[q]
          /\ read'[r] = xs /\ \A q \in Reader : q # r => read'[q] = read[q]
        BY <1>3, <2>1 DEF Sales!TypeOK
    <2>4. page'[r] = "done" /\ \A q \in Reader : q # r => page'[q] = page[q]
        BY <2>1 DEF Sales!TypeOK
    <2>5. \A x : Sales!Ended(x) <=> Sales!Ended(x)'
        BY <1>1 DEF Sales!Ended
    <2>6. Sales!SearchesFailKnowingly' /\ Sales!OnlyRacesFail'
        BY <1>1, <1>3, <2>3, <2>5 DEF Sales!SearchesFailKnowingly, Sales!OnlyRacesFail
    <2>7. PagesAreInOrder'
        BY <2>3, <2>4 DEF PagesAreInOrder, Sales!TheMovie
    <2> QED
        BY <1>1, <1>2, <2>2, <2>6, <2>7 DEF NewOnesAreFurnished
\* the answer to the page as it is
<1>4. ASSUME NEW a, Sales!Answer(r, a), a \in {"200", "404", "500"}, read' = read,
             a = "500" => \E x \in read[r] : \A k \in planned[x.saga] : k[1] # x,
             a = "404" => read[r] \intersect raced # {}
      PROVE  SalesInv' /\ NewOnesAreFurnished
    <2>1. read[r] \in SUBSET showtimes /\ read' = [read EXCEPT ![r] = read[r]]
        BY <1>4 DEF Sales!TypeOK
    <2> QED
        BY <1>3, <1>4, <2>1
\* the next read
<1>5. ASSUME NEW p \in {"dates", "showtimes", "theaters", "homeCards", "homePicks"},
             NEW xs \in SUBSET showtimes, Sales!Turn(r, p, xs), page[r] # "done",
             p = "dates" =>
                 \A x, y \in xs : x.theater = y.theater /\ Sales!TheMovie(x) = Sales!TheMovie(y)
      PROVE  SalesInv' /\ NewOnesAreFurnished
    <2>1. /\ page' = [page EXCEPT ![r] = p] /\ read' = [read EXCEPT ![r] = xs] /\ answer' = answer
        BY <1>5 DEF Sales!Turn
    <2>2. Sales!TypeOK'
        BY <1>1, <2>1 DEF Sales!TypeOK, Sales!Page
    <2>3. answer[r] = "none"
        BY <1>5 DEF PagesAreInOrder
    <2>4. /\ page'[r] = p /\ read'[r] = xs
          /\ \A q \in Reader : q # r => read'[q] = read[q] /\ page'[q] = page[q]
        BY <2>1 DEF Sales!TypeOK
    <2>5. \A x : Sales!Ended(x) <=> Sales!Ended(x)'
        BY <1>1 DEF Sales!Ended
    <2>6. Sales!SearchesFailKnowingly' /\ Sales!OnlyRacesFail'
        BY <1>1, <2>1, <2>3, <2>4, <2>5 DEF Sales!SearchesFailKnowingly, Sales!OnlyRacesFail
    <2>7. PagesAreInOrder'
        BY <1>5, <2>1, <2>3, <2>4 DEF PagesAreInOrder, Sales!TheMovie
    <2> QED
        BY <1>1, <1>2, <2>2, <2>6, <2>7 DEF NewOnesAreFurnished
\* What was read of a movie in a theater and is not found any more has ended.
<1>6. ASSUME NEW m, NEW t, NEW date, Sales!Search(r, m, t, date), page[r] # "done",
             \A x \in read[r] : x.theater = t /\ Sales!TheMovie(x) = m
      PROVE  SalesInv' /\ NewOnesAreFurnished
    <2> DEFINE found == Sales!OfDate(Sales!On(m, t), date)
               gone == Sales!OfDate(read[r], date)
    <2>1. found \in SUBSET showtimes
        BY DEF Sales!OfDate, Sales!On, Sales!NotEnded
    <2>2. CASE found # {}
        <3>1. Sales!Turn(r, "showtimes", found)
            BY <1>6, <2>2 DEF Sales!Search
        <3> HIDE DEF found
        <3> QED
            BY <1>5, <1>6, <2>1, <3>1
    <2>3. CASE found = {}
        <3>1. Sales!Answer(r, "400") /\ read' = [read EXCEPT ![r] = gone]
            BY <1>6, <2>3 DEF Sales!Search, Sales!TypeOK
        <3>2. gone \in SUBSET showtimes /\ gone \subseteq read[r]
            BY DEF Sales!OfDate, Sales!TypeOK
        <3>3. \A x \in gone : Sales!Ended(x)
            BY <1>6, <2>3, <3>2 DEF Sales!OfDate, Sales!On, Sales!NotEnded
        <3> HIDE DEF gone
        <3>4. /\ "400" = "500" => \E x \in gone : \A k \in planned[x.saga] : k[1] # x
              /\ "400" = "404" => gone \intersect raced # {}
            OBVIOUS
        <3> QED
            BY <1>3, <3>1, <3>2, <3>3, <3>4, Zenon
    <2> QED
        BY <2>2, <2>3
<1>7. CASE Sales!Request(r)
    <2>1. page[r] = "new" /\ read[r] = {}
        BY <1>7 DEF Sales!Request, PagesAreInOrder
    <2>2. \A ms : Sales!NotEnded(ms) \in SUBSET showtimes
        BY DEF Sales!NotEnded
    <2>3. ASSUME NEW m \in Movie, NEW t \in Theater, Sales!Turn(r, "dates", Sales!On(m, t))
          PROVE  SalesInv' /\ NewOnesAreFurnished
        <3>1. /\ Sales!On(m, t) \in SUBSET showtimes
              /\ \A x, y \in Sales!On(m, t) : /\ x.theater = y.theater
                                              /\ Sales!TheMovie(x) = Sales!TheMovie(y)
            BY DEF Sales!On, Sales!NotEnded
        <3> QED
            BY <1>5, <2>1, <2>3, <3>1
    <2>4. ASSUME NEW m \in Movie, NEW t \in Theater, NEW date \in Sales!Dates, Sales!Search(r, m, t, date)
          PROVE  SalesInv' /\ NewOnesAreFurnished
        BY <1>6, <2>1, <2>4
    <2>5. CASE \E m \in Movie : Sales!Turn(r, "theaters", Sales!NotEnded({m}))
        BY <1>5, <2>1, <2>2, <2>5
    <2>6. CASE \E public \in SUBSET movies : Sales!Turn(r, "homeCards", Sales!NotEnded(public))
        BY <1>5, <2>1, <2>2, <2>6
    <2>7. CASE Sales!Turn(r, "homePicks", Sales!Sellable)
        <3>1. Sales!Sellable \in SUBSET showtimes
            BY DEF Sales!Sellable
        <3> QED
            BY <1>5, <2>1, <2>7, <3>1
    <2> QED
        BY <1>7, <2>3, <2>4, <2>5, <2>6, <2>7 DEF Sales!Request
<1>8. CASE Sales!PickDate(r)
    <2>1. page[r] = "dates"
        BY <1>8 DEF Sales!PickDate
    <2>2. PICK x \in read[r] : Sales!Search(r, Sales!TheMovie(x), x.theater, Sales!Date(x))
        BY <1>8 DEF Sales!PickDate
    <2>3. \A y \in read[r] : y.theater = x.theater /\ Sales!TheMovie(y) = Sales!TheMovie(x)
        BY <2>1 DEF PagesAreInOrder
    <2> QED
        BY <1>6, <2>1, <2>2, <2>3
<1>9. CASE Sales!ShowSales(r)
    <2> DEFINE a == IF \A x \in read[r] : Sales!HasTickets(x) THEN "200" ELSE "500"
    <2>1. Sales!Answer(r, a) /\ read' = read
        BY <1>9 DEF Sales!ShowSales
    <2> QED
        BY <1>4, <2>1, RefusedPages
<1>10. CASE Sales!ShowTheaters(r)
    <2> DEFINE a == IF Sales!Missing(read[r]) = {} THEN "200" ELSE "404"
    <2>1. Sales!Answer(r, a) /\ read' = read
        BY <1>10 DEF Sales!ShowTheaters
    <2> QED
        BY <1>4, <2>1, RefusedPages
<1>11. CASE Sales!ShowPicks(r)
    <2> DEFINE a == IF {Sales!TheMovie(x) : x \in read[r]} \subseteq movies THEN "200" ELSE "404"
    <2>1. Sales!Answer(r, a) /\ read' = read
        BY <1>11 DEF Sales!ShowPicks
    <2> QED
        BY <1>4, <2>1, RefusedPages
<1> QED
    BY <1>7, <1>8, <1>9, <1>10, <1>11 DEF Sales!Read

-----------------------------------------------------------------------------
LEMMA SalesStep ==
    ASSUME SalesInv, [Sales!Next]_Sales!vars
    PROVE  SalesInv' /\ NewOnesAreFurnished
<1>1. ASSUME NEW s \in Saga, Sales!StartSaga(s) \/ Sales!CommitSaga(s)
      PROVE  SalesInv' /\ NewOnesAreFurnished
    BY <1>1, StartSagaKeeps, CommitSagaKeeps
<1>2. ASSUME NEW t \in Theater, NEW c \in Seatmaps, Sales!UpdateTheater(t, c)
      PROVE  SalesInv' /\ NewOnesAreFurnished
    BY <1>2, UpdateTheaterKeeps
<1>3. ASSUME NEW d \in Deletion, Sales!CheckDeletion(d) \/ Sales!Delete(d)
      PROVE  SalesInv' /\ NewOnesAreFurnished
    BY <1>3, CheckDeletionKeeps, DeleteKeeps
<1>4. ASSUME NEW r \in Reader, Sales!Read(r)
      PROVE  SalesInv' /\ NewOnesAreFurnished
    BY <1>4, ReadKeeps
<1>5. ASSUME UNCHANGED <<movies, theaters, seatmap, edits, showtimes, tickets, raced, saga, planned,
                         stage, page, read, answer>>,
             sold' \subseteq tickets, clock' \in clock..MaxNow
      PROVE  SalesInv' /\ NewOnesAreFurnished
    <2>0. clock' \in 0..MaxNow /\ clock \in Nat /\ clock' \in Nat /\ clock <= clock'
        BY <1>5, SalesNames DEF SalesInv, Sales!TypeOK
    <2>1. Sales!TypeOK'
        BY <1>5, <2>0 DEF SalesInv, Sales!TypeOK
    <2>2. PagesAreInOrder' /\ PlansAreCurrent' /\ TicketsArePlanned'
        BY <1>5 DEF SalesInv, PagesAreInOrder, PlansAreCurrent, TicketsArePlanned, Sales!Planned,
                    Sales!TheMovie
    <2>3. GoneWereDeleted' /\ PassedHaveRaced'
        BY <1>5 DEF SalesInv, GoneWereDeleted, PassedHaveRaced, Sales!Passed, Sales!TheMovie
    <2>4. Sales!SearchesFailKnowingly' /\ Sales!OnlyRacesFail'
        <3>1. ASSUME NEW r \in Reader, NEW x \in read[r], Sales!Ended(x) PROVE Sales!Ended(x)'
            <4>1. x.start \in Nat /\ Duration \in Nat
                BY ShowsAreOfSagas, SalesNames DEF SalesInv, Sales!TypeOK
            <4> QED
                BY <2>0, <3>1, <4>1 DEF Sales!Ended
        <3> QED
            BY <1>5, <3>1 DEF SalesInv, Sales!SearchesFailKnowingly, Sales!OnlyRacesFail
    <2> QED
        BY <1>5, <2>1, <2>2, <2>3, <2>4 DEF SalesInv, NewOnesAreFurnished
<1>6. ASSUME NEW T \in SUBSET tickets, Sales!Sell(T)
      PROVE  SalesInv' /\ NewOnesAreFurnished
    <2>1. sold' \subseteq tickets /\ clock' \in clock..MaxNow
        BY <1>6, SalesNames DEF SalesInv, Sales!TypeOK, Sales!Sell
    <2> QED
        BY <1>5, <1>6, <2>1 DEF Sales!Sell, Sales!catalog, Sales!requests
<1>7. ASSUME Sales!Tick PROVE SalesInv' /\ NewOnesAreFurnished
    <2>1. sold' \subseteq tickets /\ clock' \in clock..MaxNow
        BY <1>7, SalesNames DEF SalesInv, Sales!TypeOK, Sales!Tick, Sales!sales
    <2> QED
        BY <1>5, <1>7, <2>1 DEF Sales!Tick, Sales!catalog, Sales!sales, Sales!requests
<1>8. ASSUME UNCHANGED Sales!vars PROVE SalesInv' /\ NewOnesAreFurnished
    <2>1. sold' \subseteq tickets /\ clock' \in clock..MaxNow
        BY <1>8, SalesNames DEF SalesInv, Sales!TypeOK, Sales!vars, Sales!sales
    <2> QED
        BY <1>5, <1>8, <2>1 DEF Sales!vars, Sales!catalog, Sales!sales, Sales!requests
<1> QED
    BY <1>1, <1>2, <1>3, <1>4, <1>6, <1>7, <1>8 DEF Sales!Next

\* Sagas, pages and deletions keep their inductive invariant.
THEOREM SalesInvariant == Sales!Spec => []SalesInv
BY SalesInitially, SalesStep, PTL DEF Sales!Spec

\* For any sagas, theaters, deletions and pages at once, a search fails only for a
\* theater without seats or when all that its date was listed for has ended, and a
\* page only for a showtime committed beside a deletion.
THEOREM OnlyKnownFailuresAlways == Sales!Spec => []OnlyKnownFailures
<1>1. SalesInv => OnlyKnownFailures
    BY DEF SalesInv, OnlyKnownFailures
<1> QED
    BY <1>1, SalesInvariant, PTL

-----------------------------------------------------------------------------
(***************************************************************************)
(* The walks over a seatmap (Seatmap).                                     *)
(***************************************************************************)

SeatAt(p) == Walk!IsSeat(layout[p[1]].rows[p[2]].layout[p[3]])

\* the iterator has passed place p
Behind(p) ==
    \/ p[1] < at[1]
    \/ p[1] = at[1] /\ p[2] < at[2]
    \/ p[1] = at[1] /\ p[2] = at[2] /\ p[3] < at[3]

\* the seats it has passed
SeatsBehind == {p \in Walk!Places : SeatAt(p) /\ Behind(p)}

\* blocks of rows, and rows of places
LayoutTyped ==
    /\ layout \in Seq(Walk!Block)
    /\ \A b \in DOMAIN layout : layout[b].rows \in Seq(Walk!Row)
    /\ \A b \in DOMAIN layout : \A r \in DOMAIN layout[b].rows :
          layout[b].rows[r].layout \in Seq({"O", "X"})

\* The iterator has generated as many seats as it has passed.
WalkInv ==
    /\ LayoutTyped
    /\ at \in [1..3 -> Nat \ {0}]
    /\ seats \in Seq(Name \X Name \X Nat)
    /\ IsFiniteSet(SeatsBehind) /\ Len(seats) = Cardinality(SeatsBehind)

\* The instance counts with a Cardinality of its own.
LEMMA WalkCounts == ASSUME NEW S PROVE Walk!Cardinality(S) = Cardinality(S)
BY DEF Walk!Cardinality, Cardinality

LEMMA BoundedSequences ==
    ASSUME NEW n \in Nat, NEW S, NEW s \in Walk!UpTo(n, S)
    PROVE  s \in Seq(S)
BY DEF Walk!UpTo

\* A place is in a row of a block.
LEMMA PlacesOfTheLayout ==
    ASSUME LayoutTyped
    PROVE  \A p : p \in Walk!Places <=>
               \E b \in 1..Len(layout) : \E r \in 1..Len(layout[b].rows) :
                   \E i \in 1..Len(layout[b].rows[r].layout) : p = <<b, r, i>>
<1>1. DOMAIN layout = 1..Len(layout)
    BY DEF LayoutTyped
<1>2. \A b \in DOMAIN layout : DOMAIN layout[b].rows = 1..Len(layout[b].rows)
    BY DEF LayoutTyped
<1>3. \A b \in DOMAIN layout : \A r \in DOMAIN layout[b].rows :
          DOMAIN layout[b].rows[r].layout = 1..Len(layout[b].rows[r].layout)
    BY DEF LayoutTyped
<1>4. \A p : p \in Walk!Places <=>
          \E b \in DOMAIN layout : \E r \in DOMAIN layout[b].rows :
              \E i \in DOMAIN layout[b].rows[r].layout : p = <<b, r, i>>
    BY SMTT(30) DEF Walk!Places
<1> QED
    BY <1>1, <1>2, <1>3, <1>4

LEMMA WalkInitially == Walk!Init => WalkInv
<1> SUFFICES ASSUME Walk!Init PROVE WalkInv
    OBVIOUS
<1>1. layout \in Walk!UpTo(MaxBlocks, Walk!Block) /\ at = <<1, 1, 1>> /\ seats = <<>>
    BY DEF Walk!Init
<1>2. MaxBlocks \in Nat /\ MaxRows \in Nat /\ MaxLayout \in Nat
    BY WalkAssumption DEF Walk!BoundAssumption
<1>3. LayoutTyped
    <2>1. layout \in Seq(Walk!Block)
        BY <1>1, <1>2, BoundedSequences
    <2>2. \A b \in DOMAIN layout : layout[b] \in Walk!Block
        BY <2>1
    <2>3. \A b \in DOMAIN layout : layout[b].rows \in Walk!UpTo(MaxRows, Walk!Row)
        BY <2>2 DEF Walk!Block
    <2>4. \A b \in DOMAIN layout : layout[b].rows \in Seq(Walk!Row)
        BY <1>2, <2>3, BoundedSequences
    <2>5. \A b \in DOMAIN layout : \A r \in DOMAIN layout[b].rows : layout[b].rows[r] \in Walk!Row
        BY <2>4
    <2>6. \A b \in DOMAIN layout : \A r \in DOMAIN layout[b].rows :
              layout[b].rows[r].layout \in Walk!UpTo(MaxLayout, {"O", "X"})
        BY <2>5 DEF Walk!Row
    <2>7. \A b \in DOMAIN layout : \A r \in DOMAIN layout[b].rows :
              layout[b].rows[r].layout \in Seq({"O", "X"})
        BY <1>2, <2>6, BoundedSequences
    <2> QED
        BY <2>1, <2>4, <2>7 DEF LayoutTyped
<1>4. at \in [1..3 -> Nat \ {0}]
    BY <1>1
<1>5. SeatsBehind = {}
    <2> SUFFICES ASSUME NEW p \in Walk!Places, Behind(p) PROVE FALSE
        BY DEF SeatsBehind
    <2>1. PICK b \in 1..Len(layout) : \E r \in 1..Len(layout[b].rows) :
                   \E i \in 1..Len(layout[b].rows[r].layout) : p = <<b, r, i>>
        BY <1>3, PlacesOfTheLayout
    <2>2. PICK r \in 1..Len(layout[b].rows) : \E i \in 1..Len(layout[b].rows[r].layout) : p = <<b, r, i>>
        BY <2>1
    <2>3. PICK i \in 1..Len(layout[b].rows[r].layout) : p = <<b, r, i>>
        BY <2>2
    <2>4. b >= 1 /\ r >= 1 /\ i >= 1
        BY <1>3 DEF LayoutTyped
    <2> QED
        BY <1>1, <2>3, <2>4 DEF Behind
<1>6. IsFiniteSet(SeatsBehind) /\ Len(seats) = Cardinality(SeatsBehind)
    BY <1>1, <1>5, FS_EmptySet
<1> QED
    BY <1>1, <1>3, <1>4, <1>6 DEF WalkInv

\* The coordinates of a place.
LEMMA CoordinatesOfPlaces ==
    ASSUME LayoutTyped, NEW p \in Walk!Places
    PROVE  /\ p = <<p[1], p[2], p[3]>>
           /\ p[1] \in 1..Len(layout) /\ p[2] \in 1..Len(layout[p[1]].rows)
           /\ p[3] \in 1..Len(layout[p[1]].rows[p[2]].layout)
           /\ p[1] \in Nat /\ p[2] \in Nat /\ p[3] \in Nat
<1>1. PICK b \in 1..Len(layout) : \E r \in 1..Len(layout[b].rows) :
                   \E i \in 1..Len(layout[b].rows[r].layout) : p = <<b, r, i>>
    BY PlacesOfTheLayout
<1>2. PICK r \in 1..Len(layout[b].rows) : \E i \in 1..Len(layout[b].rows[r].layout) : p = <<b, r, i>>
    BY <1>1
<1>3. PICK i \in 1..Len(layout[b].rows[r].layout) : p = <<b, r, i>>
    BY <1>2
<1>4. b \in Nat /\ r \in Nat /\ i \in Nat
    BY DEF LayoutTyped
<1> QED
    BY <1>3, <1>4

\* Places, and what is on them, stay as they are.
LEMMA PlacesStay == layout' = layout => UNCHANGED <<Walk!Places, LayoutTyped>>
                                        /\ \A p : SeatAt(p)' = SeatAt(p)
BY DEF Walk!Places, LayoutTyped, SeatAt

\* Beyond the end of a block or a row there is nothing to pass.
LEMMA NothingPassed ==
    ASSUME WalkInv, layout' = layout, seats' = seats, at' \in [1..3 -> Nat \ {0}],
           \A p \in Walk!Places : Behind(p)' <=> Behind(p)
    PROVE  WalkInv'
<1>1. SeatsBehind' = SeatsBehind
    BY PlacesStay DEF SeatsBehind
<1> QED
    BY <1>1, PlacesStay DEF WalkInv

LEMMA WalkStep == WalkInv /\ [Walk!Next]_Walk!vars => WalkInv'
<1> SUFFICES ASSUME WalkInv, [Walk!Next]_Walk!vars PROVE WalkInv'
    OBVIOUS
<1>1. /\ LayoutTyped /\ at \in [1..3 -> Nat \ {0}]
      /\ at[1] \in Nat \ {0} /\ at[2] \in Nat \ {0} /\ at[3] \in Nat \ {0}
    BY DEF WalkInv
<1>2. CASE UNCHANGED Walk!vars
    <2>1. UNCHANGED <<layout, at, seats>>
        BY <1>2 DEF Walk!vars
    <2>2. \A p \in Walk!Places : Behind(p)' <=> Behind(p)
        BY <2>1 DEF Behind
    <2> QED
        BY <1>1, <2>1, <2>2, NothingPassed
<1>3. CASE Walk!NextBlock /\ UNCHANGED layout
    <2>1. at' = <<at[1] + 1, 1, 1>> /\ seats' = seats
        BY <1>3 DEF Walk!NextBlock
    <2>2. at' \in [1..3 -> Nat \ {0}] /\ at'[1] = at[1] + 1 /\ at'[2] = 1 /\ at'[3] = 1
        BY <1>1, <2>1
    <2>3. at[2] > Len(layout[at[1]].rows) /\ Len(layout[at[1]].rows) \in Nat
        <3>1. at[1] <= Len(layout) /\ ~(at[2] <= Len(layout[at[1]].rows))
            BY <1>3 DEF Walk!NextBlock, Walk!InBlock, Walk!InRow
        <3>2. at[1] \in DOMAIN layout
            BY <1>1, <3>1
        <3> QED
            BY <1>1, <3>1, <3>2 DEF LayoutTyped
    <2>4. ASSUME NEW p \in Walk!Places PROVE Behind(p)' <=> Behind(p)
        <3>1. /\ p[1] \in Nat /\ p[2] \in Nat /\ p[3] \in Nat /\ p[2] \in 1..Len(layout[p[1]].rows)
              /\ p[3] \in 1..Len(layout[p[1]].rows[p[2]].layout)
            BY <1>1, CoordinatesOfPlaces
        <3>2. p[1] = at[1] => p[2] < at[2]
            BY <1>1, <2>3, <3>1
        <3>3. ~(p[2] < 1) /\ ~(p[3] < 1)
            BY <3>1
        <3> QED
            BY <1>1, <2>2, <3>1, <3>2, <3>3 DEF Behind
    <2> QED
        BY <1>3, <2>1, <2>2, <2>4, NothingPassed
<1>4. CASE Walk!NextRow /\ UNCHANGED layout
    <2>1. at' = <<at[1], at[2] + 1, 1>> /\ seats' = seats
        BY <1>4 DEF Walk!NextRow
    <2>2. at' \in [1..3 -> Nat \ {0}] /\ at'[1] = at[1] /\ at'[2] = at[2] + 1 /\ at'[3] = 1
        BY <1>1, <2>1
    <2>3. /\ at[1] \in DOMAIN layout /\ at[2] \in DOMAIN layout[at[1]].rows
          /\ at[3] > Len(layout[at[1]].rows[at[2]].layout)
        BY <1>1, <1>4 DEF Walk!NextRow, Walk!InRow, Walk!InBlock, Walk!TheRow, LayoutTyped
    <2>4. Len(layout[at[1]].rows[at[2]].layout) \in Nat
        BY <1>1, <2>3 DEF LayoutTyped
    <2>5. ASSUME NEW p \in Walk!Places PROVE Behind(p)' <=> Behind(p)
        <3>1. /\ p[1] \in Nat /\ p[2] \in Nat /\ p[3] \in Nat
              /\ p[3] \in 1..Len(layout[p[1]].rows[p[2]].layout)
            BY <1>1, CoordinatesOfPlaces
        <3>2. p[1] = at[1] /\ p[2] = at[2] => p[3] < at[3]
            BY <1>1, <2>3, <2>4, <3>1
        <3>3. ~(p[3] < 1)
            BY <3>1
        <3> QED
            BY <1>1, <2>2, <3>1, <3>2, <3>3 DEF Behind
    <2> QED
        BY <1>4, <2>1, <2>2, <2>5, NothingPassed
<1>5. CASE Walk!NextSeat /\ UNCHANGED layout
    <2>1. /\ at' = [at EXCEPT ![3] = @ + 1]
          /\ seats' = IF layout[at[1]].rows[at[2]].layout[at[3]] = "X" THEN seats
                      ELSE Append(seats, <<layout[at[1]].name, layout[at[1]].rows[at[2]].name, at[3]>>)
        BY <1>5 DEF Walk!NextSeat, Walk!TheRow
    <2>2. at' \in [1..3 -> Nat \ {0}] /\ at'[1] = at[1] /\ at'[2] = at[2] /\ at'[3] = at[3] + 1
        BY <1>1, <2>1
    <2>3. /\ at[1] \in 1..Len(layout) /\ at[2] \in 1..Len(layout[at[1]].rows)
          /\ at[3] \in 1..Len(layout[at[1]].rows[at[2]].layout)
        <3>1. at[1] \in DOMAIN layout /\ at[1] \in 1..Len(layout)
            BY <1>1, <1>5 DEF Walk!NextSeat, Walk!InRow, Walk!InBlock, LayoutTyped
        <3>2. at[2] \in DOMAIN layout[at[1]].rows /\ at[2] \in 1..Len(layout[at[1]].rows)
            BY <1>1, <1>5, <3>1 DEF Walk!NextSeat, Walk!InRow, LayoutTyped
        <3>3. at[3] \in 1..Len(layout[at[1]].rows[at[2]].layout)
            BY <1>1, <1>5, <3>1, <3>2 DEF Walk!NextSeat, Walk!TheRow, LayoutTyped
        <3> QED
            BY <3>1, <3>2, <3>3
    <2> DEFINE here == <<at[1], at[2], at[3]>>
    <2>4. here \in Walk!Places /\ here[1] = at[1] /\ here[2] = at[2] /\ here[3] = at[3]
        BY <1>1, <2>3, PlacesOfTheLayout
    <2>5. ~Behind(here)
        BY <1>1, <2>4 DEF Behind
    <2>6. ASSUME NEW p \in Walk!Places PROVE Behind(p)' <=> Behind(p) \/ p = here
        <3>1. p = <<p[1], p[2], p[3]>> /\ p[1] \in Nat /\ p[2] \in Nat /\ p[3] \in Nat
            BY <1>1, CoordinatesOfPlaces
        <3>2. p = here <=> p[1] = at[1] /\ p[2] = at[2] /\ p[3] = at[3]
            BY <2>4, <3>1
        <3> QED
            BY <1>1, <2>2, <3>1, <3>2 DEF Behind
    <2> HIDE DEF here
    <2>7. Walk!Places' = Walk!Places /\ LayoutTyped' /\ \A p : SeatAt(p)' = SeatAt(p)
        BY <1>1, <1>5, PlacesStay
    <2>8. SeatAt(here) <=> layout[at[1]].rows[at[2]].layout[at[3]] # "X"
        BY <2>4 DEF SeatAt, Walk!IsSeat
    <2>9. CASE SeatAt(here)
        <3>1. SeatsBehind' = SeatsBehind \union {here}
            BY <2>4, <2>6, <2>7, <2>9 DEF SeatsBehind
        <3>2. here \notin SeatsBehind
            BY <2>5 DEF SeatsBehind
        <3>3. IsFiniteSet(SeatsBehind') /\ Cardinality(SeatsBehind') = Cardinality(SeatsBehind) + 1
            BY <3>1, <3>2, FS_AddElement DEF WalkInv
        <3>4. layout[at[1]] \in Walk!Block /\ layout[at[1]].rows[at[2]] \in Walk!Row
            BY <1>1, <2>3 DEF LayoutTyped
        <3>5. <<layout[at[1]].name, layout[at[1]].rows[at[2]].name, at[3]>> \in Name \X Name \X Nat
            BY <1>1, <3>4 DEF Walk!Block, Walk!Row
        <3>6. seats' \in Seq(Name \X Name \X Nat) /\ Len(seats') = Len(seats) + 1
            BY <2>1, <2>8, <2>9, <3>5 DEF WalkInv
        <3> QED
            BY <2>2, <2>7, <3>3, <3>6 DEF WalkInv
    <2>10. CASE ~SeatAt(here)
        <3>1. \A p \in Walk!Places : SeatAt(p)' /\ Behind(p)' <=> SeatAt(p) /\ Behind(p)
            BY <2>6, <2>7, <2>10
        <3>2. SeatsBehind' = SeatsBehind
            BY ONLY <2>7, <3>1 DEF SeatsBehind
        <3>3. seats' = seats
            BY <2>1, <2>8, <2>10
        <3> QED
            BY <2>2, <2>7, <3>2, <3>3 DEF WalkInv
    <2> QED
        BY <2>9, <2>10
<1> QED
    BY <1>2, <1>3, <1>4, <1>5 DEF Walk!Next

\* When the iterator has passed all blocks it has passed all seats.
LEMMA PassedIsCounted == WalkInv => Walk!CountIsSeats
<1> SUFFICES ASSUME WalkInv, Walk!Done PROVE Len(seats) = Walk!SeatCount
    BY DEF Walk!CountIsSeats
<1>1. ASSUME NEW p \in Walk!Places PROVE Behind(p)
    <2>1. p[1] \in 1..Len(layout) /\ p[1] \in Nat
        BY CoordinatesOfPlaces DEF WalkInv
    <2>2. ~(at[1] <= Len(layout)) /\ at[1] \in Nat /\ Len(layout) \in Nat
        BY DEF Walk!Done, Walk!InBlock, WalkInv, LayoutTyped
    <2> QED
        BY <2>1, <2>2 DEF Behind
<1>2. SeatsBehind = {p \in Walk!Places : Walk!IsSeat(layout[p[1]].rows[p[2]].layout[p[3]])}
    BY <1>1 DEF SeatsBehind, SeatAt
<1>3. Walk!SeatCount = Cardinality(SeatsBehind)
    BY <1>2, WalkCounts, Zenon DEF Walk!SeatCount
<1> QED
    BY <1>3 DEF WalkInv

\* The iterator of a seatmap of any size keeps its inductive invariant.
THEOREM WalkInvariant == Walk!Spec => []WalkInv
BY WalkInitially, WalkStep, PTL DEF Walk!Spec

\* A showtime comes with exactly the seats its theater has then, however it is
\* edited, and a seatmap of any size yields as many seats as were counted.
THEOREM SeatsAddUpAlways == Sales!Spec /\ Walk!Spec => SeatsAddUp
<1>1. SalesInv /\ [Sales!Next]_Sales!vars => [NewOnesAreFurnished]_Sales!vars
    BY SalesStep
<1>2. Sales!Spec => [][NewOnesAreFurnished]_Sales!vars
    BY <1>1, SalesInvariant, PTL DEF Sales!Spec
<1>3. Sales!Spec => Sales!TicketsAreTheSeats
    BY <1>2, PTL DEF NewOnesAreFurnished, Sales!TicketsAreTheSeats
<1>4. Walk!Spec => []Walk!CountIsSeats
    BY WalkInvariant, PassedIsCounted, PTL
<1> QED
    BY <1>3, <1>4 DEF SeatsAddUp

=============================================================================
