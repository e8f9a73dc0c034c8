--------------------------- MODULE TicketHolding ---------------------------
(***************************************************************************)
(* Holds and purchase claims of seats in Redis, with a clock.              *)
(*                                                                         *)
(* Each seat has a key with its owner, and each customer one list per      *)
(* showtime; every key has an expiry of its own.  A Lua script is atomic   *)
(* but reaches one showtime only, so that a purchase over several          *)
(* showtimes claims, confirms, rolls back and releases them one by one.    *)
(*                                                                         *)
(* Purchase models what happens around these calls, for one showtime and   *)
(* with keys that may expire at any time.                                  *)
(***************************************************************************)
EXTENDS Naturals, FiniteSets, FiniteSetsExt

CONSTANTS
    User, Purchase, Ticket, Nobody,
    Showtime,     \* showtimes, numbered in the order of localeCompare
    ShowtimeOf,   \* the showtime of each ticket
    Buyer,        \* the customer of each purchase
    Items,        \* the tickets of each purchase
    HoldTtl,      \* TICKET_HOLD_DURATION_MS
    ClaimTtl,     \* PURCHASE_CLAIM_TTL_MS
    MaxTime       \* bound on the clock

ASSUME NameAssumption ==
    /\ Nobody \notin User \union Purchase
    /\ User \intersect Purchase = {}

ASSUME ItemAssumption ==
    /\ Showtime \subseteq Nat
    /\ ShowtimeOf \in [Ticket -> Showtime]
    /\ Buyer \in [Purchase -> User]
    /\ Items \in [Purchase -> (SUBSET Ticket) \ {{}}]
    /\ \A p \in Purchase : IsFiniteSet(Items[p])

ASSUME TimeAssumption == HoldTtl \in Nat \ {0} /\ ClaimTtl \in Nat \ {0} /\ MaxTime \in Nat

VARIABLES
    now,
    owner, until,        \* the value and the expiry of each ticket key
    listed, listUntil,   \* the lists of each user, and their expiry
    granted,             \* history: how long HOLD promised a seat to a user
    step,                \* where each purchase is
    left,                \* the showtimes its loop has still to reach
    rolling,             \* the showtimes whose rollback is under way
    captured, capturedList   \* the expiry times returned by CLAIM

keys == <<owner, until, listed, listUntil>>
process == <<step, left, rolling, captured, capturedList>>
vars == <<now, keys, granted, process>>

-----------------------------------------------------------------------------
Seats(s) == {t \in Ticket : ShowtimeOf[t] = s}

\* groupByShowtime: the showtimes of a purchase, and its tickets in one of them
Groups(p) == {ShowtimeOf[t] : t \in Items[p]}
Group(p, s) == Items[p] \intersect Seats(s)

\* the tickets of showtime s that a user's list names
Listed(u, s) == listed[u] \intersect Seats(s)

Step == {"idle", "claiming", "rollingBack", "refused", "claimed", "confirmed", "releasing", "released"}

TypeOK ==
    /\ now \in 0..MaxTime
    /\ owner \in [Ticket -> User \union Purchase \union {Nobody}]
    /\ until \in [Ticket -> Nat]
    /\ \A t \in Ticket : IF owner[t] = Nobody THEN until[t] = 0 ELSE until[t] > now
    /\ listed \in [User -> SUBSET Ticket]
    /\ listUntil \in [User -> [Showtime -> Nat]]
    /\ \A u \in User, s \in Showtime :
          IF Listed(u, s) = {} THEN listUntil[u][s] = 0 ELSE listUntil[u][s] > now
    /\ granted \in [Ticket -> [User -> Nat]]
    /\ step \in [Purchase -> Step]
    /\ left \in [Purchase -> SUBSET Showtime]
    /\ rolling \in [Purchase -> SUBSET Showtime]
    /\ captured \in [Purchase -> [Ticket -> Nat]]
    /\ capturedList \in [Purchase -> [Showtime -> Nat]]

Init ==
    /\ now = 0
    /\ owner = [t \in Ticket |-> Nobody] /\ until = [t \in Ticket |-> 0]
    /\ listed = [u \in User |-> {}]
    /\ listUntil = [u \in User |-> [s \in Showtime |-> 0]]
    /\ granted = [t \in Ticket |-> [u \in User |-> 0]]
    /\ step = [p \in Purchase |-> "idle"]
    /\ left = [p \in Purchase |-> {}] /\ rolling = [p \in Purchase |-> {}]
    /\ captured = [p \in Purchase |-> [t \in Ticket |-> 0]]
    /\ capturedList = [p \in Purchase |-> [s \in Showtime |-> 0]]

-----------------------------------------------------------------------------
(***************************************************************************)
(* The scripts' writes.  A script's reads are in the guards of its action. *)
(***************************************************************************)

\* SET key who PX (or, for Nobody, DEL key) for the tickets of T
SetOwner(T, who, expiry) ==
    /\ owner' = [t \in Ticket |-> IF t \in T THEN who ELSE owner[t]]
    /\ until' = [t \in Ticket |-> IF t \in T THEN expiry ELSE until[t]]

\* SET userKey list PX, or DEL userKey when nothing is listed
SetList(u, s, T, expiry) ==
    /\ listed' = [listed EXCEPT ![u] = (@ \ Seats(s)) \union T]
    /\ listUntil' = [listUntil EXCEPT ![u][s] = IF T = {} THEN 0 ELSE expiry]

\* the previous tickets are given up without looking at their owner
GivenUp_Faulty(u, s, T) == Listed(u, s) \ T

\* HOLD_TICKETS: the seats of the previous list that the user still owns
GivenUp(u, s, T) == {t \in Listed(u, s) \ T : owner[t] = u}

\* holdTickets, of seats of one showtime; refused when one has another owner
Hold(u, s, T) ==
    /\ T # {} /\ T \subseteq Seats(s)
    /\ \A t \in T : owner[t] \in {u, Nobody}
    /\ LET D == GivenUp(u, s, T) IN
       /\ owner' = [t \in Ticket |-> IF t \in T THEN u ELSE IF t \in D THEN Nobody ELSE owner[t]]
       /\ until' = [t \in Ticket |-> IF t \in T THEN now + HoldTtl ELSE IF t \in D THEN 0 ELSE until[t]]
    /\ SetList(u, s, T, now + HoldTtl)
    /\ granted' = [t \in Ticket |-> IF t \in T THEN [granted[t] EXCEPT ![u] = now + HoldTtl] ELSE granted[t]]
    /\ UNCHANGED <<now, process>>

-----------------------------------------------------------------------------
(***************************************************************************)
(* The calls of a purchase.                                                *)
(***************************************************************************)

GoTo(p, s) == step' = [step EXCEPT ![p] = s]

\* The loop of p is over, or goes on.  It starts anew with step s.
Advance(p, s) ==
    IF Cardinality(left[p]) = 1
       THEN GoTo(p, s) /\ left' = [left EXCEPT ![p] = Groups(p)]
       ELSE UNCHANGED step /\ left' = [left EXCEPT ![p] = @ \ {Min(@)}]

\* validateHeldTickets: the lists decide, not the owners of the keys
Start(p) ==
    /\ step[p] = "idle"
    /\ Items[p] \subseteq listed[Buyer[p]]
    /\ GoTo(p, "claiming")
    /\ left' = [left EXCEPT ![p] = Groups(p)]
    /\ UNCHANGED <<now, keys, granted, rolling, captured, capturedList>>

OwnsAll(T, who) == \A t \in T : owner[t] = who

\* claimTicketsForPurchase returns, and its captured times go out of scope
Forget(p) ==
    /\ captured' = [captured EXCEPT ![p] = [t \in Ticket |-> 0]]
    /\ capturedList' = [capturedList EXCEPT ![p] = [s \in Showtime |-> 0]]

\* CLAIM_TICKETS of the next showtime.  The tickets of the list that are not
\* bought stay in it, unless their owner has changed.
Claim(p) ==
    /\ step[p] = "claiming"
    /\ LET u == Buyer[p]
           s == Min(left[p])
           T == Group(p, s)
           remaining == {t \in Listed(u, s) \ T : owner[t] = u}
       IN
       /\ OwnsAll(T, u)
       /\ IF left[p] = {s} THEN Forget(p)
          ELSE /\ captured' = [captured EXCEPT ![p] = [t \in Ticket |-> IF t \in T THEN until[t] ELSE @[t]]]
               /\ capturedList' = [capturedList EXCEPT ![p][s] = listUntil[u][s]]
       /\ SetOwner(T, p, now + ClaimTtl)
       /\ SetList(u, s, remaining, listUntil[u][s])
    /\ Advance(p, "claimed")
    /\ UNCHANGED <<now, granted, rolling>>

\* one owner is not the buyer: rollbackGroups for the groups before this one
ClaimRefused(p) ==
    /\ step[p] = "claiming"
    /\ ~OwnsAll(Group(p, Min(left[p])), Buyer[p])
    /\ LET claimed == Groups(p) \ left[p] IN
       /\ rolling' = [rolling EXCEPT ![p] = claimed]
       /\ GoTo(p, IF claimed = {} THEN "refused" ELSE "rollingBack")
    /\ UNCHANGED <<now, keys, granted, left, captured, capturedList>>

\* a claim of p whose hold would still last
Restorable(p, s) == {t \in Group(p, s) : owner[t] = p /\ captured[p][t] > now}

RestoredUntil(p, t) == captured[p][t]

\* and one whose hold has expired: the claim is removed
Dropped(p, s) == {t \in Group(p, s) : owner[t] = p} \ Restorable(p, s)

\* the list ends when the captured one would have
MergedUntil_Faulty(p, s) == capturedList[p][s]

\* ROLLBACK: the list lasts as long as the longest of what it names
MergedUntil(p, s) ==
    Max({capturedList[p][s], listUntil[Buyer[p]][s]}
        \union {captured[p][t] : t \in Restorable(p, s)})

\* the effect of ROLLBACK_PURCHASE_CLAIM of one showtime
RestoreHolds(p, s) ==
    LET u == Buyer[p]
        R == Restorable(p, s)
        D == Dropped(p, s)
        kept == {t \in Listed(u, s) : owner[t] = u}
    IN
    /\ owner' = [t \in Ticket |-> IF t \in R THEN u ELSE IF t \in D THEN Nobody ELSE owner[t]]
    /\ until' = [t \in Ticket |->
          IF t \in R THEN RestoredUntil(p, t) ELSE IF t \in D THEN 0 ELSE until[t]]
    /\ IF R = {} THEN UNCHANGED <<listed, listUntil>>
       ELSE SetList(u, s, kept \union R, MergedUntil(p, s))

\* Promise.all: the rollbacks end in any order
Rollback(p, s) ==
    /\ s \in rolling[p]
    /\ RestoreHolds(p, s)
    /\ rolling' = [rolling EXCEPT ![p] = @ \ {s}]
    /\ IF rolling[p] = {s} THEN Forget(p) ELSE UNCHANGED <<captured, capturedList>>
    /\ IF step[p] = "rollingBack" /\ rolling[p] = {s} THEN GoTo(p, "refused") ELSE UNCHANGED step
    /\ UNCHANGED <<now, granted, left>>

ConfirmedUntil(t) == now + ClaimTtl

\* CONFIRM_PURCHASE_CLAIM of the next showtime
Confirm(p) ==
    /\ step[p] = "claimed"
    /\ LET T == Group(p, Min(left[p])) IN
       /\ OwnsAll(T, p)
       /\ until' = [t \in Ticket |-> IF t \in T THEN ConfirmedUntil(t) ELSE until[t]]
    /\ Advance(p, "confirmed")
    /\ UNCHANGED <<now, owner, listed, listUntil, granted, rolling, captured, capturedList>>

\* The caller compensates a claim or a confirmation that was refused, a call
\* that failed (after which rollbacks may still be under way) or any later
\* error; and it cleans up after a sale.
Compensate(p) ==
    /\ step[p] \in {"claiming", "rollingBack", "refused", "claimed", "confirmed"}
    /\ GoTo(p, "releasing")
    /\ left' = [left EXCEPT ![p] = Groups(p)]
    /\ IF rolling[p] = {} THEN Forget(p) ELSE UNCHANGED <<captured, capturedList>>
    /\ UNCHANGED <<now, keys, granted, rolling>>

\* RELEASE_PURCHASE_CLAIM of one showtime
Release(p, s) ==
    /\ step[p] = "releasing"
    /\ s \in left[p]
    /\ SetOwner({t \in Group(p, s) : owner[t] = p}, Nobody, 0)
    /\ left' = [left EXCEPT ![p] = @ \ {s}]
    /\ IF left[p] = {s} THEN GoTo(p, "released") ELSE UNCHANGED step
    /\ UNCHANGED <<now, listed, listUntil, granted, rolling, captured, capturedList>>

-----------------------------------------------------------------------------
\* keys whose expiry is reached are gone
Tick ==
    /\ now < MaxTime
    /\ now' = now + 1
    /\ LET over == {t \in Ticket : until[t] = now + 1}
           ended(u) == {s \in Showtime : listUntil[u][s] = now + 1}
       IN
       /\ SetOwner(over, Nobody, 0)
       /\ listed' = [u \in User |-> {t \in listed[u] : ShowtimeOf[t] \notin ended(u)}]
       /\ listUntil' = [u \in User |-> [s \in Showtime |-> IF s \in ended(u) THEN 0 ELSE listUntil[u][s]]]
    /\ UNCHANGED <<granted, process>>

Next ==
    \/ Tick
    \/ \E u \in User, s \in Showtime : \E T \in SUBSET Seats(s) : Hold(u, s, T)
    \/ \E p \in Purchase :
          \/ Start(p) \/ Claim(p) \/ ClaimRefused(p) \/ Confirm(p) \/ Compensate(p)
          \/ \E s \in Showtime : Rollback(p, s) \/ Release(p, s)

Spec == Init /\ [][Next]_vars

-----------------------------------------------------------------------------
(***************************************************************************)
(* Properties.                                                             *)
(***************************************************************************)

\* Whatever a user holds is in their list for as long as they hold it: the list
\* is what a purchase is validated with and what the next HOLD gives back.  Each
\* script keeps keys and list together although they expire separately and a
\* rollback merges a captured list into whatever the user did meanwhile.
NoHiddenHold ==
    \A t \in Ticket, u \in User :
        owner[t] = u => t \in listed[u] /\ until[t] <= listUntil[u][ShowtimeOf[t]]

\* No detour over a claim and its rollback makes a hold outlast the time HOLD
\* gave it (ROLLBACK's captured expiry).
HoldIsNotExtended ==
    \A t \in Ticket, u \in User : owner[t] = u => until[t] <= granted[t][u]

\* But for the clock, a user loses a seat only together with its entry in their
\* list: no HOLD, rollback or release of somebody else, however stale their
\* list or claim, takes it away.
HoldsEndKnowingly ==
    [][\A t \in Ticket, u \in User :
          now' = now /\ owner[t] = u /\ owner'[t] # u => t \notin listed'[u]]_vars

\* Once a claim over several showtimes has been refused, nothing is left of it.
RefusalLeavesNothing ==
    \A p \in Purchase : step[p] = "refused" => \A t \in Ticket : owner[t] # p

\* When confirmPurchaseClaims returns true every seat is claimed, those of the
\* showtimes it confirmed first included, however long it took.
ConfirmedIsWhole ==
    [][\A p \in Purchase :
          step[p] # "confirmed" /\ step'[p] = "confirmed" => \A t \in Items[p] : owner'[t] = p]_vars

\* Holds and claims last as long as they were promised, and are gone when they
\* are refused.
HoldsAreKept == TypeOK /\ NoHiddenHold /\ HoldIsNotExtended /\ RefusalLeavesNothing

\* No step takes a seat from somebody who does not learn of it, and no purchase
\* is confirmed without all of its seats.
ClaimsAreSound == HoldsEndKnowingly /\ ConfirmedIsWhole

=============================================================================
