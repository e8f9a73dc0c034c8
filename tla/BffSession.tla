----------------------------- MODULE BffSession -----------------------------
(***************************************************************************)
(* The session of one browser behind the web front ends.  The browser's    *)
(* cookies hold a pair of tokens; parallel requests carry the pair the jar *)
(* held when they were sent, reach one of several BFF instances, and their *)
(* responses, with or without new cookies, come back in any order.  An     *)
(* instance whose request was refused for its access token rotates the     *)
(* refresh token once for all requests that carry it, and keeps the result *)
(* for another second.                                                     *)
(*                                                                         *)
(* The pairs of the session are numbered by rotation.  The API's rotation  *)
(* is one step here (JwtAuth has its interleavings).  A request does not   *)
(* take as long as an access token lives (30 minutes).                     *)
(***************************************************************************)
EXTENDS Naturals

CONSTANTS Request, Bff,
    NoSession,        \* null: no tokens, and no instance
    Keep,             \* what a response without Set-Cookie does to the jar
    MaxRotations      \* bound on the rotations of the session

Pair == 0..MaxRotations

CookieAssumption == NoSession \notin Pair \union Bff /\ Keep \notin Pair \union {NoSession}
RotationAssumption == MaxRotations \in Nat

VARIABLES
    jar,              \* the pair in the cookies
    live,             \* the pair whose refresh token the API has stored
    tombstone,        \* of each refresh token: none, live, lapsed
    expired,          \* the pairs whose access token has expired
    flight,           \* refreshFlights of each instance: none, flying or the result
    host, carried,    \* where a request is handled, and with which pair
    step, cookies,    \* where it is, and what its response does to the jar
    loggedOut,        \* history: a logout was sent
    slow,             \* history: a tombstone lapsed with a request for it on its way
    lost              \* history: the answer of a rotation was lost

api == <<live, tombstone, expired>>
history == <<loggedOut, slow, lost>>
vars == <<jar, api, flight, host, carried, step, cookies, history>>

Result == {"rotated", "concurrent", "refused", "failed"}
Cookies == Pair \union {NoSession, Keep}

TypeOK ==
    /\ jar \in Pair \union {NoSession} /\ live \in Pair \union {NoSession}
    /\ tombstone \in [Pair -> {"none", "live", "lapsed"}]
    /\ expired \subseteq Pair
    /\ flight \in [Bff -> [Pair -> Result \union {"none", "flying"}]]
    /\ host \in [Request -> Bff \union {NoSession}] /\ carried \in [Request -> Pair \union {NoSession}]
    /\ step \in [Request -> {"idle", "call", "logout", "refresh", "wait", "retry", "reply"}]
    /\ cookies \in [Request -> Cookies]
    /\ \A q \in Request : step[q] = "retry" => cookies[q] = carried[q] + 1
    /\ loggedOut \in BOOLEAN /\ slow \in BOOLEAN /\ lost \in BOOLEAN

Init ==
    /\ jar = 0 /\ live = 0
    /\ tombstone = [g \in Pair |-> "none"] /\ expired = {}
    /\ flight = [b \in Bff |-> [g \in Pair |-> "none"]]
    /\ host = [q \in Request |-> NoSession]
    /\ carried = [q \in Request |-> NoSession]
    /\ step = [q \in Request |-> "idle"]
    /\ cookies = [q \in Request |-> Keep]
    /\ loggedOut = FALSE /\ slow = FALSE /\ lost = FALSE

-----------------------------------------------------------------------------
Respond(q, c) ==
    /\ step' = [step EXCEPT ![q] = "reply"]
    /\ cookies' = [cookies EXCEPT ![q] = c]

Send(q) ==
    /\ step[q] = "idle"
    /\ carried' = [carried EXCEPT ![q] = jar]
    /\ cookies' = [cookies EXCEPT ![q] = Keep]
    /\ \E b \in Bff : host' = [host EXCEPT ![q] = b]
    /\ \E s \in {"call", "logout"} :
          /\ step' = [step EXCEPT ![q] = s]
          /\ loggedOut' = (loggedOut \/ s = "logout")
    /\ UNCHANGED <<jar, api, flight, slow, lost>>

\* a request that fails otherwise than with 401 is copied to the browser
Call(q) ==
    /\ step[q] = "call"
    /\ \/ Respond(q, Keep)
       \/ /\ carried[q] \in expired
          /\ step' = [step EXCEPT ![q] = "refresh"]
          /\ UNCHANGED cookies
    /\ UNCHANGED <<jar, api, flight, host, carried, history>>

\* the cookies go, whether or not the API could revoke the family
LogOut(q) ==
    /\ step[q] = "logout"
    /\ Respond(q, NoSession)
    /\ \/ carried[q] # NoSession /\ live' = NoSession
       \/ UNCHANGED live
    /\ UNCHANGED <<jar, tombstone, expired, flight, host, carried, history>>

-----------------------------------------------------------------------------
\* what the result of a rotation means for a request that waited for it
Apply(g, r) ==
    CASE r = "rotated" -> <<"retry", g + 1>>
      [] r = "refused" -> <<"reply", NoSession>>
      [] r \in {"concurrent", "failed"} -> <<"reply", Keep>>

\* refreshAuthTokens: take the flight there is, or start one
JoinFlight(q) ==
    /\ step[q] = "refresh"
    /\ LET g == carried[q]  r == flight[host[q]][g] IN
       IF r \in Result
          THEN /\ step' = [step EXCEPT ![q] = Apply(g, r)[1]]
               /\ cookies' = [cookies EXCEPT ![q] = Apply(g, r)[2]]
               /\ UNCHANGED flight
          ELSE /\ step' = [step EXCEPT ![q] = "wait"]
               /\ flight' = [flight EXCEPT ![host[q]][g] = "flying"]
               /\ UNCHANGED cookies
    /\ UNCHANGED <<jar, api, host, carried, history>>

\* what the API makes of refresh token g
Rotate(g) ==
    IF live = g THEN [result |-> "rotated", live |-> g + 1]
    ELSE IF tombstone[g] = "live" THEN [result |-> "concurrent", live |-> live]
    ELSE [result |-> "refused", live |-> NoSession]

Land(b, g, r) ==
    LET waiting == {q \in Request : step[q] = "wait" /\ host[q] = b /\ carried[q] = g} IN
    /\ flight' = [flight EXCEPT ![b][g] = r]
    /\ step' = [q \in Request |-> IF q \in waiting THEN Apply(g, r)[1] ELSE step[q]]
    /\ cookies' = [q \in Request |-> IF q \in waiting THEN Apply(g, r)[2] ELSE cookies[q]]

\* performRefresh; the call may fail before it has an effect or after
PerformRefresh(b, g) ==
    /\ flight[b][g] = "flying"
    /\ \/ /\ live' = Rotate(g).live
          /\ tombstone' = [tombstone EXCEPT ![g] = IF live = g THEN "live" ELSE @]
          /\ \/ Land(b, g, Rotate(g).result) /\ UNCHANGED lost
             \/ Land(b, g, "failed") /\ lost' = TRUE
       \/ Land(b, g, "failed") /\ UNCHANGED <<live, tombstone, lost>>
    /\ UNCHANGED <<jar, expired, host, carried, loggedOut, slow>>

\* the result of a flight is forgotten
Forget(b, g) ==
    /\ flight[b][g] \in Result
    /\ flight' = [flight EXCEPT ![b][g] = "none"]
    /\ UNCHANGED <<jar, api, host, carried, step, cookies, history>>

\* a second call that fails takes the cookies with it
RetriedCookies_Faulty(q) == {cookies[q], Keep}

\* the new cookies go out however the second call ends
RetriedCookies(q) == {cookies[q]}

Retry(q) ==
    /\ step[q] = "retry"
    /\ \E c \in RetriedCookies(q) : Respond(q, c)
    /\ UNCHANGED <<jar, api, flight, host, carried, history>>

\* responses overtake one another
Deliver(q) ==
    /\ step[q] = "reply"
    /\ jar' = IF cookies[q] = Keep THEN jar ELSE cookies[q]
    /\ step' = [step EXCEPT ![q] = "idle"]
    /\ cookies' = [cookies EXCEPT ![q] = Keep]
    /\ carried' = [carried EXCEPT ![q] = NoSession] /\ host' = [host EXCEPT ![q] = NoSession]
    /\ UNCHANGED <<api, flight, history>>

-----------------------------------------------------------------------------
\* 30 minutes: what was there before the pair is over; the last pair that the
\* bound allows does not expire
AccessExpires(g) ==
    /\ g \notin expired /\ g < MaxRotations
    /\ g > 0 => tombstone[g - 1] # "none"
    /\ \A q \in Request : carried[q] \notin 0..(g - 1)
    /\ \A b \in Bff, h \in 0..(g - 1) : flight[b][h] = "none"
    /\ expired' = expired \union {g}
    /\ UNCHANGED <<jar, live, tombstone, flight, host, carried, step, cookies, history>>

\* two seconds
TombstoneLapses(g) ==
    /\ tombstone[g] = "live"
    /\ tombstone' = [tombstone EXCEPT ![g] = "lapsed"]
    /\ slow' = (slow \/ \E q \in Request : carried[q] = g)
    /\ UNCHANGED <<jar, live, expired, flight, host, carried, step, cookies, loggedOut, lost>>

Next ==
    \/ \E q \in Request :
          Send(q) \/ Call(q) \/ LogOut(q) \/ JoinFlight(q) \/ Retry(q) \/ Deliver(q)
    \/ \E b \in Bff, g \in Pair : PerformRefresh(b, g) \/ Forget(b, g)
    \/ \E g \in Pair : AccessExpires(g) \/ TombstoneLapses(g)

Spec == Init /\ [][Next]_vars

-----------------------------------------------------------------------------
\* nothing the front ends could not cope with has happened
Undisturbed == ~loggedOut /\ ~slow /\ ~lost

\* A user who did not log out is not logged out by the number of his own
\* requests, by the order of their responses, by the BFF instances they
\* reached or by calls that failed before they had an effect.
SessionSurvives == Undisturbed => jar # NoSession /\ live # NoSession

\* When all responses have arrived the jar holds the pair the API expects: no
\* response puts back an older pair or takes away a newer one.
JarIsCurrent ==
    Undisturbed /\ (\A q \in Request : step[q] = "idle") => jar = live
=============================================================================
