------------------------------ MODULE Gateway ------------------------------
(***************************************************************************)
(* The way of a request: from the browser to a front end's server (BFF),   *)
(* which checks it, reads its body and calls the API; past the guard of    *)
(* its route to the handler; and back.  The BFF repeats a request that was *)
(* refused for its access token once, with a rotated one.  Meanwhile other *)
(* requests end the sessions of the account or delete it.                  *)
(*                                                                         *)
(* A session is named by the authVersion in its tokens.  What two requests *)
(* with one refresh token do to each other is in BffSession and JwtAuth.   *)
(***************************************************************************)
EXTENDS Naturals, Sequences

CONSTANTS
    Request,
    NoSession,        \* no tokens in the cookies
    Keep,             \* what an answer without Set-Cookie does to them
    Sizes,            \* how long a body may be
    MaxBody           \* MAX_REQUEST_BODY_BYTES

\* the front ends, by AUTH_PREFIX: user-app and console.  The audience of their
\* tokens has the same name.
App == {"users", "admins"}

Path ==
    (App \X {"login", "logout", "refresh", "me", "end"})
        \union {<<"movies", "list">>, <<"movies", "add">>, <<"views", "home">>}

VARIABLES
    accounts,         \* the account of each app's user: its authVersion; not deleted
    jar,              \* the session in each app's cookies
    request,          \* where each request is, and what it carries
    runs,             \* history: the bodies with which its handler had an effect
    ended,            \* history: an app's sessions below this are known to be over
    stale             \* history: the requests sent in such a session

vars == <<accounts, jar, request, runs, ended, stale>>

Version == 0..2
BodyAssumption == 0 \in Sizes /\ Sizes \subseteq Nat /\ MaxBody \in Nat
NameAssumption == NoSession \notin Version /\ Keep \notin Version \union {NoSession}
Session == Version \union {NoSession}

Steps == {"idle", "gate", "body", "call", "logout", "guard", "validate", "handle",
          "response", "refresh", "reply", "done"}
Status == {"none", "ok", "401", "403", "404", "409", "413", "500", "502", "other"}

TypeOK ==
    /\ accounts \in [App -> [version : Version, active : BOOLEAN]]
    /\ jar \in [App -> Session]
    /\ \A r \in Request : LET q == request[r] IN
          /\ q.step \in Steps /\ q.status \in Status
          /\ q.app \in App /\ q.path \in Path /\ q.size \in Sizes /\ q.read <= q.size
          /\ {q.declared, q.sameOrigin, q.rotated} \subseteq BOOLEAN
          /\ q.token \in Session /\ q.cookies \in Session \union {Keep}
    /\ ended \in [App -> Version] /\ stale \subseteq Request

Fresh ==
    [step |-> "idle", app |-> "users", path |-> <<"views", "home">>, size |-> 0, read |-> 0,
     declared |-> FALSE, sameOrigin |-> TRUE, token |-> NoSession, rotated |-> FALSE,
     status |-> "none", cookies |-> Keep]

Init ==
    /\ accounts = [a \in App |-> [version |-> 0, active |-> TRUE]]
    /\ jar \in [App -> {0, NoSession}]
    /\ request = [r \in Request |-> Fresh]
    /\ runs = [r \in Request |-> <<>>]
    /\ ended = [a \in App |-> 0] /\ stale = {}

-----------------------------------------------------------------------------
Operation(p) == p[2]

\* the routes by GET
Reads(p) == Operation(p) \in {"me", "list", "home"}

\* the guard of a route: the audience it asks for
Audience(p) ==
    CASE Operation(p) \in {"me", "end"} -> p[1]
      [] Operation(p) = "add" -> "admins"
      [] Operation(p) = "home" -> "users"
      [] OTHER -> "none"

\* @OptionalAuth
IsOptional(p) == Operation(p) = "home"

\* isBlockedAuthEndpoint: the other front end's, and refresh
IsBlocked(a, p) ==
    /\ p[1] \in App /\ Operation(p) \in {"login", "logout", "refresh"}
    /\ p[1] # a \/ Operation(p) = "refresh"

GoTo(r, s) == request' = [request EXCEPT ![r].step = s]

Reply(r, status, c) ==
    request' = [request EXCEPT ![r].step = "reply", ![r].status = status, ![r].cookies = c]

\* a browser sends a request with the cookies it has; a page of another origin
\* may send it too
Send(r) ==
    /\ request[r].step = "idle"
    /\ \E a \in App, p \in Path, n \in Sizes, d \in BOOLEAN, o \in BOOLEAN :
          /\ Reads(p) => n = 0 /\ ~d /\ o
          /\ request' = [request EXCEPT ![r] =
                [Fresh EXCEPT !.step = "gate", !.app = a, !.path = p, !.size = n,
                              !.declared = d, !.sameOrigin = o, !.token = jar[a]]]
          /\ stale' = IF jar[a] # NoSession /\ jar[a] < ended[a] THEN stale \union {r} ELSE stale
    /\ UNCHANGED <<accounts, jar, runs, ended>>

\* hasSameOrigin and isBlockedAuthEndpoint
Gate(r) ==
    LET q == request[r] IN
    /\ q.step = "gate"
    /\ IF ~q.sameOrigin THEN Reply(r, "403", Keep)
       ELSE IF IsBlocked(q.app, q.path) THEN Reply(r, "404", Keep)
       ELSE IF q.declared /\ q.size > MaxBody THEN Reply(r, "413", Keep)
       ELSE GoTo(r, "body")
    /\ UNCHANGED <<accounts, jar, runs, ended, stale>>

\* readBody counts what it has read
TooLong(n) == n > MaxBody

ReadBody(r) ==
    LET q == request[r] IN
    /\ q.step = "body"
    /\ IF q.read = q.size
          THEN GoTo(r, IF Operation(q.path) = "logout" THEN "logout" ELSE "call")
          ELSE \E n \in (q.read + 1)..q.size :
                  IF TooLong(n) THEN Reply(r, "413", Keep)
                  ELSE request' = [request EXCEPT ![r].read = n]
    /\ UNCHANGED <<accounts, jar, runs, ended, stale>>

\* the cookies go, whether or not the API could be reached
LogOut(r) ==
    /\ request[r].step = "logout"
    /\ \/ Reply(r, "ok", NoSession)
       \/ request[r].token # NoSession /\ Reply(r, "502", NoSession)
    /\ UNCHANGED <<accounts, jar, runs, ended, stale>>

-----------------------------------------------------------------------------
Respond(r, status) ==
    request' = [request EXCEPT ![r].step = "response", ![r].status = status]

\* callApi
Call(r) ==
    /\ request[r].step = "call"
    /\ GoTo(r, "guard")
    /\ UNCHANGED <<accounts, jar, runs, ended, stale>>

\* canActivate: a token of this audience that has not expired.  One that was
\* just rotated has not.  The cookie of an expired token may be gone already:
\* the home page is then shown to nobody in particular.
Guard(r) ==
    LET q == request[r]  a == Audience(q.path) IN
    /\ q.step = "guard"
    /\ IF a = "none" \/ (q.token = NoSession /\ IsOptional(q.path)) THEN GoTo(r, "handle")
       ELSE \/ q.token # NoSession /\ q.app = a /\ GoTo(r, "validate")
            \/ ~(q.token # NoSession /\ q.app = a /\ q.rotated) /\ Respond(r, "401")
            \/ /\ IsOptional(q.path) /\ ~q.rotated
               /\ request' = [request EXCEPT ![r].step = "handle", ![r].token = NoSession]
    /\ UNCHANGED <<accounts, jar, runs, ended, stale>>

\* isAuthPayloadActive
IsAuthPayloadActive(a, v) == accounts[a].active /\ accounts[a].version = v

Validate(r) ==
    LET q == request[r] IN
    /\ q.step = "validate"
    /\ IF IsAuthPayloadActive(q.app, q.token) THEN GoTo(r, "handle") ELSE Respond(r, "401")
    /\ UNCHANGED <<accounts, jar, runs, ended, stale>>

\* logout-all and a change of the password advance the version, a deletion
\* (of a user) ends the account as well; an account that is gone answers 404
EndSessions(a) ==
    /\ accounts[a].active /\ accounts[a].version < 2
    /\ \E active \in IF a = "users" THEN BOOLEAN ELSE {TRUE} :
          accounts' = [accounts EXCEPT ![a] = [version |-> @.version + 1, active |-> active]]

\* A handler has its effect, and may fail all the same in what follows, or it
\* refuses.  A login makes a session; with a wrong password it answers 401.
Handle(r) ==
    LET q == request[r] IN
    /\ q.step = "handle"
    /\ \/ /\ runs' = [runs EXCEPT ![r] = Append(@, q.read)]
          /\ IF Operation(q.path) = "login"
                THEN /\ accounts[q.app].active
                     /\ request' = [request EXCEPT ![r].step = "response", ![r].status = "ok",
                                                   ![r].cookies = accounts[q.app].version]
                ELSE Respond(r, "ok") \/ Respond(r, "other")
          /\ IF Operation(q.path) = "end" THEN EndSessions(q.path[1]) ELSE UNCHANGED accounts
       \/ /\ Respond(r, IF Operation(q.path) = "login" THEN "401" ELSE "other")
          /\ UNCHANGED <<accounts, runs>>
    /\ UNCHANGED <<jar, ended, stale>>

-----------------------------------------------------------------------------
\* whatever failed is tried again with a new token
IsRefused_Faulty(q) == q.status \in {"401", "other"} /\ q.token # NoSession

IsRefused(q) ==
    q.status = "401" /\ q.token # NoSession /\ Operation(q.path) # "login"

\* what the BFF makes of the answer; that of a repeated request is copied
Receive(r) ==
    LET q == request[r] IN
    /\ q.step = "response"
    /\ IF IsRefused(q) /\ ~q.rotated THEN GoTo(r, "refresh")
       ELSE Reply(r, q.status, q.cookies)
    /\ UNCHANGED <<accounts, jar, runs, ended, stale>>

\* fetch fails, on its way there or on its way back
LoseCall(r) ==
    LET q == request[r] IN
    /\ q.step \in {"guard", "response"}
    /\ IF q.rotated THEN Reply(r, "502", q.cookies) ELSE Reply(r, "500", Keep)
    /\ UNCHANGED <<accounts, jar, runs, ended, stale>>

\* refreshAuthTokens.  The API rotates the tokens of an active session only
\* (see JwtAuth), and keeps their version.
RefreshTokens(r) ==
    LET q == request[r] IN
    /\ q.step = "refresh"
    /\ \/ /\ IsAuthPayloadActive(q.app, q.token)
          /\ request' = [request EXCEPT ![r].step = "call", ![r].rotated = TRUE,
                                        ![r].cookies = q.token]
       \/ IsAuthPayloadActive(q.app, q.token) /\ Reply(r, "409", Keep)
       \/ Reply(r, "502", Keep)
       \/ Reply(r, "401", NoSession)
    /\ UNCHANGED <<accounts, jar, runs, ended, stale>>

\* the browser has the answer
Deliver(r) ==
    LET q == request[r] IN
    /\ q.step = "reply"
    /\ GoTo(r, "done")
    /\ jar' = IF q.cookies = Keep THEN jar ELSE [jar EXCEPT ![q.app] = q.cookies]
    /\ ended' = IF Operation(q.path) = "end" /\ q.status = "ok"
                   THEN [ended EXCEPT ![q.app] = IF @ > q.token THEN @ ELSE q.token + 1]
                   ELSE ended
    /\ UNCHANGED <<accounts, runs, stale>>

Next ==
    \E r \in Request :
        \/ Send(r) \/ Gate(r) \/ ReadBody(r) \/ LogOut(r) \/ Call(r)
        \/ Guard(r) \/ Validate(r) \/ Handle(r)
        \/ Receive(r) \/ LoseCall(r) \/ RefreshTokens(r) \/ Deliver(r)

Spec == Init /\ [][Next]_vars

-----------------------------------------------------------------------------
\* A request has its effect at most once although the BFF repeats it, with the
\* body that was sent and no longer than the limit; and the answer is true: who
\* is told of a refusal may send it again, who is told of success need not.
RunsOnce ==
    \A r \in Request : LET q == request[r] IN
        /\ Len(runs[r]) <= 1
        /\ \A i \in DOMAIN runs[r] : runs[r][i] = q.size /\ q.size <= MaxBody
        /\ q.step = "done" =>
              /\ q.status \in {"401", "403", "404", "409", "413"} => runs[r] = <<>>
              /\ q.status = "ok" /\ Operation(q.path) # "logout" => Len(runs[r]) = 1

\* When a logout from everywhere, a new password or a deletion has been
\* answered, nothing happens any more in a session that was over by it: the
\* account is looked up for every request and before every rotation.
EndedSessionsDoNothing ==
    \A r \in stale : LET q == request[r] IN
        Audience(q.path) # "none" /\ q.token # NoSession => runs[r] = <<>>
=============================================================================
