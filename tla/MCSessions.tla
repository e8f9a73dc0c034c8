----------------------------- MODULE MCSessions -----------------------------
(***************************************************************************)
(* Instances of JwtAuth, BffSession, Gateway and Accounts for TLC.  A      *)
(* behaviour is one of one of them; the variables of the others keep       *)
(* their initial values.                                                   *)
(***************************************************************************)
EXTENDS JwtAuth, TLC

\* The model values serve all four: r1 to r3 are alike wherever they stand for
\* something, and so are v1 and v2.
CONSTANTS
    l1, r1, r2, r3, o1, v1, v2,
    Tab, Bff, NoSession, Keep, MaxRotations,                   \* see BffSession
    Visit, Sizes, MaxBody,                                     \* see Gateway
    Change, Repository, Process, ProcessOf, Email, Password,   \* see Accounts
    MaxTime, MaxFailures

\* v1 and v2 are repositories of one process
Hosts == [i \in Repository |-> IF i \in {v1, v2} THEN 1 ELSE 2]

VARIABLES
    scenario,
    jar, live, expired, flight, host, carried, tab, cookies, loggedOut, slow, lost,
    rotated,
    accounts, held, request, runs, ended, stale,
    now, indexed, attempt, memo, awaits, ready, users, job, result, read, proofs, failures

Browser == INSTANCE BffSession WITH Request <- Tab, tombstone <- rotated, step <- tab
Way == INSTANCE Gateway WITH Request <- Visit, jar <- held
People == INSTANCE Accounts WITH
    Request <- Change,
    accounts <- users, step <- job, answer <- result, tokens <- proofs

ASSUME BrowserAssumption == Browser!CookieAssumption /\ Browser!RotationAssumption
ASSUME WayAssumption == Way!BodyAssumption /\ Way!NameAssumption
ASSUME PeopleAssumption ==
    People!ProcessAssumption /\ People!NameAssumption /\ People!BoundAssumption

browserVars ==
    <<jar, live, expired, flight, host, carried, tab, cookies, loggedOut, slow, lost,
      rotated>>
wayVars == <<accounts, held, request, runs, ended, stale>>
peopleVars ==
    <<now, indexed, attempt, memo, awaits, ready, users, job, result, read, proofs, failures>>
others == <<browserVars, wayVars, peopleVars>>

-----------------------------------------------------------------------------
\* three refreshes and a logout of one login, or one refresh of it and two
\* revocations of the account
Begun == {p \in Request : step[p] # "start"}
OneCast ==
    \/ Begun \intersect Revoker = {}
    \/ Begun \intersect Logout = {} /\ Cardinality(Begun \intersect Refresh) <= 1 /\ faults = 0

\* a session that was disturbed goes on with one request at a time
AtEase == Browser!Undisturbed \/ Cardinality({q \in Tab : tab[q] # "idle"}) <= 1

\* any request, while the others end sessions; with a body, two of them
Likely(q) ==
    /\ q.size > 0 => Way!Operation(q.path) \in {"login", "add"}
    /\ q.declared => q.size > MaxBody
    /\ ~q.sameOrigin => q.size = 0
EndsSession(q) ==
    q.step = "idle" \/
    (Way!Operation(q.path) = "end" /\ q.path[1] = q.app /\ q.size = 0 /\ ~q.declared /\ q.sameOrigin)
OneGuest ==
    \E v \in Visit : Likely(request[v]) /\ \A o \in Visit \ {v} : EndsSession(request[o])

\* accounts change before all repositories are ready, or after it: few of the
\* first kind
Started ==
    \/ ready = Repository
    \/ \A c \in Change : job[c] \in {"new", "done"} /\ users[c].version = 0

-----------------------------------------------------------------------------
MCInit ==
    /\ scenario \in {"api", "browser", "way", "people"}
    /\ Init /\ Browser!Init /\ Way!Init /\ People!Init
    /\ held["admins"] = 0 /\ (scenario # "way" => held["users"] = 0)

MCNext ==
    /\ UNCHANGED scenario
    /\ \/ scenario = "api" /\ Next /\ OneCast' /\ UNCHANGED others
       \/ scenario = "browser" /\ Browser!Next /\ AtEase'
             /\ UNCHANGED <<vars, wayVars, peopleVars>>
       \/ scenario = "way" /\ Way!Next /\ OneGuest'
             /\ UNCHANGED <<vars, browserVars, peopleVars>>
       \/ scenario = "people" /\ People!Next /\ Started'
             /\ UNCHANGED <<vars, browserVars, wayVars>>

MCSpec == MCInit /\ [][MCNext]_<<scenario, vars, others>>

Symmetry ==
    Permutations({r1, r2, r3}) \union Permutations({v1, v2})

-----------------------------------------------------------------------------
\* A user who did not log out stays logged in, and when all responses have
\* arrived the cookies are what the API expects (refreshAuthTokens, proxy).
SessionSurvives ==
    Browser!TypeOK /\ Browser!SessionSurvives /\ Browser!JarIsCurrent

\* A request that the BFF repeats has its effect once and is answered truly
\* (retryWithRotatedSession, AuthGuard), and none has an effect in a session
\* whose end was acknowledged before it was sent.
RequestsRunOnce ==
    Way!TypeOK /\ Way!RunsOnce /\ Way!EndedSessionsDoNothing

\* The tokens that are good for an account were given for the password it has,
\* and no two accounts share an email (findUserByCredentials, the index).
AccountsAreSound ==
    People!TypeOK /\ People!TokensProveThePassword /\ People!EmailsAreUnique
=============================================================================
