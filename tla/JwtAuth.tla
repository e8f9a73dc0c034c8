------------------------------- MODULE JwtAuth -------------------------------
(***************************************************************************)
(* The sessions of one account.  A login opens a family of refresh tokens; *)
(* a refresh consumes the token presented and stores its successor.  What  *)
(* a token is allowed to do depends on three Redis keys (the token, the    *)
(* family's fence, the tombstone of a consumed token), on the index of the *)
(* user's families, which lives in another slot, and on the account's      *)
(* authVersion in MongoDB.  Every call is a step; requests interleave.     *)
(*                                                                         *)
(* Each request happens once and issues at most one token, which carries   *)
(* the request's name; a family carries the name of its login.  All tokens *)
(* are authentic and unexpired, and the keys' common TTL of a week is not  *)
(* reached; only the two seconds of a tombstone pass.                      *)
(***************************************************************************)
EXTENDS Naturals, FiniteSets

CONSTANTS
    Login, Refresh, Logout, Revoker,   \* the requests, by what they do
    Nobody,
    MaxFaults                          \* bound on requests that die half-way

Request == Login \union Refresh \union Logout \union Revoker
Token == Login \union Refresh
Family == Login

\* a request does one thing
ASSUME RequestAssumption ==
    /\ Login \intersect (Refresh \union Logout \union Revoker) = {}
    /\ Refresh \intersect (Logout \union Revoker) = {}
    /\ Logout \intersect Revoker = {}
    /\ IsFiniteSet(Revoker)

ASSUME NobodyAssumption == Nobody \notin Request
ASSUME FaultAssumption == MaxFaults \in Nat

VARIABLES
    kind,                 \* whose account: a user's or an admin's
    version, active,      \* its authVersion; it is not deleted
    stored, members,      \* the token keys; the tokens in the family sets
    fence,                \* the families with a revoked key
    tombstone,            \* of each token: none, live, lapsed (it has expired)
    index,                \* the user's families
    familyOf, versionOf,  \* the payload of each token, once its request makes it
    step, answer,
    presented,            \* the token a request brought
    target, listed,       \* the family being revoked and the tokens found in it
    todo,                 \* the families a Revoker has still to revoke
    faults

account == <<kind, version, active>>
redis == <<stored, members, fence, tombstone, index>>
payload == <<familyOf, versionOf>>
local == <<presented, target, listed, todo>>
vars == <<account, redis, payload, step, answer, local, faults>>

Step == {"start", "lookup", "consume", "duplicate", "alive", "index", "store",
         "unstore", "confirm", "fence", "list", "delete", "unindex", "families",
         "next", "drop", "done"}
Answer == {"none", "ok", "invalid", "concurrent", "reuse", "error"}

TypeOK ==
    /\ kind \in {"user", "admin"}
    /\ version \in 0..Cardinality(Revoker) /\ active \in BOOLEAN
    /\ stored \subseteq Token /\ members \subseteq Token
    /\ fence \subseteq Family /\ index \subseteq Family
    /\ tombstone \in [Token -> {"none", "live", "lapsed"}]
    /\ familyOf \in [Token -> Family \union {Nobody}]
    /\ versionOf \in [Token -> 0..version]
    /\ step \in [Request -> Step] /\ answer \in [Request -> Answer]
    /\ presented \in [Request -> Token \union {Nobody}]
    /\ target \in [Request -> Family \union {Nobody}]
    /\ listed \in [Request -> SUBSET Token]
    /\ todo \in [Revoker -> SUBSET Family]
    /\ faults \in 0..MaxFaults

Init ==
    /\ kind \in {"user", "admin"} /\ version = 0 /\ active = TRUE
    /\ stored = {} /\ members = {} /\ fence = {} /\ index = {}
    /\ tombstone = [t \in Token |-> "none"]
    /\ familyOf = [t \in Token |-> Nobody] /\ versionOf = [t \in Token |-> 0]
    /\ step = [p \in Request |-> "start"] /\ answer = [p \in Request |-> "none"]
    /\ presented = [p \in Request |-> Nobody]
    /\ target = [p \in Request |-> Nobody] /\ listed = [p \in Request |-> {}]
    /\ todo = [p \in Revoker |-> {}]
    /\ faults = 0

-----------------------------------------------------------------------------
GoTo(p, s) == step' = [step EXCEPT ![p] = s] /\ UNCHANGED answer

\* the answer may be known before the family it condemns is revoked
Reply(p, a) ==
    /\ answer' = [answer EXCEPT ![p] = a]
    /\ step' = [step EXCEPT ![p] = "done"]

Revoke(p, f, a) ==
    /\ target' = [target EXCEPT ![p] = f]
    /\ answer' = [answer EXCEPT ![p] = a]
    /\ step' = [step EXCEPT ![p] = "fence"]

FamilyTokens(f) == {t \in Token : familyOf[t] = f}
Delivered == {t \in Token : step[t] = "done" /\ answer[t] = "ok"}

\* isAuthPayloadActive: the account exists and has the payload's version
Current(v) == active /\ v = version

\* findUserByCredentials reads the account, version and all
LogIn(p) ==
    /\ p \in Login /\ step[p] = "start"
    /\ IF active
          THEN /\ familyOf' = [familyOf EXCEPT ![p] = p]
               /\ versionOf' = [versionOf EXCEPT ![p] = version]
               /\ GoTo(p, "index")
          ELSE Reply(p, "invalid") /\ UNCHANGED payload
    /\ UNCHANGED <<account, redis, local, faults>>

Present(p) ==
    /\ p \in Refresh /\ step[p] = "start"
    /\ \E t \in Delivered :
          /\ presented' = [presented EXCEPT ![p] = t]
          /\ IF Current(versionOf[t])
                THEN GoTo(p, "lookup") /\ UNCHANGED target
                ELSE Revoke(p, familyOf[t], "invalid")
    /\ UNCHANGED <<account, redis, payload, listed, todo, faults>>

Lookup(p) ==
    /\ step[p] = "lookup"
    /\ GoTo(p, IF presented[p] \in stored THEN "consume" ELSE "duplicate")
    /\ UNCHANGED <<account, redis, payload, local, faults>>

\* CONSUME_TOKEN_SCRIPT, when the token key is there
ConsumeScript(t) ==
    /\ stored' = stored \ {t}
    /\ members' = members \ {t}
    /\ tombstone' = [tombstone EXCEPT ![t] = "live"]

Consume(p) ==
    /\ step[p] = "consume"
    /\ LET t == presented[p] IN
       IF t \in stored
          THEN /\ ConsumeScript(t)
               /\ familyOf' = [familyOf EXCEPT ![p] = familyOf[t]]
               /\ versionOf' = [versionOf EXCEPT ![p] = versionOf[t]]
               /\ GoTo(p, "index")
          ELSE GoTo(p, "duplicate") /\ UNCHANGED <<stored, members, tombstone, payload>>
    /\ UNCHANGED <<account, fence, index, local, faults>>

\* every replay counts as reuse
IsConcurrentDuplicate_Faulty(t) == FALSE

IsConcurrentDuplicate(t) == tombstone[t] = "live"

RejectDuplicate(p) ==
    /\ step[p] = "duplicate"
    /\ IF IsConcurrentDuplicate(presented[p]) THEN Reply(p, "concurrent") ELSE GoTo(p, "alive")
    /\ UNCHANGED <<account, redis, payload, local, faults>>

\* the family key exists while it has a member
RejectReuse(p) ==
    /\ step[p] = "alive"
    /\ LET f == familyOf[presented[p]] IN
       IF FamilyTokens(f) \intersect members # {}
          THEN Revoke(p, f, "reuse")
          ELSE Reply(p, "invalid") /\ UNCHANGED target
    /\ UNCHANGED <<account, redis, payload, presented, listed, todo, faults>>

-----------------------------------------------------------------------------
\* storeToken, its first call; Redis creates the index when it is not there
Index(p) ==
    /\ step[p] = "index"
    /\ index' = index \union {familyOf[p]}
    /\ GoTo(p, "store")
    /\ UNCHANGED <<account, stored, members, fence, tombstone, payload, local, faults>>

\* the fence is not looked at
Fenced_Faulty(f) == FALSE

\* the test in STORE_TOKEN_SCRIPT
Fenced(f) == f \in fence

Store(p) ==
    /\ step[p] = "store"
    /\ IF Fenced(familyOf[p])
          THEN GoTo(p, "unstore") /\ UNCHANGED <<stored, members>>
          ELSE /\ stored' = stored \union {p}
               /\ members' = members \union {p}
               /\ GoTo(p, "confirm")
    /\ UNCHANGED <<account, fence, tombstone, index, payload, local, faults>>

\* a store that the fence refused takes its index entry back
Unstore(p) ==
    /\ step[p] = "unstore"
    /\ index' = index \ {familyOf[p]}
    /\ Reply(p, "invalid")
    /\ UNCHANGED <<account, stored, members, fence, tombstone, payload, local, faults>>

StillCurrent(p) == Current(versionOf[p])

\* the account may have been revoked while the token was made
Confirm(p) ==
    /\ step[p] = "confirm"
    /\ IF StillCurrent(p) THEN Reply(p, "ok") /\ UNCHANGED target
                          ELSE Revoke(p, familyOf[p], "invalid")
    /\ UNCHANGED <<account, redis, payload, presented, listed, todo, faults>>

-----------------------------------------------------------------------------
SetFence(p) ==
    /\ step[p] = "fence"
    /\ fence' = fence \union {target[p]}
    /\ GoTo(p, "list")
    /\ UNCHANGED <<account, stored, members, tombstone, index, payload, local, faults>>

ListFamily(p) ==
    /\ step[p] = "list"
    /\ listed' = [listed EXCEPT ![p] = members \intersect FamilyTokens(target[p])]
    /\ GoTo(p, "delete")
    /\ UNCHANGED <<account, redis, payload, presented, target, todo, faults>>

\* the MULTI: the tokens found, and the family key whatever it holds by now
DeleteFamily(p) ==
    /\ step[p] = "delete"
    /\ stored' = stored \ listed[p]
    /\ members' = members \ FamilyTokens(target[p])
    /\ GoTo(p, "unindex")
    /\ UNCHANGED <<account, fence, tombstone, index, payload, local, faults>>

Unindex(p) ==
    /\ step[p] = "unindex"
    /\ index' = index \ {target[p]}
    /\ GoTo(p, IF p \in Revoker THEN "next" ELSE "done")
    /\ UNCHANGED <<account, stored, members, fence, tombstone, payload, local, faults>>

LogOut(p) ==
    /\ p \in Logout /\ step[p] = "start"
    /\ \E t \in Delivered :
          /\ presented' = [presented EXCEPT ![p] = t]
          /\ Revoke(p, familyOf[t], "ok")
    /\ UNCHANGED <<account, redis, payload, listed, todo, faults>>

-----------------------------------------------------------------------------
AdvanceAuthVersion == version' = version + 1

\* the account changes first, its families go after
LogOutAll(p) ==
    /\ kind = "user"
    /\ IF active THEN AdvanceAuthVersion /\ GoTo(p, "families")
                 ELSE Reply(p, "error") /\ UNCHANGED version
    /\ UNCHANGED active

ChangePassword(p) ==
    /\ IF active THEN AdvanceAuthVersion /\ GoTo(p, "families")
                 ELSE Reply(p, "error") /\ UNCHANGED version
    /\ UNCHANGED active

\* deleteMany goes on whether or not it found somebody to delete
DeleteUser(p) ==
    /\ kind = "user"
    /\ IF active THEN AdvanceAuthVersion ELSE UNCHANGED version
    /\ active' = FALSE
    /\ GoTo(p, "families")

RemoveAdmin(p) ==
    /\ kind = "admin" /\ active' = FALSE
    /\ IF active THEN AdvanceAuthVersion /\ GoTo(p, "families")
                 ELSE Reply(p, "error") /\ UNCHANGED version

RevokeAll(p) ==
    /\ p \in Revoker /\ step[p] = "start"
    /\ LogOutAll(p) \/ ChangePassword(p) \/ DeleteUser(p) \/ RemoveAdmin(p)
    /\ UNCHANGED <<kind, redis, payload, local, faults>>

ListFamilies(p) ==
    /\ step[p] = "families"
    /\ todo' = [todo EXCEPT ![p] = index]
    /\ GoTo(p, "next")
    /\ UNCHANGED <<account, redis, payload, presented, target, listed, faults>>

NextFamily(p) ==
    /\ step[p] = "next"
    /\ IF todo[p] = {}
          THEN GoTo(p, "drop") /\ UNCHANGED <<target, todo>>
          ELSE \E f \in todo[p] :
                  /\ todo' = [todo EXCEPT ![p] = @ \ {f}]
                  /\ target' = [target EXCEPT ![p] = f]
                  /\ GoTo(p, "fence")
    /\ UNCHANGED <<account, redis, payload, presented, listed, faults>>

DropIndex(p) ==
    /\ step[p] = "drop"
    /\ index' = {}
    /\ Reply(p, "ok")
    /\ UNCHANGED <<account, stored, members, fence, tombstone, payload, local, faults>>

-----------------------------------------------------------------------------
TombstoneExpires(t) ==
    /\ tombstone[t] = "live"
    /\ tombstone' = [tombstone EXCEPT ![t] = "lapsed"]
    /\ UNCHANGED <<account, stored, members, fence, index, payload, step, answer, local, faults>>

\* the server dies or a call fails: the request goes no further
Fails(p) ==
    /\ step[p] \notin {"start", "done"}
    /\ faults < MaxFaults /\ faults' = faults + 1
    /\ Reply(p, "error")
    /\ UNCHANGED <<account, redis, payload, local>>

Handle(p) ==
    \/ LogIn(p) \/ Present(p) \/ Lookup(p) \/ Consume(p)
    \/ RejectDuplicate(p) \/ RejectReuse(p)
    \/ Index(p) \/ Store(p) \/ Unstore(p) \/ Confirm(p)
    \/ SetFence(p) \/ ListFamily(p) \/ DeleteFamily(p) \/ Unindex(p)
    \/ LogOut(p) \/ RevokeAll(p) \/ ListFamilies(p) \/ NextFamily(p) \/ DropIndex(p)

Next ==
    \/ \E p \in Request : Handle(p) \/ Fails(p)
    \/ \E t \in Token : TombstoneExpires(t)

Spec == Init /\ [][Next]_vars

-----------------------------------------------------------------------------
Running(p) == step[p] \notin {"start", "done"}

\* Two refreshes that bring the same token do not both come out with a new
\* one, however their lookups, scripts and revocations interleave.
OneSuccessor ==
    \A p, q \in Refresh :
        p # q /\ answer[p] = "ok" /\ answer[q] = "ok" => presented[p] # presented[q]

\* What was revoked stays revoked: once a logout is answered, or a replay was
\* answered as reuse, no token of the family is stored, and none comes back
\* from a refresh that was on its way.
RevokedFamilyStaysEmpty ==
    \A p \in Request :
        step[p] = "done" /\ answer[p] \in {"ok", "reuse"} /\ target[p] # Nobody
            => FamilyTokens(target[p]) \intersect (stored \union members) = {}

\* The family set, by which a revocation finds what to delete, lists exactly
\* the tokens that are stored: none is left that no revocation would find.
FamilyListsItsTokens == members = stored

\* Tabs that refresh together do not log their user out: while no tombstone
\* has lapsed, only a logout or a change of the account fences a family.
NoFalseAlarm ==
    \A f \in fence :
        \/ version > 0
        \/ \E p \in Logout : target[p] = f
        \/ \E t \in FamilyTokens(f) : tombstone[t] = "lapsed"

\* A revocation of the account sweeps its sessions: when no request is on its
\* way any more, Redis holds no token from before the first revocation, also
\* none that was being issued meanwhile.  (A later one may miss a session:
\* revokeAllForUser drops the whole index at its end, DropIndex, and with it a
\* family that a login has registered after the index was read.)
RevocationSweeps ==
    (\A p \in Request : ~Running(p)) /\ faults = 0
        => \A t \in stored : versionOf[t] = 0 => Current(0)

\* Rotation: parallel refreshes have one winner, and do not end the session.
RotationIsSafe == TypeOK /\ OneSuccessor /\ NoFalseAlarm

\* Revocation, by logout, for reuse or of the account: nothing escapes it.
RevocationIsFinal ==
    FamilyListsItsTokens /\ RevokedFamilyStaysEmpty /\ RevocationSweeps

=============================================================================
