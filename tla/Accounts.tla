------------------------------ MODULE Accounts ------------------------------
(***************************************************************************)
(* The accounts of users, or of admins, in their collection.  A unique     *)
(* index on email and deletedAt, which is null for an account that is not  *)
(* deleted, keeps emails apart; repositories create it when they start,    *)
(* and those of one connection share one attempt.  A password is compared  *)
(* between the read of an account and the making of a token, while others  *)
(* change or delete the account.                                           *)
(*                                                                         *)
(* A write to one document is a step.  authVersion is what makes tokens of *)
(* an account obsolete (the rest of their life is in JwtAuth).             *)
(***************************************************************************)
EXTENDS Naturals, FiniteSets

CONSTANTS
    Process, Repository,
    ProcessOf,       \* the process, and its MongoClient, of each repository
    Request,
    Email, Password,
    Nobody,
    MaxTime,         \* bound on the clock
    MaxFailures      \* bound on failed attempts at the index

ProcessAssumption ==
    IsFiniteSet(Repository) /\ IsFiniteSet(Request) /\ ProcessOf \in [Repository -> Process]
NameAssumption == Nobody \notin Email \union Password
BoundAssumption == MaxTime \in Nat \ {0} /\ MaxFailures \in Nat

VARIABLES
    now,
    indexed,         \* the collection has its indexes
    attempt,         \* the calls of createIndexes, by number: how they ended
    memo,            \* initializationByClient: the attempt it holds, or 0
    awaits, ready,   \* the attempt each repository waits for; it serves requests
    accounts,        \* the documents, by the request that made them
    step, answer,
    read,            \* the account a login compares with, as it was read
    tokens,          \* the tokens made: of which account and version
    failures

startup == <<indexed, attempt, memo, awaits, ready, failures>>
logins == <<read, tokens>>
vars == <<now, startup, accounts, step, answer, logins>>

Missing == [email |-> Nobody, password |-> Nobody, version |-> 0, deletedAt |-> 0]
Attempts == 1..(MaxFailures + Cardinality(Repository))

\* deletedAt is null
Null == 0
Exists(a) == accounts[a].email # Nobody
IsActive(a) == Exists(a) /\ accounts[a].deletedAt = Null

TypeOK ==
    /\ now \in 1..MaxTime /\ indexed \in BOOLEAN /\ failures \in 0..MaxFailures
    /\ attempt \in [Attempts -> {"none", "running", "made", "failed"}]
    /\ memo \in [Process -> Attempts \union {0}] /\ awaits \in [Repository -> Attempts \union {0}]
    /\ ready \subseteq Repository /\ (ready # {} => indexed)
    /\ \A a \in Request : /\ accounts[a].email \in Email \union {Nobody}
                          /\ accounts[a].password \in Password \union {Nobody}
                          /\ accounts[a].version \in 0..Cardinality(Request)
                          /\ accounts[a].deletedAt \in 0..now
    /\ \A r \in Request : /\ read[r].account \in Request
                          /\ read[r].password \in Password \union {Nobody}
    /\ tokens \subseteq {read[r] : r \in Request}
    /\ step \in [Request -> {"new", "compare", "generate", "done"}]
    /\ answer \in [Request -> {"none", "ok", "401", "404", "409", "500"}]

Init ==
    /\ now = 1 /\ indexed = FALSE /\ failures = 0
    /\ attempt = [n \in Attempts |-> "none"] /\ memo = [c \in Process |-> 0]
    /\ awaits = [i \in Repository |-> 0] /\ ready = {}
    /\ accounts = [a \in Request |-> Missing]
    /\ step = [r \in Request |-> "new"] /\ answer = [r \in Request |-> "none"]
    /\ read = [r \in Request |-> [account |-> r, version |-> 0, password |-> Nobody]]
    /\ tokens = {}

-----------------------------------------------------------------------------
\* onModuleInit takes the attempt there is, or starts one
Initialize(i) ==
    LET c == ProcessOf[i]
        n == 1 + Cardinality({k \in Attempts : attempt[k] # "none"})
    IN /\ i \notin ready /\ awaits[i] = 0
       /\ IF memo[c] # 0
             THEN awaits' = [awaits EXCEPT ![i] = memo[c]] /\ UNCHANGED <<attempt, memo>>
             ELSE /\ memo' = [memo EXCEPT ![c] = n]
                  /\ attempt' = [attempt EXCEPT ![n] = "running"]
                  /\ awaits' = [awaits EXCEPT ![i] = n]
       /\ UNCHANGED <<now, indexed, ready, accounts, step, answer, logins, failures>>

CreateIndexes(n) ==
    /\ attempt[n] = "running"
    /\ \/ indexed' = TRUE /\ attempt' = [attempt EXCEPT ![n] = "made"] /\ UNCHANGED failures
       \/ /\ failures < MaxFailures /\ failures' = failures + 1
          /\ attempt' = [attempt EXCEPT ![n] = "failed"]
          /\ UNCHANGED indexed
    /\ UNCHANGED <<now, memo, awaits, ready, accounts, step, answer, logins>>

\* the attempt ends for those who wait: the module starts, or fails and may be
\* started again; every one that fails clears the memo, whatever it holds
Initialized(i) ==
    LET n == awaits[i] IN
    /\ n # 0 /\ i \notin ready
    /\ \/ attempt[n] = "made" /\ ready' = ready \union {i} /\ UNCHANGED <<memo, awaits>>
       \/ /\ attempt[n] = "failed" /\ memo' = [memo EXCEPT ![ProcessOf[i]] = 0]
          /\ awaits' = [awaits EXCEPT ![i] = 0]
          /\ UNCHANGED ready
    /\ UNCHANGED <<now, indexed, attempt, accounts, step, answer, logins, failures>>

-----------------------------------------------------------------------------
Answer(r, a) ==
    /\ answer' = [answer EXCEPT ![r] = a]
    /\ step' = [step EXCEPT ![r] = "done"]

New(r) == step[r] = "new" /\ ready # {}

\* E11000: another document has this email and this deletedAt
Duplicates(a, doc) ==
    /\ indexed
    /\ \E b \in Request \ {a} :
          accounts[b].email = doc.email /\ accounts[b].deletedAt = doc.deletedAt

\* findOneAndUpdate of one that is active, or a duplicate, or none
Write(r, a, doc, conflict) ==
    IF ~IsActive(a) THEN Answer(r, "404") /\ UNCHANGED accounts
    ELSE IF Duplicates(a, doc) THEN Answer(r, conflict) /\ UNCHANGED accounts
    ELSE Answer(r, "ok") /\ accounts' = [accounts EXCEPT ![a] = doc]

\* create hashes the password and inserts the account
Create(r) ==
    /\ New(r)
    /\ \E e \in Email, w \in Password :
          LET doc == [email |-> e, password |-> w, version |-> 0, deletedAt |-> Null] IN
          IF Duplicates(r, doc) THEN Answer(r, "409") /\ UNCHANGED accounts
          ELSE Answer(r, "ok") /\ accounts' = [accounts EXCEPT ![r] = doc]
    /\ UNCHANGED <<now, startup, logins>>

\* the version is advanced by another write, which is yet to come
Patched_Faulty(doc, e, w) ==
    [doc EXCEPT !.email = IF e = Nobody THEN @ ELSE e, !.password = IF w = Nobody THEN @ ELSE w]

\* update sets what the patch has; a password takes the next version with it
Patched(doc, e, w) ==
    [doc EXCEPT !.email = IF e = Nobody THEN @ ELSE e,
                !.password = IF w = Nobody THEN @ ELSE w,
                !.version = IF w = Nobody THEN @ ELSE @ + 1]

Update(r) ==
    /\ New(r)
    /\ \E a \in Request, e \in Email \union {Nobody}, w \in Password \union {Nobody} :
          Exists(a) /\ Write(r, a, Patched(accounts[a], e, w), "409")
    /\ UNCHANGED <<now, startup, logins>>

\* deleteMany, which takes no notice of an account that is gone, and remove; a
\* duplicate is not expected here
Delete(r) ==
    /\ New(r)
    /\ \E a \in Request : Exists(a)
          /\ \/ Write(r, a, [accounts[a] EXCEPT !.version = @ + 1, !.deletedAt = now], "500")
             \/ ~IsActive(a) /\ Answer(r, "ok") /\ UNCHANGED accounts
    /\ UNCHANGED <<now, startup, logins>>

\* revokeAllForUser
LogoutAll(r) ==
    /\ New(r)
    /\ \E a \in Request : Exists(a)
          /\ Write(r, a, [accounts[a] EXCEPT !.version = @ + 1], "500")
    /\ UNCHANGED <<now, startup, logins>>

\* findByEmailWithPassword: the account, or nobody (a dummy hash is compared)
LogIn(r) ==
    /\ New(r)
    /\ \E e \in Email :
          LET found == {a \in Request : IsActive(a) /\ accounts[a].email = e} IN
          IF found = {} THEN Answer(r, "401") /\ UNCHANGED read
          ELSE /\ \E a \in found : read' = [read EXCEPT ![r] =
                     [account |-> a, version |-> accounts[a].version,
                      password |-> accounts[a].password]]
               /\ step' = [step EXCEPT ![r] = "compare"]
               /\ UNCHANGED answer
    /\ UNCHANGED <<now, startup, accounts, tokens>>

\* the account that was read, and not as it is by now
Compare(r) ==
    /\ step[r] = "compare"
    /\ \/ step' = [step EXCEPT ![r] = "generate"] /\ UNCHANGED answer
       \/ Answer(r, "401")
    /\ UNCHANGED <<now, startup, accounts, logins>>

\* generateAuthTokens signs the version that was read, and checks once more
\* that it is the account's
Generate(r) ==
    LET a == read[r].account  v == read[r].version IN
    /\ step[r] = "generate"
    /\ IF IsActive(a) /\ accounts[a].version = v
          THEN /\ tokens' = tokens \union {read[r]}
               /\ Answer(r, "ok")
          ELSE Answer(r, "401") /\ UNCHANGED tokens
    /\ UNCHANGED <<now, startup, accounts, read>>

Tick == now < MaxTime /\ now' = now + 1 /\ UNCHANGED <<startup, accounts, step, answer, logins>>

Next ==
    \/ Tick
    \/ \E i \in Repository : Initialize(i) \/ Initialized(i)
    \/ \E n \in Attempts : CreateIndexes(n)
    \/ \E r \in Request :
          \/ Create(r) \/ Update(r) \/ Delete(r) \/ LogoutAll(r)
          \/ LogIn(r) \/ Compare(r) \/ Generate(r)

Spec == Init /\ [][Next]_vars

-----------------------------------------------------------------------------
\* Whoever passes the guard has logged in with the password the account has
\* now: a login that compared an older one got a version that is over.
TokensProveThePassword ==
    \A t \in tokens :
        IsActive(t.account) /\ accounts[t.account].version = t.version
            => accounts[t.account].password = t.password

\* user-signup-race.js: of several accounts with one email one is active, also
\* when they are made while another replica is still starting or an email is
\* taken over by an update.
EmailsAreUnique ==
    \A a, b \in Request :
        a # b /\ IsActive(a) /\ IsActive(b) => accounts[a].email # accounts[b].email
=============================================================================
