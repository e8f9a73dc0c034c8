----------------------------- MODULE MovieAssets -----------------------------
(***************************************************************************)
(* A movie's files.  An upload leaves traces in four places: the asset's   *)
(* row, the object in S3, the movie's list of pending assets and the       *)
(* movie's own list.  No transaction spans them; the requests change them  *)
(* in an order that is meant to leave something from which the rest can be *)
(* repaired, and a job deletes uploads that expired without an owner.      *)
(*                                                                         *)
(* Every call to MongoDB or S3 is a step, and a request may die between    *)
(* two.  A Server handles one request after another.  The form with which  *)
(* the client uploads was signed after the row was created, so it expires  *)
(* after the row does.  An upload that S3 accepts has the declared content *)
(* (the form's conditions), so an object is complete when it is there.     *)
(***************************************************************************)
EXTENDS Naturals, FiniteSets

CONSTANTS Server, Movie, Asset, Nobody,
    MaxFaults,       \* bound on requests that die and on failed deletions in S3
    MaxExpired,      \* bound on uploads that expire
    MaxUpdates       \* bound on updates of a movie's assetIds

ASSUME NobodyAssumption == Nobody \notin Movie \union Asset
ASSUME BoundAssumption == {MaxFaults, MaxExpired, MaxUpdates} \subseteq Nat

VARIABLES
    row, owner,            \* the asset rows and their owners
    expired,               \* the rows whose createdAt is too old
    objects, forms,        \* what is in S3; the upload forms that are valid
    movies,                \* the movies that are not deleted
    attached, pending,     \* <<movie, asset>>: assetIds, the pending list
    job, step,             \* what each server does, and where it is
    movie, batch,          \* the request's movie; the assets it is about
    listed, known,         \* its assets it found attached; found pending, or computed
                           \* not to be expired
    condemned, late,       \* history: to be deleted; uploaded since
    faults, updates

assets == <<row, owner, expired>>
storage == <<objects, forms, late>>
catalog == <<movies, attached, pending>>
local == <<job, step, movie, batch, listed, known>>
bounds == <<faults, updates>>
vars == <<assets, storage, catalog, local, condemned, bounds>>

Job == {"none", "create", "finalize", "delete", "deleteMovie", "cleanup"}
Step == {"idle", "insert", "addPending", "isPending", "isUploaded", "threshold",
         "assign", "attach", "readPending", "readOwners", "detach", "unpend", "s3",
         "rows", "unpendAll", "removeMovie"}

TypeOK ==
    /\ row \in [Asset -> {"none", "active", "deleted"}]
    /\ owner \in [Asset -> Movie \union {Nobody}]
    /\ \A a \in Asset : owner[a] # Nobody => row[a] # "none"
    /\ expired \subseteq Asset /\ objects \subseteq Asset /\ forms \subseteq Asset
    /\ movies \subseteq Movie
    /\ attached \subseteq Movie \X Asset /\ pending \subseteq Movie \X Asset
    /\ job \in [Server -> Job] /\ step \in [Server -> Step]
    /\ \A s \in Server : step[s] = "idle" <=> job[s] = "none"
    /\ movie \in [Server -> Movie \union {Nobody}]
    /\ batch \in [Server -> SUBSET Asset]
    /\ listed \in [Server -> SUBSET Asset] /\ known \in [Server -> SUBSET Asset]
    /\ condemned \subseteq Asset \union Movie /\ late \subseteq Asset
    /\ faults \in 0..MaxFaults /\ updates \in 0..MaxUpdates

Init ==
    /\ row = [a \in Asset |-> "none"] /\ owner = [a \in Asset |-> Nobody]
    /\ expired = {} /\ objects = {} /\ forms = {}
    /\ movies = Movie /\ attached = {} /\ pending = {}
    /\ job = [s \in Server |-> "none"] /\ step = [s \in Server |-> "idle"]
    /\ movie = [s \in Server |-> Nobody] /\ batch = [s \in Server |-> {}]
    /\ listed = [s \in Server |-> {}] /\ known = [s \in Server |-> {}]
    /\ condemned = {} /\ late = {}
    /\ faults = 0 /\ updates = 0

-----------------------------------------------------------------------------
GoTo(s, l) == step' = [step EXCEPT ![s] = l] /\ UNCHANGED <<job, movie, batch, listed, known>>

\* the request is answered, or dies
End(s) ==
    /\ job' = [job EXCEPT ![s] = "none"] /\ step' = [step EXCEPT ![s] = "idle"]
    /\ movie' = [movie EXCEPT ![s] = Nobody] /\ batch' = [batch EXCEPT ![s] = {}]
    /\ listed' = [listed EXCEPT ![s] = {}] /\ known' = [known EXCEPT ![s] = {}]

Begin(s, j, m, B, l) ==
    /\ step[s] = "idle"
    /\ job' = [job EXCEPT ![s] = j] /\ step' = [step EXCEPT ![s] = l]
    /\ movie' = [movie EXCEPT ![s] = m] /\ batch' = [batch EXCEPT ![s] = B]
    /\ listed' = [listed EXCEPT ![s] = {a \in B : <<m, a>> \in attached}]
    /\ UNCHANGED known

\* the lists of the request's movie, as far as its assets are concerned
Mine(s) == {movie[s]} \X batch[s]
ListOf(m, list) == {a \in Asset : <<m, a>> \in list}

-----------------------------------------------------------------------------
\* createAsset: the movie exists; the row; the pending list; the signed form
CreateAsset(s) ==
    /\ \E m \in movies, a \in Asset :
          row[a] = "none" /\ Begin(s, "create", m, {a}, "insert")
    /\ UNCHANGED <<assets, storage, catalog, condemned, bounds>>

InsertRow(s) ==
    /\ step[s] = "insert"
    /\ LET free == {a \in batch[s] : row[a] = "none"} IN
       IF free = {} THEN End(s) /\ UNCHANGED row
       ELSE row' = [a \in Asset |-> IF a \in free THEN "active" ELSE row[a]]
            /\ GoTo(s, "addPending")
    /\ UNCHANGED <<owner, expired, storage, catalog, condemned, bounds>>

AddPending(s) ==
    /\ step[s] = "addPending"
    /\ pending' = pending \union Mine(s)
    /\ forms' = forms \union batch[s]
    /\ End(s)
    /\ UNCHANGED <<assets, objects, late, movies, attached, condemned, bounds>>

\* the client posts the file to S3
Upload(a) ==
    /\ a \in forms \ objects
    /\ objects' = objects \union {a}
    /\ late' = IF a \in condemned THEN late \union {a} ELSE late
    /\ UNCHANGED <<assets, forms, catalog, local, condemned, bounds>>

-----------------------------------------------------------------------------
\* finalizeUpload: reads the movie
Finalize(s) ==
    /\ \E m \in movies, a \in Asset :
          Begin(s, "finalize", m, {a}, IF <<m, a>> \in attached THEN "unpend" ELSE "isPending")
    /\ UNCHANGED <<assets, storage, catalog, condemned, bounds>>

IsPending(s) ==
    /\ step[s] = "isPending"
    /\ IF Mine(s) \subseteq pending THEN GoTo(s, "isUploaded") ELSE End(s)
    /\ UNCHANGED <<assets, storage, catalog, condemned, bounds>>

IsUploaded(s) ==
    /\ step[s] = "isUploaded"
    /\ IF \A a \in batch[s] : row[a] = "active" /\ a \in objects
          THEN GoTo(s, "threshold") ELSE End(s)
    /\ UNCHANGED <<assets, storage, catalog, condemned, bounds>>

\* the row is there; the threshold is computed before the update is sent
ComputeThreshold(s) ==
    /\ step[s] = "threshold"
    /\ IF \A a \in batch[s] : row[a] = "active"
          THEN /\ known' = [known EXCEPT ![s] = batch[s] \ expired]
               /\ step' = [step EXCEPT ![s] = "assign"]
               /\ UNCHANGED <<job, movie, batch, listed>>
          ELSE End(s)
    /\ UNCHANGED <<assets, storage, catalog, condemned, bounds>>

\* assignOwner, for rows that are active and were fresh by the threshold; the
\* others are deleted
AssignOwner(s) ==
    /\ step[s] = "assign"
    /\ IF \A a \in batch[s] : a \in known[s] /\ row[a] = "active"
          THEN /\ owner' = [a \in Asset |-> IF a \in batch[s] THEN movie[s] ELSE owner[a]]
               /\ GoTo(s, "attach") /\ UNCHANGED condemned
          ELSE /\ condemned' = condemned \union batch[s]
               /\ GoTo(s, "s3") /\ UNCHANGED owner
    /\ UNCHANGED <<row, expired, storage, catalog, bounds>>

AfterAssign(s) == UNCHANGED pending

Attach(s) ==
    /\ step[s] = "attach"
    /\ \/ /\ attached' = IF movie[s] \in movies THEN attached \union Mine(s) ELSE attached
          /\ GoTo(s, "unpend")
          /\ UNCHANGED faults
       \/ faults < MaxFaults /\ faults' = faults + 1 /\ End(s) /\ UNCHANGED attached
    /\ AfterAssign(s)
    /\ UNCHANGED <<assets, storage, movies, condemned, updates>>

-----------------------------------------------------------------------------
\* deleteAsset and deleteMany: reads the movie, then the pending list, then
\* the owners
DeleteAsset(s) ==
    /\ \E m \in movies, a \in Asset : Begin(s, "delete", m, {a}, "readPending")
    /\ UNCHANGED <<assets, storage, catalog, condemned, bounds>>

DeleteMovie(s) ==
    /\ \E m \in movies : /\ Begin(s, "deleteMovie", m, ListOf(m, attached), "readPending")
                         /\ condemned' = condemned \union {m}
    /\ UNCHANGED <<assets, storage, catalog, bounds>>

ReadPending(s) ==
    /\ step[s] = "readPending"
    /\ step' = [step EXCEPT ![s] = "readOwners"]
    /\ LET found == IF job[s] = "delete" THEN batch[s] \intersect ListOf(movie[s], pending)
                                         ELSE ListOf(movie[s], pending)
       IN /\ batch' = [batch EXCEPT ![s] = @ \union found]
          /\ known' = [known EXCEPT ![s] = found]
    /\ UNCHANGED <<job, movie, listed, assets, storage, catalog, condemned, bounds>>

\* a file in the movie's lists is taken for the movie's
BelongsTo_Faulty(s, a) == owner[a] = movie[s] \/ a \in listed[s] \union known[s]

\* the owner decides; while there is none, the pending list does
BelongsTo(s, a) == owner[a] = movie[s] \/ (owner[a] = Nobody /\ a \in known[s])

\* one asset: nothing to do when it is nowhere, refused when it is not the
\* movie's.  A movie: only the assets that are its own.
ReadOwners(s) ==
    /\ step[s] = "readOwners"
    /\ LET there == {a \in batch[s] : row[a] = "active"}
           mine == {a \in there : BelongsTo(s, a)}
           goesOn == mine # {} \/ (there = {} /\ listed[s] \union known[s] # {})
       IN IF job[s] = "deleteMovie"
             THEN /\ batch' = [batch EXCEPT ![s] = mine]
                  /\ condemned' = condemned \union mine
                  /\ step' = [step EXCEPT ![s] = "s3"]
                  /\ UNCHANGED <<job, movie, listed, known>>
             ELSE IF goesOn THEN condemned' = condemned \union mine /\ GoTo(s, "detach")
             ELSE End(s) /\ UNCHANGED condemned
    /\ UNCHANGED <<assets, storage, catalog, bounds>>

Detach(s) ==
    /\ step[s] = "detach"
    /\ attached' = attached \ ({movie[s]} \X listed[s])
    /\ GoTo(s, "unpend")
    /\ UNCHANGED <<assets, storage, movies, pending, condemned, bounds>>

Unpend(s) ==
    /\ step[s] = "unpend"
    /\ IF job[s] = "delete"
          THEN pending' = pending \ ({movie[s]} \X known[s]) /\ GoTo(s, "s3")
          ELSE pending' = pending \ Mine(s) /\ End(s)
    /\ UNCHANGED <<assets, storage, movies, attached, condemned, bounds>>

\* the rows go whether or not the objects went
AfterS3_Faulty(failed) == TRUE

AfterS3(failed) == failed = {}

\* AssetsService.deleteMany: all objects are tried, some may not be deleted
DeleteObjects(s) ==
    /\ step[s] = "s3"
    /\ \E failed \in SUBSET (batch[s] \intersect objects) :
          /\ objects' = objects \ (batch[s] \ failed)
          /\ IF failed = {} THEN UNCHANGED faults
                            ELSE faults < MaxFaults /\ faults' = faults + 1
          /\ IF AfterS3(failed) THEN GoTo(s, "rows") ELSE End(s)
    /\ UNCHANGED <<assets, forms, late, catalog, condemned, updates>>

DeleteRows(s) ==
    /\ step[s] = "rows"
    /\ row' = [a \in Asset |->
                  IF a \in batch[s] /\ row[a] = "active" THEN "deleted" ELSE row[a]]
    /\ IF job[s] = "deleteMovie" THEN GoTo(s, "unpendAll") ELSE End(s)
    /\ UNCHANGED <<owner, expired, storage, catalog, condemned, bounds>>

RemoveByMovieIds(s) ==
    /\ step[s] = "unpendAll"
    /\ pending' = pending \ ({movie[s]} \X Asset)
    /\ GoTo(s, "removeMovie")
    /\ UNCHANGED <<assets, storage, movies, attached, condemned, bounds>>

RemoveMovie(s) ==
    /\ step[s] = "removeMovie"
    /\ movies' = movies \ {movie[s]}
    /\ End(s)
    /\ UNCHANGED <<assets, storage, attached, pending, condemned, bounds>>

-----------------------------------------------------------------------------
\* the job looks for uploads that were never completed
Expired_Faulty(a) == row[a] = "active" /\ a \in expired /\ a \notin objects

\* findExpiredIncomplete
Expired(a) == row[a] = "active" /\ a \in expired /\ owner[a] = Nobody

\* the cron job; the lock admits one at a time
Cleanup(s) ==
    /\ \A t \in Server : job[t] # "cleanup"
    /\ LET found == {a \in Asset : Expired(a)} IN
       /\ found # {}
       /\ Begin(s, "cleanup", Nobody, found, "s3")
       /\ condemned' = condemned \union found
    /\ UNCHANGED <<assets, storage, catalog, bounds>>

\* PATCH /movies/:id may set the list to anything
UpdateAssetIds(m) ==
    /\ updates < MaxUpdates /\ updates' = updates + 1
    /\ m \in movies
    /\ \E A \in SUBSET {a \in Asset : row[a] # "none"} :
          attached' = {e \in attached : e[1] # m} \union ({m} \X A)
    /\ UNCHANGED <<assets, storage, movies, pending, local, condemned, faults>>

RowExpires(a) ==
    /\ row[a] = "active" /\ a \notin expired /\ Cardinality(expired) < MaxExpired
    /\ expired' = expired \union {a}
    /\ UNCHANGED <<row, owner, storage, catalog, local, condemned, bounds>>

FormExpires(a) ==
    /\ a \in forms \intersect expired
    /\ forms' = forms \ {a}
    /\ UNCHANGED <<assets, objects, late, catalog, local, condemned, bounds>>

Dies(s) ==
    /\ step[s] # "idle"
    /\ faults < MaxFaults /\ faults' = faults + 1
    /\ End(s)
    /\ UNCHANGED <<assets, storage, catalog, condemned, updates>>

Work(s) ==
    \/ InsertRow(s) \/ AddPending(s)
    \/ IsPending(s) \/ IsUploaded(s) \/ ComputeThreshold(s) \/ AssignOwner(s) \/ Attach(s)
    \/ ReadPending(s) \/ ReadOwners(s) \/ Detach(s) \/ Unpend(s)
    \/ DeleteObjects(s) \/ DeleteRows(s) \/ RemoveByMovieIds(s) \/ RemoveMovie(s)

Next ==
    \/ \E s \in Server :
          \/ CreateAsset(s) \/ Finalize(s) \/ DeleteAsset(s) \/ DeleteMovie(s) \/ Cleanup(s)
          \/ Work(s) \/ Dies(s)
    \/ \E a \in Asset : Upload(a) \/ RowExpires(a) \/ FormExpires(a)
    \/ \E m \in Movie : UpdateAssetIds(m)

Spec == Init /\ [][Next]_vars

\* a request that has begun goes on, and the job runs every ten minutes
Fairness == \A s \in Server : WF_vars(Work(s)) /\ SF_vars(Cleanup(s))
FairSpec == Spec /\ Fairness

-----------------------------------------------------------------------------
AtRest == \A s \in Server : step[s] = "idle"

\* Nothing is forgotten in S3: an object whose row is gone was uploaded after
\* somebody had decided to delete it.  Failed deletions and requests that die
\* leave the row, from which the deletion can be repeated.
NoOrphanObject ==
    \A a \in objects : row[a] = "deleted" => a \in late

\* A file is deleted by requests for its own movie or by the job, also when
\* the list of another movie names it.
DeletionStaysHome ==
    \A s \in Server : step[s] = "rows" /\ job[s] # "cleanup"
        => \A a \in batch[s] : row[a] = "active" => owner[a] \in {movie[s], Nobody}

\* An asset that has an owner is attached to it or still in its pending list,
\* so that a completion that failed can be found and repeated, while nobody
\* has begun to delete it or the movie.
OwnedIsReachable ==
    AtRest /\ updates = 0
        => \A a \in Asset \ condemned :
               owner[a] \in movies \ condemned => <<owner[a], a>> \in attached \union pending

\* Between the stores nothing gets lost: no file without a row, no owner that
\* cannot reach its file.
FilesAreAccounted == TypeOK /\ NoOrphanObject /\ OwnedIsReachable

\* An upload that expires without an owner is deleted in the end, or it was
\* being completed just then.
ExpiredUploadsEnd ==
    \A a \in Asset :
        (row[a] = "active" /\ a \in expired /\ owner[a] = Nobody)
            ~> (row[a] # "active" \/ owner[a] # Nobody)

\* assignOwner's comment: the job never deletes an asset whose owner was
\* assigned.
OwnedSurvivesCleanup ==
    \A s \in Server : job[s] = "cleanup" /\ step[s] = "rows"
        => \A a \in batch[s] : owner[a] = Nobody

=============================================================================
