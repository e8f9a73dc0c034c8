---------------------------- MODULE MoviesProofs ----------------------------
(***************************************************************************)
(* No file is lost or deleted for another movie, for any servers, movies,  *)
(* assets and number of faults; and what has been published was complete,  *)
(* for any editors and attempts to write.                                  *)
(*                                                                         *)
(* A request reads one store and acts on another later, so what it found   *)
(* is stale.  The first invariant says what is left of it: which server    *)
(* may act for which movie (OneHome), what has been decided before         *)
(* anything is deleted (CondemnedFirst), and which list names a file whose *)
(* completion is under way (FilesStayReachable).                           *)
(***************************************************************************)
EXTENDS MCMovies, TLAPS

-----------------------------------------------------------------------------
(***************************************************************************)
(* The inductive invariant.                                                *)
(***************************************************************************)

StepsOf(j) ==
    CASE j = "none" -> {"idle"}
      [] j = "create" -> {"insert", "addPending"}
      [] j = "finalize" -> {"isPending", "isUploaded", "threshold", "assign", "attach",
                            "unpend", "s3", "rows"}
      [] j = "delete" -> {"readPending", "readOwners", "detach", "unpend", "s3", "rows"}
      [] j = "deleteMovie" -> {"readPending", "readOwners", "s3", "rows", "unpendAll",
                               "removeMovie"}
      [] j = "cleanup" -> {"s3", "rows"}

\* the deletion of s has been decided, and it goes on with it
Deleting(s) ==
    step[s] \in {"detach", "s3", "rows"} \/ (step[s] = "unpend" /\ job[s] = "delete")

\* Where a request is fits what it was asked for: one file of one movie, a movie,
\* or the expired files.
JobFits(s) ==
    /\ step[s] \in StepsOf(job[s])
    /\ job[s] \in {"create", "finalize", "delete"} =>
          movie[s] \in Movie /\ \E a \in Asset : batch[s] = {a}
    /\ job[s] = "deleteMovie" => movie[s] \in Movie \intersect condemned
    /\ job[s] = "delete" => listed[s] \subseteq batch[s]
    /\ job[s] = "delete" /\ step[s] \in {"readOwners", "detach", "unpend"} =>
          known[s] \subseteq batch[s]

JobsFitSteps == \A s \in Server : JobFits(s)

\* Whatever names a file was written after its row.
RowsFirst(s) ==
    /\ \A a \in listed[s] : row[a] # "none"
    /\ step[s] = "readOwners" => \A a \in known[s] : row[a] # "none"
    /\ step[s] \in {"addPending", "isUploaded", "threshold", "assign", "attach"} \/ Deleting(s) =>
          \A a \in batch[s] : row[a] # "none"

ListedHaveRows ==
    \A m \in Movie, a \in Asset : <<m, a>> \in attached \union pending => row[a] # "none"

RowsPrecede == ListedHaveRows /\ \A s \in Server : RowsFirst(s)

\* A file is deleted after it was decided to, and its row after its object.
DecidedFirst(s) ==
    /\ Deleting(s) => batch[s] \subseteq condemned
    /\ step[s] = "rows" => batch[s] \intersect objects \subseteq late

CondemnedFirst ==
    /\ \A a \in Asset : row[a] = "deleted" => a \in condemned
    /\ \A s \in Server : DecidedFirst(s)

\* The server s may act on a for the movie m.
ActsFor(s, m, a) ==
    /\ movie[s] = m
    /\ \/ step[s] \in {"addPending", "isUploaded", "threshold", "assign", "attach"}
          /\ a \in batch[s]
       \/ step[s] = "readOwners" /\ a \in known[s]
       \/ Deleting(s) /\ a \in batch[s] /\ row[a] = "active"

Claims(m, a) ==
    <<m, a>> \in pending \/ owner[a] = m \/ \E s \in Server : ActsFor(s, m, a)

\* A file has one home, from the insert of its row to its deletion.
OneHome ==
    /\ \A m \in Movie, a \in Asset : Claims(m, a) => row[a] # "none"
    /\ \A m, n \in Movie, a \in Asset : Claims(m, a) /\ Claims(n, a) => m = n

\* m need not reach a: somebody has begun to delete one of them
Excused(m, a) == a \in condemned \/ m \in condemned \/ m \notin movies

Reaches(m, a) == Excused(m, a) \/ <<m, a>> \in attached \union pending

\* The list that names the file is changed by a completion only after the next one.
StaysReachable(s) ==
    \A a \in batch[s] :
        /\ step[s] \in {"isUploaded", "threshold", "assign", "attach"} => Reaches(movie[s], a)
        /\ step[s] = "unpend" => Excused(movie[s], a) \/ <<movie[s], a>> \in attached

FilesStayReachable ==
    updates = 0 => /\ \A a \in Asset : owner[a] # Nobody => Reaches(owner[a], a)
                   /\ \A s \in Server : StaysReachable(s)

IInv ==
    /\ TypeOK
    /\ JobsFitSteps
    /\ RowsPrecede
    /\ CondemnedFirst
    /\ NoOrphanObject
    /\ OneHome
    /\ FilesStayReachable

-----------------------------------------------------------------------------
(***************************************************************************)
(* How a step moves its server.                                            *)
(***************************************************************************)

LocalTypes ==
    /\ job \in [Server -> Job] /\ step \in [Server -> Step]
    /\ \A s \in Server : step[s] = "idle" <=> job[s] = "none"
    /\ movie \in [Server -> Movie \union {Nobody}]
    /\ batch \in [Server -> SUBSET Asset]
    /\ listed \in [Server -> SUBSET Asset] /\ known \in [Server -> SUBSET Asset]

\* what t is at has not changed
Stands(t) ==
    /\ step'[t] = step[t] /\ job'[t] = job[t] /\ movie'[t] = movie[t]
    /\ batch'[t] = batch[t] /\ listed'[t] = listed[t] /\ known'[t] = known[t]

OthersStand(s) == \A t \in Server \ {s} : Stands(t)

\* The next step of a request.
LEMMA GoToMoves ==
    ASSUME TypeOK, NEW s \in Server, NEW l \in Step \ {"idle"}, step[s] # "idle", GoTo(s, l)
    PROVE  /\ LocalTypes' /\ OthersStand(s)
           /\ step'[s] = l /\ job'[s] = job[s] /\ movie'[s] = movie[s]
           /\ batch'[s] = batch[s] /\ listed'[s] = listed[s] /\ known'[s] = known[s]
  BY DEF TypeOK, LocalTypes, GoTo, OthersStand, Stands

\* The end of a request.
LEMMA EndMoves ==
    ASSUME TypeOK, NEW s \in Server, End(s)
    PROVE  /\ LocalTypes' /\ OthersStand(s)
           /\ step'[s] = "idle" /\ job'[s] = "none" /\ movie'[s] = Nobody
           /\ batch'[s] = {} /\ listed'[s] = {} /\ known'[s] = {}
  <1>1. /\ job' \in [Server -> Job] /\ step' \in [Server -> Step]
        /\ movie' \in [Server -> Movie \union {Nobody}] /\ batch' \in [Server -> SUBSET Asset]
        /\ listed' \in [Server -> SUBSET Asset] /\ known' \in [Server -> SUBSET Asset]
     BY DEF TypeOK, End, Job, Step
  <1>2. /\ OthersStand(s)
        /\ step'[s] = "idle" /\ job'[s] = "none" /\ movie'[s] = Nobody
        /\ batch'[s] = {} /\ listed'[s] = {} /\ known'[s] = {}
     BY DEF TypeOK, End, OthersStand, Stands
  <1> QED BY <1>1, <1>2 DEF LocalTypes, OthersStand, Stands, TypeOK

\* The begin of a request.
LEMMA BeginMoves ==
    ASSUME TypeOK, NEW s \in Server, NEW j \in Job \ {"none"}, NEW m \in Movie \union {Nobody},
           NEW B \in SUBSET Asset, NEW l \in Step \ {"idle"}, Begin(s, j, m, B, l)
    PROVE  /\ LocalTypes' /\ OthersStand(s)
           /\ step'[s] = l /\ job'[s] = j /\ movie'[s] = m /\ batch'[s] = B
           /\ listed'[s] = {a \in B : <<m, a>> \in attached} /\ known'[s] = known[s]
  <1>1. /\ job' \in [Server -> Job] /\ step' \in [Server -> Step]
        /\ movie' \in [Server -> Movie \union {Nobody}] /\ batch' \in [Server -> SUBSET Asset]
        /\ listed' \in [Server -> SUBSET Asset] /\ known' \in [Server -> SUBSET Asset]
     BY DEF TypeOK, Begin
  <1>2. /\ OthersStand(s)
        /\ step'[s] = l /\ job'[s] = j /\ movie'[s] = m /\ batch'[s] = B
        /\ listed'[s] = {a \in B : <<m, a>> \in attached} /\ known'[s] = known[s]
     BY DEF TypeOK, Begin, OthersStand, Stands
  <1> QED BY <1>1, <1>2 DEF LocalTypes, OthersStand, Stands, TypeOK

-----------------------------------------------------------------------------
(***************************************************************************)
(* What every step leaves standing, and what that means for the servers    *)
(* that do not take it.                                                    *)
(***************************************************************************)

World ==
    /\ \A a \in Asset : /\ row[a] # "none" => row'[a] # "none"
                        /\ row'[a] = "active" => row[a] \in {"none", "active"}
    /\ condemned \subseteq condemned' /\ late \subseteq late' /\ movies' \subseteq movies
    /\ objects' \intersect condemned \subseteq objects \union late'
    /\ updates' = 0 =>
          /\ updates = 0
          /\ \A m \in Movie, a \in Asset : <<m, a>> \in attached =>
                Excused(m, a)' \/ <<m, a>> \in attached'
          /\ \A m \in Movie, a \in Asset : <<m, a>> \in pending => Reaches(m, a)'

\* what the invariant says of one server
Own(s) ==
    JobFits(s) /\ RowsFirst(s) /\ DecidedFirst(s) /\ (updates = 0 => StaysReachable(s))

\* The job of a server can be told from its step.
LEMMA JobOfStep ==
    ASSUME TypeOK, NEW s \in Server, JobFits(s)
    PROVE  /\ step[s] \in {"insert", "addPending"} => job[s] = "create"
           /\ step[s] \in {"isPending", "isUploaded", "threshold", "assign", "attach"} =>
                 job[s] = "finalize"
           /\ step[s] \in {"readPending", "readOwners"} => job[s] \in {"delete", "deleteMovie"}
           /\ step[s] = "detach" => job[s] = "delete"
           /\ step[s] = "unpend" => job[s] \in {"finalize", "delete"}
           /\ step[s] \in {"s3", "rows"} => job[s] \in {"finalize", "delete", "deleteMovie", "cleanup"}
           /\ step[s] \in {"unpendAll", "removeMovie"} => job[s] = "deleteMovie"
  <1>1. job[s] \in Job
     BY DEF TypeOK
  <1> QED BY <1>1 DEF JobFits, StepsOf, Job

\* Whoever could reach a file still can, or need not any more.
LEMMA ReachesLasts ==
    ASSUME World, updates' = 0, NEW m \in Movie, NEW a \in Asset, Reaches(m, a)
    PROVE  Reaches(m, a)'
  BY DEF World, Reaches, Excused

\* What the invariant says of a server stays true while others act.
LEMMA Bystander ==
    ASSUME IInv, World, NEW t \in Server, Stands(t) PROVE Own(t)'
  <1>1. TypeOK /\ JobFits(t) /\ RowsFirst(t) /\ DecidedFirst(t) /\ (updates = 0 => StaysReachable(t))
     BY DEF IInv, JobsFitSteps, RowsPrecede, CondemnedFirst, FilesStayReachable
  <1>2. JobFits(t)'
     BY <1>1 DEF JobFits, Stands, World
  <1>3. listed[t] \subseteq Asset /\ known[t] \subseteq Asset /\ batch[t] \subseteq Asset
     BY <1>1 DEF TypeOK
  <1>4. RowsFirst(t)'
     BY <1>1, <1>3 DEF RowsFirst, Deleting, Stands, World
  <1>5. DecidedFirst(t)'
     BY <1>1 DEF DecidedFirst, Deleting, Stands, World
  <1>6. ASSUME updates' = 0, NEW a \in batch[t],
               step[t] \in {"isUploaded", "threshold", "assign", "attach", "unpend"}
        PROVE  /\ step[t] # "unpend" => Reaches(movie[t], a)'
               /\ step[t] = "unpend" => (Excused(movie[t], a) \/ <<movie[t], a>> \in attached)'
    <2>1. movie[t] \in Movie /\ a \in Asset /\ updates = 0
       BY <1>1, <1>3, <1>6, JobOfStep DEF JobFits, World
    <2>2. movie'[t] = movie[t]
       BY DEF Stands
    <2>3. step[t] # "unpend" => Reaches(movie[t], a)
       BY <1>1, <1>6, <2>1 DEF StaysReachable
    <2>4. step[t] = "unpend" => Excused(movie[t], a) \/ <<movie[t], a>> \in attached
       BY <1>1, <1>6, <2>1 DEF StaysReachable
    <2>5. Reaches(movie[t], a) => Reaches(movie[t], a)'
       BY <1>6, <2>1, <2>2 DEF World, Reaches, Excused
    <2> QED BY <1>6, <2>1, <2>2, <2>3, <2>4, <2>5 DEF World, Excused
  <1>7. updates' = 0 => StaysReachable(t)'
     BY <1>6 DEF StaysReachable, Stands
  <1> QED BY <1>2, <1>4, <1>5, <1>7 DEF Own

\* The invariant, put together from what has to be shown of a step.
LEMMA Assembled ==
    ASSUME IInv, TypeOK', World, \A t \in Server : Stands(t) \/ Own(t)',
           ListedHaveRows', \A a \in Asset : row'[a] = "deleted" => a \in condemned',
           NoOrphanObject', OneHome',
           \A m \in Movie, a \in Asset :
              owner'[a] = m /\ owner[a] # m /\ updates' = 0 => Reaches(m, a)'
    PROVE  IInv'
  <1>1. \A t \in Server : Own(t)'
     BY Bystander
  <1>2. ASSUME updates' = 0, NEW m \in Movie, NEW a \in Asset, owner'[a] = m PROVE Reaches(m, a)'
    <2>1. CASE owner[a] = m
      <3>1. updates = 0 /\ m # Nobody
         BY <1>2, NobodyAssumption DEF NobodyAssumption, World
      <3>2. Reaches(m, a)
         BY <2>1, <3>1 DEF IInv, FilesStayReachable
      <3> QED BY <1>2, <3>2, ReachesLasts
    <2> QED BY <1>2, <2>1
  <1>3. ASSUME updates' = 0, NEW a \in Asset, owner'[a] # Nobody PROVE Reaches(owner[a], a)'
    <2>1. PICK m \in Movie : owner'[a] = m
       BY <1>3 DEF TypeOK
    <2>2. Reaches(m, a)'
       BY <1>2, <1>3, <2>1
    <2> QED BY <2>1, <2>2 DEF Reaches, Excused
  <1>4. FilesStayReachable'
     BY <1>1, <1>3 DEF FilesStayReachable, Own
  <1>5. JobsFitSteps' /\ RowsPrecede' /\ CondemnedFirst'
     BY <1>1 DEF Own, JobsFitSteps, RowsPrecede, CondemnedFirst
  <1> QED BY <1>4, <1>5 DEF IInv

\* A file keeps its home in a step that claims none.
LEMMA HomeStays ==
    ASSUME IInv, World,
           \A t \in Server : Stands(t) \/ \A m \in Movie, a \in Asset : ActsFor(t, m, a)' => Claims(m, a),
           \A m \in Movie, a \in Asset : <<m, a>> \in pending' \/ owner'[a] = m => Claims(m, a)
    PROVE  OneHome'
  <1>1. ASSUME NEW t \in Server, Stands(t), NEW m \in Movie, NEW a \in Asset, ActsFor(t, m, a)'
        PROVE  ActsFor(t, m, a)
    <2>1. RowsFirst(t)
       BY DEF IInv, RowsPrecede
    <2>2. Deleting(t) /\ a \in batch[t] /\ row'[a] = "active" => row[a] = "active"
       BY <2>1 DEF RowsFirst, World
    <2> QED BY <1>1, <2>2 DEF ActsFor, Deleting, Stands
  <1>2. ASSUME NEW m \in Movie, NEW a \in Asset, Claims(m, a)' PROVE Claims(m, a)
     BY <1>1, <1>2 DEF Claims
  <1> QED BY <1>2 DEF IInv, OneHome, World

\* A step that only moves its server, and may decide on a deletion.
LEMMA LocalStep ==
    ASSUME IInv, NEW s \in Server, LocalTypes', OthersStand(s),
           UNCHANGED <<assets, storage, catalog, updates>>, faults' \in 0..MaxFaults,
           condemned \subseteq condemned', condemned' \subseteq Asset \union Movie,
           Own(s)', \A m \in Movie, a \in Asset : ActsFor(s, m, a)' => Claims(m, a)
    PROVE  IInv'
  <1> USE DEF assets, storage, catalog
  <1>1. TypeOK'
     BY DEF IInv, TypeOK, LocalTypes
  <1>2. World
     BY DEF World, Reaches, Excused
  <1>3. ListedHaveRows' /\ NoOrphanObject' /\ \A a \in Asset : row'[a] = "deleted" => a \in condemned'
     BY DEF IInv, RowsPrecede, ListedHaveRows, NoOrphanObject, CondemnedFirst
  <1>4. OneHome'
     BY <1>2, HomeStays DEF OthersStand, Claims
  <1> QED BY <1>1, <1>2, <1>3, <1>4, Assembled DEF OthersStand

\* What holds of a server that is idle.
LEMMA IdleOwns ==
    ASSUME NEW s \in Server, step[s] = "idle", job[s] = "none", batch[s] = {}, listed[s] = {}
    PROVE  Own(s) /\ \A m, a : ~ActsFor(s, m, a)
  BY DEF Own, JobFits, StepsOf, RowsFirst, DecidedFirst, Deleting, StaysReachable, ActsFor

-----------------------------------------------------------------------------
(***************************************************************************)
(* Requests begin, read and decide.                                        *)
(***************************************************************************)

\* A request or the job begins: what it found in the movie's list has a row.
LEMMA BeginStep ==
    ASSUME IInv, NEW s \in Server, NEW j \in Job \ {"none"}, NEW m \in Movie \union {Nobody},
           NEW B \in SUBSET Asset, NEW l \in StepsOf(j), Begin(s, j, m, B, l),
           l \in {"insert", "isPending", "readPending", "unpend", "s3"},
           UNCHANGED <<assets, storage, catalog, bounds>>,
           condemned \subseteq condemned', condemned' \subseteq Asset \union Movie,
           j \in {"create", "finalize", "delete"} => m \in Movie /\ \E a \in Asset : B = {a},
           j = "deleteMovie" => m \in Movie \intersect condemned',
           j = "cleanup" <=> l = "s3",
           j = "cleanup" => B \subseteq condemned' /\ m = Nobody /\ \A a \in B : row[a] # "none",
           l = "unpend" => j = "finalize" /\ \A a \in B : <<m, a>> \in attached
    PROVE  IInv'
  <1>1. TypeOK /\ ListedHaveRows
     BY DEF IInv, RowsPrecede
  <1>2. l \in Step \ {"idle"}
     BY DEF Step
  <1>3. /\ LocalTypes' /\ OthersStand(s)
        /\ step'[s] = l /\ job'[s] = j /\ movie'[s] = m /\ batch'[s] = B
        /\ listed'[s] = {a \in B : <<m, a>> \in attached}
     <2>1. TypeOK
        BY <1>1
     <2> QED BY ONLY <2>1, <1>2, Begin(s, j, m, B, l), BeginMoves
  <1>4. m = Nobody => listed'[s] = {}
     BY <1>1, <1>3, NobodyAssumption DEF NobodyAssumption, TypeOK
  <1>5. \A a \in listed'[s] : row'[a] # "none"
     BY <1>1, <1>3, <1>4 DEF ListedHaveRows, assets
  <1>6. JobFits(s)'
     BY <1>3 DEF JobFits, StepsOf
  <1>7. RowsFirst(s)' /\ DecidedFirst(s)'
     BY <1>3, <1>5 DEF RowsFirst, DecidedFirst, Deleting, assets
  <1>8. StaysReachable(s)'
     BY <1>3 DEF StaysReachable, catalog
  <1>9. \A x \in Movie, a \in Asset : ~ActsFor(s, x, a)'
     BY <1>3, NobodyAssumption DEF NobodyAssumption, ActsFor, Deleting
  <1>10. faults' \in 0..MaxFaults /\ UNCHANGED updates
     BY <1>1 DEF TypeOK, bounds
  <1> QED BY <1>3, <1>6, <1>7, <1>8, <1>9, <1>10, LocalStep DEF Own

\* Uploads, completions and deletions are asked for, and the job runs.
LEMMA StartStep ==
    ASSUME IInv, NEW s \in Server,
           CreateAsset(s) \/ Finalize(s) \/ DeleteAsset(s) \/ DeleteMovie(s) \/ Cleanup(s)
    PROVE  IInv'
  <1>1. TypeOK
     BY DEF IInv
  <1>2. movies \subseteq Movie /\ condemned \subseteq Asset \union Movie
     BY <1>1 DEF TypeOK
  <1>3. ASSUME CreateAsset(s) PROVE IInv'
    <2>1. PICK m \in movies, a \in Asset : Begin(s, "create", m, {a}, "insert")
       BY <1>3 DEF CreateAsset
    <2> QED BY <1>2, <1>3, <2>1, BeginStep DEF CreateAsset, Job, StepsOf
  <1>4. ASSUME Finalize(s) PROVE IInv'
    <2>1. PICK m \in movies, a \in Asset :
             Begin(s, "finalize", m, {a}, IF <<m, a>> \in attached THEN "unpend" ELSE "isPending")
       BY <1>4 DEF Finalize
    <2>2. CASE <<m, a>> \in attached
       BY <1>2, <1>4, <2>1, <2>2, BeginStep DEF Finalize, Job, StepsOf
    <2>3. CASE <<m, a>> \notin attached
       BY <1>2, <1>4, <2>1, <2>3, BeginStep DEF Finalize, Job, StepsOf
    <2> QED BY <2>2, <2>3
  <1>5. ASSUME DeleteAsset(s) PROVE IInv'
    <2>1. PICK m \in movies, a \in Asset : Begin(s, "delete", m, {a}, "readPending")
       BY <1>5 DEF DeleteAsset
    <2> QED BY <1>2, <1>5, <2>1, BeginStep DEF DeleteAsset, Job, StepsOf
  <1>6. ASSUME DeleteMovie(s) PROVE IInv'
    <2>1. PICK m \in movies : /\ Begin(s, "deleteMovie", m, ListOf(m, attached), "readPending")
                              /\ condemned' = condemned \union {m}
       BY <1>6 DEF DeleteMovie
    <2>2. ListOf(m, attached) \subseteq Asset
       BY DEF ListOf
    <2> QED BY <1>2, <1>6, <2>1, <2>2, BeginStep DEF DeleteMovie, Job, StepsOf
  <1>7. ASSUME Cleanup(s) PROVE IInv'
    <2> DEFINE found == {a \in Asset : Expired(a)}
    <2>1. Begin(s, "cleanup", Nobody, found, "s3") /\ condemned' = condemned \union found
       BY <1>7 DEF Cleanup
    <2>2. \A a \in found : row[a] # "none"
       BY DEF Expired
    <2>3. UNCHANGED <<assets, storage, catalog, bounds>>
       BY <1>7 DEF Cleanup
    <2> HIDE DEF found
    <2>4. found \subseteq Asset
       BY DEF found
    <2> QED BY <1>2, <2>1, <2>2, <2>3, <2>4, BeginStep DEF Job, StepsOf
  <1> QED BY <1>3, <1>4, <1>5, <1>6, <1>7

\* A request that gives up, is done or dies leaves nothing behind but its traces.
LEMMA EndStep ==
    ASSUME IInv, NEW s \in Server, End(s),
           UNCHANGED <<assets, storage, catalog, condemned, updates>>, faults' \in 0..MaxFaults
    PROVE  IInv'
  <1>1. TypeOK
     BY DEF IInv
  <1>2. /\ LocalTypes' /\ OthersStand(s) /\ step'[s] = "idle" /\ job'[s] = "none"
        /\ batch'[s] = {} /\ listed'[s] = {}
     BY <1>1, EndMoves
  <1>3. Own(s)' /\ \A m \in Movie, a \in Asset : ~ActsFor(s, m, a)'
     BY <1>2 DEF Own, JobFits, StepsOf, RowsFirst, DecidedFirst, Deleting, StaysReachable, ActsFor
  <1>4. condemned' \subseteq Asset \union Movie
     BY <1>1 DEF TypeOK
  <1> QED BY <1>2, <1>3, <1>4, LocalStep

LEMMA DiesStep == ASSUME IInv, NEW s \in Server, Dies(s) PROVE IInv'
  <1>1. faults' \in 0..MaxFaults
     BY BoundAssumption DEF BoundAssumption, IInv, TypeOK, Dies
  <1> QED BY <1>1, EndStep DEF Dies

\* isPending: the file is the movie's as long as this list says so.
LEMMA IsPendingStep == ASSUME IInv, NEW s \in Server, IsPending(s) PROVE IInv'
  <1>1. TypeOK /\ JobFits(s) /\ RowsFirst(s) /\ ListedHaveRows
     BY DEF IInv, JobsFitSteps, RowsPrecede
  <1>2. step[s] = "isPending" /\ job[s] = "finalize"
     BY <1>1, JobOfStep DEF IsPending
  <1>3. PICK x \in Asset : movie[s] \in Movie /\ batch[s] = {x}
     BY <1>1, <1>2 DEF JobFits
  <1>4. CASE <<movie[s], x>> \in pending /\ GoTo(s, "isUploaded")
    <2>1. /\ LocalTypes' /\ OthersStand(s)
          /\ step'[s] = "isUploaded" /\ job'[s] = "finalize" /\ movie'[s] = movie[s]
          /\ batch'[s] = {x} /\ listed'[s] = listed[s] /\ known'[s] = known[s]
       BY <1>1, <1>2, <1>3, <1>4, GoToMoves DEF Step
    <2>2. UNCHANGED <<assets, storage, catalog, condemned, bounds>>
       BY DEF IsPending
    <2>3. JobFits(s)'
       BY <1>3, <2>1 DEF JobFits, StepsOf
    <2>4. RowsFirst(s)'
       BY <1>1, <1>3, <1>4, <2>1, <2>2 DEF RowsFirst, Deleting, ListedHaveRows, assets
    <2>5. DecidedFirst(s)' /\ StaysReachable(s)'
       BY <1>4, <2>1, <2>2 DEF DecidedFirst, Deleting, StaysReachable, Reaches, catalog
    <2>6. \A m \in Movie, a \in Asset : ActsFor(s, m, a)' => Claims(m, a)
       BY <1>4, <2>1 DEF ActsFor, Deleting, Claims
    <2> QED BY <1>1, <2>1, <2>2, <2>3, <2>4, <2>5, <2>6, LocalStep DEF Own, bounds, TypeOK
  <1>5. CASE End(s)
     BY <1>1, <1>5, EndStep DEF IsPending, TypeOK, bounds
  <1> QED BY <1>2, <1>3, <1>4, <1>5 DEF IsPending, Mine

\* The next check of a completion, which changes nothing but where it is.
LEMMA CheckStep ==
    ASSUME IInv, NEW s \in Server, IsUploaded(s) \/ ComputeThreshold(s) PROVE IInv'
  <1>1. TypeOK /\ JobFits(s) /\ RowsFirst(s) /\ (updates = 0 => StaysReachable(s))
     BY DEF IInv, JobsFitSteps, RowsPrecede, FilesStayReachable
  <1>2. step[s] \in {"isUploaded", "threshold"} /\ job[s] = "finalize"
     BY <1>1, JobOfStep DEF IsUploaded, ComputeThreshold
  <1>3. UNCHANGED <<assets, storage, catalog, condemned, bounds>>
     BY DEF IsUploaded, ComputeThreshold
  <1>4. faults' \in 0..MaxFaults /\ UNCHANGED updates
     BY <1>1, <1>3 DEF TypeOK, bounds
  <1>5. CASE End(s)
     BY <1>3, <1>4, <1>5, EndStep
  <1>6. ASSUME LocalTypes', OthersStand(s), step'[s] \in {"threshold", "assign"},
               job'[s] = job[s], movie'[s] = movie[s], batch'[s] = batch[s], listed'[s] = listed[s]
        PROVE  IInv'
    <2>1. JobFits(s)' /\ RowsFirst(s)' /\ DecidedFirst(s)'
       BY <1>1, <1>2, <1>3, <1>6
          DEF JobFits, StepsOf, RowsFirst, DecidedFirst, Deleting, assets
    <2>2. updates' = 0 => StaysReachable(s)'
       BY <1>1, <1>2, <1>3, <1>4, <1>6 DEF StaysReachable, Reaches, Excused, catalog
    <2>3. \A m \in Movie, a \in Asset : ActsFor(s, m, a)' => Claims(m, a)
       BY <1>2, <1>6 DEF ActsFor, Deleting, Claims
    <2>4. condemned' \subseteq Asset \union Movie
       BY <1>1, <1>3 DEF TypeOK
    <2> QED BY <1>3, <1>4, <1>6, <2>1, <2>2, <2>3, <2>4, LocalStep DEF Own
  <1>7. CASE IsUploaded(s) /\ GoTo(s, "threshold")
     BY <1>1, <1>2, <1>6, <1>7, GoToMoves DEF Step
  <1>8. CASE /\ known' = [known EXCEPT ![s] = batch[s] \ expired]
             /\ step' = [step EXCEPT ![s] = "assign"]
             /\ UNCHANGED <<job, movie, batch, listed>>
     BY <1>1, <1>2, <1>6, <1>8 DEF TypeOK, LocalTypes, OthersStand, Stands, Step
  <1> QED BY <1>5, <1>7, <1>8 DEF IsUploaded, ComputeThreshold

\* The pending list is read: a file that is on it is the movie's.
LEMMA ReadPendingStep == ASSUME IInv, NEW s \in Server, ReadPending(s) PROVE IInv'
  <1>1. TypeOK /\ JobFits(s) /\ RowsFirst(s) /\ ListedHaveRows
     BY DEF IInv, JobsFitSteps, RowsPrecede
  <1>2. step[s] = "readPending" /\ job[s] \in {"delete", "deleteMovie"} /\ movie[s] \in Movie
     BY <1>1, JobOfStep DEF ReadPending, JobFits
  <1> DEFINE found == IF job[s] = "delete" THEN batch[s] \intersect ListOf(movie[s], pending)
                                           ELSE ListOf(movie[s], pending)
  <1>3. /\ found \subseteq Asset /\ \A a \in found : <<movie[s], a>> \in pending
        /\ job[s] = "delete" => found \subseteq batch[s]
     BY DEF ListOf
  <1>4. /\ step' = [step EXCEPT ![s] = "readOwners"]
        /\ batch' = [batch EXCEPT ![s] = @ \union found] /\ known' = [known EXCEPT ![s] = found]
        /\ UNCHANGED <<job, movie, listed, assets, storage, catalog, condemned, bounds>>
     BY DEF ReadPending
  <1> HIDE DEF found
  <1>5. /\ LocalTypes' /\ OthersStand(s)
        /\ step'[s] = "readOwners" /\ job'[s] = job[s] /\ movie'[s] = movie[s]
        /\ batch'[s] = batch[s] \union found /\ listed'[s] = listed[s] /\ known'[s] = found
     BY <1>1, <1>2, <1>3, <1>4 DEF TypeOK, LocalTypes, OthersStand, Stands, Step
  <1>6. JobFits(s)'
     BY <1>1, <1>2, <1>3, <1>4, <1>5 DEF JobFits, StepsOf
  <1>7. RowsFirst(s)'
     BY <1>1, <1>2, <1>3, <1>4, <1>5 DEF RowsFirst, Deleting, ListedHaveRows, assets
  <1>8. DecidedFirst(s)' /\ StaysReachable(s)'
     BY <1>5 DEF DecidedFirst, Deleting, StaysReachable
  <1>9. \A m \in Movie, a \in Asset : ActsFor(s, m, a)' => Claims(m, a)
     BY <1>3, <1>5 DEF ActsFor, Deleting, Claims
  <1> QED BY <1>1, <1>4, <1>5, <1>6, <1>7, <1>8, <1>9, LocalStep DEF Own, bounds, TypeOK

\* The owners decide which files are deleted: those of the request's own movie.
LEMMA ReadOwnersStep == ASSUME IInv, NEW s \in Server, ReadOwners(s) PROVE IInv'
  <1>1. TypeOK /\ JobFits(s) /\ RowsFirst(s) /\ CondemnedFirst
     BY DEF IInv, JobsFitSteps, RowsPrecede
  <1>2. step[s] = "readOwners" /\ job[s] \in {"delete", "deleteMovie"} /\ movie[s] \in Movie
     BY <1>1, JobOfStep DEF ReadOwners, JobFits
  <1> DEFINE there == {a \in batch[s] : row[a] = "active"}
             mine == {a \in there : BelongsTo(s, a)}
             goesOn == mine # {} \/ (there = {} /\ listed[s] \union known[s] # {})
  <1>3. /\ there \subseteq batch[s] /\ mine \subseteq there /\ batch[s] \subseteq Asset
        /\ \A a \in mine : row[a] = "active" /\ (owner[a] = movie[s] \/ a \in known[s])
        /\ \A a \in batch[s] \ there : row[a] # "active"
     BY <1>1 DEF TypeOK, BelongsTo
  <1>4. UNCHANGED <<assets, storage, catalog, bounds>>
     BY DEF ReadOwners
  <1>5. \/ /\ job[s] = "deleteMovie" /\ batch' = [batch EXCEPT ![s] = mine]
           /\ condemned' = condemned \union mine /\ step' = [step EXCEPT ![s] = "s3"]
           /\ UNCHANGED <<job, movie, listed, known>>
        \/ /\ job[s] = "delete" /\ goesOn
           /\ condemned' = condemned \union mine /\ GoTo(s, "detach")
        \/ End(s) /\ UNCHANGED condemned
     BY <1>2 DEF ReadOwners
  <1>6. faults' \in 0..MaxFaults /\ UNCHANGED updates
     BY <1>1, <1>4 DEF TypeOK, bounds
  <1> HIDE DEF there, mine
  <1>7. \A a \in mine : Claims(movie[s], a)
     BY <1>2, <1>3 DEF Claims, ActsFor
  <1>8. CASE /\ job[s] = "deleteMovie" /\ batch' = [batch EXCEPT ![s] = mine]
             /\ condemned' = condemned \union mine /\ step' = [step EXCEPT ![s] = "s3"]
             /\ UNCHANGED <<job, movie, listed, known>>
    <2>1. /\ LocalTypes' /\ OthersStand(s)
          /\ step'[s] = "s3" /\ job'[s] = "deleteMovie" /\ movie'[s] = movie[s]
          /\ batch'[s] = mine /\ listed'[s] = listed[s]
       BY <1>1, <1>2, <1>3, <1>8 DEF TypeOK, LocalTypes, OthersStand, Stands, Step
    <2>2. JobFits(s)'
       BY <1>1, <1>8, <2>1 DEF JobFits, StepsOf
    <2>3. RowsFirst(s)'
       BY <1>1, <1>3, <1>4, <2>1 DEF RowsFirst, Deleting, assets
    <2>4. DecidedFirst(s)' /\ StaysReachable(s)'
       BY <1>8, <2>1 DEF DecidedFirst, Deleting, StaysReachable
    <2>5. \A m \in Movie, a \in Asset : ActsFor(s, m, a)' => Claims(m, a)
       BY <1>7, <2>1 DEF ActsFor, Deleting
    <2>6. condemned \subseteq condemned' /\ condemned' \subseteq Asset \union Movie
       BY <1>1, <1>3, <1>8 DEF TypeOK
    <2> QED BY <1>4, <1>6, <2>1, <2>2, <2>3, <2>4, <2>5, <2>6, LocalStep DEF Own
  <1>9. CASE /\ job[s] = "delete" /\ goesOn
             /\ condemned' = condemned \union mine /\ GoTo(s, "detach")
    <2>1. /\ LocalTypes' /\ OthersStand(s)
          /\ step'[s] = "detach" /\ job'[s] = "delete" /\ movie'[s] = movie[s]
          /\ batch'[s] = batch[s] /\ listed'[s] = listed[s] /\ known'[s] = known[s]
       BY <1>1, <1>2, <1>9, GoToMoves DEF Step
    <2>2. PICK x \in Asset : batch[s] = {x} /\ listed[s] \subseteq {x} /\ known[s] \subseteq {x}
       BY <1>1, <1>2, <1>9 DEF JobFits
    <2>3. row[x] # "none"
       BY <1>1, <1>2, <1>3, <1>9, <2>2 DEF RowsFirst
    <2>4. x \in mine \/ row[x] = "deleted"
      <3>1. CASE mine # {}
         BY <1>3, <2>2, <3>1
      <3>2. CASE there = {}
         BY <1>1, <1>3, <2>2, <2>3, <3>2 DEF TypeOK
      <3> QED BY <1>9, <3>1, <3>2
    <2>5. x \in condemned'
       BY <1>1, <1>9, <2>4 DEF CondemnedFirst
    <2>6. JobFits(s)'
       BY <1>1, <1>2, <1>9, <2>1 DEF JobFits, StepsOf
    <2>7. RowsFirst(s)'
       BY <1>1, <1>4, <2>1, <2>2, <2>3 DEF RowsFirst, Deleting, assets
    <2>8. DecidedFirst(s)' /\ StaysReachable(s)'
       BY <2>1, <2>2, <2>5 DEF DecidedFirst, Deleting, StaysReachable
    <2>9. \A m \in Movie, a \in Asset : ActsFor(s, m, a)' => Claims(m, a)
      <3> SUFFICES ASSUME NEW m \in Movie, NEW a \in Asset, ActsFor(s, m, a)' PROVE Claims(m, a)
         OBVIOUS
      <3>1. m = movie[s] /\ a = x /\ row[a] = "active"
         BY <1>4, <2>1, <2>2 DEF ActsFor, Deleting, assets
      <3> QED BY <1>7, <2>4, <3>1
    <2>10. condemned \subseteq condemned' /\ condemned' \subseteq Asset \union Movie
       BY <1>1, <1>3, <1>9 DEF TypeOK
    <2> QED BY <1>4, <1>6, <2>1, <2>6, <2>7, <2>8, <2>9, <2>10, LocalStep DEF Own
  <1>10. CASE End(s) /\ UNCHANGED condemned
     BY <1>4, <1>6, <1>10, EndStep
  <1> QED BY <1>5, <1>8, <1>9, <1>10

-----------------------------------------------------------------------------
(***************************************************************************)
(* Uploads and completions write.                                          *)
(***************************************************************************)

\* The row of a new file: whoever inserts it has the only claim to it.
LEMMA InsertRowStep == ASSUME IInv, NEW s \in Server, InsertRow(s) PROVE IInv'
  <1>1. TypeOK /\ JobFits(s) /\ RowsFirst(s) /\ ListedHaveRows /\ CondemnedFirst /\ OneHome
     BY DEF IInv, JobsFitSteps, RowsPrecede
  <1>2. step[s] = "insert" /\ job[s] = "create"
     BY <1>1, JobOfStep DEF InsertRow
  <1>3. PICK x \in Asset : movie[s] \in Movie /\ batch[s] = {x}
     BY <1>1, <1>2 DEF JobFits
  <1>4. UNCHANGED <<owner, expired, storage, catalog, condemned, bounds>>
     BY DEF InsertRow
  <1>5. CASE row[x] # "none"
    <2>1. {a \in batch[s] : row[a] = "none"} = {}
       BY <1>3, <1>5
    <2> QED BY <1>1, <2>1, EndStep DEF InsertRow, TypeOK, bounds, assets
  <1>6. CASE row[x] = "none"
    <2>1. /\ \A a \in Asset : row'[a] = IF a = x THEN "active" ELSE row[a]
          /\ row' \in [Asset -> {"none", "active", "deleted"}]
          /\ GoTo(s, "addPending")
      <3>1. {a \in batch[s] : row[a] = "none"} = {x}
         BY <1>3, <1>6
      <3>2. /\ row' = [a \in Asset |-> IF a \in {x} THEN "active" ELSE row[a]]
            /\ GoTo(s, "addPending")
         BY <3>1 DEF InsertRow
      <3> QED BY <1>1, <3>2 DEF TypeOK
    <2>2. /\ LocalTypes' /\ OthersStand(s)
          /\ step'[s] = "addPending" /\ job'[s] = "create" /\ movie'[s] = movie[s]
          /\ batch'[s] = {x} /\ listed'[s] = listed[s]
       BY <1>1, <1>2, <1>3, <2>1, GoToMoves DEF Step
    <2>3. TypeOK'
       BY <1>1, <1>4, <2>1, <2>2 DEF TypeOK, LocalTypes, storage, catalog, bounds
    <2>4. World
       BY <1>4, <1>6, <2>1 DEF World, Reaches, Excused, storage, catalog, bounds
    <2>5. Own(s)'
      <3>1. JobFits(s)'
         BY <1>3, <2>2 DEF JobFits, StepsOf
      <3>2. RowsFirst(s)'
         BY <1>1, <2>1, <2>2 DEF RowsFirst, Deleting, TypeOK
      <3>3. DecidedFirst(s)' /\ StaysReachable(s)'
         BY <2>2 DEF DecidedFirst, Deleting, StaysReachable
      <3> QED BY <3>1, <3>2, <3>3 DEF Own
    <2>6. ListedHaveRows' /\ NoOrphanObject' /\ \A a \in Asset : row'[a] = "deleted" => a \in condemned'
       BY <1>1, <1>4, <2>1
          DEF IInv, ListedHaveRows, NoOrphanObject, CondemnedFirst, storage, catalog, TypeOK
    <2>7. ASSUME NEW m \in Movie, NEW a \in Asset, Claims(m, a)'
          PROVE  Claims(m, a) \/ (a = x /\ m = movie[s])
      <3>1. ASSUME NEW t \in Server \ {s}, ActsFor(t, m, a)' PROVE ActsFor(t, m, a)
        <4>1. Stands(t) /\ RowsFirst(t)
           BY <2>2 DEF OthersStand, IInv, RowsPrecede
        <4>2. Deleting(t) /\ a \in batch[t] /\ row'[a] = "active" => row[a] = "active"
           BY <1>6, <2>1, <4>1 DEF RowsFirst
        <4> QED BY <3>1, <4>1, <4>2 DEF ActsFor, Deleting, Stands
      <3>2. ActsFor(s, m, a)' => a = x /\ m = movie[s]
         BY <2>2 DEF ActsFor, Deleting
      <3> QED BY <1>4, <2>7, <3>1, <3>2 DEF Claims, catalog
    <2>8. \A m \in Movie : ~Claims(m, x)
       BY <1>1, <1>6 DEF OneHome
    <2>9. OneHome'
       BY <1>1, <2>1, <2>7, <2>8 DEF OneHome
    <2>10. \A t \in Server : Stands(t) \/ Own(t)'
       BY <2>2, <2>5 DEF OthersStand
    <2>11. UNCHANGED owner
       BY <1>4
    <2> QED BY <2>3, <2>4, <2>6, <2>9, <2>10, <2>11, Assembled
  <1> QED BY <1>5, <1>6

\* The movie's pending list gets the new file, and the client its form.
LEMMA AddPendingStep == ASSUME IInv, NEW s \in Server, AddPending(s) PROVE IInv'
  <1>1. TypeOK /\ JobFits(s) /\ RowsFirst(s) /\ ListedHaveRows /\ CondemnedFirst
     BY DEF IInv, JobsFitSteps, RowsPrecede
  <1>2. step[s] = "addPending" /\ job[s] = "create"
     BY <1>1, JobOfStep DEF AddPending
  <1>3. PICK x \in Asset : movie[s] \in Movie /\ batch[s] = {x} /\ row[x] # "none"
     BY <1>1, <1>2 DEF JobFits, RowsFirst
  <1>4. /\ pending' = pending \union {<<movie[s], x>>} /\ forms' = forms \union {x}
        /\ End(s) /\ UNCHANGED <<assets, objects, late, movies, attached, condemned, bounds>>
     BY <1>3 DEF AddPending, Mine
  <1>5. /\ LocalTypes' /\ OthersStand(s)
        /\ step'[s] = "idle" /\ job'[s] = "none" /\ movie'[s] = Nobody
        /\ batch'[s] = {} /\ listed'[s] = {}
     BY <1>1, <1>4, EndMoves
  <1>6. TypeOK'
     BY <1>1, <1>3, <1>4, <1>5 DEF TypeOK, LocalTypes, assets, bounds
  <1>7. World
     BY <1>4 DEF World, Reaches, Excused, assets, bounds
  <1>8. Own(s)' /\ \A m \in Movie, a \in Asset : ~ActsFor(s, m, a)'
     BY <1>5 DEF Own, JobFits, StepsOf, RowsFirst, DecidedFirst, Deleting, StaysReachable, ActsFor
  <1>9. ListedHaveRows' /\ NoOrphanObject' /\ \A a \in Asset : row'[a] = "deleted" => a \in condemned'
     BY <1>1, <1>3, <1>4 DEF IInv, ListedHaveRows, NoOrphanObject, CondemnedFirst, assets
  <1>10. ActsFor(s, movie[s], x)
     BY <1>2, <1>3 DEF ActsFor
  <1>11. OneHome'
    <2>1. \A m \in Movie, a \in Asset : <<m, a>> \in pending' \/ owner'[a] = m => Claims(m, a)
       BY <1>4, <1>10 DEF Claims, assets
    <2> QED BY <1>5, <1>7, <1>8, <2>1, HomeStays DEF OthersStand
  <1>12. \A t \in Server : Stands(t) \/ Own(t)'
     BY <1>5, <1>8 DEF OthersStand
  <1>13. UNCHANGED owner
     BY <1>4 DEF assets
  <1> QED BY <1>6, <1>7, <1>9, <1>11, <1>12, <1>13, Assembled

\* assignOwner: the movie whose pending list names the file becomes its owner; a
\* file whose upload has expired is deleted.
LEMMA AssignOwnerStep == ASSUME IInv, NEW s \in Server, AssignOwner(s) PROVE IInv'
  <1>1. /\ TypeOK /\ JobFits(s) /\ RowsFirst(s) /\ ListedHaveRows /\ CondemnedFirst
        /\ updates = 0 => StaysReachable(s)
     BY DEF IInv, JobsFitSteps, RowsPrecede, FilesStayReachable
  <1>2. step[s] = "assign" /\ job[s] = "finalize"
     BY <1>1, JobOfStep DEF AssignOwner
  <1>3. PICK x \in Asset : movie[s] \in Movie /\ batch[s] = {x} /\ row[x] # "none"
     BY <1>1, <1>2 DEF JobFits, RowsFirst
  <1>4. UNCHANGED <<row, expired, storage, catalog, bounds>>
     BY DEF AssignOwner
  <1>5. ActsFor(s, movie[s], x)
     BY <1>2, <1>3 DEF ActsFor
  <1>6. CASE GoTo(s, "attach") /\ UNCHANGED condemned
             /\ owner' = [a \in Asset |-> IF a \in batch[s] THEN movie[s] ELSE owner[a]]
    <2>1. /\ LocalTypes' /\ OthersStand(s)
          /\ step'[s] = "attach" /\ job'[s] = "finalize" /\ movie'[s] = movie[s]
          /\ batch'[s] = {x} /\ listed'[s] = listed[s]
       BY <1>1, <1>2, <1>3, <1>6, GoToMoves DEF Step
    <2>2. /\ \A a \in Asset : owner'[a] = IF a = x THEN movie[s] ELSE owner[a]
          /\ owner' \in [Asset -> Movie \union {Nobody}]
       BY <1>1, <1>3, <1>6 DEF TypeOK
    <2>3. TypeOK'
       BY <1>1, <1>3, <1>4, <1>6, <2>1, <2>2 DEF TypeOK, LocalTypes, storage, catalog, bounds
    <2>4. World
       BY <1>4, <1>6 DEF World, Reaches, Excused, storage, catalog, bounds
    <2>5. updates' = 0 => Reaches(movie[s], x) /\ (Reaches(movie[s], x))'
       BY <1>1, <1>2, <1>3, <1>4, <1>6, <2>1
          DEF StaysReachable, Reaches, Excused, catalog, bounds
    <2>6. Own(s)'
      <3>1. JobFits(s)'
         BY <1>3, <2>1 DEF JobFits, StepsOf
      <3>2. RowsFirst(s)'
         BY <1>1, <1>3, <1>4, <2>1 DEF RowsFirst, Deleting
      <3>3. DecidedFirst(s)' /\ (updates' = 0 => StaysReachable(s)')
         BY <2>1, <2>5 DEF DecidedFirst, Deleting, StaysReachable
      <3> QED BY <3>1, <3>2, <3>3 DEF Own
    <2>7. ListedHaveRows' /\ NoOrphanObject' /\ \A a \in Asset : row'[a] = "deleted" => a \in condemned'
       BY <1>1, <1>4, <1>6 DEF IInv, ListedHaveRows, NoOrphanObject, CondemnedFirst, storage, catalog
    <2>8. OneHome'
      <3>1. \A m \in Movie, a \in Asset : ActsFor(s, m, a)' => Claims(m, a)
         BY <1>5, <2>1 DEF ActsFor, Deleting, Claims
      <3>2. \A m \in Movie, a \in Asset : <<m, a>> \in pending' \/ owner'[a] = m => Claims(m, a)
         BY <1>4, <1>5, <2>2 DEF Claims, catalog
      <3> QED BY <2>1, <2>4, <3>1, <3>2, HomeStays DEF OthersStand
    <2>9. \A t \in Server : Stands(t) \/ Own(t)'
       BY <2>1, <2>6 DEF OthersStand
    <2>10. \A m \in Movie, a \in Asset :
              owner'[a] = m /\ owner[a] # m /\ updates' = 0 => Reaches(m, a)'
       BY <2>1, <2>2, <2>5 DEF Reaches, Excused
    <2> QED BY <2>3, <2>4, <2>7, <2>8, <2>9, <2>10, Assembled
  <1>7. CASE GoTo(s, "s3") /\ UNCHANGED owner /\ condemned' = condemned \union batch[s]
    <2>1. /\ LocalTypes' /\ OthersStand(s)
          /\ step'[s] = "s3" /\ job'[s] = "finalize" /\ movie'[s] = movie[s]
          /\ batch'[s] = {x} /\ listed'[s] = listed[s]
       BY <1>1, <1>2, <1>3, <1>7, GoToMoves DEF Step
    <2>2. condemned \subseteq condemned' /\ condemned' \subseteq Asset \union Movie /\ x \in condemned'
       BY <1>1, <1>3, <1>7 DEF TypeOK
    <2>3. JobFits(s)'
       BY <1>3, <2>1 DEF JobFits, StepsOf
    <2>4. RowsFirst(s)'
       BY <1>1, <1>3, <1>4, <2>1 DEF RowsFirst, Deleting
    <2>5. DecidedFirst(s)' /\ StaysReachable(s)'
       BY <2>1, <2>2 DEF DecidedFirst, Deleting, StaysReachable
    <2>6. \A m \in Movie, a \in Asset : ActsFor(s, m, a)' => Claims(m, a)
       BY <1>5, <2>1 DEF ActsFor, Deleting, Claims
    <2>7. UNCHANGED assets /\ faults' \in 0..MaxFaults /\ UNCHANGED updates
       BY <1>1, <1>4, <1>7 DEF TypeOK, assets, bounds
    <2> QED BY <1>4, <2>1, <2>2, <2>3, <2>4, <2>5, <2>6, <2>7, LocalStep DEF Own
  <1> QED BY <1>6, <1>7 DEF AssignOwner

\* The movie's own list names the file before the pending list forgets it.
LEMMA AttachStep == ASSUME IInv, NEW s \in Server, Attach(s) PROVE IInv'
  <1>1. TypeOK /\ JobFits(s) /\ RowsFirst(s) /\ ListedHaveRows /\ CondemnedFirst
     BY DEF IInv, JobsFitSteps, RowsPrecede
  <1>2. step[s] = "attach" /\ job[s] = "finalize"
     BY <1>1, JobOfStep DEF Attach
  <1>3. PICK x \in Asset : movie[s] \in Movie /\ batch[s] = {x} /\ row[x] # "none"
     BY <1>1, <1>2 DEF JobFits, RowsFirst
  <1>4. UNCHANGED <<assets, storage, movies, pending, condemned, updates>>
     BY DEF Attach, AfterAssign
  <1>5. CASE faults < MaxFaults /\ faults' = faults + 1 /\ End(s) /\ UNCHANGED attached
    <2>1. faults' \in 0..MaxFaults
       BY <1>1, <1>5, BoundAssumption DEF BoundAssumption, TypeOK
    <2> QED BY <1>4, <1>5, <2>1, EndStep DEF catalog
  <1>6. CASE /\ attached' = IF movie[s] \in movies THEN attached \union Mine(s) ELSE attached
             /\ GoTo(s, "unpend") /\ UNCHANGED faults
    <2>1. /\ LocalTypes' /\ OthersStand(s)
          /\ step'[s] = "unpend" /\ job'[s] = "finalize" /\ movie'[s] = movie[s]
          /\ batch'[s] = {x} /\ listed'[s] = listed[s]
       BY <1>1, <1>2, <1>3, <1>6, GoToMoves DEF Step
    <2>2. /\ attached \subseteq attached' /\ attached' \subseteq attached \union {<<movie[s], x>>}
          /\ movie[s] \in movies => <<movie[s], x>> \in attached'
       BY <1>3, <1>6 DEF Mine
    <2>3. TypeOK'
       BY <1>1, <1>3, <1>4, <1>6, <2>1, <2>2 DEF TypeOK, LocalTypes, assets, storage
    <2>4. World
       BY <1>4, <2>2 DEF World, Reaches, Excused, assets, storage
    <2>5. Own(s)'
      <3>1. JobFits(s)'
         BY <1>3, <2>1 DEF JobFits, StepsOf
      <3>2. RowsFirst(s)'
         BY <1>1, <1>4, <2>1 DEF RowsFirst, Deleting, assets
      <3>3. DecidedFirst(s)' /\ StaysReachable(s)'
         BY <1>4, <2>1, <2>2 DEF DecidedFirst, Deleting, StaysReachable, Excused
      <3> QED BY <3>1, <3>2, <3>3 DEF Own
    <2>6. ListedHaveRows' /\ NoOrphanObject' /\ \A a \in Asset : row'[a] = "deleted" => a \in condemned'
       BY <1>1, <1>3, <1>4, <2>2
          DEF IInv, ListedHaveRows, NoOrphanObject, CondemnedFirst, storage, assets
    <2>7. OneHome'
      <3>1. \A m \in Movie, a \in Asset : ~ActsFor(s, m, a)'
         BY <2>1 DEF ActsFor, Deleting
      <3>2. \A m \in Movie, a \in Asset : <<m, a>> \in pending' \/ owner'[a] = m => Claims(m, a)
         BY <1>4 DEF Claims, assets
      <3> QED BY <2>1, <2>4, <3>1, <3>2, HomeStays DEF OthersStand
    <2>8. \A t \in Server : Stands(t) \/ Own(t)'
       BY <2>1, <2>5 DEF OthersStand
    <2>9. UNCHANGED owner
       BY <1>4 DEF assets
    <2> QED BY <2>3, <2>4, <2>6, <2>7, <2>8, <2>9, Assembled
  <1> QED BY <1>5, <1>6 DEF Attach

-----------------------------------------------------------------------------
(***************************************************************************)
(* Deletions and the client write.                                         *)
(***************************************************************************)

\* The lists lose entries of files that are condemned, of files that the other
\* list names, and of movies that are condemned.
LEMMA ListStep ==
    ASSUME IInv, NEW s \in Server, Detach(s) \/ Unpend(s) \/ RemoveByMovieIds(s) PROVE IInv'
  <1>1. /\ TypeOK /\ JobFits(s) /\ RowsFirst(s) /\ ListedHaveRows /\ CondemnedFirst
        /\ DecidedFirst(s) /\ (updates = 0 => StaysReachable(s))
     BY DEF IInv, JobsFitSteps, RowsPrecede, CondemnedFirst, FilesStayReachable
  <1>2. step[s] \in {"detach", "unpend", "unpendAll"} /\ movie[s] \in Movie
     BY <1>1, JobOfStep DEF Detach, Unpend, RemoveByMovieIds, JobFits
  <1>3. /\ UNCHANGED <<assets, storage, movies, condemned, bounds>>
        /\ attached' \subseteq attached /\ pending' \subseteq pending
     BY DEF Detach, Unpend, RemoveByMovieIds
  <1>4. \A m \in Movie, a \in Asset :
           /\ <<m, a>> \in attached \ attached' => a \in condemned
           /\ <<m, a>> \in pending \ pending' /\ updates = 0 => Excused(m, a) \/ <<m, a>> \in attached'
    <2> SUFFICES ASSUME NEW m \in Movie, NEW a \in Asset
                 PROVE  /\ <<m, a>> \in attached \ attached' => a \in condemned
                        /\ <<m, a>> \in pending \ pending' /\ updates = 0 =>
                              Excused(m, a) \/ <<m, a>> \in attached'
       OBVIOUS
    <2>1. CASE Detach(s)
      <3>1. job[s] = "delete" /\ listed[s] \subseteq condemned
         BY <1>1, <2>1, JobOfStep DEF Detach, JobFits, DecidedFirst, Deleting
      <3> QED BY <2>1, <3>1 DEF Detach
    <2>2. CASE Unpend(s) /\ job[s] = "delete"
      <3>1. known[s] \subseteq condemned
         BY <1>1, <2>2 DEF Unpend, JobFits, DecidedFirst, Deleting
      <3> QED BY <2>2, <3>1 DEF Unpend, Excused
    <2>3. CASE Unpend(s) /\ job[s] # "delete"
       BY <1>1, <2>3 DEF Unpend, Mine, StaysReachable
    <2>4. CASE RemoveByMovieIds(s)
      <3>1. movie[s] \in condemned
         BY <1>1, <2>4, JobOfStep DEF RemoveByMovieIds, JobFits
      <3> QED BY <2>4, <3>1 DEF RemoveByMovieIds, Excused
    <2> QED BY <2>1, <2>2, <2>3, <2>4
  <1>5. World
     BY <1>3, <1>4 DEF World, Reaches, Excused, assets, storage, bounds
  <1>6. LocalTypes' /\ OthersStand(s) /\ Own(s)' /\ \A m \in Movie, a \in Asset : ActsFor(s, m, a)' => ActsFor(s, m, a)
    <2>1. CASE End(s)
      <3>1. /\ LocalTypes' /\ OthersStand(s) /\ step'[s] = "idle" /\ job'[s] = "none"
            /\ batch'[s] = {} /\ listed'[s] = {}
         BY <1>1, <2>1, EndMoves
      <3>2. Own(s)' /\ \A m \in Movie, a \in Asset : ~ActsFor(s, m, a)'
         BY <3>1 DEF Own, JobFits, StepsOf, RowsFirst, DecidedFirst, Deleting, StaysReachable, ActsFor
      <3> QED BY <3>1, <3>2
    <2>2. ASSUME NEW l \in {"unpend", "s3", "removeMovie"}, GoTo(s, l),
                 l = "removeMovie" => job[s] = "deleteMovie",
                 l # "removeMovie" => job[s] = "delete" /\ Deleting(s),
                 l = "unpend" => step[s] = "detach"
          PROVE  LocalTypes' /\ OthersStand(s) /\ Own(s)' /\ \A m \in Movie, a \in Asset : ActsFor(s, m, a)' => ActsFor(s, m, a)
      <3>1. /\ LocalTypes' /\ OthersStand(s)
            /\ step'[s] = l /\ job'[s] = job[s] /\ movie'[s] = movie[s]
            /\ batch'[s] = batch[s] /\ listed'[s] = listed[s] /\ known'[s] = known[s]
         BY <1>1, <1>2, <2>2, GoToMoves DEF Step
      <3>2. JobFits(s)'
         BY <1>1, <1>2, <1>3, <2>2, <3>1 DEF JobFits, StepsOf, Deleting
      <3>3. RowsFirst(s)' /\ DecidedFirst(s)'
         BY <1>1, <1>3, <2>2, <3>1 DEF RowsFirst, DecidedFirst, Deleting, assets
      <3>4. StaysReachable(s)'
         BY <1>1, <1>3, <2>2, <3>1 DEF StaysReachable, Excused, DecidedFirst
      <3>5. \A m \in Movie, a \in Asset : ActsFor(s, m, a)' => ActsFor(s, m, a)
         BY <1>3, <2>2, <3>1 DEF ActsFor, Deleting, assets
      <3> QED BY <3>1, <3>2, <3>3, <3>4, <3>5 DEF Own
    <2>3. CASE Detach(s)
       BY <1>1, <2>2, <2>3, JobOfStep DEF Detach, Deleting
    <2>4. CASE Unpend(s) /\ job[s] = "delete"
       BY <2>2, <2>4 DEF Unpend, Deleting
    <2>5. CASE Unpend(s) /\ job[s] # "delete"
       BY <2>1, <2>5 DEF Unpend
    <2>6. CASE RemoveByMovieIds(s)
       BY <1>1, <2>2, <2>6, JobOfStep DEF RemoveByMovieIds
    <2> QED BY <2>3, <2>4, <2>5, <2>6
  <1>7. TypeOK'
     BY <1>1, <1>3, <1>6 DEF TypeOK, LocalTypes, assets, storage, bounds
  <1>8. ListedHaveRows' /\ NoOrphanObject' /\ \A a \in Asset : row'[a] = "deleted" => a \in condemned'
     BY <1>1, <1>3 DEF IInv, ListedHaveRows, NoOrphanObject, CondemnedFirst, storage, assets
  <1>9. OneHome'
    <2>1. \A m \in Movie, a \in Asset : <<m, a>> \in pending' \/ owner'[a] = m => Claims(m, a)
       BY <1>3 DEF Claims, assets
    <2>2. \A m \in Movie, a \in Asset : ActsFor(s, m, a)' => Claims(m, a)
       BY <1>6 DEF Claims
    <2> QED BY <1>5, <1>6, <2>1, <2>2, HomeStays DEF OthersStand
  <1>10. \A t \in Server : Stands(t) \/ Own(t)'
     BY <1>6 DEF OthersStand
  <1>11. UNCHANGED owner
     BY <1>3 DEF assets
  <1> QED BY <1>5, <1>7, <1>8, <1>9, <1>10, <1>11, Assembled

\* The objects go before the rows do.
LEMMA DeleteObjectsStep == ASSUME IInv, NEW s \in Server, DeleteObjects(s) PROVE IInv'
  <1>1. /\ TypeOK /\ JobFits(s) /\ RowsFirst(s) /\ ListedHaveRows /\ CondemnedFirst /\ DecidedFirst(s)
     BY DEF IInv, JobsFitSteps, RowsPrecede, CondemnedFirst
  <1>2. step[s] = "s3" /\ job[s] \in {"finalize", "delete", "deleteMovie", "cleanup"}
     BY <1>1, JobOfStep DEF DeleteObjects
  <1>3. /\ UNCHANGED <<assets, forms, late, catalog, condemned, updates>>
        /\ objects' \subseteq objects /\ faults' \in 0..MaxFaults
        /\ (GoTo(s, "rows") /\ batch[s] \intersect objects' = {}) \/ End(s)
    <2>1. PICK failed \in SUBSET (batch[s] \intersect objects) :
             /\ objects' = objects \ (batch[s] \ failed)
             /\ IF failed = {} THEN UNCHANGED faults ELSE faults < MaxFaults /\ faults' = faults + 1
             /\ IF AfterS3(failed) THEN GoTo(s, "rows") ELSE End(s)
       BY DEF DeleteObjects
    <2>2. faults' \in 0..MaxFaults
       BY <1>1, <2>1, BoundAssumption DEF BoundAssumption, TypeOK
    <2>3. CASE failed = {}
       BY <2>1, <2>2, <2>3 DEF DeleteObjects, AfterS3
    <2>4. CASE failed # {}
       BY <2>1, <2>2, <2>4 DEF DeleteObjects, AfterS3
    <2> QED BY <2>3, <2>4
  <1>4. World
     BY <1>3 DEF World, Reaches, Excused, assets, catalog
  <1>5. LocalTypes' /\ OthersStand(s) /\ Own(s)' /\ \A m \in Movie, a \in Asset : ActsFor(s, m, a)' => ActsFor(s, m, a)
    <2>1. CASE End(s)
      <3>1. /\ LocalTypes' /\ OthersStand(s) /\ step'[s] = "idle" /\ job'[s] = "none"
            /\ batch'[s] = {} /\ listed'[s] = {}
         BY <1>1, <2>1, EndMoves
      <3>2. Own(s)' /\ \A m \in Movie, a \in Asset : ~ActsFor(s, m, a)'
         BY <3>1 DEF Own, JobFits, StepsOf, RowsFirst, DecidedFirst, Deleting, StaysReachable, ActsFor
      <3> QED BY <3>1, <3>2
    <2>2. CASE GoTo(s, "rows") /\ batch[s] \intersect objects' = {}
      <3>1. /\ LocalTypes' /\ OthersStand(s)
            /\ step'[s] = "rows" /\ job'[s] = job[s] /\ movie'[s] = movie[s]
            /\ batch'[s] = batch[s] /\ listed'[s] = listed[s]
         BY <1>1, <1>2, <2>2, GoToMoves DEF Step
      <3>2. JobFits(s)'
         BY <1>1, <1>2, <1>3, <3>1 DEF JobFits, StepsOf
      <3>3. RowsFirst(s)' /\ DecidedFirst(s)'
         BY <1>1, <1>2, <1>3, <2>2, <3>1 DEF RowsFirst, DecidedFirst, Deleting, assets
      <3>4. StaysReachable(s)'
         BY <3>1 DEF StaysReachable
      <3>5. \A m \in Movie, a \in Asset : ActsFor(s, m, a)' => ActsFor(s, m, a)
         BY <1>2, <1>3, <3>1 DEF ActsFor, Deleting, assets
      <3> QED BY <3>1, <3>2, <3>3, <3>4, <3>5 DEF Own
    <2> QED BY <1>3, <2>1, <2>2
  <1>6. TypeOK'
     BY <1>1, <1>3, <1>5 DEF TypeOK, LocalTypes, assets, catalog
  <1>7. ListedHaveRows' /\ NoOrphanObject' /\ \A a \in Asset : row'[a] = "deleted" => a \in condemned'
     BY <1>1, <1>3 DEF IInv, ListedHaveRows, NoOrphanObject, CondemnedFirst, assets, catalog
  <1>8. OneHome'
    <2>1. \A m \in Movie, a \in Asset : <<m, a>> \in pending' \/ owner'[a] = m => Claims(m, a)
       BY <1>3 DEF Claims, assets, catalog
    <2>2. \A m \in Movie, a \in Asset : ActsFor(s, m, a)' => Claims(m, a)
       BY <1>5 DEF Claims
    <2> QED BY <1>4, <1>5, <2>1, <2>2, HomeStays DEF OthersStand
  <1>9. \A t \in Server : Stands(t) \/ Own(t)'
     BY <1>5 DEF OthersStand
  <1>10. UNCHANGED owner
     BY <1>3 DEF assets
  <1> QED BY <1>4, <1>6, <1>7, <1>8, <1>9, <1>10, Assembled

\* A row goes when its object is gone, or was uploaded after the decision.
LEMMA DeleteRowsStep == ASSUME IInv, NEW s \in Server, DeleteRows(s) PROVE IInv'
  <1>1. /\ TypeOK /\ JobFits(s) /\ RowsFirst(s) /\ ListedHaveRows /\ CondemnedFirst /\ DecidedFirst(s)
     BY DEF IInv, JobsFitSteps, RowsPrecede, CondemnedFirst
  <1>2. step[s] = "rows" /\ job[s] \in {"finalize", "delete", "deleteMovie", "cleanup"}
     BY <1>1, JobOfStep DEF DeleteRows
  <1>3. /\ \A a \in Asset : row'[a] = IF a \in batch[s] /\ row[a] = "active" THEN "deleted" ELSE row[a]
        /\ row' \in [Asset -> {"none", "active", "deleted"}]
        /\ UNCHANGED <<owner, expired, storage, catalog, condemned, bounds>>
     BY <1>1 DEF DeleteRows, TypeOK
  <1>4. batch[s] \subseteq condemned /\ batch[s] \intersect objects \subseteq late
     BY <1>1, <1>2 DEF DecidedFirst, Deleting
  <1>5. World
     BY <1>1, <1>3 DEF World, Reaches, Excused, storage, catalog, bounds, TypeOK
  <1>6. LocalTypes' /\ OthersStand(s) /\ Own(s)' /\ \A m \in Movie, a \in Asset : ~ActsFor(s, m, a)'
    <2>1. CASE End(s)
      <3>1. /\ LocalTypes' /\ OthersStand(s) /\ step'[s] = "idle" /\ job'[s] = "none"
            /\ batch'[s] = {} /\ listed'[s] = {}
         BY <1>1, <2>1, EndMoves
      <3> QED BY <3>1 DEF Own, JobFits, StepsOf, RowsFirst, DecidedFirst, Deleting, StaysReachable, ActsFor
    <2>2. CASE job[s] = "deleteMovie" /\ GoTo(s, "unpendAll")
      <3>1. /\ LocalTypes' /\ OthersStand(s)
            /\ step'[s] = "unpendAll" /\ job'[s] = job[s] /\ movie'[s] = movie[s]
            /\ batch'[s] = batch[s] /\ listed'[s] = listed[s]
         BY <1>1, <1>2, <2>2, GoToMoves DEF Step
      <3>2. JobFits(s)'
         BY <1>1, <1>3, <2>2, <3>1 DEF JobFits, StepsOf
      <3>3. RowsFirst(s)' /\ DecidedFirst(s)'
         BY <1>1, <1>3, <3>1 DEF RowsFirst, DecidedFirst, Deleting, TypeOK
      <3>4. StaysReachable(s)' /\ \A m \in Movie, a \in Asset : ~ActsFor(s, m, a)'
         BY <3>1 DEF StaysReachable, ActsFor, Deleting
      <3> QED BY <3>1, <3>2, <3>3, <3>4 DEF Own
    <2> QED BY <2>1, <2>2 DEF DeleteRows
  <1>7. TypeOK'
     BY <1>1, <1>3, <1>6 DEF TypeOK, LocalTypes, storage, catalog, bounds
  <1>8. ListedHaveRows' /\ NoOrphanObject' /\ \A a \in Asset : row'[a] = "deleted" => a \in condemned'
    <2>1. ListedHaveRows'
       BY <1>1, <1>3 DEF ListedHaveRows, catalog
    <2>2. NoOrphanObject'
       BY <1>1, <1>3, <1>4 DEF IInv, NoOrphanObject, storage, TypeOK
    <2>3. \A a \in Asset : row'[a] = "deleted" => a \in condemned'
       BY <1>1, <1>3, <1>4 DEF CondemnedFirst
    <2> QED BY <2>1, <2>2, <2>3
  <1>9. OneHome'
    <2>1. \A m \in Movie, a \in Asset : <<m, a>> \in pending' \/ owner'[a] = m => Claims(m, a)
       BY <1>3 DEF Claims, catalog
    <2> QED BY <1>5, <1>6, <2>1, HomeStays DEF OthersStand
  <1>10. \A t \in Server : Stands(t) \/ Own(t)'
     BY <1>6 DEF OthersStand
  <1>11. UNCHANGED owner
     BY <1>3
  <1> QED BY <1>5, <1>7, <1>8, <1>9, <1>10, <1>11, Assembled

\* A movie goes after somebody has decided that it does.
LEMMA RemoveMovieStep == ASSUME IInv, NEW s \in Server, RemoveMovie(s) PROVE IInv'
  <1>1. TypeOK /\ ListedHaveRows /\ CondemnedFirst
     BY DEF IInv, RowsPrecede
  <1>2. /\ movies' \subseteq movies /\ End(s)
        /\ UNCHANGED <<assets, storage, attached, pending, condemned, bounds>>
     BY DEF RemoveMovie
  <1>3. /\ LocalTypes' /\ OthersStand(s) /\ step'[s] = "idle" /\ job'[s] = "none"
        /\ batch'[s] = {} /\ listed'[s] = {}
     BY <1>1, <1>2, EndMoves
  <1>4. Own(s)' /\ \A m \in Movie, a \in Asset : ~ActsFor(s, m, a)'
     BY <1>3 DEF Own, JobFits, StepsOf, RowsFirst, DecidedFirst, Deleting, StaysReachable, ActsFor
  <1>5. TypeOK'
     BY <1>1, <1>2, <1>3 DEF TypeOK, LocalTypes, assets, storage, bounds
  <1>6. World
     BY <1>2 DEF World, Reaches, Excused, assets, storage, bounds
  <1>7. ListedHaveRows' /\ NoOrphanObject' /\ \A a \in Asset : row'[a] = "deleted" => a \in condemned'
     BY <1>1, <1>2 DEF IInv, ListedHaveRows, NoOrphanObject, CondemnedFirst, assets, storage
  <1>8. OneHome'
    <2>1. \A m \in Movie, a \in Asset : <<m, a>> \in pending' \/ owner'[a] = m => Claims(m, a)
       BY <1>2 DEF Claims, assets
    <2> QED BY <1>3, <1>4, <1>6, <2>1, HomeStays DEF OthersStand
  <1>9. \A t \in Server : Stands(t) \/ Own(t)'
     BY <1>3, <1>4 DEF OthersStand
  <1>10. UNCHANGED owner
     BY <1>2 DEF assets
  <1> QED BY <1>5, <1>6, <1>7, <1>8, <1>9, <1>10, Assembled

\* The client uploads, the catalog's editor sets the list, time passes: no server
\* moves, and no pending list, owner or row changes.
LEMMA OutsideStep ==
    ASSUME IInv,
           \/ \E a \in Asset : Upload(a) \/ RowExpires(a) \/ FormExpires(a)
           \/ \E m \in Movie : UpdateAssetIds(m)
    PROVE  IInv'
  <1>1. TypeOK /\ ListedHaveRows /\ CondemnedFirst /\ NoOrphanObject
     BY DEF IInv, RowsPrecede
  <1>2. UNCHANGED <<row, owner, movies, pending, local, condemned, faults>>
     BY DEF Upload, RowExpires, FormExpires, UpdateAssetIds, assets, catalog, bounds
  <1>3. /\ expired' \subseteq Asset /\ forms' \subseteq Asset
        /\ objects' \subseteq Asset /\ late \subseteq late' /\ late' \subseteq Asset
        /\ objects' \intersect condemned \subseteq objects \union late' /\ objects \subseteq objects'
     BY <1>1 DEF TypeOK, Upload, RowExpires, FormExpires, UpdateAssetIds, assets, storage
  <1>4. \/ UNCHANGED <<attached, updates>>
        \/ /\ updates < MaxUpdates /\ updates' = updates + 1
           /\ \A m \in Movie, a \in Asset :
                 <<m, a>> \in attached' => row[a] # "none" \/ <<m, a>> \in attached
           /\ attached' \subseteq Movie \X Asset
    <2>1. ASSUME NEW m \in Movie, UpdateAssetIds(m)
          PROVE  /\ updates < MaxUpdates /\ updates' = updates + 1
                 /\ \A n \in Movie, a \in Asset :
                       <<n, a>> \in attached' => row[a] # "none" \/ <<n, a>> \in attached
                 /\ attached' \subseteq Movie \X Asset
      <3>1. PICK A \in SUBSET {a \in Asset : row[a] # "none"} :
               attached' = {e \in attached : e[1] # m} \union ({m} \X A)
         BY <2>1 DEF UpdateAssetIds
      <3>2. updates < MaxUpdates /\ updates' = updates + 1
         BY <2>1 DEF UpdateAssetIds
      <3>3. attached' \subseteq Movie \X Asset
         BY <1>1, <3>1 DEF TypeOK
      <3>4. \A n \in Movie, a \in Asset : <<n, a>> \in attached' => a \in A \/ <<n, a>> \in attached
         BY <3>1
      <3> QED BY <3>1, <3>2, <3>3, <3>4
    <2> QED BY <2>1 DEF Upload, RowExpires, FormExpires, catalog, bounds
  <1>5. updates' \in 0..MaxUpdates /\ (updates' = 0 => updates = 0 /\ UNCHANGED attached)
    <2>1. updates \in 0..MaxUpdates /\ MaxUpdates \in Nat
       BY <1>1, BoundAssumption DEF BoundAssumption, TypeOK
    <2> QED BY <1>4, <2>1
  <1>6. TypeOK'
     BY <1>1, <1>2, <1>3, <1>4, <1>5 DEF TypeOK, local
  <1>7. World
     BY <1>1, <1>2, <1>3, <1>5 DEF World, Reaches, Excused, TypeOK
  <1>8. \A t \in Server : Stands(t)
     BY <1>2 DEF Stands, local
  <1>9. ListedHaveRows'
     BY <1>1, <1>2, <1>4 DEF ListedHaveRows
  <1>10. NoOrphanObject' /\ \A a \in Asset : row'[a] = "deleted" => a \in condemned'
     BY <1>1, <1>2, <1>3 DEF NoOrphanObject, CondemnedFirst, TypeOK
  <1>11. OneHome'
    <2>1. \A m \in Movie, a \in Asset : <<m, a>> \in pending' \/ owner'[a] = m => Claims(m, a)
       BY <1>2 DEF Claims
    <2> QED BY <1>7, <1>8, <2>1, HomeStays
  <1>12. UNCHANGED owner
     BY <1>2
  <1> QED BY <1>6, <1>7, <1>8, <1>9, <1>10, <1>11, <1>12, Assembled

-----------------------------------------------------------------------------
(***************************************************************************)
(* The theorems.                                                           *)
(***************************************************************************)

\* Nothing has been uploaded at the start.
LEMMA InitInvariant == Init => IInv
  <1> SUFFICES ASSUME Init PROVE IInv
     OBVIOUS
  <1>1. TypeOK
     BY BoundAssumption DEF BoundAssumption, Init, TypeOK, Job, Step
  <1>2. \A s \in Server : /\ step[s] = "idle" /\ job[s] = "none" /\ movie[s] = Nobody
                          /\ batch[s] = {} /\ listed[s] = {}
     BY DEF Init
  <1>3. \A s \in Server : Own(s)
     BY <1>2 DEF Own, JobFits, StepsOf, RowsFirst, DecidedFirst, Deleting, StaysReachable
  <1>4. \A m \in Movie, a \in Asset : ~Claims(m, a)
     BY <1>2, NobodyAssumption DEF NobodyAssumption, Init, Claims, ActsFor, Deleting
  <1>5. NoOrphanObject /\ ListedHaveRows /\ \A a \in Asset : row[a] = "none" /\ owner[a] = Nobody
     BY DEF Init, NoOrphanObject, ListedHaveRows
  <1> QED BY <1>1, <1>3, <1>4, <1>5
          DEF IInv, Own, JobsFitSteps, RowsPrecede, CondemnedFirst, OneHome, FilesStayReachable

\* Every step of the system keeps the invariant.
LEMMA NextInvariant == IInv /\ [Next]_vars => IInv'
  <1> SUFFICES ASSUME IInv, [Next]_vars PROVE IInv'
     OBVIOUS
  <1>1. ASSUME NEW s \in Server,
               \/ CreateAsset(s) \/ Finalize(s) \/ DeleteAsset(s) \/ DeleteMovie(s) \/ Cleanup(s)
               \/ Work(s) \/ Dies(s)
        PROVE  IInv'
     BY <1>1, StartStep, DiesStep, InsertRowStep, AddPendingStep, IsPendingStep, CheckStep,
        AssignOwnerStep, AttachStep, ReadPendingStep, ReadOwnersStep, ListStep,
        DeleteObjectsStep, DeleteRowsStep, RemoveMovieStep
     DEF Work
  <1>2. CASE UNCHANGED vars
    <2>1. \A t \in Server : Stands(t)
       BY <1>2 DEF vars, local, Stands
    <2>2. World
       BY <1>2 DEF vars, assets, storage, catalog, bounds, World, Reaches, Excused, IInv, TypeOK
    <2>3. TypeOK'
       BY <1>2 DEF vars, assets, storage, catalog, bounds, local, IInv, TypeOK
    <2>4. ListedHaveRows' /\ NoOrphanObject' /\ \A a \in Asset : row'[a] = "deleted" => a \in condemned'
       BY <1>2 DEF vars, assets, storage, catalog, IInv, RowsPrecede, ListedHaveRows, NoOrphanObject,
                   CondemnedFirst
    <2>5. \A m \in Movie, a \in Asset : <<m, a>> \in pending' \/ owner'[a] = m => Claims(m, a)
       BY <1>2 DEF vars, assets, catalog, Claims
    <2>6. OneHome'
       BY <2>1, <2>2, <2>5, HomeStays
    <2>7. UNCHANGED owner
       BY <1>2 DEF vars, assets
    <2> QED BY <2>1, <2>2, <2>3, <2>4, <2>6, <2>7, Assembled
  <1> QED BY <1>1, <1>2, OutsideStep DEF Next

\* The inductive invariant holds in every reachable state.
THEOREM MovieAssetsInvariant == Spec => []IInv
  BY InitInvariant, NextInvariant, PTL DEF Spec

\* No object without a row that leads to it, and no owner that cannot reach its
\* file, whatever requests for the same file interleave and wherever one dies.
THEOREM FilesAreAccountedAlways == Spec => []FilesAreAccounted
  <1>1. IInv => OwnedIsReachable
    <2> SUFFICES ASSUME IInv, updates = 0, NEW a \in Asset \ condemned, owner[a] \in movies \ condemned
                 PROVE  <<owner[a], a>> \in attached \union pending
       BY DEF OwnedIsReachable
    <2>1. owner[a] # Nobody
       BY NobodyAssumption DEF NobodyAssumption, IInv, TypeOK
    <2> QED BY <2>1 DEF IInv, FilesStayReachable, Reaches, Excused
  <1>2. IInv => FilesAreAccounted
     BY <1>1 DEF IInv, FilesAreAccounted
  <1> QED BY <1>2, MovieAssetsInvariant, PTL

\* A file is deleted only for its own movie or by the job, whatever the lists of
\* other movies name.
THEOREM DeletionStaysHomeAlways == Spec => []DeletionStaysHome
  <1>1. IInv => DeletionStaysHome
    <2> SUFFICES ASSUME IInv, NEW s \in Server, step[s] = "rows", job[s] # "cleanup",
                        NEW a \in batch[s], row[a] = "active", owner[a] # Nobody
                 PROVE  owner[a] = movie[s]
       BY DEF DeletionStaysHome
    <2>1. TypeOK /\ JobFits(s)
       BY DEF IInv, JobsFitSteps
    <2>2. a \in Asset /\ owner[a] \in Movie
       BY <2>1 DEF TypeOK
    <2>3. movie[s] \in Movie
       BY <2>1, JobOfStep DEF JobFits
    <2>4. Claims(owner[a], a) /\ Claims(movie[s], a)
       BY DEF Claims, ActsFor, Deleting
    <2> QED BY <2>2, <2>3, <2>4 DEF IInv, OneHome
  <1> QED BY <1>1, MovieAssetsInvariant, PTL

-----------------------------------------------------------------------------
(***************************************************************************)
(* The catalog.  An editor validates a copy that others may have changed   *)
(* since; the version makes the write fail then.  What an editor read is a *)
(* state of the document in the past, the present one if the version is    *)
(* still its own (ReadsArePast), and it writes what it has validated       *)
(* (WritesAreValidated).                                                   *)
(***************************************************************************)

\* a set of the fields a request may ask for; none of them means publish
Patches ==
    {<<>>} \union {p \in UNION {[F -> Catalog!AnyValue] : F \in SUBSET Field} :
                      \A f \in DOMAIN p : p[f] \in Catalog!Value(f)}

\* The types, which for patches and attempts Catalog!TypeOK gives in part only.
DocumentTyped ==
    /\ Catalog!TypeOK
    /\ patch \in [Editor -> Patches]
    /\ attempt \in [Editor -> 0..Attempts]
    /\ answer \in [Editor -> {"none", "notFound", "missingFields", "invalid", "ok", "gaveUp"}]

\* a published movie is complete, also when it is deleted
CompleteOrDraft == Catalog!Valid(document)

\* What a request has read is no newer than the movie, and older once the movie
\* is gone.
ReadsArePast ==
    \A r \in Editor :
        /\ seen[r] <= document.version
        /\ edit[r] = "write" /\ ~document.exists => seen[r] < document.version

\* A write that its filter lets through was validated against this very movie.
WritesAreValidated ==
    \A r \in Editor :
        edit[r] = "write" /\ Catalog!Current(r) => Catalog!Valid(Catalog!Patched(r, document))

\* Each attempt of a request has cost a write of somebody else.
AttemptsCostWrites ==
    \A r \in Editor :
        /\ edit[r] = "new" => attempt[r] = 0
        /\ edit[r] = "read" => begun[r] + attempt[r] <= document.version
        /\ edit[r] = "write" => begun[r] + attempt[r] <= seen[r]
        /\ answer[r] = "gaveUp" => begun[r] + Attempts <= document.version

CatalogInv ==
    /\ DocumentTyped
    /\ CompleteOrDraft
    /\ ReadsArePast
    /\ WritesAreValidated
    /\ AttemptsCostWrites

LEMMA BoundsAreNumbers == Attempts \in Nat \ {0} /\ MaxVersion \in Nat \ {0}
  BY CatalogAssumption DEF Catalog!BoundAssumption

LEMMA NothingAskedIsAPatch == <<>> \in Patches /\ DOMAIN <<>> = {}
  BY DEF Patches

LEMMA PatchesHaveFields ==
  ASSUME NEW p \in Patches
  PROVE  DOMAIN p \subseteq Field /\ \A f \in DOMAIN p : p[f] \in Catalog!Value(f)
  BY NothingAskedIsAPatch DEF Patches

LEMMA CatalogInit == Catalog!Init => CatalogInv
  <1> SUFFICES ASSUME Catalog!Init PROVE CatalogInv
      OBVIOUS
  <1> USE BoundsAreNumbers
  <1>1. /\ document \in Catalog!Movies /\ document.exists /\ ~document.published
        /\ document.version = 0
      <2>1. document.fields \in Catalog!Fields /\ 0 \in 0..MaxVersion
            BY DEF Catalog!Init
      <2> QED BY <2>1 DEF Catalog!Init, Catalog!Movies
  <1>2. DocumentTyped
      BY <1>1, NothingAskedIsAPatch DEF Catalog!Init, DocumentTyped, Catalog!TypeOK
  <1>3. CompleteOrDraft
      BY <1>1 DEF CompleteOrDraft, Catalog!Valid
  <1>4. ReadsArePast /\ WritesAreValidated /\ AttemptsCostWrites
      BY <1>1 DEF Catalog!Init, ReadsArePast, WritesAreValidated, AttemptsCostWrites
  <1> QED BY <1>2, <1>3, <1>4 DEF CatalogInv

-----------------------------------------------------------------------------
\* What a patch makes of a movie is a movie, of the same version.
LEMMA PatchedIsAMovie ==
  ASSUME DocumentTyped, NEW r \in Editor
  PROVE  LET m == Catalog!Patched(r, document)
         IN  /\ m \in Catalog!Movies
             /\ m.version = document.version /\ m.exists = document.exists
             /\ \A v \in 0..MaxVersion : [m EXCEPT !.version = v] \in Catalog!Movies
  <1> DEFINE m == Catalog!Patched(r, document)
  <1>1. document \in Catalog!Movies /\ patch[r] \in Patches
      BY DEF DocumentTyped, Catalog!TypeOK
  <1>2. CASE patch[r] = <<>>
      BY <1>1, <1>2 DEF Catalog!Patched, Catalog!Movies
  <1>3. CASE patch[r] # <<>>
      <2> DEFINE g == [f \in Field |->
                          IF f \in DOMAIN patch[r] THEN patch[r][f] ELSE document.fields[f]]
      <2>1. m = [document EXCEPT !.fields = g]
          BY <1>3 DEF Catalog!Patched
      <2>2. document.fields \in Catalog!Fields
          BY <1>1 DEF Catalog!Movies
      <2>3. \A f \in Field : g[f] \in Catalog!Value(f)
          BY <2>2, <1>1, PatchesHaveFields DEF Catalog!Fields
      <2>4. \A f \in Field : Catalog!Value(f) \subseteq Catalog!AnyValue
          BY DEF Catalog!Value, Catalog!AnyValue
      <2>5. g \in Catalog!Fields
          BY <2>3, <2>4 DEF Catalog!Fields
      <2> HIDE DEF g
      <2> QED BY <1>1, <2>1, <2>5 DEF Catalog!Movies
  <1> QED BY <1>2, <1>3

\* A request that is answered forgets what it had read.  Every other request is
\* where it was.
LEMMA FinishMoves ==
  ASSUME DocumentTyped, NEW r \in Editor, NEW a, Catalog!Finish(r, a)
  PROVE  /\ answer'[r] = a /\ edit'[r] = "done" /\ patch'[r] = <<>> /\ seen'[r] = 0
         /\ begun'[r] = IF a = "gaveUp" THEN begun[r] ELSE 0
         /\ \A q \in Editor \ {r} : /\ answer'[q] = answer[q] /\ edit'[q] = edit[q]
                                    /\ patch'[q] = patch[q] /\ seen'[q] = seen[q]
                                    /\ begun'[q] = begun[q]
  BY DEF DocumentTyped, Catalog!TypeOK, Catalog!Finish

Answers == {"none", "notFound", "missingFields", "invalid", "ok", "gaveUp"}

\* The types after an answer, whether it comes with a write or not.
LEMMA FinishTyped ==
  ASSUME DocumentTyped, NEW r \in Editor, NEW a \in Answers \ {"none"}, Catalog!Finish(r, a),
         document' \in Catalog!Movies, attempt' \in [Editor -> 0..Attempts],
         a = "gaveUp" <=> attempt'[r] = Attempts,
         \A q \in Editor \ {r} : attempt'[q] = attempt[q]
  PROVE  DocumentTyped'
  <1> USE BoundsAreNumbers
  <1>1. /\ answer' \in [Editor -> Answers]
        /\ edit' \in [Editor -> {"new", "read", "write", "done"}]
        /\ seen' \in [Editor -> 0..MaxVersion] /\ begun' \in [Editor -> 0..MaxVersion]
      BY DEF DocumentTyped, Catalog!TypeOK, Catalog!Finish, Answers
  <1>2. patch' \in [Editor -> Patches]
      BY NothingAskedIsAPatch DEF DocumentTyped, Catalog!Finish
  <1>3. \A q \in Editor : DOMAIN patch'[q] \subseteq Field
      BY <1>2, PatchesHaveFields
  <1>4. \A q \in Editor :
           /\ attempt'[q] \in 0..Attempts
           /\ answer'[q] = "gaveUp" <=> attempt'[q] = Attempts
           /\ answer'[q] # "none" <=> edit'[q] = "done"
      <2>1. answer'[r] = a /\ edit'[r] = "done" /\ attempt'[r] \in 0..Attempts
          BY FinishMoves
      <2>2. ASSUME NEW q \in Editor \ {r}
            PROVE  answer'[q] = answer[q] /\ edit'[q] = edit[q] /\ attempt'[q] = attempt[q]
          BY FinishMoves
      <2> QED BY <2>1, <2>2 DEF DocumentTyped, Catalog!TypeOK
  <1> QED BY <1>1, <1>2, <1>3, <1>4 DEF DocumentTyped, Catalog!TypeOK, Answers

\* An answer that writes nothing.
LEMMA AnswerKeepsInv ==
  ASSUME CatalogInv, NEW r \in Editor, NEW a \in Answers \ {"none"}, Catalog!Finish(r, a),
         document' = document, attempt' \in [Editor -> 0..Attempts],
         a = "gaveUp" <=> attempt'[r] = Attempts,
         a = "gaveUp" => begun[r] + Attempts <= document.version,
         \A q \in Editor \ {r} : attempt'[q] = attempt[q]
  PROVE  CatalogInv'
  <1> USE BoundsAreNumbers
  <1>0. DocumentTyped
      BY DEF CatalogInv
  <1>1. DocumentTyped'
      <2>1. document' \in Catalog!Movies
          BY <1>0 DEF DocumentTyped, Catalog!TypeOK
      <2> QED BY <1>0, <2>1, FinishTyped
  <1>2. CompleteOrDraft'
      BY DEF CatalogInv, CompleteOrDraft, Catalog!Valid, Catalog!Complete
  <1>3. document.version \in Nat
      BY <1>0 DEF DocumentTyped, Catalog!TypeOK, Catalog!Movies
  <1>4. ReadsArePast'
      BY <1>0, <1>3, FinishMoves DEF CatalogInv, ReadsArePast
  <1>5. WritesAreValidated'
      <2> SUFFICES ASSUME NEW q \in Editor, edit'[q] = "write", Catalog!Current(q)'
                   PROVE  Catalog!Valid(Catalog!Patched(q, document))'
          BY DEF WritesAreValidated
      <2>1. q # r
          BY <1>0, FinishMoves
      <2>2. edit[q] = "write" /\ seen'[q] = seen[q] /\ patch'[q] = patch[q]
          BY <1>0, <2>1, FinishMoves
      <2>3. Catalog!Patched(q, document)' = Catalog!Patched(q, document)
          BY <2>2 DEF Catalog!Patched
      <2>4. Catalog!Valid(Catalog!Patched(q, document))
          BY <2>2 DEF CatalogInv, WritesAreValidated, Catalog!Current
      <2> QED BY <2>3, <2>4 DEF Catalog!Valid, Catalog!Complete
  <1>6. AttemptsCostWrites'
      BY <1>0, <1>3, FinishMoves DEF CatalogInv, AttemptsCostWrites
  <1> QED BY <1>1, <1>2, <1>4, <1>5, <1>6 DEF CatalogInv

LEMMA OpenRequests ==
  ASSUME CatalogInv, NEW r \in Editor, edit[r] # "done"
  PROVE  answer[r] = "none" /\ attempt[r] \in 0..(Attempts - 1)
  BY BoundsAreNumbers DEF CatalogInv, DocumentTyped, Catalog!TypeOK

\* publish, and the read of updateWithCas, when they refuse
LEMMA RefusalKeepsInv ==
  ASSUME CatalogInv, NEW r \in Editor, NEW a \in {"notFound", "missingFields", "invalid"},
         edit[r] # "done", Catalog!Finish(r, a), UNCHANGED <<document, attempt>>
  PROVE  CatalogInv'
  <1>1. a \in Answers \ {"none", "gaveUp"}
      BY DEF Answers
  <1>2. attempt' \in [Editor -> 0..Attempts]
      BY DEF CatalogInv, DocumentTyped
  <1>3. attempt'[r] # Attempts
      BY BoundsAreNumbers, OpenRequests
  <1> QED BY <1>1, <1>2, <1>3, AnswerKeepsInv

\* A request that goes to read, for the first time or again: what it had read
\* does not count.
LEMMA GoingToReadKeepsInv ==
  ASSUME CatalogInv, NEW r \in Editor, edit[r] # "done",
         edit' = [edit EXCEPT ![r] = "read"],
         begun' \in [Editor -> 0..MaxVersion], attempt' \in [Editor -> 0..Attempts],
         \A q \in Editor \ {r} : begun'[q] = begun[q] /\ attempt'[q] = attempt[q],
         attempt'[r] < Attempts, begun'[r] + attempt'[r] <= document.version,
         patch' \in [Editor -> Patches], \A q \in Editor \ {r} : patch'[q] = patch[q],
         UNCHANGED <<document, answer, seen>>
  PROVE  CatalogInv'
  <1> USE BoundsAreNumbers
  <1>0. DocumentTyped /\ answer[r] = "none"
      BY OpenRequests DEF CatalogInv
  <1>1. /\ edit'[r] = "read"
        /\ \A q \in Editor \ {r} : edit'[q] = edit[q]
        /\ edit' \in [Editor -> {"new", "read", "write", "done"}]
      BY <1>0 DEF DocumentTyped, Catalog!TypeOK
  <1>2. DocumentTyped'
      <2>1. \A q \in Editor : DOMAIN patch'[q] \subseteq Field
          BY PatchesHaveFields
      <2>2. ASSUME NEW q \in Editor
            PROVE  /\ attempt'[q] \in 0..Attempts
                   /\ answer'[q] = "gaveUp" <=> attempt'[q] = Attempts
                   /\ answer'[q] # "none" <=> edit'[q] = "done"
          <3>1. CASE q = r
              BY <1>0, <1>1, <3>1
          <3>2. CASE q # r
              BY <1>0, <1>1, <3>2 DEF DocumentTyped, Catalog!TypeOK
          <3> QED BY <3>1, <3>2
      <2> QED BY <1>0, <1>1, <2>1, <2>2 DEF DocumentTyped, Catalog!TypeOK
  <1>3. CompleteOrDraft'
      BY DEF CatalogInv, CompleteOrDraft, Catalog!Valid, Catalog!Complete
  <1>4. ReadsArePast'
      BY <1>1 DEF CatalogInv, ReadsArePast
  <1>5. WritesAreValidated'
      <2> SUFFICES ASSUME NEW q \in Editor, edit'[q] = "write", Catalog!Current(q)'
                   PROVE  Catalog!Valid(Catalog!Patched(q, document))'
          BY DEF WritesAreValidated
      <2>1. edit[q] = "write" /\ patch'[q] = patch[q]
          BY <1>1
      <2>2. Catalog!Patched(q, document)' = Catalog!Patched(q, document)
          BY <2>1 DEF Catalog!Patched
      <2>3. Catalog!Valid(Catalog!Patched(q, document))
          BY <2>1 DEF CatalogInv, WritesAreValidated, Catalog!Current
      <2> QED BY <2>2, <2>3 DEF Catalog!Valid, Catalog!Complete
  <1>6. AttemptsCostWrites'
      <2>1. ASSUME NEW q \in Editor, q # r
            PROVE  edit'[q] = edit[q] /\ begun'[q] = begun[q] /\ attempt'[q] = attempt[q]
          BY <1>1, <2>1
      <2> QED BY <1>0, <1>1, <2>1 DEF CatalogInv, AttemptsCostWrites
  <1> QED BY <1>2, <1>3, <1>4, <1>5, <1>6 DEF CatalogInv

-----------------------------------------------------------------------------
LEMMA PublishKeepsInv ==
  ASSUME CatalogInv, NEW r \in Editor, Catalog!Publish(r)
  PROVE  CatalogInv'
  <1> USE BoundsAreNumbers
  <1>0. DocumentTyped /\ document.version \in 0..MaxVersion
      BY DEF CatalogInv, DocumentTyped, Catalog!TypeOK, Catalog!Movies
  <1>1. edit[r] = "new" /\ UNCHANGED <<document, attempt>>
      BY DEF Catalog!Publish
  <1>2. CASE Catalog!Finish(r, "notFound") \/ Catalog!Finish(r, "missingFields")
      BY <1>1, <1>2, RefusalKeepsInv
  <1>3. CASE Catalog!GoTo(r, "read") /\ Catalog!Begin(r)
      <2>1. /\ edit' = [edit EXCEPT ![r] = "read"]
            /\ begun' = [begun EXCEPT ![r] = document.version]
            /\ UNCHANGED <<answer, patch, seen>>
          BY <1>3 DEF Catalog!GoTo, Catalog!Begin
      <2>2. attempt[r] = 0 /\ 0 < Attempts
          BY <1>1 DEF CatalogInv, AttemptsCostWrites
      <2>3. begun' \in [Editor -> 0..MaxVersion] /\ begun'[r] = document.version
          BY <1>0, <2>1 DEF DocumentTyped, Catalog!TypeOK
      <2>4. patch \in [Editor -> Patches] /\ attempt \in [Editor -> 0..Attempts]
          BY <1>0 DEF DocumentTyped
      <2>5. \A q \in Editor \ {r} : begun'[q] = begun[q]
          BY <2>1
      <2>6. /\ attempt'[r] < Attempts /\ begun'[r] + attempt'[r] <= document.version
            /\ attempt' \in [Editor -> 0..Attempts] /\ patch' \in [Editor -> Patches]
            /\ \A q \in Editor \ {r} : attempt'[q] = attempt[q] /\ patch'[q] = patch[q]
          BY <1>0, <1>1, <2>1, <2>2, <2>3, <2>4
      <2> QED BY <1>1, <2>1, <2>3, <2>5, <2>6, GoingToReadKeepsInv
  <1> QED BY <1>2, <1>3 DEF Catalog!Publish

LEMMA UpdateKeepsInv ==
  ASSUME CatalogInv, NEW r \in Editor, Catalog!Update(r)
  PROVE  CatalogInv'
  <1> USE BoundsAreNumbers
  <1>0. DocumentTyped /\ document.version \in 0..MaxVersion
      BY DEF CatalogInv, DocumentTyped, Catalog!TypeOK, Catalog!Movies
  <1>1. /\ edit[r] = "new" /\ UNCHANGED <<document, attempt, answer, seen>>
        /\ edit' = [edit EXCEPT ![r] = "read"]
        /\ begun' = [begun EXCEPT ![r] = document.version]
      BY DEF Catalog!Update, Catalog!Begin
  <1>2. /\ patch' \in [Editor -> Patches]
        /\ \A q \in Editor \ {r} : patch'[q] = patch[q]
      <2>1. PICK F \in SUBSET Field \ {{}} : \E p \in [F -> Catalog!AnyValue] :
               /\ \A f \in F : p[f] \in Catalog!Value(f)
               /\ patch' = [patch EXCEPT ![r] = p]
          BY DEF Catalog!Update
      <2>2. PICK p \in [F -> Catalog!AnyValue] :
               /\ \A f \in F : p[f] \in Catalog!Value(f)
               /\ patch' = [patch EXCEPT ![r] = p]
          BY <2>1
      <2>3. p \in Patches
          BY <2>2 DEF Patches
      <2>4. patch \in [Editor -> Patches]
          BY <1>0 DEF DocumentTyped
      <2> QED BY <2>2, <2>3, <2>4
  <1>3. attempt[r] = 0 /\ 0 < Attempts
      BY <1>1 DEF CatalogInv, AttemptsCostWrites
  <1>4. /\ begun' \in [Editor -> 0..MaxVersion] /\ begun'[r] = document.version
        /\ \A q \in Editor \ {r} : begun'[q] = begun[q]
      BY <1>0, <1>1 DEF DocumentTyped, Catalog!TypeOK
  <1>5. attempt \in [Editor -> 0..Attempts]
      BY <1>0 DEF DocumentTyped
  <1>6. /\ attempt'[r] < Attempts /\ begun'[r] + attempt'[r] <= document.version
        /\ attempt' \in [Editor -> 0..Attempts]
        /\ \A q \in Editor \ {r} : attempt'[q] = attempt[q]
      BY <1>0, <1>1, <1>3, <1>4, <1>5
  <1> QED BY <1>1, <1>2, <1>4, <1>6, GoingToReadKeepsInv

\* The check of updateWithCas: what it has validated is the movie of this version.
LEMMA ReadKeepsInv ==
  ASSUME CatalogInv, NEW r \in Editor, Catalog!Read(r)
  PROVE  CatalogInv'
  <1> USE BoundsAreNumbers
  <1>0. DocumentTyped /\ document.version \in 0..MaxVersion /\ edit[r] = "read"
      BY DEF CatalogInv, DocumentTyped, Catalog!TypeOK, Catalog!Movies, Catalog!Read
  <1>1. UNCHANGED <<document, attempt>>
      BY DEF Catalog!Read
  <1>2. CASE Catalog!Finish(r, "notFound") \/ Catalog!Finish(r, "invalid")
      BY <1>0, <1>1, <1>2, RefusalKeepsInv
  <1>3. CASE /\ document.exists /\ Catalog!Valid(Catalog!Patched(r, document))
             /\ seen' = [seen EXCEPT ![r] = document.version]
             /\ edit' = [edit EXCEPT ![r] = "write"] /\ UNCHANGED <<answer, patch, begun>>
      <2>1. DocumentTyped'
          <3>1. /\ seen' \in [Editor -> 0..MaxVersion]
                /\ edit' \in [Editor -> {"new", "read", "write", "done"}]
              BY <1>0, <1>3 DEF DocumentTyped, Catalog!TypeOK
          <3>2. \A q \in Editor : edit'[q] = "done" <=> edit[q] = "done"
              BY <1>0, <1>3 DEF DocumentTyped, Catalog!TypeOK
          <3> QED BY <1>0, <1>1, <1>3, <3>1, <3>2 DEF DocumentTyped, Catalog!TypeOK
      <2>2. /\ edit'[r] = "write" /\ seen'[r] = document.version
            /\ \A q \in Editor \ {r} : edit'[q] = edit[q] /\ seen'[q] = seen[q]
          BY <1>0, <1>3 DEF DocumentTyped, Catalog!TypeOK
      <2>3. CompleteOrDraft'
          BY <1>1 DEF CatalogInv, CompleteOrDraft, Catalog!Valid, Catalog!Complete
      <2>4. ReadsArePast'
          BY <1>0, <1>1, <1>3, <2>2 DEF CatalogInv, ReadsArePast
      <2>5. WritesAreValidated'
          <3> SUFFICES ASSUME NEW q \in Editor, edit'[q] = "write", Catalog!Current(q)'
                       PROVE  Catalog!Valid(Catalog!Patched(q, document))'
              BY DEF WritesAreValidated
          <3>1. Catalog!Patched(q, document)' = Catalog!Patched(q, document)
              BY <1>1, <1>3 DEF Catalog!Patched
          <3>2. Catalog!Valid(Catalog!Patched(q, document))
              <4>1. CASE q = r
                  BY <1>3, <4>1
              <4>2. CASE q # r
                  BY <1>1, <2>2, <4>2 DEF CatalogInv, WritesAreValidated, Catalog!Current
              <4> QED BY <4>1, <4>2
          <3> QED BY <3>1, <3>2 DEF Catalog!Valid, Catalog!Complete
      <2>6. AttemptsCostWrites'
          BY <1>0, <1>1, <1>3, <2>2 DEF CatalogInv, AttemptsCostWrites
      <2> QED BY <2>1, <2>3, <2>4, <2>5, <2>6 DEF CatalogInv
  <1> QED BY <1>2, <1>3 DEF Catalog!Read, Catalog!GoTo

\* Any write counts up the version, so that it outdates what the others have read.
LEMMA WriteOutdates ==
  ASSUME CatalogInv, document.version < MaxVersion, document'.version = document.version + 1,
         NEW q \in Editor, UNCHANGED <<edit[q], patch[q], seen[q], begun[q], attempt[q], answer[q]>>
  PROVE  /\ seen'[q] < document'.version
         /\ ~ (edit'[q] = "write" /\ Catalog!Current(q)')
         /\ edit'[q] = "new" => attempt'[q] = 0
         /\ edit'[q] = "read" => begun'[q] + attempt'[q] <= document'.version
         /\ edit'[q] = "write" => begun'[q] + attempt'[q] <= seen'[q]
         /\ answer'[q] = "gaveUp" => begun'[q] + Attempts <= document'.version
  <1> USE BoundsAreNumbers
  <1>1. /\ document.version \in Nat /\ seen[q] \in Nat /\ begun[q] \in Nat /\ attempt[q] \in Nat
      BY DEF CatalogInv, DocumentTyped, Catalog!TypeOK, Catalog!Movies
  <1>2. seen[q] <= document.version
      BY DEF CatalogInv, ReadsArePast
  <1>3. seen'[q] < document'.version
      BY <1>1, <1>2
  <1>4. ~Catalog!Current(q)'
      BY <1>1, <1>3 DEF Catalog!Current
  <1> QED BY <1>1, <1>3, <1>4 DEF CatalogInv, AttemptsCostWrites

LEMMA WriteKeepsInv ==
  ASSUME CatalogInv, NEW r \in Editor, Catalog!Write(r)
  PROVE  CatalogInv'
  <1> USE BoundsAreNumbers
  <1>0. /\ DocumentTyped /\ edit[r] = "write"
        /\ document.version \in 0..MaxVersion /\ seen[r] \in Nat /\ begun[r] \in Nat
        /\ attempt[r] \in 0..(Attempts - 1)
      <2>1. edit[r] = "write"
          BY DEF Catalog!Write
      <2> QED BY <2>1, OpenRequests DEF CatalogInv, DocumentTyped, Catalog!TypeOK, Catalog!Movies
  <1>1. CASE Catalog!Current(r)
      <2>1. /\ document.version < MaxVersion /\ Catalog!Finish(r, "ok") /\ attempt' = attempt
            /\ document' = [Catalog!Patched(r, document) EXCEPT !.version = @ + 1]
          BY <1>1 DEF Catalog!Write
      <2>2. /\ document' \in Catalog!Movies
            /\ document'.version = document.version + 1 /\ document'.exists = document.exists
            /\ document'.published = Catalog!Patched(r, document).published
            /\ document'.fields = Catalog!Patched(r, document).fields
          <3> DEFINE m == Catalog!Patched(r, document)
          <3>1. m \in Catalog!Movies /\ m.version = document.version /\ m.exists = document.exists
              BY <1>0, PatchedIsAMovie
          <3>2. [m EXCEPT !.version = m.version + 1] \in Catalog!Movies
              BY <1>0, <2>1, <3>1, PatchedIsAMovie
          <3>3. document' = [m EXCEPT !.version = m.version + 1]
              BY <2>1
          <3>4. /\ document' \in Catalog!Movies /\ document'.version = m.version + 1
                /\ document'.exists = m.exists /\ document'.published = m.published
                /\ document'.fields = m.fields
              <4> HIDE DEF m
              <4> QED BY <3>1, <3>2, <3>3 DEF Catalog!Movies
          <3> QED BY <3>1, <3>4
      <2>3. DocumentTyped'
          <3>1. "ok" \in Answers \ {"none"} /\ "ok" # "gaveUp" /\ attempt'[r] # Attempts
              BY <1>0, <2>1 DEF Answers
          <3>2. attempt' \in [Editor -> 0..Attempts]
              BY <1>0, <2>1 DEF DocumentTyped
          <3> QED BY <1>0, <2>1, <2>2, <3>1, <3>2, FinishTyped
      <2>4. CompleteOrDraft'
          <3>1. Catalog!Valid(Catalog!Patched(r, document))
              BY <1>0, <1>1 DEF CatalogInv, WritesAreValidated
          <3> QED BY <2>2, <3>1 DEF CompleteOrDraft, Catalog!Valid, Catalog!Complete
      <2>5. /\ answer'[r] = "ok" /\ edit'[r] = "done" /\ seen'[r] = 0
            /\ \A q \in Editor \ {r} : UNCHANGED <<edit[q], patch[q], seen[q], begun[q],
                                                   attempt[q], answer[q]>>
          BY <1>0, <2>1, FinishMoves
      <2>6. ReadsArePast'
          <3>1. \A q \in Editor \ {r} : seen'[q] < document'.version
              BY <2>1, <2>2, <2>5, WriteOutdates
          <3> QED BY <1>0, <2>2, <2>5, <3>1 DEF ReadsArePast, DocumentTyped, Catalog!TypeOK
      <2>7. WritesAreValidated'
          <3>1. \A q \in Editor \ {r} : ~(edit'[q] = "write" /\ Catalog!Current(q)')
              BY <2>1, <2>2, <2>5, WriteOutdates
          <3> QED BY <2>5, <3>1 DEF WritesAreValidated
      <2>8. AttemptsCostWrites'
          <3>1. \A q \in Editor \ {r} :
                   /\ edit'[q] = "new" => attempt'[q] = 0
                   /\ edit'[q] = "read" => begun'[q] + attempt'[q] <= document'.version
                   /\ edit'[q] = "write" => begun'[q] + attempt'[q] <= seen'[q]
                   /\ answer'[q] = "gaveUp" => begun'[q] + Attempts <= document'.version
              BY <2>1, <2>2, <2>5, WriteOutdates
          <3> QED BY <2>5, <3>1 DEF AttemptsCostWrites
      <2> QED BY <2>3, <2>4, <2>6, <2>7, <2>8 DEF CatalogInv
  <1>2. CASE ~Catalog!Current(r)
      <2>1. /\ document' = document /\ attempt' = [attempt EXCEPT ![r] = @ + 1]
            /\ IF attempt[r] + 1 = Attempts THEN Catalog!Finish(r, "gaveUp")
               ELSE Catalog!GoTo(r, Catalog!Again(r)) /\ UNCHANGED <<seen, begun>>
          BY <1>2 DEF Catalog!Write
      <2>2. begun[r] + attempt[r] + 1 <= document.version
          <3>1. begun[r] + attempt[r] <= seen[r] /\ seen[r] <= document.version
              BY <1>0 DEF CatalogInv, AttemptsCostWrites, ReadsArePast
          <3>2. seen[r] # document.version
              BY <1>0, <1>2 DEF CatalogInv, ReadsArePast, Catalog!Current
          <3> QED BY <1>0, <3>1, <3>2
      <2>3. /\ attempt' \in [Editor -> 0..Attempts] /\ attempt'[r] = attempt[r] + 1
            /\ \A q \in Editor \ {r} : attempt'[q] = attempt[q]
          BY <1>0, <2>1 DEF DocumentTyped
      <2>4. CASE attempt[r] + 1 = Attempts
          <3>1. Catalog!Finish(r, "gaveUp") /\ "gaveUp" \in Answers \ {"none"}
              BY <2>1, <2>4 DEF Answers
          <3>2. attempt'[r] = Attempts /\ begun[r] + Attempts <= document.version
              BY <1>0, <2>2, <2>3, <2>4
          <3> QED BY <2>1, <2>3, <3>1, <3>2, AnswerKeepsInv
      <2>5. CASE attempt[r] + 1 # Attempts
          <3>1. edit' = [edit EXCEPT ![r] = "read"] /\ UNCHANGED <<answer, patch, seen, begun>>
              BY <2>1, <2>5 DEF Catalog!GoTo, Catalog!Again
          <3>2. attempt'[r] < Attempts /\ begun'[r] + attempt'[r] <= document.version
              BY <1>0, <2>2, <2>3, <2>5, <3>1
          <3>3. begun' \in [Editor -> 0..MaxVersion] /\ patch' \in [Editor -> Patches]
              BY <1>0, <3>1 DEF DocumentTyped, Catalog!TypeOK
          <3> QED BY <1>0, <2>1, <2>3, <3>1, <3>2, <3>3, GoingToReadKeepsInv
      <2> QED BY <2>4, <2>5
  <1> QED BY <1>1, <1>2

\* The writes of others: of the list of files, and the deletion.
LEMMA OthersKeepInv ==
  ASSUME CatalogInv, Catalog!TouchAssets \/ Catalog!Delete
  PROVE  CatalogInv'
  <1> USE BoundsAreNumbers
  <1>0. DocumentTyped /\ document \in Catalog!Movies /\ document.version \in 0..MaxVersion
      BY DEF CatalogInv, DocumentTyped, Catalog!TypeOK, Catalog!Movies
  <1>1. /\ document.version < MaxVersion /\ UNCHANGED <<edit, patch, seen, attempt, begun, answer>>
        /\ document'.version = document.version + 1 /\ document' \in Catalog!Movies
        /\ document'.published = document.published /\ document'.fields = document.fields
      <2>1. CASE Catalog!TouchAssets
          BY <1>0, <2>1 DEF Catalog!TouchAssets, Catalog!Movies, Catalog!local
      <2>2. CASE Catalog!Delete
          <3>1. /\ document.version + 1 \in 0..MaxVersion
                /\ document' = [document EXCEPT !.version = document.version + 1, !.exists = FALSE]
                /\ UNCHANGED <<edit, patch, seen, attempt, begun, answer>>
              BY <1>0, <2>2 DEF Catalog!Delete, Catalog!local
          <3> QED BY <1>0, <2>2, <3>1 DEF Catalog!Delete, Catalog!Movies
      <2> QED BY <2>1, <2>2
  <1>2. DocumentTyped' /\ CompleteOrDraft'
      <2>1. DocumentTyped'
          BY <1>0, <1>1 DEF DocumentTyped, Catalog!TypeOK
      <2> QED BY <1>1, <2>1
             DEF CatalogInv, CompleteOrDraft, Catalog!Valid, Catalog!Complete
  <1>3. ASSUME NEW q \in Editor
        PROVE  /\ seen'[q] < document'.version
               /\ ~(edit'[q] = "write" /\ Catalog!Current(q)')
               /\ edit'[q] = "new" => attempt'[q] = 0
               /\ edit'[q] = "read" => begun'[q] + attempt'[q] <= document'.version
               /\ edit'[q] = "write" => begun'[q] + attempt'[q] <= seen'[q]
               /\ answer'[q] = "gaveUp" => begun'[q] + Attempts <= document'.version
      BY <1>1, WriteOutdates
  <1>4. ReadsArePast'
      BY <1>0, <1>1, <1>3 DEF ReadsArePast, DocumentTyped, Catalog!TypeOK
  <1>5. WritesAreValidated' /\ AttemptsCostWrites'
      BY <1>3 DEF WritesAreValidated, AttemptsCostWrites
  <1> QED BY <1>2, <1>4, <1>5 DEF CatalogInv

LEMMA CatalogStep == CatalogInv /\ [Catalog!Next]_(Catalog!vars) => CatalogInv'
  <1> SUFFICES ASSUME CatalogInv, [Catalog!Next]_(Catalog!vars) PROVE CatalogInv'
      OBVIOUS
  <1>1. CASE Catalog!Next
      BY <1>1, PublishKeepsInv, UpdateKeepsInv, ReadKeepsInv, WriteKeepsInv, OthersKeepInv
         DEF Catalog!Next
  <1>2. CASE UNCHANGED Catalog!vars
      <2>1. UNCHANGED <<document, edit, patch, seen, attempt, begun, answer>>
          BY <1>2 DEF Catalog!vars, Catalog!local
      <2>2. DocumentTyped' /\ CompleteOrDraft'
          BY <2>1 DEF CatalogInv, DocumentTyped, Catalog!TypeOK, CompleteOrDraft, Catalog!Valid,
                      Catalog!Complete
      <2>3. ReadsArePast' /\ AttemptsCostWrites'
          BY <2>1 DEF CatalogInv, ReadsArePast, AttemptsCostWrites
      <2>4. WritesAreValidated'
          BY <2>1 DEF CatalogInv, WritesAreValidated, Catalog!Current, Catalog!Valid,
                      Catalog!Complete, Catalog!Patched
      <2> QED BY <2>2, <2>3, <2>4 DEF CatalogInv
  <1> QED BY <1>1, <1>2

\* What updateWithCas keeps true of the document, for any number of requests,
\* fields, attempts and writes.
THEOREM CatalogInvariant == Catalog!Spec => []CatalogInv
  BY CatalogInit, CatalogStep, PTL DEF Catalog!Spec

\* Readers see complete movies only, and an update is given up only under as
\* many writes of others as it has attempts (updateWithCas, publish).
THEOREM PublishedIsCompleteAlways == Catalog!Spec => []PublishedIsComplete
  <1>1. CatalogInv => PublishedIsComplete
      <2> SUFFICES ASSUME CatalogInv PROVE PublishedIsComplete
          OBVIOUS
      <2>1. Catalog!TypeOK
          BY DEF CatalogInv, DocumentTyped
      <2>2. Catalog!PublishedIsComplete
          BY DEF CatalogInv, CompleteOrDraft, Catalog!PublishedIsComplete, Catalog!Valid
      <2>3. Catalog!OnlyContentionGivesUp
          <3>1. \A r \in Editor : answer[r] = "gaveUp" => begun[r] + Attempts <= document.version
              BY DEF CatalogInv, AttemptsCostWrites
          <3>2. document.version \in Nat /\ \A r \in Editor : begun[r] \in Nat
              BY <2>1, BoundsAreNumbers DEF Catalog!TypeOK, Catalog!Movies
          <3> QED BY <3>1, <3>2, BoundsAreNumbers DEF Catalog!OnlyContentionGivesUp
      <2> QED BY <2>1, <2>2, <2>3 DEF PublishedIsComplete
  <1> QED BY <1>1, CatalogInvariant, PTL
=============================================================================
