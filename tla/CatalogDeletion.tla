-------------------------- MODULE CatalogDeletion --------------------------
(***************************************************************************)
(* DELETE /movies/:id and DELETE /theaters/:id beside the creation of      *)
(* showtimes.  A deletion first looks for showtimes and then deletes, in   *)
(* two calls of which neither knows the transactions of ShowtimeWorkflow.  *)
(***************************************************************************)
EXTENDS ShowtimeWorkflow

CONSTANTS
    Deletion,   \* requests to delete something
    Target      \* the movie or the theater each wants to delete

ASSUME TargetAssumption == Target \in [Deletion -> Movie \union Theater]

VARIABLE stage   \* where each deletion is
deletionVars == <<vars, stage>>

DeletionInit == Init /\ stage = [d \in Deletion |-> "check"]

-----------------------------------------------------------------------------
Refers(x, target) == x.theater = target \/ MovieOf[x.saga] = target

\* existsByMovieIds, existsByTheaterIds: outside of any transaction
Check(d) ==
    /\ stage[d] = "check"
    /\ stage' = [stage EXCEPT ![d] =
          IF \E x \in showtimes : Refers(x, Target[d]) THEN "refused" ELSE "delete"]
    /\ UNCHANGED vars

\* deleteByIds of movies: nothing else writes to a movie's document here
DeleteMovie(d) ==
    /\ Target[d] \in Movie
    /\ movies' = movies \ {Target[d]}
    /\ UNCHANGED <<theaters, changed>>

\* deletedAt is set without the wait for a transaction that wrote the theater
Writable_Faulty(t) == TRUE

\* a write outside of a transaction waits for one that has written the document
Writable(t) == lockedBy[t] = Nobody

\* deleteByIds of theaters
DeleteTheater(d) ==
    /\ Target[d] \in Theater
    /\ Writable(Target[d])
    /\ theaters' = theaters \ {Target[d]}
    /\ changed' = [a \in Attempt |->
          IF at[a] # "off" THEN changed[a] \union {Target[d]} ELSE changed[a]]
    /\ UNCHANGED movies

Delete(d) ==
    /\ stage[d] = "delete"
    /\ DeleteMovie(d) \/ DeleteTheater(d)
    /\ stage' = [stage EXCEPT ![d] = "deleted"]
    /\ UNCHANGED <<database, workflow, alive, at, snapshot, verdict, events, faults>>

-----------------------------------------------------------------------------
(***************************************************************************)
(* Properties.                                                             *)
(***************************************************************************)

\* Showtimes are never created in a theater that is already gone: the guard
\* makes a creation and a deletion of its theater exclude each other.
TheatersOutliveCreation ==
    [][\A x \in showtimes' \ showtimes : x.theater \in theaters]_deletionVars
=============================================================================
