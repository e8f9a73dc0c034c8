------------------------------- MODULE MCSeats -------------------------------
(***************************************************************************)
(* Instances of TicketHolding, Booking and Seatmap for TLC.  A behaviour   *)
(* is one of the holds, one of the tickets from their creation to their    *)
(* sale, or one walk over a seatmap; the variables of the others keep      *)
(* their initial values.                                                   *)
(***************************************************************************)
EXTENDS TicketHolding, TLC

CONSTANTS
    u1, u2, p1, p2, a1, a2, b1,
    m1, m2, t1, t2, s1, s2, d1, d2,
    Movie, Theater, Seat, Saga, MovieOf, TheatersOf, StartsOf, Duration, Seatmaps,
    MaxTickets, Cutoff, DayLength, Deletion, Target, Reader, MaxEdits, MaxNow,   \* see Booking
    A, Name, MaxBlocks, MaxRows, MaxLayout          \* see Seatmap

\* a1 and a2 belong to the first showtime, b1 to the second
InShowtime == [t \in Ticket |-> IF t = b1 THEN 2 ELSE 1]

\* p1 and p2 are purchases of u1; p1 spans both showtimes
ByFirst == [p \in Purchase |-> u1]
Spanning == [p \in Purchase |-> IF p = p1 THEN {a1, b1} ELSE {a2}]

\* s1 shows m1 in both theaters at 1, s2 shows m2 in t2 at 2; d1 deletes the
\* movie of s1, d2 the theater that only s1 uses; a theater may have no seats
Movies == s1 :> m1 @@ s2 :> m2
Theaters == s1 :> {t1, t2} @@ s2 :> {t2}
Starts == s1 :> {1} @@ s2 :> {2}
Targets == d1 :> m1 @@ d2 :> t1
Empty == {{}, {1, 2}}

VARIABLES
    scenario,
    movies, theaters, seatmap, showtimes, tickets, sold, raced, saga, planned, stage,
    page, read, answer, clock, edits,
    layout, at, seats

Sales == INSTANCE Booking WITH
    Seatmap <- Seatmaps, now <- clock
Walk == INSTANCE Seatmap WITH seatmap <- layout

ASSUME SalesAssumption ==
    Sales!InputAssumption /\ Sales!DayAssumption /\ Sales!BoundAssumption
ASSUME WalkAssumption == Walk!BoundAssumption

salesVars ==
    <<movies, theaters, seatmap, showtimes, tickets, sold, raced, saga, planned, stage,
      page, read, answer, clock, edits>>
walkVars == <<layout, at, seats>>

MCInit ==
    /\ scenario \in {"holds", "sales", "walk"}
    /\ Init /\ Sales!Init /\ Walk!Init
    /\ scenario # "sales" => \A t \in Theater : seatmap[t] = {}
    /\ scenario # "walk" => layout = <<>>

\* u2 wants seats of p1 only; seats of p2 would be the same over again
Rival == listed'[u2] \subseteq Items[p1]

MCNext ==
    /\ UNCHANGED scenario
    /\ \/ scenario = "holds" /\ Next /\ Rival /\ UNCHANGED <<salesVars, walkVars>>
       \/ scenario = "sales" /\ Sales!Next /\ UNCHANGED <<vars, walkVars>>
       \/ scenario = "walk" /\ Walk!Next /\ UNCHANGED <<vars, salesVars>>

MCSpec == MCInit /\ [][MCNext]_<<scenario, vars, salesVars, walkVars>>

-----------------------------------------------------------------------------
\* A search fails only for a theater without seats, or when nothing that was listed
\* is left to be found, and a page only for a showtime that was committed beside the
\* deletion of its movie or theater.
OnlyKnownFailures ==
    Sales!TypeOK /\ Sales!SearchesFailKnowingly /\ Sales!OnlyRacesFail

\* A showtime comes with exactly the seats its theater has at that moment, and as
\* many are generated as were counted for the limit of an operation.
SeatsAddUp == Sales!TicketsAreTheSeats /\ []Walk!CountIsSeats
=============================================================================
