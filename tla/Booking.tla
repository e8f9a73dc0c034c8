------------------------------ MODULE Booking ------------------------------
(***************************************************************************)
(* What is for sale and what a moviegoer is shown of it.                   *)
(*                                                                         *)
(* Showtimes come into being with one ticket for every seat of their       *)
(* theater, in the transaction of a saga, while theaters are edited and    *)
(* movies and theaters are deleted.  Nothing deletes a showtime.  A page   *)
(* is put together from several reads without a transaction, and each read *)
(* demands what the one before has led it to expect: sales for every       *)
(* showtime, a theater and a movie for every id.                           *)
(***************************************************************************)
EXTENDS Naturals, FiniteSets

CONSTANTS
    Movie, Theater, Seat, Saga,
    MovieOf, TheatersOf, StartsOf,   \* the input of each saga
    Duration,        \* of a showtime
    Seatmap,         \* the sets of seats a theater may be given
    MaxTickets,      \* MAX_TICKETS_PER_OPERATION
    Cutoff,          \* purchaseCutoffMinutes
    DayLength,       \* of the UTC days a search is asked for
    Deletion, Target,   \* requests to delete the movie or the theater Target
    Reader,          \* requests for a page
    MaxEdits, MaxNow \* bounds on theater updates and on time

InputAssumption ==
    /\ MovieOf \in [Saga -> Movie] /\ TheatersOf \in [Saga -> SUBSET Theater]
    /\ StartsOf \in [Saga -> SUBSET Nat]
    /\ Seatmap \subseteq SUBSET Seat /\ Seatmap # {}
    /\ Target \in [Deletion -> Movie \union Theater]
DayAssumption == DayLength \in Nat \ {0}
BoundAssumption == {Duration, MaxTickets, Cutoff, MaxEdits, MaxNow} \subseteq Nat

VARIABLES
    movies, theaters,     \* those that are not deleted
    seatmap,              \* the seats of each theater
    showtimes, tickets,   \* committed; a ticket is a showtime and a seat
    sold,                 \* the tickets that are sold
    raced,                \* history: showtimes committed beside a deletion that
                          \* had found none
    saga, planned,        \* where each saga is; the tickets it is going to insert
    stage,                \* where each deletion is
    page, read, answer,   \* each page: where it is, the showtimes it has read
    now, edits

catalog == <<movies, theaters, seatmap, edits>>
sales == <<showtimes, tickets, sold, raced>>
requests == <<page, read, answer>>
vars == <<catalog, sales, saga, planned, stage, requests, now>>

-----------------------------------------------------------------------------
Show == UNION {[saga : {s}, theater : TheatersOf[s], start : StartsOf[s]] : s \in Saga}
ShowtimesOf(s) == {x \in Show : x.saga = s}
TheMovie(x) == MovieOf[x.saga]
Ended(x) == x.start + Duration <= now

Page == {"new", "dates", "showtimes", "theaters", "homeCards", "homePicks", "done"}

TypeOK ==
    /\ movies \subseteq Movie /\ theaters \subseteq Theater
    /\ seatmap \in [Theater -> Seatmap]
    /\ showtimes \subseteq Show /\ tickets \subseteq showtimes \X Seat
    /\ sold \subseteq tickets /\ raced \subseteq showtimes
    /\ saga \in [Saga -> {"new", "guarded", "created", "refused"}]
    /\ planned \in [Saga -> SUBSET (Show \X Seat)]
    /\ \A s \in Saga : /\ planned[s] \subseteq ShowtimesOf(s) \X Seat
                       /\ Cardinality(planned[s]) <= MaxTickets
                       /\ \A x \in ShowtimesOf(s) : x \in showtimes <=> saga[s] = "created"
    /\ stage \in [Deletion -> {"check", "delete", "refused", "deleted"}]
    /\ page \in [Reader -> Page] /\ read \in [Reader -> SUBSET showtimes]
    /\ answer \in [Reader -> {"none", "200", "400", "404", "500"}]
    /\ now \in 0..MaxNow /\ edits \in 0..MaxEdits

Init ==
    /\ movies = Movie /\ theaters = Theater
    /\ seatmap \in [Theater -> Seatmap]
    /\ showtimes = {} /\ tickets = {} /\ sold = {} /\ raced = {}
    /\ saga = [s \in Saga |-> "new"] /\ planned = [s \in Saga |-> {}]
    /\ stage = [d \in Deletion |-> "check"]
    /\ page = [r \in Reader |-> "new"] /\ read = [r \in Reader |-> {}]
    /\ answer = [r \in Reader |-> "none"]
    /\ now = 0 /\ edits = 0

-----------------------------------------------------------------------------
(***************************************************************************)
(* Creation.  ShowtimeWorkflow has the transaction in detail; here it      *)
(* holds its theaters from the guard to the commit.                        *)
(***************************************************************************)

\* the guard writes nothing
Guarded_Faulty(t) == FALSE

\* the guard of a transaction has written the theater
Guarded(t) == \E s \in Saga : saga[s] = "guarded" /\ t \in TheatersOf[s]

\* bulkCreateTickets: a ticket for each seat of each showtime's theater
Planned(s) == {k \in ShowtimesOf(s) \X Seat : k[2] \in seatmap[k[1].theater]}

\* MAX_TICKETS_PER_OPERATION against plannedTicketCount
Allowed(s) == Cardinality(Planned(s)) <= MaxTickets

\* the theaters and the movie are there, and the tickets are not too many
StartSaga(s) ==
    /\ saga[s] = "new"
    /\ \A t \in TheatersOf[s] : ~Guarded(t)
    /\ IF TheatersOf[s] \subseteq theaters /\ MovieOf[s] \in movies
          /\ Allowed(s)
          THEN /\ saga' = [saga EXCEPT ![s] = "guarded"]
               /\ planned' = [planned EXCEPT ![s] = Planned(s)]
          ELSE saga' = [saga EXCEPT ![s] = "refused"] /\ UNCHANGED planned
    /\ UNCHANGED <<catalog, sales, stage, requests, now>>

\* TicketsRepository.createMany
Inserted(s) == planned[s]

\* a deletion that found no showtimes of a parent of x
Passed(x) == \E d \in Deletion : /\ stage[d] \in {"delete", "deleted"}
                                /\ Target[d] \in {x.theater, TheMovie(x)}

CommitSaga(s) ==
    /\ saga[s] = "guarded"
    /\ showtimes' = showtimes \union ShowtimesOf(s)
    /\ tickets' = tickets \union Inserted(s)
    /\ raced' = raced \union {x \in ShowtimesOf(s) : Passed(x)}
    /\ saga' = [saga EXCEPT ![s] = "created"]
    /\ UNCHANGED <<catalog, sold, planned, stage, requests, now>>

\* sellAvailableForPurchase: all of the tickets or none
Sell(bundle) ==
    /\ bundle \intersect sold = {}
    /\ sold' = sold \union bundle
    /\ UNCHANGED <<catalog, showtimes, tickets, raced, saga, planned, stage, requests, now>>

\* TheatersRepository.update: it waits for a transaction that wrote the theater
UpdateTheater(t, seats) ==
    /\ t \in theaters /\ ~Guarded(t)
    /\ edits < MaxEdits /\ edits' = edits + 1
    /\ seatmap' = [seatmap EXCEPT ![t] = seats]
    /\ UNCHANGED <<movies, theaters, sales, saga, planned, stage, requests, now>>

-----------------------------------------------------------------------------
(***************************************************************************)
(* Deletion: a look for showtimes, then the deletion.                      *)
(***************************************************************************)

\* showtimes that have ended do not stand in the way of a deletion
Blocks_Faulty(x, target) == ~Ended(x) /\ target \in {x.theater, TheMovie(x)}

\* existsByMovieIds, existsByTheaterIds
Blocks(x, target) == target \in {x.theater, TheMovie(x)}

CheckDeletion(d) ==
    /\ stage[d] = "check"
    /\ stage' = [stage EXCEPT ![d] =
          IF \E x \in showtimes : Blocks(x, Target[d]) THEN "refused" ELSE "delete"]
    /\ UNCHANGED <<catalog, sales, saga, planned, requests, now>>

Delete(d) ==
    /\ stage[d] = "delete" /\ (Target[d] \in Theater => ~Guarded(Target[d]))
    /\ movies' = movies \ {Target[d]} /\ theaters' = theaters \ {Target[d]}
    /\ stage' = [stage EXCEPT ![d] = "deleted"]
    /\ UNCHANGED <<seatmap, edits, sales, saga, planned, requests, now>>

-----------------------------------------------------------------------------
(***************************************************************************)
(* Pages.  A reader picks one; each action is one read.                    *)
(***************************************************************************)

Answer(r, a) ==
    /\ answer' = [answer EXCEPT ![r] = a]
    /\ page' = [page EXCEPT ![r] = "done"]

Turn(r, p, xs) ==
    /\ page' = [page EXCEPT ![r] = p]
    /\ read' = [read EXCEPT ![r] = xs]
    /\ UNCHANGED answer

NotEnded(ms) == {x \in showtimes : ~Ended(x) /\ TheMovie(x) \in ms}
On(m, t) == {x \in NotEnded({m}) : x.theater = t}

\* searchMovieIds of the recommendation: what begins after the cutoff
Sellable == {x \in showtimes : now + Cutoff <= x.start}

Date(x) == x.start \div DayLength
OfDate(xs, date) == {x \in xs : Date(x) = date}
Dates == {Date(x) : x \in Show}

\* searchShowtimes: what is on at a date, whether it was listed or not.  When that
\* is nothing, aggregateSales is asked for the sales of no showtimes, and build
\* refuses a query without a filter.
Search(r, m, t, date) ==
    LET found == OfDate(On(m, t), date)
    IN IF found # {} THEN Turn(r, "showtimes", found)
       ELSE Answer(r, "400") /\ read' = [read EXCEPT ![r] = OfDate(@, date)]

\* the first read: the dates of a movie in a theater (searchShowdates), or at once
\* the showtimes of one; the theaters of a movie (searchTheaters), the public
\* movies of the home page and their showtimes (getUpcomingCards), or what is
\* recommended beside it
Request(r) ==
    /\ page[r] = "new"
    /\ \/ \E m \in Movie, t \in Theater :
             Turn(r, "dates", On(m, t)) \/ \E date \in Dates : Search(r, m, t, date)
       \/ \E m \in Movie : Turn(r, "theaters", NotEnded({m}))
       \/ \E public \in SUBSET movies : Turn(r, "homeCards", NotEnded(public))
       \/ Turn(r, "homePicks", Sellable)

\* a date that was listed is picked
PickDate(r) ==
    /\ page[r] = "dates"
    /\ \E x \in read[r] : Search(r, TheMovie(x), x.theater, Date(x))

HasTickets(x) == \E k \in tickets : k[1] = x

\* aggregateSales and generateShowtimesForBooking: a group for each showtime
\* that has tickets, and Require.defined
ShowSales(r) ==
    /\ page[r] = "showtimes"
    /\ Answer(r, IF \A x \in read[r] : HasTickets(x) THEN "200" ELSE "500")
    /\ UNCHANGED read

\* getByIds: the ids that were not found
Missing(xs) == {x.theater : x \in xs} \ theaters

\* theatersService.getMany of searchTheaters and fetchTheaterMap
ShowTheaters(r) ==
    /\ page[r] \in {"theaters", "homeCards"}
    /\ Answer(r, IF Missing(read[r]) = {} THEN "200" ELSE "404")
    /\ UNCHANGED read

\* moviesService.getMany of searchRecommendedMovies
ShowPicks(r) ==
    /\ page[r] = "homePicks"
    /\ Answer(r, IF {TheMovie(x) : x \in read[r]} \subseteq movies THEN "200" ELSE "404")
    /\ UNCHANGED read

Read(r) ==
    /\ \/ Request(r) \/ PickDate(r)
       \/ ShowSales(r) \/ ShowTheaters(r) \/ ShowPicks(r)
    /\ UNCHANGED <<catalog, sales, saga, planned, stage, now>>

Tick ==
    /\ now < MaxNow /\ now' = now + 1
    /\ UNCHANGED <<catalog, sales, saga, planned, stage, requests>>

Next ==
    \/ \E bundle \in SUBSET tickets \ {{}} : Sell(bundle)
    \/ \E s \in Saga : StartSaga(s) \/ CommitSaga(s)
    \/ \E t \in Theater, seats \in Seatmap : UpdateTheater(t, seats)
    \/ \E d \in Deletion : CheckDeletion(d) \/ Delete(d)
    \/ \E r \in Reader : Read(r)
    \/ Tick

Spec == Init /\ [][Next]_vars

-----------------------------------------------------------------------------
(***************************************************************************)
(* Properties.                                                             *)
(***************************************************************************)

\* A showtime comes with exactly the seats its theater has at that moment,
\* whatever was edited since the tickets were planned.
TicketsAreTheSeats ==
    [][\A x \in showtimes' \ showtimes :
          {k[2] : k \in {l \in tickets' : l[1] = x}} = seatmap[x.theater]]_vars

\* A search for showtimes fails in two ways.  With an error of the server (500) it
\* has met a theater without seats, and never a showtime whose tickets are not
\* there yet.  Refused for lack of a filter (400) it has found nothing, and of a
\* date that was listed before only when all that it was listed for has ended.
SearchesFailKnowingly ==
    \A r \in Reader :
        /\ answer[r] = "500" => \E x \in read[r] : \A k \in planned[x.saga] : k[1] # x
        /\ answer[r] = "400" => \A x \in read[r] : Ended(x)

\* A page is refused for a theater or a movie that does not exist only if one of
\* its showtimes was committed beside the deletion (the race of CatalogDeletion):
\* no other deletion makes a page fail, not even between two of its reads, after
\* a showtime it has listed has ended.
OnlyRacesFail ==
    \A r \in Reader : answer[r] = "404" => read[r] \intersect raced # {}
=============================================================================
