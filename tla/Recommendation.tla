--------------------------- MODULE Recommendation ---------------------------
(***************************************************************************)
(* What a user is recommended: the movies that are showing and that the    *)
(* user has not watched, those with the favorite genres first.  Genres are *)
(* ranked by how many of the recently watched movies have them and get     *)
(* points by their rank; a movie gets the points of its genres.            *)
(***************************************************************************)
EXTENDS Naturals, Sequences, FiniteSets

CONSTANTS
    Movies,      \* 1..n, in the order in which the collection returns them
    Genre,       \* MovieGenre
    GenresOf,    \* the list of genres of each movie
    ReleaseOf,   \* the release date of each movie
    Recent,      \* RECENT_WATCH_LIMIT
    MaxRecords   \* bound on the watch records

MovieAssumption ==
    /\ IsFiniteSet(Movies) /\ Movies \subseteq Nat /\ IsFiniteSet(Genre)
    /\ GenresOf \in [Movies -> Seq(Genre)] /\ ReleaseOf \in [Movies -> Nat]
BoundAssumption == {Recent, MaxRecords} \subseteq Nat

VARIABLES
    records,   \* the movies the user has watched, the last one last
    showing    \* the movies with showtimes that are still sold

vars == <<records, showing>>

Init == records = <<>> /\ showing \in SUBSET Movies

\* WatchRecordsService.create
Watch(m) == Len(records) < MaxRecords /\ records' = Append(records, m) /\ UNCHANGED showing

\* a showtime is added, or its sale ends
Programme(m) ==
    /\ showing' = IF m \in showing THEN showing \ {m} ELSE showing \union {m}
    /\ UNCHANGED records

Next == \E m \in Movies : Watch(m) \/ Programme(m)

Spec == Init /\ [][Next]_vars

-----------------------------------------------------------------------------
\* searchPage of the records and getMany of their movies: each once
Watched == {records[i] : i \in {j \in DOMAIN records : Len(records) - j < Recent}}

Recommended == showing \ Watched

\* flatMap: every genre of a watched movie, by the movie and its place there
Places(watched, g) ==
    UNION {{m} \X {i \in DOMAIN GenresOf[m] : GenresOf[m][i] = g} : m \in watched}

\* countBy
Frequency(watched, g) == Cardinality(Places(watched, g))

Earlier(p, q) == p[1] < q[1] \/ (p[1] = q[1] /\ p[2] < q[2])

\* the order of the keys of an object is that in which they were first set
FirstSeen(watched, g) ==
    CHOOSE p \in Places(watched, g) : \A q \in Places(watched, g) \ {p} : Earlier(p, q)

\* favoriteGenres: orderBy with 'asc'
Preferred_Faulty(watched, g, h) ==
    \/ Frequency(watched, g) < Frequency(watched, h)
    \/ /\ Frequency(watched, g) = Frequency(watched, h)
       /\ Earlier(FirstSeen(watched, g), FirstSeen(watched, h))

\* favoriteGenres: by frequency, and stable
Preferred(watched, g, h) ==
    \/ Frequency(watched, g) > Frequency(watched, h)
    \/ /\ Frequency(watched, g) = Frequency(watched, h)
       /\ Earlier(FirstSeen(watched, g), FirstSeen(watched, h))

Genres(m) == {GenresOf[m][i] : i \in DOMAIN GenresOf[m]}

Favorites(watched) == UNION {Genres(m) : m \in watched}

\* genreScoreByGenre: the place from the bottom
Points(watched, g) ==
    IF g \in Favorites(watched)
    THEN 1 + Cardinality({h \in Favorites(watched) : Preferred(watched, g, h)})
    ELSE 0

\* sumBy over the genres of a movie: as many as there are points of each
Score(watched, m) ==
    Cardinality(UNION {{i} \X (1..Points(watched, GenresOf[m][i])) : i \in DOMAIN GenresOf[m]})

\* orderBy genreScore and releaseDate, the later first, and stable
Above(watched, m, n) ==
    \/ Score(watched, m) > Score(watched, n)
    \/ /\ Score(watched, m) = Score(watched, n)
       /\ ReleaseOf[m] > ReleaseOf[n] \/ (ReleaseOf[m] = ReleaseOf[n] /\ m < n)

-----------------------------------------------------------------------------
\* The types, and that no two genres share a rank.
TypeOK ==
    /\ records \in Seq(Movies) /\ Len(records) <= MaxRecords /\ showing \subseteq Movies
    /\ {Points(Watched, g) : g \in Favorites(Watched)} = 1..Cardinality(Favorites(Watched))

\* Of two movies the one comes first whose every genre has been watched more
\* often than each genre of the other, when it has as many: the scores respect
\* the frequencies although only ranks are added up.
FavoritesFirst ==
    \A m, n \in Recommended :
        /\ Len(GenresOf[m]) >= Len(GenresOf[n]) /\ GenresOf[n] # <<>>
        /\ \A g \in Genres(m), h \in Genres(n) : Frequency(Watched, g) > Frequency(Watched, h)
        => Above(Watched, m, n)

\* Watching a movie of one genre never makes another movie of that genre alone
\* fall behind a movie it was above, unless that one names the genre more often
\* (nothing keeps a list from repeating a genre), as long as no older record
\* drops out.
WatchingHelps ==
    [][\A w \in Movies :
         /\ records' = Append(records, w) /\ Len(records) < Recent
         /\ Cardinality(Genres(w)) = 1
         => \A m, n \in Recommended \ {w} :
                /\ GenresOf[m] = GenresOf[w]
                /\ Cardinality({i \in DOMAIN GenresOf[n] : GenresOf[n][i] \in Genres(w)})
                     <= Len(GenresOf[m])
                /\ Above(Watched, m, n)
                => Above(Watched', m, n)]_vars
=============================================================================
