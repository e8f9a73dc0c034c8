----------------------------- MODULE MCServices -----------------------------
(***************************************************************************)
(* Instances of the smaller services for TLC: the login limiter, the       *)
(* events between replicas, recommendations, lists by page, and the forms  *)
(* of the front ends.  A behaviour is one of one of them; the variables of *)
(* the others keep their initial values.                                   *)
(***************************************************************************)
EXTENDS LoginRateLimiter, TLC

CONSTANTS
    l1, l2, l3, a1, a2, i1,
    p1, p2, h1, h2, m1, m2, Replica, Handler, Message, HomeOf, MaxSubs,  \* see NatsPubSub
    Action, Drama, Comedy, Genre, Movies, GenresOf, ReleaseOf,
    Recent, MaxRecords,                                           \* see Recommendation
    d1, d2, d3, c1, x1, x2, Document, Key, Client, Remover,
    DefaultSize, MaxSize, Null, MaxChanges,                       \* see CrudRepository
    full, renamed, other, lacking,
    Content, Incomplete, EmailOf, MaxFaults, MaxEdits             \* see WebForms

\* l1 and l2 are to one account, and all logins are from one address
Accounts == [l \in Login |-> IF l = l3 THEN a2 ELSE a1]
Addresses == [l \in Login |-> i1]

\* two replicas with a handler each; the first one publishes both messages
Apart == [x \in {h1, h2, m1, m2} |-> IF x = h2 THEN p2 ELSE p1]

\* the list of the third repeats a genre
Lists == << <<Action>>, <<Drama>>, <<Action, Drama, Action>>, <<Drama, Comedy>>, <<Action>> >>
Dates == <<2, 1, 2, 2, 1>>

\* of the changes of the form only other is one of the email
Emails == [c \in Content |-> IF c = other THEN 2 ELSE 1]

VARIABLES
    scenario,
    wire, known, current, last, handlers, inbox, loop, call, joined, sent, heard, audience,
    records, showing,
    docs, active, client, items, total, seen, since, entered, left, remover, changes,
    kind, page, form, draftMovieId, fetch, late, stored, faults, edits, posted, overtaken

Events == INSTANCE NatsPubSub
Picks == INSTANCE Recommendation
Pages == INSTANCE CrudRepository
Forms == INSTANCE WebForms WITH call <- fetch, sent <- posted

ASSUME EventAssumption ==
    /\ Events!HomeAssumption /\ Events!ApartAssumption
    /\ Events!NameAssumption /\ Events!BoundAssumption
ASSUME PickAssumption == Picks!MovieAssumption /\ Picks!BoundAssumption
ASSUME PageAssumption ==
    Pages!DocumentAssumption /\ Pages!BoundAssumption /\ Pages!NullAssumption
ASSUME FormAssumption == Forms!ContentAssumption /\ Forms!BoundAssumption

eventVars ==
    <<wire, known, current, last, handlers, inbox, loop, call, joined, sent, heard, audience>>
pickVars == <<records, showing>>
pageVars ==
    <<docs, active, client, items, total, seen, since, entered, left, remover, changes>>
formVars ==
    <<kind, page, form, draftMovieId, fetch, late, stored, faults, edits, posted, overtaken>>

\* documents are changed while a client walks in an order, twice if it has pages
\* of two; they are deleted while one walks up, and inserted while one walks down
Removing == {r \in Remover : remover[r].step = "delete"}
WhileWalking ==
    /\ \/ UNCHANGED <<docs, active, remover>>
       \/ \E c \in Pages!Walking :
             client[c].order # Null /\ (changes' = 2 => client[c].size = MaxSize)
    /\ DOMAIN docs' # DOMAIN docs => \A c \in Client : client[c].order = "desc"
    /\ Removing' # {} => \A c \in Client : client[c].order = "asc"
    /\ Removing' = Remover => \A c \in Client : client[c].size = MaxSize
    /\ \A r \in Removing' : Cardinality(remover'[r].ids) + remover'[r].count <= 2

MCInit ==
    /\ scenario \in {"logins", "events", "picks", "pages", "forms"}
    /\ Init /\ Events!Init /\ Picks!Init /\ Pages!Init /\ Forms!Init
    /\ scenario # "picks" => showing = {}
    /\ IF scenario = "pages" THEN \A d, e \in DOMAIN docs : d # e => docs[d] # docs[e]
       ELSE docs = <<>>
    /\ scenario # "forms" => kind = "signup" /\ form = full

MCNext ==
    /\ UNCHANGED scenario
    /\ \/ scenario = "logins" /\ Next /\ UNCHANGED <<eventVars, pickVars, pageVars, formVars>>
       \/ scenario = "events" /\ Events!Next /\ UNCHANGED <<vars, pickVars, pageVars, formVars>>
       \/ scenario = "picks" /\ Picks!Next /\ UNCHANGED <<vars, eventVars, pageVars, formVars>>
       \/ scenario = "pages" /\ Pages!Next /\ WhileWalking
             /\ UNCHANGED <<vars, eventVars, pickVars, formVars>>
       \/ scenario = "forms" /\ Forms!Next /\ UNCHANGED <<vars, eventVars, pickVars, pageVars>>

MCSpec == MCInit /\ [][MCNext]_<<scenario, vars, eventVars, pickVars, pageVars, formVars>>

\* logins, documents, deletions and messages are alike
Symmetry ==
    Permutations({l1, l2}) \union Permutations({d1, d2, d3}) \union Permutations({x1, x2})
        \union Permutations({m1, m2})

-----------------------------------------------------------------------------
\* However many logins fail at once, no more are told so than the limit allows
\* (recordFailure).
LoginsAreBounded == TypeOK /\ FailuresAreBounded

\* Who has subscribed before an event is published, and stays, hears it
\* (subscribe and its flush).
EventsAreHeard == Events!TypeOK /\ Events!PublishedIsHeard

\* The movies of favorite genres come first, and watching a movie does not push
\* movies of its genre back (generateRecommendedMovies).
PicksAreFair == [](Picks!TypeOK /\ Picks!FavoritesFirst) /\ Picks!WatchingHelps

\* Walks over pages miss and repeat nothing that stayed, and deletions add up
\* (findWithPagination, deleteByIds).
PagesAreSound == Pages!TypeOK /\ Pages!PagesAddUp /\ Pages!DeletionsAddUp

\* A form that is sent again publishes one movie and makes one account of an
\* email, and its page tells the truth of what was sent last (onSubmit).
FormsEndWell == Forms!TypeOK /\ Forms!FormsEndWell
=============================================================================
