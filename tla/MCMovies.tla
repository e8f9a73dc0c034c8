------------------------------ MODULE MCMovies ------------------------------
(***************************************************************************)
(* Instances of MovieAssets and of MovieCatalog for TLC.  A behaviour is   *)
(* one of the files or one of the document; the variables of the other     *)
(* keep their initial values.                                              *)
(***************************************************************************)
EXTENDS MovieAssets, TLC

CONSTANTS
    s1, s2, m1, m2, a1, a2,
    q1, q2, plot, duration, Editor, Field, Duration, Attempts, MaxVersion

VARIABLES
    scenario,
    document, edit, patch, seen, attempt, begun, answer

Catalog == INSTANCE MovieCatalog WITH Request <- Editor, movie <- document, step <- edit

ASSUME CatalogAssumption == Catalog!FieldAssumption /\ Catalog!BoundAssumption

documentVars == <<document, edit, patch, seen, attempt, begun, answer>>

\* one file between two servers; two files, which a deletion takes together; one
\* file that the lists of two movies may name
Cast(servers, files, films, most) ==
    [servers |-> servers, files |-> files, films |-> films,
     faults |-> most[1], expired |-> most[2], updates |-> most[3]]
CastOf ==
    [servers |-> Cast(2, 1, {m1}, <<2, 1, 0>>),
     batches |-> Cast(1, 2, {m1}, <<2, 2, 0>>),
     movies |-> Cast(1, 1, {m1, m2}, <<1, 1, 1>>)]

InCast(c) ==
    /\ Cardinality({s \in Server : step[s] # "idle"}) <= c.servers
    /\ Cardinality({a \in Asset : row[a] # "none" \/ \E s \in Server : a \in batch[s]}) <= c.files
    /\ \A s \in Server : movie[s] \in c.films \union {Nobody}
    /\ faults <= c.faults /\ Cardinality(expired) <= c.expired /\ updates <= c.updates

MCInit ==
    /\ scenario \in DOMAIN CastOf \union {"document"}
    /\ Init /\ Catalog!Init
    /\ scenario # "document" => \A f \in Field : document.fields[f] = "unset"

MCNext ==
    /\ UNCHANGED scenario
    /\ \/ scenario # "document" /\ Next /\ InCast(CastOf[scenario])' /\ UNCHANGED documentVars
       \/ scenario = "document" /\ Catalog!Next /\ UNCHANGED vars

MCSpec == MCInit /\ [][MCNext]_<<scenario, vars, documentVars>>

\* servers, files and editors are alike
Symmetry == Permutations({s1, s2}) \union Permutations({a1, a2}) \union Permutations({q1, q2})

\* A movie that readers see is complete, whichever updates ran between the check
\* and the write of publish; and an update is given up only when others wrote as
\* often as it tried.
PublishedIsComplete ==
    Catalog!TypeOK /\ Catalog!PublishedIsComplete /\ Catalog!OnlyContentionGivesUp
=============================================================================
