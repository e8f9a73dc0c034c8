---------------------------- MODULE MovieCatalog ----------------------------
(***************************************************************************)
(* A movie is a draft until it is published, and a published movie must    *)
(* be complete.  Nothing locks it: publishing checks a copy of the movie,  *)
(* and every change of its fields is a loop that reads the movie,          *)
(* validates what it would become and writes if nobody wrote in between.   *)
(* Every write, also of the list of files, counts up the version.          *)
(*                                                                         *)
(* A field is "unset" when it has the default that stands for a missing    *)
(* value.  A duration of zero is no default, and not complete either.      *)
(***************************************************************************)
EXTENDS Naturals

CONSTANTS
    Request,
    Field, Duration,       \* the required fields; one of them is the duration
    Attempts,              \* MOVIE_CAS_ATTEMPTS
    MaxVersion             \* bound on the writes

FieldAssumption == Duration \in Field
BoundAssumption == {Attempts, MaxVersion} \subseteq Nat \ {0}

VARIABLES
    movie,       \* the stored document
    step, patch, \* what each request does, and the fields it sets
    seen,        \* the version it has read
    attempt,     \* how often it has tried to write
    begun,       \* history: the version when it began
    answer       \* what it was answered

local == <<step, patch, seen, attempt, begun, answer>>
vars == <<movie, local>>

Value(f) == IF f = Duration THEN {"unset", "zero", "set"} ELSE {"unset", "set"}
AnyValue == {"unset", "zero", "set"}
Fields == {v \in [Field -> AnyValue] : \A f \in Field : v[f] \in Value(f)}
Movies == [exists : BOOLEAN, published : BOOLEAN, version : 0..MaxVersion, fields : Fields]

\* a movie that was just created: a draft, with any of its fields given
Init ==
    /\ movie \in [exists : {TRUE}, published : {FALSE}, version : {0}, fields : Fields]
    /\ step = [r \in Request |-> "new"]
    /\ patch = [r \in Request |-> <<>>]
    /\ seen = [r \in Request |-> 0]
    /\ attempt = [r \in Request |-> 0]
    /\ begun = [r \in Request |-> 0]
    /\ answer = [r \in Request |-> "none"]

-----------------------------------------------------------------------------
\* the fields that still have their default
Missing(m) == {f \in Field : m.fields[f] = "unset"}

\* what validate asks of a published movie
Complete(fields) == \A f \in Field : fields[f] = "set"

Valid(m) == m.published => Complete(m.fields)

\* the movie once the request's fields are set
Patched(r, m) ==
    IF patch[r] = <<>> THEN [m EXCEPT !.published = TRUE]
    ELSE [m EXCEPT !.fields = [f \in Field |->
              IF f \in DOMAIN patch[r] THEN patch[r][f] ELSE m.fields[f]]]

\* the answer; what the request knew is forgotten
Finish(r, a) ==
    /\ answer' = [answer EXCEPT ![r] = a]
    /\ step' = [step EXCEPT ![r] = "done"]
    /\ patch' = [patch EXCEPT ![r] = <<>>]
    /\ seen' = [seen EXCEPT ![r] = 0]
    /\ begun' = [begun EXCEPT ![r] = IF a = "gaveUp" THEN @ ELSE 0]

GoTo(r, s) == step' = [step EXCEPT ![r] = s] /\ UNCHANGED <<answer, patch>>

-----------------------------------------------------------------------------
Begin(r) == begun' = [begun EXCEPT ![r] = movie.version] /\ UNCHANGED seen

\* publish: a movie with missing fields is refused at once
Publish(r) ==
    /\ step[r] = "new"
    /\ IF ~movie.exists THEN Finish(r, "notFound")
       ELSE IF Missing(movie) # {} THEN Finish(r, "missingFields")
       ELSE GoTo(r, "read") /\ Begin(r)
    /\ UNCHANGED <<movie, attempt>>

\* update: sets some of the fields
Update(r) ==
    /\ step[r] = "new"
    /\ \E F \in SUBSET Field \ {{}} : \E p \in [F -> AnyValue] :
          /\ \A f \in F : p[f] \in Value(f)
          /\ patch' = [patch EXCEPT ![r] = p]
    /\ step' = [step EXCEPT ![r] = "read"]
    /\ Begin(r)
    /\ UNCHANGED <<movie, attempt, answer>>

\* updateWithCas reads the movie and validates what it would become
Read(r) ==
    /\ step[r] = "read"
    /\ IF ~movie.exists THEN Finish(r, "notFound")
       ELSE IF ~Valid(Patched(r, movie)) THEN Finish(r, "invalid")
       ELSE /\ seen' = [seen EXCEPT ![r] = movie.version]
            /\ GoTo(r, "write")
            /\ UNCHANGED begun
    /\ UNCHANGED <<movie, attempt>>

\* the filter leaves the version out
Current_Faulty(r) == movie.exists

\* the filter of the write
Current(r) == movie.exists /\ movie.version = seen[r]

Again(r) == "read"

Write(r) ==
    /\ step[r] = "write"
    /\ IF Current(r)
          THEN /\ movie.version < MaxVersion
               /\ movie' = [Patched(r, movie) EXCEPT !.version = @ + 1]
               /\ Finish(r, "ok")
               /\ UNCHANGED attempt
          ELSE /\ attempt' = [attempt EXCEPT ![r] = @ + 1]
               /\ IF attempt[r] + 1 = Attempts THEN Finish(r, "gaveUp")
                  ELSE GoTo(r, Again(r)) /\ UNCHANGED <<seen, begun>>
               /\ UNCHANGED movie

\* addAsset and removeAsset, which need no version but count it up
TouchAssets ==
    /\ movie.exists /\ movie.version < MaxVersion
    /\ movie' = [movie EXCEPT !.version = @ + 1]
    /\ UNCHANGED local

Delete ==
    /\ movie.exists /\ movie.version < MaxVersion
    /\ movie' = [movie EXCEPT !.version = @ + 1, !.exists = FALSE]
    /\ UNCHANGED local

Next ==
    \/ \E r \in Request : Publish(r) \/ Update(r) \/ Read(r) \/ Write(r)
    \/ TouchAssets \/ Delete

Spec == Init /\ [][Next]_vars

-----------------------------------------------------------------------------
\* The types, and what the steps of updateWithCas leave behind: a request has
\* failed to write less often than it may, until it gives up.
TypeOK ==
    /\ movie \in Movies
    /\ step \in [Request -> {"new", "read", "write", "done"}]
    /\ \A r \in Request : DOMAIN patch[r] \subseteq Field
    /\ seen \in [Request -> 0..MaxVersion] /\ begun \in [Request -> 0..MaxVersion]
    /\ \A r \in Request :
          /\ attempt[r] \in 0..Attempts
          /\ answer[r] = "gaveUp" <=> attempt[r] = Attempts
          /\ answer[r] # "none" <=> step[r] = "done"

\* Readers of the catalog see published movies only, and those are complete,
\* whichever updates ran between the check and the write of publish.
PublishedIsComplete == movie.exists /\ movie.published => Complete(movie.fields)

\* An update is given up only under contention: others have written at least
\* once for each of its attempts.
OnlyContentionGivesUp ==
    \A r \in Request : answer[r] = "gaveUp" => movie.version >= begun[r] + Attempts
=============================================================================
