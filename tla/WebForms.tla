------------------------------ MODULE WebForms ------------------------------
(***************************************************************************)
(* The forms of the front ends that create something: a movie, which is    *)
(* saved as a draft and then published, a theater, and an account.  The    *)
(* page shows a failed call to its user, who corrects the form or sends it *)
(* again.  A call that failed for the page may have been done, or may be   *)
(* done later, when the next one already has been.                         *)
(*                                                                         *)
(* What the BFF does with a call is in Gateway, what the API checks of a   *)
(* movie in MovieCatalog.                                                  *)
(***************************************************************************)
EXTENDS Naturals, Sequences, FiniteSets

CONSTANTS
    Content,         \* what the form may hold
    Incomplete,      \* those of it that lack a required field
    EmailOf,         \* the email of a sign-up, by what the form holds
    MaxFaults,       \* bound on lost calls and lost answers
    MaxEdits         \* bound on changes of the form

ContentAssumption == Incomplete \subseteq Content /\ DOMAIN EmailOf = Content
BoundAssumption == {MaxFaults, MaxEdits} \subseteq Nat

VARIABLES
    kind,            \* which form it is
    page, form,      \* where its user is; what the form holds
    draftMovieId,    \* the draft it has made, or 0
    call,            \* the call it waits for
    late,            \* calls that failed for the page and are still on their way
    stored,          \* what the API has stored: drafts, theaters, accounts
    faults, edits,
    sent,            \* history: what the form held when it was sent last
    overtaken        \* history: a late call was done after a later one was sent

server == <<stored, overtaken>>
vars == <<kind, page, form, draftMovieId, call, late, server, faults, edits, sent>>

Idle == [op |-> "none"]
Busy == call # Idle
Ops == {"me", "create", "patch", "publish"}
Pages == {"check", "ready", "broken", "login", "home", "left"}

TypeOK ==
    /\ kind \in {"movie", "theater", "signup"} /\ page \in Pages /\ form \in Content
    /\ draftMovieId \in 0..Len(stored)
    /\ Busy => call.op \in Ops /\ (call.op \in {"patch", "publish"} => call.id \in DOMAIN stored)
    /\ Busy /\ call.op = "me" => page = "check"
    /\ \A i \in DOMAIN stored : stored[i].content \in Content /\ stored[i].published \in BOOLEAN
    /\ faults \in 0..MaxFaults /\ edits \in 0..MaxEdits

\* useEffect asks who is logged in; a visitor who signs up is nobody yet
Init ==
    /\ kind \in {"movie", "theater", "signup"}
    /\ form \in Content
    /\ IF kind = "signup" THEN page = "ready" /\ call = Idle
       ELSE page = "check" /\ call = [op |-> "me", id |-> 0, content |-> form, answer |-> "none"]
    /\ draftMovieId = 0 /\ late = {} /\ stored = <<>>
    /\ faults = 0 /\ edits = 0 /\ overtaken = FALSE /\ sent = form

-----------------------------------------------------------------------------
\* the user's part

\* also while a call is under way, which carries what was there before
Edit ==
    /\ page = "ready" /\ edits < MaxEdits
    /\ \E c \in Content \ {form} : form' = c
    /\ edits' = edits + 1
    /\ UNCHANGED <<kind, page, draftMovieId, call, late, server, faults, sent>>

\* what was begun goes on without its page
Leave ==
    /\ page = "ready" /\ page' = "left"
    /\ UNCHANGED <<kind, form, draftMovieId, call, late, server, faults, edits, sent>>

Fetch(op, id) == call' = [op |-> op, id |-> id, content |-> form, answer |-> "none"]

\* the page forgets the draft that it has made
SaveOp_Faulty == "create"

\* a draft that was made is saved again
SaveOp == IF draftMovieId # 0 THEN "patch" ELSE "create"

\* the button is disabled while busy
Submit ==
    /\ page = "ready" /\ ~Busy
    /\ Fetch(SaveOp, draftMovieId) /\ sent' = form
    /\ UNCHANGED <<kind, page, form, draftMovieId, late, server, faults, edits>>

-----------------------------------------------------------------------------
\* the API's part

Stored(c) == [content |-> c.content, published |-> FALSE]
Complete(content) == content \notin Incomplete

\* the unique index of the users on the email (Accounts has how it comes to be)
Taken(email) == \E i \in DOMAIN stored : EmailOf[stored[i].content] = email

\* what a call does: the answer, and what is stored then
Effects(c) ==
    CASE c.op = "me" -> {<<"ok", stored>>}
      [] c.op = "create" ->
            IF kind # "movie" /\ ~Complete(c.content) THEN {<<"400", stored>>}
            ELSE IF kind = "signup" /\ Taken(EmailOf[c.content]) THEN {<<"409", stored>>}
            ELSE {<<"ok", Append(stored, Stored(c))>>}
      [] c.op = "patch" ->
            IF stored[c.id].published /\ ~Complete(c.content) THEN {<<"500", stored>>}
            ELSE {<<"ok", [stored EXCEPT ![c.id].content = c.content]>>}
      [] c.op = "publish" ->
            IF ~Complete(stored[c.id].content) THEN {<<"422", stored>>}
            ELSE {<<"ok", [stored EXCEPT ![c.id].published = TRUE]>>}

\* a guard in front of it: the login may be over
Refused(c) == IF kind = "signup" THEN {} ELSE {<<"401", stored>>}

Serve ==
    /\ Busy /\ call.answer = "none"
    /\ \E e \in Effects(call) \union Refused(call) :
          /\ call' = [call EXCEPT !.answer = e[1],
                                  !.id = IF call.op = "create" THEN Len(e[2]) ELSE @]
          /\ stored' = e[2]
    /\ UNCHANGED <<kind, page, form, draftMovieId, late, overtaken, faults, edits, sent>>

ServeLate ==
    \E c \in late :
        /\ \E e \in Effects(c) : stored' = e[2]
        /\ late' = late \ {c}
        /\ overtaken' = (overtaken \/ Busy \/ page = "home")
        /\ UNCHANGED <<kind, page, form, draftMovieId, call, faults, edits, sent>>

-----------------------------------------------------------------------------
\* the page's part

\* what follows an answer: the next call, another page, or an error shown
Success ==
    IF call.op = "me" THEN page' = "ready" /\ call' = Idle /\ UNCHANGED draftMovieId
    ELSE IF kind = "movie" /\ call.op \in {"create", "patch"}
       THEN draftMovieId' = call.id /\ Fetch("publish", call.id) /\ UNCHANGED page
    ELSE page' = "home" /\ call' = Idle /\ UNCHANGED draftMovieId

\* 401 goes to the login; the other errors are shown.  Without a session to
\* show the form to, that is all the page shows.
Failure(status) ==
    /\ page' = CASE status = "401" -> "login"
                 [] status # "401" /\ call.op = "me" -> "broken"
                 [] OTHER -> page
    /\ call' = Idle
    /\ UNCHANGED draftMovieId

Answered ==
    /\ Busy /\ call.answer # "none"
    /\ IF call.answer = "ok" THEN Success ELSE Failure(call.answer)
    /\ UNCHANGED <<kind, form, late, server, faults, edits, sent>>

\* fetch fails: the call is lost, or it is still on its way, or its answer is lost
Lose ==
    /\ Busy /\ faults < MaxFaults /\ faults' = faults + 1
    /\ Failure("failed")
    /\ \/ call.answer = "none" /\ late' = late \union {call}
       \/ UNCHANGED late
    /\ UNCHANGED <<kind, form, server, edits, sent>>

Next == Edit \/ Leave \/ Submit \/ Serve \/ ServeLate \/ Answered \/ Lose

Spec == Init /\ [][Next]_vars

-----------------------------------------------------------------------------
Published == {i \in DOMAIN stored : stored[i].published}

\* However often its user had to send the form again: no more than one movie is
\* published by it; what it has created beyond one draft, theater or account has
\* cost a lost call or a lost answer each, and of the accounts no two have one
\* email.  A page that says it is done has created what was sent last: the
\* theater or the account of that content is there, and the movie is published
\* with it, unless a lost call came in between.
FormsEndWell ==
    /\ Cardinality(Published) <= 1
    /\ Len(stored) <= 1 + faults
    /\ kind = "signup" =>
          \A i, k \in DOMAIN stored :
              EmailOf[stored[i].content] = EmailOf[stored[k].content] => i = k
    /\ page = "home" =>
          IF kind # "movie" THEN \E i \in DOMAIN stored : stored[i].content = sent
          ELSE \E i \in Published : overtaken \/ stored[i].content = sent
=============================================================================
