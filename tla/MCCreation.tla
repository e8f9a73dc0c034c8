----------------------------- MODULE MCCreation -----------------------------
(***************************************************************************)
(* An instance of ShowtimeCreation for TLC: r1 shows from 1 to 3 in both   *)
(* theaters and r2 sends it again; r3 sends another request with their key *)
(* and r4 the same with its own, to show from 0 to 2 and 3 to 5 in t2.     *)
(***************************************************************************)
EXTENDS ShowtimeCreation

CONSTANTS r1, r2, r3, r4, t1, t2, m1, d1, d2, k1, k2, b1, b2

Keys == [r \in Saga |-> IF r = r4 THEN k2 ELSE k1]
Bodies == [r \in Saga |-> IF r \in {r1, r2} THEN b1 ELSE b2]
Theaters == [r \in Saga |-> IF r \in {r1, r2} THEN {t1, t2} ELSE {t2}]
Starts == [r \in Saga |-> IF r \in {r1, r2} THEN {1} ELSE {0, 3}]
Durations == [r \in Saga |-> 2]
SameMovie == [r \in Saga |-> m1]
Targets == [d \in Deletion |-> IF d = d1 THEN m1 ELSE t2]

\* Three clients with one key, who send again and again, beside sagas that have
\* not begun; a request and its retry with their saga; two sagas that collide in
\* t2; these beside the deletion of t2; one beside both deletions.
Cast(requests, again, sagas, deletions, bound) ==
    [requests |-> requests, again |-> again, sagas |-> sagas,
     deletions |-> deletions, faults |-> bound]
Casts ==
    {Cast({r1, r2, r3}, TRUE, {}, {}, 3),
     Cast({r1, r2}, TRUE, {r1, r2}, {}, 1),
     Cast({r1, r4}, FALSE, {r1, r4}, {}, 2),
     Cast({r1, r4}, FALSE, {r1, r4}, {d2}, 1),
     Cast({r4}, FALSE, {r4}, {d1, d2}, 2)}

Sent == {r \in Saga : step[r] # "idle" \/ answer[r] # "none"}
SentAgain == \E r \in Saga : step[r] \in {"insert", "find"} /\ sagaOf[KeyOf[r]] = r
Begun == {s \in Saga : phase[s] # "emit waiting" \/ delayed[s] # {} \/ heard[s] # 0}
Deleting == {d \in Deletion : stage[d] # "check"}

OneCast ==
    \E c \in Casts :
        /\ Sent \subseteq c.requests
        /\ SentAgain => c.again
        /\ Begun \subseteq c.sagas
        /\ Deleting \subseteq c.deletions
        /\ faults <= c.faults

\* the behaviours of ShowtimeCreation with one of the casts
MCSpec == CreationInit /\ [][CreationNext /\ OneCast']_creationVars
=============================================================================
