----------------------------- MODULE MCPurchase -----------------------------
(***************************************************************************)
(* An instance of Purchase for TLC: customers who rival for a seat, and    *)
(* one who sends requests with one Idempotency-Key.                        *)
(***************************************************************************)
EXTENDS Purchase, TLC

CONSTANTS r1, r2, r3, r4, s1, u1, u2, t1, t2, k1, k2

Users == [r \in Request |-> IF r = r2 THEN u2 ELSE u1]
Keys == [r \in Request |-> IF r = r2 THEN k2 ELSE k1]
Items == [r \in Request |-> IF r = r1 THEN {t1, t2} ELSE {t2}]
Seats == u1 :> {{t1, t2}} @@ u2 :> {{t2}}

\* Two customers with overlapping but different ticket sets, and so with
\* different locks; a request and its retry; and a request that reuses the key
\* of another one for another body.
Casts == {{r1, r2}, {r3, r4}, {r1, r3}}

Sent == {r \in Request : step[r] # "idle"}
Holding == {u \in User : userKey[u] # {}}

\* the requests of one cast are sent, by customers who hold seats
OneCast ==
    \E Cast \in Casts : Sent \subseteq Cast /\ Holding \subseteq {UserOf[r] : r \in Cast}
=============================================================================
