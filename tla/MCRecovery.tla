----------------------------- MODULE MCRecovery -----------------------------
(***************************************************************************)
(* An instance of Purchase for TLC's liveness checking: one purchase among *)
(* the jobs of two replicas, with three faults; or two purchases of one    *)
(* seat, which wait for the same lock, with one job and one fault.         *)
(***************************************************************************)
EXTENDS Purchase, TLC

CONSTANTS r1, r2, s1, s2, u1, t1, k1, k2

VARIABLE scenario

Users == r1 :> u1 @@ r2 :> u1
Keys == r1 :> k1 @@ r2 :> k2
Items == r1 :> {t1} @@ r2 :> {t1}
Seats == u1 :> {{t1}}

Absent == IF scenario = "alone" THEN {r2} ELSE {s2}
Budget == IF scenario = "alone" THEN 3 ELSE 1

MCInit == Init /\ scenario \in {"alone", "queue"}

\* the steps of Purchase in which an absent process has no part
MCNext ==
    /\ Next
    /\ faults' <= Budget
    /\ \A w \in Worker \intersect Absent : step'[w] = "idle"
    /\ UNCHANGED scenario

\* the Fairness of Purchase, for the jobs that are there
MCFairness ==
    /\ \A p \in Request : WF_vars(RequestStep(p) \/ ReconcileStep(p))
    /\ \A s \in Sweeper : WF_vars(s \notin Absent /\ SweeperStep(s))
    /\ \A p \in Request : WF_vars(~Attended(p) /\ LeaseExpires(p))
    /\ \A k \in LockKey : WF_vars(~Guarded(k) /\ LockExpires(k))

MCSpec == MCInit /\ [][MCNext]_<<vars, scenario>> /\ MCFairness
=============================================================================
