------------------------------ MODULE MCOutbox ------------------------------
(***************************************************************************)
(* Instances of PurchaseOutbox for TLC.                                    *)
(***************************************************************************)
EXTENDS PurchaseOutbox, TLC

CONSTANTS r1, r2, s1, c1, c2

\* the requests are alike, and so are the consume loops: for safety only
Alike == Permutations(Request) \union Permutations(Consumer)
=============================================================================
