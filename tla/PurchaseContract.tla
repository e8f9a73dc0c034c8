-------------------------- MODULE PurchaseContract --------------------------
(***************************************************************************)
(* What a purchase promises, without replicas, leases or Redis: every      *)
(* operation is opened once, ends sold and paid or cancelled, and a charge *)
(* is kept exactly by the purchases that were sold.                        *)
(***************************************************************************)
CONSTANTS Request, Ticket, UserOf, KeyOf, ItemsOf, Nobody

VARIABLES
    outcome,    \* "none", "open", "completed" or "cancelled"
    charge,     \* "none", "held", "kept" or "returned"
    buyer       \* the purchase each ticket is sold to

contractVars == <<outcome, charge, buyer>>

ContractInit ==
    /\ outcome = [p \in Request |-> "none"]
    /\ charge = [p \in Request |-> "none"]
    /\ buyer = [t \in Ticket |-> Nobody]

\* the first request of a customer with this key opens the only purchase
Begin(p) ==
    /\ \A q \in Request :
          UserOf[q] = UserOf[p] /\ KeyOf[q] = KeyOf[p] => outcome[q] = "none"
    /\ outcome' = [outcome EXCEPT ![p] = "open"]
    /\ UNCHANGED <<charge, buyer>>

\* a charge may arrive after its purchase was cancelled, never after a sale
Charge(p) ==
    /\ outcome[p] \in {"open", "cancelled"}
    /\ charge[p] = "none"
    /\ charge' = [charge EXCEPT ![p] = "held"]
    /\ UNCHANGED <<outcome, buyer>>

Complete(p) ==
    /\ outcome[p] = "open"
    /\ charge[p] = "held"
    /\ \A t \in ItemsOf[p] : buyer[t] = Nobody
    /\ outcome' = [outcome EXCEPT ![p] = "completed"]
    /\ charge' = [charge EXCEPT ![p] = "kept"]
    /\ buyer' = [t \in Ticket |-> IF t \in ItemsOf[p] THEN p ELSE buyer[t]]

Cancel(p) ==
    /\ outcome[p] = "open"
    /\ outcome' = [outcome EXCEPT ![p] = "cancelled"]
    /\ UNCHANGED <<charge, buyer>>

Refund(p) ==
    /\ outcome[p] \in {"open", "cancelled"}
    /\ charge[p] = "held"
    /\ charge' = [charge EXCEPT ![p] = "returned"]
    /\ UNCHANGED <<outcome, buyer>>

ContractNext ==
    \E p \in Request : Begin(p) \/ Charge(p) \/ Complete(p) \/ Cancel(p) \/ Refund(p)

ContractSpec == ContractInit /\ [][ContractNext]_contractVars

=============================================================================
