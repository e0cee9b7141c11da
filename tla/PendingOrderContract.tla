------------------------ MODULE PendingOrderContract ------------------------
(***************************************************************************)
(* What the online payment flow promises about one checkout, with every    *)
(* row, request and timeout of the code left out: a pending order is       *)
(* placed, the gateway charges the customer for it, and it then becomes    *)
(* exactly one order, or is dropped and never comes back.                  *)
(* DropCharged says whether a checkout the customer was charged for may be *)
(* dropped: the promise one wants has it FALSE.                            *)
(***************************************************************************)
CONSTANTS Checkouts, DropCharged

VARIABLES status,    \* where the checkout stands
          charged    \* has the gateway taken the customer's money

contractVars == <<status, charged>>

Init == /\ status = [c \in Checkouts |-> "none"]
        /\ charged = [c \in Checkouts |-> FALSE]

Place(c) == /\ status[c] = "none"
            /\ status' = [status EXCEPT ![c] = "pending"]
            /\ UNCHANGED charged

Charge(c) == /\ status[c] \in {"pending", "dropped"}
             /\ status[c] = "dropped" => DropCharged
             /\ ~charged[c]
             /\ charged' = [charged EXCEPT ![c] = TRUE]
             /\ UNCHANGED status

Fulfil(c) == /\ status[c] = "pending"
             /\ charged[c]
             /\ status' = [status EXCEPT ![c] = "ordered"]
             /\ UNCHANGED charged

Drop(c) == /\ status[c] = "pending"
           /\ charged[c] => DropCharged
           /\ status' = [status EXCEPT ![c] = "dropped"]
           /\ UNCHANGED charged

Next == \E c \in Checkouts : Place(c) \/ Charge(c) \/ Fulfil(c) \/ Drop(c)

Spec == Init /\ [][Next]_contractVars
=============================================================================
