------------------------------ MODULE MCPayment ------------------------------
(* Payment on two checkouts and two callback slots. *)
EXTENDS Payment, TLC

AllFaults == FaultKinds
CalmFaults == {"crash", "requestError"}
LossFaults == {"cancel", "verifyError"}

=============================================================================
