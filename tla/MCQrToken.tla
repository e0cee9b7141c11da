------------------------------ MODULE MCQrToken ------------------------------
(* QrToken with up to two tokens, three consume requests and two addresses. *)
EXTENDS QrToken, TLC

AllFaults == FaultKinds
ScriptErrors == {"evalError"}

Symmetry == Permutations(Addresses)
=============================================================================
