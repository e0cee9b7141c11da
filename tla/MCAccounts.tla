------------------------------ MODULE MCAccounts ------------------------------
(***************************************************************************)
(* One run for the accounts and for the refresh tokens of one user.  The   *)
(* two share no state, so a behaviour is one of the one or of the other:   *)
(* part says which, and the rest keeps its initial value.                  *)
(***************************************************************************)
EXTENDS Accounts, TLC

CONSTANTS TokenRequests, Faults, MaxSecond

ASSUME TokenAssumption == MaxSecond \in Nat /\ None \notin TokenRequests \cup (0..MaxSecond)

VARIABLES part, second, rows, tokenPc, used, family, issued, closed, overtaken, forked

tokenVars == <<second, rows, tokenPc, used, family, issued, closed, overtaken, forked>>

R == INSTANCE RefreshTokens WITH Requests <- TokenRequests, pc <- tokenPc

AllFaults == {"dbError", "crash"}
Seeds == "s1" :> "ADMIN" @@ "s2" :> "PRIMARY"

\* One edit of both protected fields, and changes of the password.
SomeEdits ==
  {[role |-> "SECONDARY", isActive |-> FALSE, password |-> None]}
  \cup {[role |-> None, isActive |-> None, password |-> p] : p \in Passwords}

Symmetry == Permutations(Requests) \cup Permutations(TokenRequests)

MCInit ==
  /\ R!Init
  /\ \/ part = "accounts" /\ Init
     \/ part = "tokens" /\ Init /\ users = [i \in Ids |-> NoAccount]

MCNext ==
  \/ part = "accounts" /\ Next /\ UNCHANGED <<part, tokenVars>>
  \/ part = "tokens" /\ R!Next /\ UNCHANGED <<part, vars>>

MCSpec == MCInit /\ [][MCNext]_<<part, vars, tokenVars>>

-----------------------------------------------------------------------------
(* The properties of RefreshTokens, where they are stated and explained *)

\* A family revoked while no refresh was past its check stays dead.
ClosedFamilyStaysDead == R!ClosedFamilyStaysDead

\* Rotation leaves one usable token per family, unless it forked.
OneLiveToken == R!OneLiveToken

\* Who was answered can go on until the token is rotated or revoked, except for
\* a login whose insert failed.
AnsweredIsLive == R!AnsweredIsLive

=============================================================================
