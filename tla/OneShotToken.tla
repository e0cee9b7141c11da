---------------------------- MODULE OneShotToken ----------------------------
(***************************************************************************)
(* What a QR token promises: once issued it can be redeemed by at most one *)
(* guest, or is spent without anybody redeeming it, and never comes back.  *)
(***************************************************************************)
CONSTANTS Tokens, Guests, None

VARIABLES live,    \* the tokens somebody may still redeem
          spent,   \* the tokens nobody can redeem any more
          holder   \* who redeemed each token

tokenVars == <<live, spent, holder>>

Init == /\ live = {}
        /\ spent = {}
        /\ holder = [t \in Tokens |-> None]

Issue(t) == /\ t \notin live \cup spent
            /\ live' = live \cup {t}
            /\ UNCHANGED <<spent, holder>>

\* A token that could not be stored is handed out all the same.
IssueDud(t) == /\ t \notin live \cup spent
               /\ spent' = spent \cup {t}
               /\ UNCHANGED <<live, holder>>

Redeem(t, g) == /\ t \in live
                /\ live' = live \ {t}
                /\ spent' = spent \cup {t}
                /\ holder' = [holder EXCEPT ![t] = g]

Waste(T) == /\ T \subseteq live /\ T # {}
            /\ live' = live \ T
            /\ spent' = spent \cup T
            /\ UNCHANGED holder

Next == \/ \E t \in Tokens : Issue(t) \/ IssueDud(t)
        \/ \E t \in Tokens, g \in Guests : Redeem(t, g)
        \/ \E T \in SUBSET Tokens : Waste(T)

Spec == Init /\ [][Next]_tokenVars
=============================================================================
