---------------------------- MODULE RefreshTokens ----------------------------
(***************************************************************************)
(* The refresh tokens of auth.service.ts / refresh-token.repository.ts for *)
(* one user: a login starts a family, a refresh stores a new token of the  *)
(* family and revokes the used one, a reuse or a logout revokes the family.*)
(* A token is a JWT whose payload is the same each time except for the     *)
(* second it was issued at (iat), so it is identified by that second: two  *)
(* tokens signed in one second are the same string, and tokenHash is       *)
(* unique.  A family is named by the login that stored its first token.    *)
(***************************************************************************)
EXTENDS Integers, FiniteSets

CONSTANTS
  Requests,   \* requests to /auth/login, /auth/refresh and /auth/logout
  None,
  Faults,     \* {"dbError", "crash"}: swallowed database errors, a dead process
  MaxSecond   \* bound on the clock

VARIABLES
  second,     \* Date.now() in whole seconds
  rows,       \* RefreshToken rows: tokenHash -> familyId and isRevoked
  pc,         \* progress of each request
  used,       \* the refresh token it presents
  family,     \* stored.familyId of that token
  issued,     \* the refresh token it signs
  closed,     \* history: families revoked by a logout or a detected reuse
  overtaken,  \* history: families closed while a refresh was past its check
  forked      \* history: families two refreshes rotated at once, or whose
              \* rotation stored the new token and failed to revoke the used

requestVars == <<pc, used, family, issued>>
histories == <<closed, overtaken, forked>>
vars == <<second, rows, requestVars, histories>>

Tokens == 0..MaxSecond
NoRow == [familyId |-> None, isRevoked |-> FALSE]
Exists(t) == rows[t] # NoRow
InFamily(t, f) == Exists(t) /\ rows[t].familyId = f
Live(t) == Exists(t) /\ ~rows[t].isRevoked

Rotating == {"found", "creating", "revoking"}
Busy == Rotating \cup {"persisting", "reused", "leaving"}

Init ==
  /\ second = 0
  /\ rows = [t \in Tokens |-> NoRow]
  /\ pc = [r \in Requests |-> "idle"]
  /\ used = [r \in Requests |-> None]
  /\ family = [r \in Requests |-> None]
  /\ issued = [r \in Requests |-> None]
  /\ closed = {}
  /\ overtaken = {}
  /\ forked = {}

Goto(r, label) == pc' = [pc EXCEPT ![r] = label]

\* Another refresh of the family is between its check and its answer.
RotatedMeanwhile(f) == \E r \in Requests : pc[r] \in Rotating /\ family[r] = f

\* A refresh of the family has passed its check and not stored its token yet.
AboutToCreate(f) == \E r \in Requests : pc[r] \in {"found", "creating"} /\ family[r] = f

-----------------------------------------------------------------------------
(* login and register: the password was right, or the user was created *)

SignIn(r) ==
  /\ pc[r] = "idle"
  /\ issued' = [issued EXCEPT ![r] = second]
  /\ Goto(r, "persisting")
  /\ UNCHANGED <<second, rows, used, family, histories>>

\* The insert; an error (a token stored this very second, or of the
\* database) is swallowed and the token handed out all the same.
PersistFirst(r) ==
  LET t == issued[r] IN
  /\ pc[r] = "persisting"
  /\ \/ /\ ~Exists(t)
        /\ rows' = [rows EXCEPT ![t] = [familyId |-> r, isRevoked |-> FALSE]]
        /\ Goto(r, "answered")
     \/ /\ Exists(t) /\ UNCHANGED rows
        /\ Goto(r, "answered")
     \/ /\ "dbError" \in Faults /\ UNCHANGED rows
        /\ Goto(r, "unstored")
  /\ UNCHANGED <<second, used, family, issued, histories>>

-----------------------------------------------------------------------------
(* refresh *)

\* A client presents a token that was handed out to it, or reuses one.
Known(t) == \E o \in Requests : pc[o] \in {"answered", "unstored"} /\ issued[o] = t

\* Mutant: a revoked token is rotated like any other.
FindWithoutReuseCheck(r, t) ==
  /\ pc[r] = "idle" /\ Known(t)
  /\ used' = [used EXCEPT ![r] = t]
  /\ family' = [family EXCEPT ![r] = rows[t].familyId]
  /\ Goto(r, IF Exists(t) THEN "found" ELSE "refused")
  /\ UNCHANGED <<second, rows, issued, histories>>

\* findByToken: an unknown token is refused, a revoked one is a reuse.
FindForRefresh(r, t) ==
  LET f == rows[t].familyId IN
  /\ pc[r] = "idle" /\ Known(t)
  /\ used' = [used EXCEPT ![r] = t]
  /\ family' = [family EXCEPT ![r] = f]
  /\ \/ ~Exists(t) /\ Goto(r, "refused")
     \/ Exists(t) /\ ~Live(t) /\ Goto(r, "reused")
     \/ Live(t) /\ Goto(r, "found")
  /\ forked' = IF Live(t) /\ RotatedMeanwhile(f) THEN forked \cup {f} ELSE forked
  /\ UNCHANGED <<second, rows, issued, closed, overtaken>>

\* The user is found (or is gone) and both new tokens are signed.
SignNext(r) ==
  /\ pc[r] = "found"
  /\ \/ issued' = [issued EXCEPT ![r] = second] /\ Goto(r, "creating")
     \/ Goto(r, "refused") /\ UNCHANGED issued
  /\ UNCHANGED <<second, rows, used, family, histories>>

\* Mutant: the used token is revoked also when the insert failed, as when each
\* of the two writes had a try of its own.
CreateThenRevokeAnyway(r) ==
  LET t == issued[r] IN
  /\ pc[r] = "creating"
  /\ \/ /\ ~Exists(t)
        /\ rows' = [rows EXCEPT ![t] = [familyId |-> family[r], isRevoked |-> FALSE]]
        /\ Goto(r, "revoking")
     \/ Exists(t) /\ UNCHANGED rows /\ Goto(r, "revoking")
     \/ /\ "dbError" \in Faults
        /\ rows' = [rows EXCEPT ![used[r]].isRevoked = TRUE]
        /\ Goto(r, "unstored")
  /\ UNCHANGED <<second, used, family, issued, histories>>

\* The insert into the family; when it throws, revoking the used token is
\* skipped and the new token is handed out.
CreateRotated(r) ==
  LET t == issued[r] IN
  /\ pc[r] = "creating"
  /\ \/ /\ ~Exists(t)
        /\ rows' = [rows EXCEPT ![t] = [familyId |-> family[r], isRevoked |-> FALSE]]
        /\ Goto(r, "revoking")
     \/ Exists(t) /\ UNCHANGED rows /\ Goto(r, "answered")
     \/ "dbError" \in Faults /\ UNCHANGED rows /\ Goto(r, "unstored")
  /\ UNCHANGED <<second, used, family, issued, histories>>

\* The used token is revoked; an error is swallowed.
RevokeUsed(r) ==
  /\ pc[r] = "revoking"
  /\ \/ /\ rows' = [rows EXCEPT ![used[r]].isRevoked = TRUE]
        /\ UNCHANGED forked
     \/ /\ "dbError" \in Faults
        /\ forked' = forked \cup {family[r]}
        /\ UNCHANGED rows
  /\ Goto(r, "answered")
  /\ UNCHANGED <<second, used, family, issued, closed, overtaken>>

\* updateMany over the family.
Revoked(f) == [t \in Tokens |-> IF InFamily(t, f) THEN [rows[t] EXCEPT !.isRevoked = TRUE]
                                ELSE rows[t]]

Close(f) ==
  /\ closed' = closed \cup {f}
  /\ overtaken' = IF AboutToCreate(f) THEN overtaken \cup {f} ELSE overtaken \ {f}

RevokeFamily(r, label) ==
  /\ \/ rows' = Revoked(family[r]) /\ Close(family[r])
     \/ "dbError" \in Faults /\ UNCHANGED <<rows, closed, overtaken>>
  /\ Goto(r, label)
  /\ UNCHANGED <<second, used, family, issued, forked>>

\* A reuse revokes the whole family (an error is swallowed) and is refused.
RevokeOnReuse(r) == pc[r] = "reused" /\ RevokeFamily(r, "refused")

-----------------------------------------------------------------------------
(* logout.  The access token it blacklists is signed without a jti, so     *)
(* nothing is written for it.                                              *)

FindForLogout(r, t) ==
  /\ pc[r] = "idle" /\ Known(t)
  /\ used' = [used EXCEPT ![r] = t]
  /\ family' = [family EXCEPT ![r] = rows[t].familyId]
  /\ Goto(r, IF Exists(t) THEN "leaving" ELSE "loggedOut")
  /\ UNCHANGED <<second, rows, issued, histories>>

RevokeOnLogout(r) == pc[r] = "leaving" /\ RevokeFamily(r, "loggedOut")

-----------------------------------------------------------------------------
Tick == /\ second < MaxSecond
        /\ second' = second + 1
        /\ UNCHANGED <<rows, requestVars, histories>>

\* The process dies; what its requests would still have done is not done.
Crash ==
  /\ "crash" \in Faults
  /\ \E r \in Requests : pc[r] \in Busy
  /\ forked' = forked \cup {family[r] : r \in {q \in Requests : pc[q] = "revoking"}}
  /\ pc' = [r \in Requests |-> IF pc[r] \in Busy THEN "lost" ELSE pc[r]]
  /\ UNCHANGED <<second, rows, used, family, issued, closed, overtaken>>

RefreshStep(r) == SignNext(r) \/ CreateRotated(r) \/ RevokeUsed(r) \/ RevokeOnReuse(r)

Next ==
  \/ \E r \in Requests : SignIn(r) \/ PersistFirst(r) \/ RefreshStep(r) \/ RevokeOnLogout(r)
  \/ \E r \in Requests, t \in Tokens : FindForRefresh(r, t) \/ FindForLogout(r, t)
  \/ Tick \/ Crash

Spec == Init /\ [][Next]_vars

-----------------------------------------------------------------------------
(* Properties *)

Row == [familyId : Requests, isRevoked : BOOLEAN] \cup {NoRow}

TypeOK ==
  /\ second \in Tokens
  /\ rows \in [Tokens -> Row]
  /\ pc \in [Requests -> {"idle", "answered", "unstored", "refused", "loggedOut", "lost"} \cup Busy]
  /\ used \in [Requests -> Tokens \cup {None}]
  /\ family \in [Requests -> Requests \cup {None}]
  /\ issued \in [Requests -> Tokens \cup {None}]
  /\ closed \subseteq Requests
  /\ overtaken \subseteq Requests
  /\ forked \subseteq Requests

\* A family that was revoked ("revoke whole family") has no usable token.
RevokedFamilyIsDead == \A t \in Tokens : Live(t) => rows[t].familyId \notin closed

\* The same of a family unless a refresh had passed its check and not stored
\* its token when the family was last revoked: no other order of requests,
\* failures and crashes brings a revoked family back.
ClosedFamilyStaysDead ==
  \A t \in Tokens : Live(t) => rows[t].familyId \notin closed \ overtaken

\* Rotation leaves one usable token per family, and two only between its
\* insert and its revoke, unless the family forked.
BeingRevoked(t) == \E r \in Requests : pc[r] = "revoking" /\ used[r] = t
OneLiveToken ==
  \A s, t \in Tokens :
    /\ Live(s) /\ Live(t) /\ rows[s].familyId = rows[t].familyId
    /\ rows[s].familyId \notin forked
    /\ ~BeingRevoked(s) /\ ~BeingRevoked(t)
    => s = t

\* Rotated by a refresh that has answered with another token.
Rotated(t) == \E q \in Requests : pc[q] = "answered" /\ used[q] = t /\ issued[q] # t
Kept(t) == Live(t) \/ Rotated(t) \/ rows[t].familyId \in closed

\* Whoever was answered can go on, until that token is rotated or its family
\* revoked: with the token of the answer if it was stored ("answered"), and
\* with the one it had presented if a refresh handed out a token whose insert
\* had failed ("unstored": the insert and the revoke share one try, so the
\* failure of the first skips the second).  The token of such an answer is
\* unknown to the server: a client that kept only that one is refused, and so
\* is one whose login failed to store its token, which had presented none.
AnsweredIsLive ==
  \A r \in Requests :
    /\ pc[r] = "answered" => Kept(issued[r])
    /\ pc[r] = "unstored" /\ used[r] # None => Kept(used[r])
=============================================================================
