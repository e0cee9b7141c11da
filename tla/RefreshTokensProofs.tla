-------------------------- MODULE RefreshTokensProofs --------------------------
(***************************************************************************)
(* Proofs about RefreshTokens: which tokens of a family are usable, for    *)
(* any number of logins, refreshes and logouts, any faults and any clock.  *)
(***************************************************************************)
EXTENDS RefreshTokens, TLAPS

\* What the theorems assume of the constants.
ConstantsDiffer == MaxSecond \in Nat /\ None \notin Requests \cup Tokens

(***************************************************************************)
(* The inductive invariant.  A family is named by a login that is over; a  *)
(* rotating request holds a stored token of its family.                    *)
(***************************************************************************)
InAFamily == Rotating \cup {"reused", "leaving"}
FamilyInv ==
  /\ \A t \in Tokens : Exists(t) => pc[rows[t].familyId] = "answered"
  /\ \A r \in Requests : pc[r] \in InAFamily =>
       /\ family[r] \in Requests /\ pc[family[r]] = "answered"
       /\ used[r] \in Tokens /\ InFamily(used[r], family[r])
  /\ \A f \in closed : pc[f] = "answered"

\* A revoked family has no usable token, and nobody is about to store one.
ClosedInv ==
  \A f \in closed \ overtaken :
    /\ \A t \in Tokens : Live(t) => rows[t].familyId # f
    /\ ~AboutToCreate(f)

\* Of a family that did not fork one request at most is rotating; while it has
\* not stored its token, only the one it uses is usable.
RotationInv ==
  \A f \in Requests \ forked :
    /\ \A q, r \in Requests :
         pc[q] \in Rotating /\ pc[r] \in Rotating /\ family[q] = f /\ family[r] = f => q = r
    /\ \A r \in Requests, t \in Tokens :
         pc[r] \in {"found", "creating"} /\ family[r] = f /\ Live(t) /\ rows[t].familyId = f
           => used[r] = t
    /\ \A s, t \in Tokens :
         /\ Live(s) /\ Live(t) /\ rows[s].familyId = f /\ rows[t].familyId = f
         /\ ~BeingRevoked(s) /\ ~BeingRevoked(t)
         => s = t

\* What a request answers or is about to answer is stored, or else the token
\* it presented; a stored token that is not usable was rotated, or its family
\* was revoked.
IssuedOK(r) ==
  /\ pc[r] \in {"idle", "persisting"} => used[r] = None
  /\ pc[r] = "unstored" => used[r] = None \/ (used[r] \in Tokens /\ Exists(used[r]))
  /\ pc[r] \in {"persisting", "creating"} => issued[r] \in Tokens
  /\ pc[r] \in {"answered", "revoking"} => issued[r] \in Tokens /\ Exists(issued[r])
  /\ pc[r] = "revoking" => issued[r] # used[r]
TokenInv ==
  /\ \A r \in Requests : IssuedOK(r)
  /\ \A t \in Tokens : Exists(t) /\ ~Live(t) => Rotated(t) \/ rows[t].familyId \in closed

IInv == TypeOK /\ FamilyInv /\ ClosedInv /\ RotationInv /\ TokenInv

-----------------------------------------------------------------------------
LEMMA TokensInit == ASSUME ConstantsDiffer PROVE Init => IInv
BY DEF ConstantsDiffer, Init, IInv, TypeOK, FamilyInv, ClosedInv, RotationInv, TokenInv, IssuedOK,
       Tokens, Row, NoRow, Exists, Live, InFamily, AboutToCreate, InAFamily, Rotating, Busy

\* Every variable keeps its type.
LEMMA TypeStep ==
  ASSUME ConstantsDiffer, TypeOK, FamilyInv, [Next]_vars
  PROVE  TypeOK'
<1> USE DEF TypeOK, Goto, Busy, Rotating, requestVars, histories
<1>1. ASSUME NEW r \in Requests, SignIn(r) PROVE TypeOK'
  BY <1>1 DEF SignIn
<1>2. ASSUME NEW r \in Requests, PersistFirst(r) PROVE TypeOK'
  <2>1. [familyId |-> r, isRevoked |-> FALSE] \in Row
    BY DEF Row
  <2>2. QED
    <3>1. CASE rows' = [rows EXCEPT ![issued[r]] = [familyId |-> r, isRevoked |-> FALSE]]
      <4>1. rows' \in [Tokens -> Row]
        BY <2>1, <3>1
      <4>2. QED
        BY <1>2, <4>1 DEF PersistFirst
    <3>2. CASE UNCHANGED rows
      BY <1>2, <3>2 DEF PersistFirst
    <3>3. QED
      BY <1>2, <3>1, <3>2 DEF PersistFirst
<1>3. ASSUME NEW r \in Requests, SignNext(r) PROVE TypeOK'
  BY <1>3 DEF SignNext
<1>4. ASSUME NEW r \in Requests, CreateRotated(r) PROVE TypeOK'
  <2>1. family[r] \in Requests
    BY <1>4 DEF CreateRotated, FamilyInv, InAFamily
  <2>2. [familyId |-> family[r], isRevoked |-> FALSE] \in Row
    BY <2>1 DEF Row
  <2>3. QED
    <3>1. CASE rows' = [rows EXCEPT ![issued[r]] = [familyId |-> family[r], isRevoked |-> FALSE]]
      <4>1. rows' \in [Tokens -> Row]
        BY <2>2, <3>1
      <4>2. QED
        BY <1>4, <4>1 DEF CreateRotated
    <3>2. CASE UNCHANGED rows
      BY <1>4, <3>2 DEF CreateRotated
    <3>3. QED
      BY <1>4, <3>1, <3>2 DEF CreateRotated
<1>5. ASSUME NEW r \in Requests, RevokeUsed(r) PROVE TypeOK'
  <2>1. used[r] \in Tokens /\ InFamily(used[r], family[r]) /\ family[r] \in Requests
    BY <1>5 DEF RevokeUsed, FamilyInv, InAFamily
  <2>2. [rows[used[r]] EXCEPT !.isRevoked = TRUE] \in Row
    <3>1. rows[used[r]] \in [familyId : Requests, isRevoked : BOOLEAN]
      BY <2>1 DEF InFamily, Exists, Row
    <3>2. QED
      BY <3>1 DEF Row
  <2>3. QED
    BY <1>5, <2>1, <2>2 DEF RevokeUsed
<1>6. ASSUME NEW r \in Requests, RevokeOnReuse(r) \/ RevokeOnLogout(r) PROVE TypeOK'
  <2>1. family[r] \in Requests
    BY <1>6 DEF RevokeOnReuse, RevokeOnLogout, FamilyInv, InAFamily
  <2>2. \A t \in Tokens : Exists(t) => [rows[t] EXCEPT !.isRevoked = TRUE] \in Row
    BY DEF Exists, Row
  <2>3. Revoked(family[r]) \in [Tokens -> Row]
    BY <2>2 DEF Revoked, InFamily
  <2>4. QED
    BY <1>6, <2>1, <2>3 DEF RevokeOnReuse, RevokeOnLogout, RevokeFamily, Close
<1>7. ASSUME NEW r \in Requests, NEW t \in Tokens, FindForRefresh(r, t) PROVE TypeOK'
  <2>1. rows[t].familyId \in Requests \cup {None} /\ (Live(t) => rows[t].familyId \in Requests)
    BY DEF Row, NoRow, Live, Exists
  <2>2. QED
    BY <1>7, <2>1 DEF FindForRefresh
<1>8. ASSUME NEW r \in Requests, NEW t \in Tokens, FindForLogout(r, t) PROVE TypeOK'
  <2>1. rows[t].familyId \in Requests \cup {None}
    BY DEF Row, NoRow
  <2>2. QED
    BY <1>8, <2>1 DEF FindForLogout
<1>9. CASE Tick
  BY <1>9 DEF Tick, Tokens, ConstantsDiffer
<1>10. CASE Crash
  <2>1. \A q \in Requests : pc[q] = "revoking" => family[q] \in Requests
    BY DEF FamilyInv, InAFamily
  <2>2. QED
    BY <1>10, <2>1 DEF Crash
<1>11. CASE UNCHANGED vars
  BY <1>11 DEF vars
<1>12. QED
  BY <1>1, <1>2, <1>3, <1>4, <1>5, <1>6, <1>7, <1>8, <1>9, <1>10, <1>11 DEF Next, RefreshStep

\* What a step may do: an answer is final, a stored token stays and keeps its
\* family; a request enters a family with a token of it, and keeps both.
LEMMA Frame ==
  ASSUME ConstantsDiffer, TypeOK, FamilyInv, [Next]_vars
  PROVE  /\ \A r \in Requests : pc[r] = "answered" => pc'[r] = "answered"
         /\ \A t \in Tokens : Exists(t) => Exists(t)' /\ rows'[t].familyId = rows[t].familyId
         /\ \A t \in Tokens : Exists(t)' => Exists(t) \/ pc'[rows'[t].familyId] = "answered"
                                                   \/ pc[rows'[t].familyId] = "answered"
         /\ \A r \in Requests : pc'[r] \in InAFamily =>
              \/ pc[r] \in InAFamily /\ used'[r] = used[r] /\ family'[r] = family[r]
              \/ /\ pc[r] = "idle" /\ used'[r] \in Tokens
                 /\ InFamily(used'[r], family'[r])
         /\ closed \subseteq closed'
         /\ \A f \in closed' \ closed : pc[f] = "answered"
<1> DEFINE Framed ==
         /\ \A r \in Requests : pc[r] = "answered" => pc'[r] = "answered"
         /\ \A t \in Tokens : Exists(t) => Exists(t)' /\ rows'[t].familyId = rows[t].familyId
         /\ \A t \in Tokens : Exists(t)' => Exists(t) \/ pc'[rows'[t].familyId] = "answered"
                                                   \/ pc[rows'[t].familyId] = "answered"
         /\ \A r \in Requests : pc'[r] \in InAFamily =>
              \/ pc[r] \in InAFamily /\ used'[r] = used[r] /\ family'[r] = family[r]
              \/ /\ pc[r] = "idle" /\ used'[r] \in Tokens
                 /\ InFamily(used'[r], family'[r])
         /\ closed \subseteq closed'
         /\ \A f \in closed' \ closed : pc[f] = "answered"
<1> SUFFICES Framed
  OBVIOUS
<1> USE DEF TypeOK, Goto, Busy, Rotating, InAFamily, requestVars, histories, Exists, InFamily
<1>1. ASSUME NEW r \in Requests, SignIn(r) PROVE Framed
  BY <1>1 DEF SignIn
<1>2. ASSUME NEW r \in Requests, PersistFirst(r) PROVE Framed
  <2>1. CASE ~Exists(issued[r]) /\ Goto(r, "answered")
             /\ rows' = [rows EXCEPT ![issued[r]] = [familyId |-> r, isRevoked |-> FALSE]]
    <3>1. r # None
      BY DEF ConstantsDiffer
    <3>2. QED
      BY <1>2, <2>1, <3>1 DEF PersistFirst, NoRow
  <2>2. CASE UNCHANGED rows
    BY <1>2, <2>2 DEF PersistFirst
  <2>3. QED
    BY <1>2, <2>1, <2>2 DEF PersistFirst
<1>3. ASSUME NEW r \in Requests, SignNext(r) PROVE Framed
  BY <1>3 DEF SignNext
<1>4. ASSUME NEW r \in Requests, CreateRotated(r) PROVE Framed
  <2>1. family[r] \in Requests /\ family[r] # None /\ pc[family[r]] = "answered"
    BY <1>4 DEF CreateRotated, FamilyInv, ConstantsDiffer
  <2>2. CASE ~Exists(issued[r]) /\ Goto(r, "revoking")
             /\ rows' = [rows EXCEPT ![issued[r]] = [familyId |-> family[r], isRevoked |-> FALSE]]
    BY <1>4, <2>1, <2>2 DEF CreateRotated, NoRow
  <2>3. CASE UNCHANGED rows
    BY <1>4, <2>3 DEF CreateRotated
  <2>4. QED
    BY <1>4, <2>2, <2>3 DEF CreateRotated
<1>5. ASSUME NEW r \in Requests, RevokeUsed(r) PROVE Framed
  <2>1. used[r] \in Tokens /\ Exists(used[r])
    BY <1>5 DEF RevokeUsed, FamilyInv
  <2>2. CASE rows' = [rows EXCEPT ![used[r]].isRevoked = TRUE]
    <3>1. rows[used[r]] \in [familyId : Requests, isRevoked : BOOLEAN]
      BY <2>1 DEF Row
    <3>2. rows'[used[r]].familyId = rows[used[r]].familyId /\ rows[used[r]].familyId # None
      BY <2>1, <2>2, <3>1 DEF ConstantsDiffer
    <3>3. \A t \in Tokens : t # used[r] => rows'[t] = rows[t]
      BY <2>1, <2>2
    <3>4. \A t \in Tokens : Exists(t) => Exists(t)' /\ rows'[t].familyId = rows[t].familyId
      BY <2>1, <3>2, <3>3 DEF NoRow
    <3>5. \A t \in Tokens : Exists(t)' => Exists(t)
      BY <2>1, <3>3
    <3>6. \A q \in Requests : pc'[q] # pc[q] => q = r
      BY <1>5 DEF RevokeUsed
    <3>7. pc'[r] = "answered" /\ UNCHANGED <<used, family, closed>>
      BY <1>5 DEF RevokeUsed
    <3>8. QED
      BY <3>4, <3>5, <3>6, <3>7
  <2>3. CASE UNCHANGED rows
    BY <1>5, <2>3 DEF RevokeUsed
  <2>4. QED
    BY <1>5, <2>2, <2>3 DEF RevokeUsed
<1>6. ASSUME NEW r \in Requests, RevokeOnReuse(r) \/ RevokeOnLogout(r) PROVE Framed
  <2>1. pc[family[r]] = "answered"
    BY <1>6 DEF RevokeOnReuse, RevokeOnLogout, FamilyInv
  <2>2. CASE rows' = Revoked(family[r])
    <3>1. \A t \in Tokens : Exists(t) => rows[t] \in [familyId : Requests, isRevoked : BOOLEAN]
      BY DEF Row
    <3>2. \A t \in Tokens : Exists(t) => /\ rows'[t].familyId = rows[t].familyId
                                       /\ rows[t].familyId # None
      BY <2>2, <3>1 DEF Revoked, ConstantsDiffer
    <3>3. \A t \in Tokens : ~Exists(t) => rows'[t] = rows[t]
      BY <2>2 DEF Revoked
    <3>4. \A t \in Tokens : Exists(t) => Exists(t)' /\ rows'[t].familyId = rows[t].familyId
      BY <3>2 DEF NoRow
    <3>5. \A t \in Tokens : Exists(t)' => Exists(t)
      BY <3>3
    <3>6. /\ \A q \in Requests : pc'[q] # pc[q] => q = r
          /\ pc[r] # "answered" /\ pc'[r] \in {"refused", "loggedOut"} /\ UNCHANGED <<used, family>>
      BY <1>6 DEF RevokeOnReuse, RevokeOnLogout, RevokeFamily
    <3>7. closed' \in {closed, closed \cup {family[r]}}
      BY <1>6 DEF RevokeOnReuse, RevokeOnLogout, RevokeFamily, Close
    <3>8. QED
      BY <2>1, <3>4, <3>5, <3>6, <3>7
  <2>3. CASE UNCHANGED <<rows, closed>>
    BY <1>6, <2>3 DEF RevokeOnReuse, RevokeOnLogout, RevokeFamily
  <2>4. QED
    BY <1>6, <2>2, <2>3 DEF RevokeOnReuse, RevokeOnLogout, RevokeFamily
<1>7. ASSUME NEW r \in Requests, NEW t \in Tokens, FindForRefresh(r, t) PROVE Framed
  BY <1>7 DEF FindForRefresh, Live
<1>8. ASSUME NEW r \in Requests, NEW t \in Tokens, FindForLogout(r, t) PROVE Framed
  BY <1>8 DEF FindForLogout
<1>9. CASE Tick
  BY <1>9 DEF Tick
<1>10. CASE Crash
  BY <1>10 DEF Crash
<1>11. CASE UNCHANGED vars
  BY <1>11 DEF vars
<1>12. QED
  BY <1>1, <1>2, <1>3, <1>4, <1>5, <1>6, <1>7, <1>8, <1>9, <1>10, <1>11 DEF Next, RefreshStep

LEMMA FamilyStep ==
  ASSUME ConstantsDiffer, TypeOK, TypeOK', FamilyInv, [Next]_vars
  PROVE  FamilyInv'
<1>1. \A t \in Tokens : Exists(t)' => rows'[t].familyId \in Requests
  BY DEF TypeOK, Row, Exists
<1>2. \A t \in Tokens : Exists(t) => rows[t].familyId \in Requests
  BY DEF TypeOK, Row, Exists
<1>3. \A t \in Tokens : Exists(t)' => pc'[rows'[t].familyId] = "answered"
  BY Frame, <1>1 DEF FamilyInv
<1>4. ASSUME NEW r \in Requests, pc'[r] \in InAFamily
      PROVE  /\ family'[r] \in Requests /\ pc'[family'[r]] = "answered"
             /\ used'[r] \in Tokens /\ InFamily(used[r], family[r])'
  <2>1. CASE pc[r] \in InAFamily /\ used'[r] = used[r] /\ family'[r] = family[r]
    BY Frame, <2>1 DEF FamilyInv, InFamily
  <2>2. CASE used'[r] \in Tokens /\ InFamily(used'[r], family'[r])
    BY Frame, <2>2, <1>2, <1>3 DEF InFamily
  <2>3. QED
    BY <1>4, <2>1, <2>2, Frame
<1>5. \A f \in closed' : pc'[f] = "answered"
  <2>1. closed' \subseteq Requests
    BY DEF TypeOK
  <2>2. QED
    BY Frame, <2>1 DEF FamilyInv
<1>6. QED
  BY <1>3, <1>4, <1>5 DEF FamilyInv, InFamily

-----------------------------------------------------------------------------
\* A login or a refresh stores the token it issued.
Stores(r, t) ==
  /\ issued[r] = t
  /\ \/ pc[r] = "persisting" /\ rows'[t].familyId = r
     \/ /\ pc[r] = "creating" /\ pc'[r] = "revoking"
        /\ rows'[t].familyId = family[r] /\ used'[r] = used[r]
Appears(t) == Live(t)' /\ ~Live(t)

\* A token becomes usable when it is stored, one at a time.
LEMMA LiveFrame ==
  ASSUME ConstantsDiffer, TypeOK, FamilyInv, [Next]_vars
  PROVE  /\ \A t \in Tokens : Appears(t) => ~Exists(t) /\ \E r \in Requests : Stores(r, t)
         /\ \A s, t \in Tokens : Appears(s) /\ Appears(t) => s = t
<1> DEFINE Framed ==
         /\ \A t \in Tokens : Appears(t) => ~Exists(t) /\ \E r \in Requests : Stores(r, t)
         /\ \A s, t \in Tokens : Appears(s) /\ Appears(t) => s = t
<1> SUFFICES Framed
  OBVIOUS
<1> USE DEF TypeOK, Goto, requestVars, histories, Exists, Live, Appears
<1>1. ASSUME UNCHANGED rows PROVE Framed
  BY <1>1
<1>2. ASSUME NEW r \in Requests, PersistFirst(r) PROVE Framed
  <2>1. CASE ~Exists(issued[r])
             /\ rows' = [rows EXCEPT ![issued[r]] = [familyId |-> r, isRevoked |-> FALSE]]
    <3>1. \A t \in Tokens : t # issued[r] => rows'[t] = rows[t]
      BY <2>1
    <3>2. issued[r] \in Tokens => rows'[issued[r]].familyId = r
      BY <2>1
    <3>3. pc[r] = "persisting"
      BY <1>2 DEF PersistFirst
    <3>4. QED
      BY <2>1, <3>1, <3>2, <3>3 DEF Stores
  <2>2. QED
    BY <1>1, <1>2, <2>1 DEF PersistFirst
<1>3. ASSUME NEW r \in Requests, CreateRotated(r) PROVE Framed
  <2>1. CASE ~Exists(issued[r]) /\ Goto(r, "revoking")
             /\ rows' = [rows EXCEPT ![issued[r]] = [familyId |-> family[r], isRevoked |-> FALSE]]
    <3>1. \A t \in Tokens : t # issued[r] => rows'[t] = rows[t]
      BY <2>1
    <3>2. issued[r] \in Tokens => rows'[issued[r]].familyId = family[r]
      BY <2>1
    <3>3. pc[r] = "creating" /\ pc'[r] = "revoking" /\ used'[r] = used[r]
      BY <1>3, <2>1 DEF CreateRotated
    <3>4. QED
      BY <2>1, <3>1, <3>2, <3>3 DEF Stores
  <2>2. QED
    BY <1>1, <1>3, <2>1 DEF CreateRotated
<1>4. ASSUME NEW r \in Requests, RevokeUsed(r) PROVE Framed
  <2>1. used[r] \in Tokens /\ rows[used[r]] \in [familyId : Requests, isRevoked : BOOLEAN]
    BY <1>4 DEF RevokeUsed, FamilyInv, InAFamily, Rotating, InFamily, Row
  <2>2. CASE rows' = [rows EXCEPT ![used[r]].isRevoked = TRUE]
    <3>1. rows'[used[r]].isRevoked /\ \A t \in Tokens : t # used[r] => rows'[t] = rows[t]
      BY <2>1, <2>2
    <3>2. QED
      BY <3>1
  <2>3. QED
    BY <1>1, <1>4, <2>2 DEF RevokeUsed
<1>5. ASSUME NEW r \in Requests, RevokeOnReuse(r) \/ RevokeOnLogout(r) PROVE Framed
  <2>1. CASE rows' = Revoked(family[r])
    <3>1. \A t \in Tokens : Exists(t) => rows[t] \in [familyId : Requests, isRevoked : BOOLEAN]
      BY DEF Row
    <3>2. \A t \in Tokens : rows'[t] = rows[t] \/ rows'[t].isRevoked
      BY <2>1, <3>1 DEF Revoked, InFamily
    <3>3. QED
      BY <3>2
  <2>2. QED
    BY <1>1, <1>5, <2>1 DEF RevokeOnReuse, RevokeOnLogout, RevokeFamily
<1>6. QED
  <2>1. CASE \E r \in Requests : SignIn(r) \/ SignNext(r)
    BY <1>1, <2>1 DEF SignIn, SignNext
  <2>2. CASE \E r \in Requests, t \in Tokens : FindForRefresh(r, t) \/ FindForLogout(r, t)
    BY <1>1, <2>2 DEF FindForRefresh, FindForLogout
  <2>3. CASE Tick \/ Crash \/ UNCHANGED vars
    BY <1>1, <2>3 DEF Tick, Crash, vars
  <2>4. QED
    BY <1>2, <1>3, <1>4, <1>5, <2>1, <2>2, <2>3 DEF Next, RefreshStep

\* A request starts to rotate with a usable token, on its own or forking the
\* family, and one at a time.
Starts(r) == pc'[r] \in Rotating /\ pc[r] \notin Rotating
StartsWith(r, t) ==
  /\ pc[r] = "idle" /\ pc'[r] = "found" /\ used'[r] = t /\ family'[r] = rows[t].familyId
  /\ Live(t)
  /\ RotatedMeanwhile(rows[t].familyId) => rows[t].familyId \in forked'

LEMMA StartFrame ==
  ASSUME TypeOK, [Next]_vars
  PROVE  /\ \A r \in Requests : Starts(r) => \E t \in Tokens : StartsWith(r, t)
         /\ \A q, r \in Requests : Starts(q) /\ Starts(r) => q = r
<1> DEFINE Framed ==
         /\ \A r \in Requests : Starts(r) => \E t \in Tokens : StartsWith(r, t)
         /\ \A q, r \in Requests : Starts(q) /\ Starts(r) => q = r
<1> SUFFICES Framed
  OBVIOUS
<1>1. ASSUME \A r \in Requests : pc'[r] = pc[r] \/ pc'[r] \notin Rotating \/ pc[r] \in Rotating
      PROVE  Framed
  BY <1>1 DEF Starts
<1> USE DEF TypeOK, Goto, Busy, Rotating, requestVars, histories
<1>2. ASSUME NEW r \in Requests, NEW t \in Tokens, FindForRefresh(r, t) PROVE Framed
  <2>1. CASE Live(t) /\ Goto(r, "found")
    <3>1. StartsWith(r, t)
      BY <1>2, <2>1 DEF FindForRefresh, StartsWith
    <3>2. \A q \in Requests : q # r => pc'[q] = pc[q]
      BY <2>1
    <3>3. QED
      BY <3>1, <3>2 DEF Starts
  <2>2. CASE Goto(r, "refused") \/ Goto(r, "reused")
    BY <1>1, <2>2
  <2>3. QED
    BY <1>2, <2>1, <2>2 DEF FindForRefresh
<1>3. QED
  <2>1. CASE \E r \in Requests : SignIn(r) \/ SignNext(r) \/ PersistFirst(r) \/ CreateRotated(r)
    BY <1>1, <2>1 DEF SignIn, SignNext, PersistFirst, CreateRotated
  <2>2. CASE \E r \in Requests : RevokeUsed(r) \/ RevokeOnReuse(r) \/ RevokeOnLogout(r)
    BY <1>1, <2>2 DEF RevokeUsed, RevokeOnReuse, RevokeOnLogout, RevokeFamily
  <2>3. CASE \E r \in Requests, t \in Tokens : FindForLogout(r, t)
    BY <1>1, <2>3 DEF FindForLogout
  <2>4. CASE Tick \/ Crash \/ UNCHANGED vars
    BY <1>1, <2>4 DEF Tick, Crash, vars
  <2>5. QED
    BY <1>2, <2>1, <2>2, <2>3, <2>4 DEF Next, RefreshStep

\* A rotating request keeps its token; what it was revoking is revoked when it
\* goes on, or the family forks.
LEMMA RotationFrame ==
  ASSUME TypeOK, FamilyInv, [Next]_vars
  PROVE  /\ forked \subseteq forked'
         /\ \A r \in Requests : pc[r] \in Rotating => used'[r] = used[r] /\ family'[r] = family[r]
         /\ \A r \in Requests : pc[r] = "revoking" => pc'[r] \notin {"found", "creating"}
         /\ \A r \in Requests : pc[r] = "revoking" /\ pc'[r] # "revoking" =>
              rows'[used[r]].isRevoked \/ family[r] \in forked'
<1> DEFINE Framed ==
         /\ forked \subseteq forked'
         /\ \A r \in Requests : pc[r] \in Rotating => used'[r] = used[r] /\ family'[r] = family[r]
         /\ \A r \in Requests : pc[r] = "revoking" => pc'[r] \notin {"found", "creating"}
         /\ \A r \in Requests : pc[r] = "revoking" /\ pc'[r] # "revoking" =>
              rows'[used[r]].isRevoked \/ family[r] \in forked'
<1> SUFFICES Framed
  OBVIOUS
<1> USE DEF TypeOK, Goto, Busy, Rotating, requestVars, histories
<1>1. ASSUME NEW r \in Requests, SignIn(r) \/ SignNext(r) PROVE Framed
  BY <1>1 DEF SignIn, SignNext
<1>2. ASSUME NEW r \in Requests, PersistFirst(r) \/ CreateRotated(r) PROVE Framed
  BY <1>2 DEF PersistFirst, CreateRotated
<1>3. ASSUME NEW r \in Requests, RevokeUsed(r) PROVE Framed
  <2>1. used[r] \in Tokens /\ rows[used[r]] \in [familyId : Requests, isRevoked : BOOLEAN]
    BY <1>3 DEF RevokeUsed, FamilyInv, InAFamily, InFamily, Exists, Row
  <2>2. rows' = [rows EXCEPT ![used[r]].isRevoked = TRUE] => rows'[used[r]].isRevoked
    BY <2>1
  <2>3. QED
    BY <1>3, <2>2 DEF RevokeUsed
<1>4. ASSUME NEW r \in Requests, RevokeOnReuse(r) \/ RevokeOnLogout(r) PROVE Framed
  BY <1>4 DEF RevokeOnReuse, RevokeOnLogout, RevokeFamily
<1>5. ASSUME NEW r \in Requests, NEW t \in Tokens, FindForRefresh(r, t) PROVE Framed
  BY <1>5 DEF FindForRefresh
<1>6. ASSUME NEW r \in Requests, NEW t \in Tokens, FindForLogout(r, t) PROVE Framed
  BY <1>6 DEF FindForLogout
<1>7. CASE Tick
  BY <1>7 DEF Tick
<1>8. CASE Crash
  BY <1>8 DEF Crash
<1>9. CASE UNCHANGED vars
  BY <1>9 DEF vars
<1>10. QED
  BY <1>1, <1>2, <1>3, <1>4, <1>5, <1>6, <1>7, <1>8, <1>9 DEF Next, RefreshStep

-----------------------------------------------------------------------------
\* A family that is revoked while no refresh is past its check has no usable
\* token then.
Dead(f) ==
  /\ \A t \in Tokens : Live(t)' => rows'[t].familyId # f
  /\ \A r \in Requests : pc'[r] \in {"found", "creating"} => family'[r] # f

LEMMA ClosedFrame ==
  ASSUME TypeOK, FamilyInv, [Next]_vars
  PROVE  \A f \in closed' \ overtaken' : f \in closed \ overtaken \/ Dead(f)
<1>1. ASSUME NEW r \in Requests, RevokeOnReuse(r) \/ RevokeOnLogout(r)
      PROVE  \A f \in closed' \ overtaken' : f \in closed \ overtaken \/ Dead(f)
  <2> DEFINE f == family[r]
  <2>1. CASE UNCHANGED <<rows, closed, overtaken>>
    BY <2>1
  <2>2. CASE rows' = Revoked(f) /\ Close(f)
    <3>1. CASE AboutToCreate(f)
      BY <2>2, <3>1 DEF Close
    <3>2. CASE ~AboutToCreate(f)
      <4>1. \A t \in Tokens : rows[t] # NoRow => rows[t] \in [familyId : Requests, isRevoked : BOOLEAN]
        BY DEF TypeOK, Row
      <4>2. \A t \in Tokens : Live(t)' => rows'[t].familyId # f
        BY <2>2, <4>1 DEF Revoked, InFamily, Exists, Live
      <4>3. \A q \in Requests : pc'[q] \in {"found", "creating"} => family'[q] # f
        BY <1>1, <3>2 DEF AboutToCreate, RevokeOnReuse, RevokeOnLogout, RevokeFamily, Goto, TypeOK
      <4>4. QED
        BY <2>2, <4>2, <4>3 DEF Dead, Close
    <3>3. QED
      BY <3>1, <3>2
  <2>3. QED
    BY <1>1, <2>1, <2>2 DEF RevokeOnReuse, RevokeOnLogout, RevokeFamily
<1>2. UNCHANGED <<closed, overtaken>> \/ \E r \in Requests : RevokeOnReuse(r) \/ RevokeOnLogout(r)
  BY DEF Next, RefreshStep, vars, histories, requestVars, SignIn, PersistFirst, SignNext,
         CreateRotated, RevokeUsed, FindForRefresh, FindForLogout, Tick, Crash
<1>3. QED
  BY <1>1, <1>2

LEMMA ClosedStep ==
  ASSUME ConstantsDiffer, TypeOK, FamilyInv, ClosedInv, [Next]_vars
  PROVE  ClosedInv'
<1> SUFFICES ASSUME NEW f \in closed', f \notin overtaken'
             PROVE  Dead(f)
  BY DEF ClosedInv, AboutToCreate, Dead
<1>1. CASE f \in closed \ overtaken
  <2>1. pc[f] = "answered" /\ \A t \in Tokens : Live(t) => rows[t].familyId # f
    BY <1>1 DEF ClosedInv, FamilyInv
  <2>2. \A r \in Requests : pc[r] \in {"found", "creating"} => family[r] # f
    BY <1>1 DEF ClosedInv, AboutToCreate
  <2>3. ASSUME NEW t \in Tokens, Live(t)' PROVE rows'[t].familyId # f
    <3>1. CASE Live(t)
      BY <2>1, <3>1, Frame DEF Live
    <3>2. CASE ~Live(t)
      <4>1. PICK r \in Requests : Stores(r, t)
        BY <2>3, <3>2, LiveFrame DEF Appears
      <4>2. QED
        BY <4>1, <2>1, <2>2 DEF Stores
    <3>3. QED
      BY <3>1, <3>2
  <2>4. ASSUME NEW r \in Requests, pc'[r] \in {"found", "creating"} PROVE family'[r] # f
    <3>1. CASE pc[r] \in Rotating
      BY <2>2, <2>4, <3>1, RotationFrame DEF Rotating
    <3>2. CASE pc[r] \notin Rotating
      <4>1. PICK t \in Tokens : StartsWith(r, t)
        BY <2>4, <3>2, StartFrame DEF Starts, Rotating
      <4>2. QED
        BY <4>1, <2>1 DEF StartsWith
    <3>3. QED
      BY <3>1, <3>2
  <2>5. QED
    BY <2>3, <2>4 DEF Dead
<1>2. QED
  BY <1>1, ClosedFrame

\* A token that a request is about to revoke belongs to the request's family.
LEMMA RevokingIsRotating ==
  ASSUME FamilyInv, NEW t \in Tokens, BeingRevoked(t)
  PROVE  RotatedMeanwhile(rows[t].familyId)
BY DEF FamilyInv, BeingRevoked, RotatedMeanwhile, InAFamily, InFamily, Rotating

LEMMA RotationStep ==
  ASSUME ConstantsDiffer, TypeOK, FamilyInv, RotationInv, [Next]_vars
  PROVE  RotationInv'
<1> SUFFICES ASSUME NEW f \in Requests, f \notin forked'
             PROVE
    /\ \A q, r \in Requests :
         pc'[q] \in Rotating /\ pc'[r] \in Rotating /\ family'[q] = f /\ family'[r] = f => q = r
    /\ \A r \in Requests, t \in Tokens :
         pc'[r] \in {"found", "creating"} /\ family'[r] = f /\ Live(t)' /\ rows'[t].familyId = f
           => used'[r] = t
    /\ \A s, t \in Tokens :
         /\ Live(s)' /\ Live(t)' /\ rows'[s].familyId = f /\ rows'[t].familyId = f
         /\ ~BeingRevoked(s)' /\ ~BeingRevoked(t)'
         => s = t
  BY DEF RotationInv
<1>1. f \notin forked
  BY RotationFrame
<1> DEFINE Rotates(r) == pc[r] \in Rotating /\ family[r] = f
<1>2. \A q, r \in Requests : Rotates(q) /\ Rotates(r) => q = r
  BY <1>1 DEF RotationInv
<1>3. \A r \in Requests : pc'[r] \in Rotating /\ family'[r] = f /\ ~Rotates(r) =>
        /\ \E t \in Tokens : StartsWith(r, t) /\ rows[t].familyId = f
        /\ \A q \in Requests : ~Rotates(q)
  <2> SUFFICES ASSUME NEW r \in Requests, pc'[r] \in Rotating, family'[r] = f, ~Rotates(r)
               PROVE  /\ \E t \in Tokens : StartsWith(r, t) /\ rows[t].familyId = f
                      /\ \A q \in Requests : ~Rotates(q)
    OBVIOUS
  <2>1. pc[r] \notin Rotating
    BY RotationFrame
  <2>2. PICK t \in Tokens : StartsWith(r, t)
    BY <2>1, StartFrame DEF Starts
  <2>3. QED
    BY <2>2 DEF StartsWith, RotatedMeanwhile
<1>4. ASSUME NEW q \in Requests, NEW r \in Requests, pc'[q] \in Rotating, pc'[r] \in Rotating,
             family'[q] = f, family'[r] = f
      PROVE  q = r
  BY <1>2, <1>3, <1>4, StartFrame DEF Starts, StartsWith, Rotating
\* A usable token of f was usable, or the one request rotating f stores it.
<1>5. ASSUME NEW t \in Tokens, Live(t)', rows'[t].familyId = f
      PROVE  \/ Live(t) /\ rows[t].familyId = f
             \/ /\ Appears(t)
                /\ \/ pc[f] # "answered"
                   \/ \E q \in Requests : /\ Rotates(q) /\ pc[q] = "creating" /\ pc'[q] = "revoking"
                                          /\ used'[q] = used[q]
  <2>1. CASE Live(t)
    BY <1>5, <2>1, Frame DEF Live
  <2>2. CASE ~Live(t)
    <3>1. PICK q \in Requests : Stores(q, t)
      BY <1>5, <2>2, LiveFrame DEF Appears
    <3>2. QED
      BY <1>5, <2>2, <3>1 DEF Stores, Appears, Rotating
  <2>3. QED
    BY <2>1, <2>2
<1>6. ASSUME NEW r \in Requests, NEW t \in Tokens, pc'[r] \in {"found", "creating"},
             family'[r] = f, Live(t)', rows'[t].familyId = f
      PROVE  used'[r] = t
  <2>1. CASE Rotates(r)
    <3>1. pc[r] \in {"found", "creating"} /\ used'[r] = used[r] /\ pc[f] = "answered"
      BY <1>6, <2>1, RotationFrame DEF Rotating, FamilyInv, InAFamily
    <3>2. Live(t) /\ rows[t].familyId = f
      BY <1>2, <1>5, <1>6, <2>1, <3>1
    <3>3. QED
      BY <1>1, <2>1, <3>1, <3>2 DEF RotationInv
  <2>2. CASE ~Rotates(r)
    <3>1. PICK s \in Tokens : StartsWith(r, s) /\ rows[s].familyId = f
      BY <1>3, <1>6, <2>2 DEF Rotating
    <3>2. \A q \in Requests : ~Rotates(q)
      BY <1>3, <1>6, <2>2 DEF Rotating
    <3>3. pc[f] = "answered"
      BY <3>1 DEF StartsWith, FamilyInv, Live
    <3>4. Live(t) /\ rows[t].familyId = f
      BY <1>5, <1>6, <3>2, <3>3
    <3>5. ~BeingRevoked(s) /\ ~BeingRevoked(t)
      BY <3>1, <3>2, <3>4, RevokingIsRotating DEF RotatedMeanwhile
    <3>6. s = t
      BY <1>1, <3>1, <3>4, <3>5 DEF RotationInv, StartsWith
    <3>7. QED
      BY <3>1, <3>6 DEF StartsWith
  <2>3. QED
    BY <2>1, <2>2
<1>7. ASSUME NEW s \in Tokens, NEW t \in Tokens, Live(s)', Live(t)', rows'[s].familyId = f,
             rows'[t].familyId = f, ~BeingRevoked(s)', ~BeingRevoked(t)'
      PROVE  s = t
  <2>1. ASSUME NEW x \in Tokens, Live(x), rows[x].familyId = f, Live(x)', ~BeingRevoked(x)'
        PROVE  ~BeingRevoked(x)
    <3> SUFFICES ASSUME NEW q \in Requests, pc[q] = "revoking", used[q] = x
                 PROVE  FALSE
      BY DEF BeingRevoked
    <3>1. family[q] = f
      BY <2>1 DEF FamilyInv, InAFamily, Rotating, InFamily
    <3>2. used'[q] = x /\ pc'[q] # "revoking"
      BY <2>1, RotationFrame DEF BeingRevoked, Rotating
    <3>3. QED
      BY <2>1, <3>1, <3>2, RotationFrame DEF Live
  \* A token that appears while another one of f is usable.
  <2>2. ASSUME NEW x \in Tokens, NEW y \in Tokens, Live(x), rows[x].familyId = f, Appears(y),
               rows'[y].familyId = f, ~BeingRevoked(x)'
        PROVE  FALSE
    <3>1. pc[f] = "answered"
      BY <2>2 DEF FamilyInv, Live
    <3>2. Live(y)' /\ ~Live(y)
      BY <2>2 DEF Appears
    <3>3. PICK q \in Requests : /\ Rotates(q) /\ pc[q] = "creating" /\ pc'[q] = "revoking"
                               /\ used'[q] = used[q]
      BY <1>5, <2>2, <3>1, <3>2
    <3>4. used[q] = x
      BY <1>1, <2>2, <3>3 DEF RotationInv
    <3>5. QED
      BY <2>2, <3>3, <3>4 DEF BeingRevoked
  <2>3. CASE Appears(s) /\ Appears(t)
    BY <2>3, LiveFrame
  <2>4. CASE ~Appears(s) /\ ~Appears(t)
    <3>1. /\ Live(s) /\ rows[s].familyId = f
          /\ Live(t) /\ rows[t].familyId = f
      BY <1>5, <1>7, <2>4
    <3>2. ~BeingRevoked(s) /\ ~BeingRevoked(t)
      BY <1>7, <2>1, <3>1
    <3>3. QED
      BY <1>1, <3>1, <3>2 DEF RotationInv
  <2>5. CASE Appears(s) /\ ~Appears(t)
    BY <1>5, <1>7, <2>2, <2>5
  <2>6. CASE ~Appears(s) /\ Appears(t)
    BY <1>5, <1>7, <2>2, <2>6
  <2>7. QED
    BY <2>3, <2>4, <2>5, <2>6
<1>8. QED
  BY <1>4, <1>6, <1>7

-----------------------------------------------------------------------------
\* Who rotated a token has answered, and keeps both tokens.
LEMMA RotatedStays ==
  ASSUME TypeOK, [Next]_vars, NEW t \in Tokens, Rotated(t)
  PROVE  Rotated(t)'
<1>1. PICK r \in Requests : pc[r] = "answered" /\ used[r] = t /\ issued[r] # t
  BY DEF Rotated
<1>2. pc'[r] = "answered" /\ used'[r] = used[r] /\ issued'[r] = issued[r]
  BY <1>1 DEF TypeOK, Next, RefreshStep, vars, histories, requestVars, SignIn, PersistFirst, SignNext,
         CreateRotated, RevokeUsed, RevokeOnReuse, RevokeOnLogout, RevokeFamily, FindForRefresh,
         FindForLogout, Tick, Crash, Goto, Busy, Rotating
<1>3. QED
  BY <1>1, <1>2 DEF Rotated

\* What becomes of a request's token: it is signed once, and stored before the
\* request goes on to revoke or to answer.
LEMMA IssuedStep ==
  ASSUME ConstantsDiffer, TypeOK, FamilyInv, TokenInv, [Next]_vars, NEW r \in Requests
  PROVE  IssuedOK(r)'
<1>1. ASSUME \/ pc'[r] = pc[r]
             \/ pc'[r] \notin {"idle", "persisting", "creating", "answered", "revoking", "unstored"}
             \/ pc[r] = "revoking" /\ pc'[r] = "answered"
             \/ pc[r] = "idle" /\ pc'[r] = "found",
             issued'[r] = issued[r], pc[r] = pc'[r] => used'[r] = used[r]
      PROVE  IssuedOK(r)'
  <2>1. issued[r] \in Tokens /\ Exists(issued[r]) => Exists(issued[r])'
    <3>1. issued[r] \in Tokens /\ Exists(issued[r]) => rows'[issued[r]] # NoRow
      BY Frame DEF Exists
    <3>2. QED
      BY <1>1, <3>1 DEF Exists
  <2>2. pc'[r] = pc[r] /\ pc[r] = "unstored" /\ used[r] \in Tokens /\ Exists(used[r])
          => Exists(used[r])' /\ used'[r] = used[r]
    <3>1. used[r] \in Tokens /\ Exists(used[r]) => rows'[used[r]] # NoRow
      BY Frame DEF Exists
    <3>2. QED
      BY <1>1, <3>1 DEF Exists
  <2>3. IssuedOK(r)
    BY DEF TokenInv
  <2>4. QED
    BY <1>1, <2>1, <2>2, <2>3 DEF IssuedOK
<1> USE DEF TypeOK, Goto, requestVars, histories
<1>2. ASSUME NEW q \in Requests, SignIn(q) PROVE IssuedOK(r)'
  <2>1. q # r => pc'[r] = pc[r] /\ issued'[r] = issued[r] /\ used'[r] = used[r]
    BY <1>2 DEF SignIn
  <2>2. q = r => pc'[r] = "persisting" /\ issued'[r] \in Tokens /\ used'[r] = None
    BY <1>2 DEF SignIn, TokenInv, IssuedOK
  <2>3. QED
    BY <1>1, <2>1, <2>2 DEF IssuedOK
<1>3. ASSUME NEW q \in Requests, SignNext(q) PROVE IssuedOK(r)'
  <2>1. q # r => pc'[r] = pc[r] /\ issued'[r] = issued[r] /\ used'[r] = used[r]
    BY <1>3 DEF SignNext
  <2>2. q = r => (pc'[r] = "creating" /\ issued'[r] \in Tokens) \/ pc'[r] = "refused"
    BY <1>3 DEF SignNext
  <2>3. QED
    BY <1>1, <2>1, <2>2 DEF IssuedOK
<1>4. ASSUME NEW q \in Requests, PersistFirst(q) \/ CreateRotated(q) PROVE IssuedOK(r)'
  <2>1. issued'[r] = issued[r] /\ used'[r] = used[r] /\ (q # r => pc'[r] = pc[r])
    BY <1>4 DEF PersistFirst, CreateRotated
  <2>2. CASE q = r
    <3>1. issued[r] \in Tokens
      BY <1>4, <2>2 DEF PersistFirst, CreateRotated, TokenInv, IssuedOK
    <3>2. pc'[r] \in {"answered", "revoking"} => rows'[issued[r]] # NoRow
      <4>1. CASE Exists(issued[r]) /\ UNCHANGED rows
        BY <4>1 DEF Exists
      <4>2. CASE rows' = [rows EXCEPT ![issued[r]] = [familyId |-> r, isRevoked |-> FALSE]]
        <5>1. r # None
          BY DEF ConstantsDiffer
        <5>2. QED
          BY <3>1, <4>2, <5>1 DEF NoRow
      <4>3. CASE rows' = [rows EXCEPT ![issued[r]] = [familyId |-> family[r], isRevoked |-> FALSE]]
                 /\ pc[r] = "creating"
        <5>1. family[r] # None
          BY <4>3 DEF ConstantsDiffer, FamilyInv, InAFamily, Rotating
        <5>2. QED
          BY <3>1, <4>3, <5>1 DEF NoRow
      <4>4. QED
        BY <1>4, <2>2, <4>1, <4>2, <4>3 DEF PersistFirst, CreateRotated
    <3>3. pc'[r] = "revoking" => issued[r] # used[r]
      <4>1. pc[r] = "creating" => used[r] \in Tokens /\ Exists(used[r])
        BY DEF FamilyInv, InAFamily, InFamily, Rotating
      <4>2. pc'[r] = "revoking" => ~Exists(issued[r]) /\ pc[r] = "creating"
        BY <1>4, <2>2 DEF PersistFirst, CreateRotated
      <4>3. QED
        BY <4>1, <4>2
    <3>4. pc'[r] = "unstored" => used[r] = None \/ (used[r] \in Tokens /\ rows'[used[r]] # NoRow)
      <4>1. CASE pc[r] = "persisting"
        BY <4>1 DEF TokenInv, IssuedOK
      <4>2. CASE pc[r] = "creating"
        <5>1. used[r] \in Tokens /\ Exists(used[r])
          BY <4>2 DEF FamilyInv, InAFamily, InFamily, Rotating
        <5>2. rows'[used[r]] # NoRow
          BY <5>1, Frame DEF Exists
        <5>3. QED
          BY <5>1, <5>2
      <4>3. QED
        BY <1>4, <2>2, <4>1, <4>2 DEF PersistFirst, CreateRotated
    <3>5. pc'[r] \in {"answered", "revoking", "unstored"}
      BY <1>4, <2>2 DEF PersistFirst, CreateRotated
    <3>6. QED
      BY <2>1, <3>1, <3>2, <3>3, <3>4, <3>5 DEF Exists, IssuedOK
  <2>3. QED
    BY <1>1, <2>1, <2>2
<1>5. ASSUME NEW q \in Requests, RevokeUsed(q) \/ RevokeOnReuse(q) \/ RevokeOnLogout(q) PROVE IssuedOK(r)'
  <2>1. /\ UNCHANGED <<issued, used>> /\ (q # r => pc'[r] = pc[r])
        /\ q = r => pc'[r] \in {"refused", "loggedOut"} \/ (pc[r] = "revoking" /\ pc'[r] = "answered")
    BY <1>5 DEF RevokeUsed, RevokeOnReuse, RevokeOnLogout, RevokeFamily
  <2>2. QED
    BY <1>1, <2>1
<1>6. ASSUME NEW q \in Requests, NEW t \in Tokens, FindForRefresh(q, t) \/ FindForLogout(q, t)
      PROVE  IssuedOK(r)'
  <2>1. /\ UNCHANGED issued /\ (q # r => pc'[r] = pc[r] /\ used'[r] = used[r])
        /\ q = r => /\ pc[r] = "idle"
                    /\ pc'[r] \in {"found", "refused", "reused", "leaving", "loggedOut"}
    BY <1>6 DEF FindForRefresh, FindForLogout
  <2>2. QED
    BY <1>1, <2>1
<1>7. CASE Tick \/ Crash \/ UNCHANGED vars
  <2>1. UNCHANGED <<issued, used>> /\ pc'[r] \in {pc[r], "lost"}
    BY <1>7 DEF Tick, Crash, vars
  <2>2. QED
    BY <1>1, <2>1
<1>8. QED
  BY <1>2, <1>3, <1>4, <1>5, <1>6, <1>7 DEF Next, RefreshStep

\* A stored token loses its use by its rotation or with its family.
LEMMA RevokedStep ==
  ASSUME ConstantsDiffer, TypeOK, FamilyInv, TokenInv, [Next]_vars, NEW t \in Tokens,
         Exists(t)', ~Live(t)'
  PROVE  \/ Exists(t) /\ ~Live(t)
         \/ Rotated(t)'
         \/ rows'[t].familyId \in closed'
<1> DEFINE Framed == \/ Exists(t) /\ ~Live(t)
                     \/ Rotated(t)'
                     \/ rows'[t].familyId \in closed'
<1>1. ASSUME rows'[t] = rows[t] PROVE Framed
  BY <1>1 DEF Exists, Live
<1>2. ASSUME rows'[t].isRevoked = FALSE PROVE Framed
  BY <1>2 DEF Live, Exists
<1>3. ASSUME NEW r \in Requests, PersistFirst(r) PROVE Framed
  <2>1. rows'[t] = rows[t] \/ rows'[t].isRevoked = FALSE
    BY <1>3 DEF PersistFirst, TypeOK
  <2>2. QED
    BY <1>1, <1>2, <2>1
<1>4. ASSUME NEW r \in Requests, CreateRotated(r) PROVE Framed
  <2>1. rows'[t] = rows[t] \/ rows'[t].isRevoked = FALSE
    BY <1>4 DEF CreateRotated, TypeOK
  <2>2. QED
    BY <1>1, <1>2, <2>1
<1>5. ASSUME NEW r \in Requests, RevokeUsed(r) PROVE Framed
  <2>1. CASE used[r] = t
    <3>1. issued[r] # t
      BY <1>5, <2>1 DEF RevokeUsed, TokenInv, IssuedOK
    <3>2. pc'[r] = "answered" /\ UNCHANGED <<used, issued>>
      BY <1>5 DEF RevokeUsed, TypeOK, Goto
    <3>3. QED
      BY <2>1, <3>1, <3>2 DEF Rotated
  <2>2. CASE used[r] # t
    <3>1. rows'[t] = rows[t]
      BY <1>5, <2>2 DEF RevokeUsed, TypeOK
    <3>2. QED
      BY <1>1, <3>1
  <2>3. QED
    BY <2>1, <2>2
<1>6. ASSUME NEW r \in Requests, RevokeOnReuse(r) \/ RevokeOnLogout(r) PROVE Framed
  <2>1. CASE rows' = Revoked(family[r]) /\ Close(family[r])
    <3>1. CASE InFamily(t, family[r])
      <4>1. rows[t] \in [familyId : Requests, isRevoked : BOOLEAN]
        BY <3>1 DEF InFamily, Exists, TypeOK, Row
      <4>2. rows'[t].familyId = family[r]
        BY <2>1, <3>1, <4>1 DEF Revoked, InFamily
      <4>3. QED
        BY <2>1, <4>2 DEF Close
    <3>2. CASE ~InFamily(t, family[r])
      BY <1>1, <2>1, <3>2 DEF Revoked
    <3>3. QED
      BY <3>1, <3>2
  <2>2. QED
    BY <1>1, <1>6, <2>1 DEF RevokeOnReuse, RevokeOnLogout, RevokeFamily
<1>7. UNCHANGED rows \/ \E r \in Requests :
        \/ PersistFirst(r) \/ CreateRotated(r) \/ RevokeUsed(r)
        \/ RevokeOnReuse(r) \/ RevokeOnLogout(r)
  BY DEF Next, RefreshStep, vars, SignIn, SignNext, FindForRefresh, FindForLogout, Tick, Crash
<1>8. QED
  BY <1>1, <1>3, <1>4, <1>5, <1>6, <1>7

LEMMA TokenStep ==
  ASSUME ConstantsDiffer, TypeOK, FamilyInv, TokenInv, [Next]_vars
  PROVE  TokenInv'
<1>1. ASSUME NEW t \in Tokens, Exists(t)', ~Live(t)'
      PROVE  Rotated(t)' \/ rows'[t].familyId \in closed'
  <2>1. CASE Exists(t) /\ ~Live(t)
    <3>1. Rotated(t) \/ rows[t].familyId \in closed
      BY <2>1 DEF TokenInv
    <3>2. QED
      BY <2>1, <3>1, RotatedStays, Frame
  <2>2. QED
    BY <1>1, <2>1, RevokedStep
<1>2. QED
  BY <1>1, IssuedStep DEF TokenInv

-----------------------------------------------------------------------------
(* The theorems *)

LEMMA RefreshStepInv == ASSUME ConstantsDiffer, IInv, [Next]_vars PROVE IInv'
<1> USE DEF IInv
<1>1. TypeOK'
  BY TypeStep
<1>2. FamilyInv'
  BY <1>1, FamilyStep
<1>3. ClosedInv' /\ RotationInv' /\ TokenInv'
  BY ClosedStep, RotationStep, TokenStep
<1>4. QED
  BY <1>1, <1>2, <1>3

\* The inductive invariant of the refresh tokens.
THEOREM RefreshInvariant == ASSUME ConstantsDiffer PROVE Spec => []IInv
<1>1. Init => IInv
  BY TokensInit
<1>2. IInv /\ [Next]_vars => IInv'
  BY RefreshStepInv
<1>3. QED
  BY <1>1, <1>2, PTL DEF Spec

\* Every variable keeps its type.
THEOREM RefreshTypeOK == ASSUME ConstantsDiffer PROVE Spec => []TypeOK
<1>1. IInv => TypeOK
  BY DEF IInv
<1>2. QED
  BY <1>1, RefreshInvariant, PTL

\* A family revoked while no refresh is past its check stays dead
\* (revokeFamily of refresh-token.repository.ts), whatever comes after.
THEOREM RefreshClosedStaysDead == ASSUME ConstantsDiffer PROVE Spec => []ClosedFamilyStaysDead
<1>1. IInv => ClosedFamilyStaysDead
  BY DEF IInv, ClosedInv, ClosedFamilyStaysDead
<1>2. QED
  BY <1>1, RefreshInvariant, PTL

\* Rotation (refresh of auth.service.ts) leaves one usable token per family,
\* unless two refreshes raced or a revoke was lost.
THEOREM RefreshOneLiveToken == ASSUME ConstantsDiffer PROVE Spec => []OneLiveToken
<1>1. IInv => OneLiveToken
  <2> SUFFICES ASSUME IInv, NEW s \in Tokens, NEW t \in Tokens, Live(s), Live(t),
                      rows[s].familyId = rows[t].familyId, rows[s].familyId \notin forked,
                      ~BeingRevoked(s), ~BeingRevoked(t)
               PROVE  s = t
    BY DEF OneLiveToken
  <2>1. rows[s].familyId \in Requests
    BY DEF IInv, TypeOK, Row, Live, Exists
  <2>2. QED
    BY <2>1 DEF IInv, RotationInv
<1>2. QED
  BY <1>1, RefreshInvariant, PTL

\* Whoever was answered can go on until the token is rotated or its family
\* revoked: with the answered token, or with the presented one if the insert of
\* a refresh failed.  A login whose insert failed is not among them.
THEOREM RefreshAnsweredIsLive == ASSUME ConstantsDiffer PROVE Spec => []AnsweredIsLive
<1>1. IInv => AnsweredIsLive
  BY DEF IInv, TokenInv, IssuedOK, AnsweredIsLive, Kept
<1>2. QED
  BY <1>1, RefreshInvariant, PTL

=============================================================================
