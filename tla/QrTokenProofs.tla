----------------------------- MODULE QrTokenProofs -----------------------------
(***************************************************************************)
(* Proofs about QrToken: one session per token, only at the address it was *)
(* issued to and only after its log, for any tokens, guests, addresses and *)
(* faults.                                                                 *)
(***************************************************************************)
EXTENDS QrToken, TLAPS

(***************************************************************************)
(* The inductive invariant.  A request that left "idle" has an issued      *)
(* token, so that neither its address nor its key come again; what was     *)
(* checked stays so; and of a token that was never exposed the fallback    *)
(* finds no key, and one guest at most took it.                            *)
(***************************************************************************)
TokenInv == \A g \in Guests : pc[g] # "idle" =>
  token[g] \in Tokens /\ issuePc[token[g]] = "issued"

Past(g) == pc[g] \in {"logged", "established"}
CheckedInv == \A g \in Guests : Past(g) =>
  /\ BindToIp => ip[g] = createdIp[token[g]]
  /\ <<token[g], g, "written">> \in log \/ <<token[g], g, "failed">> \in log

SessionInv == \A g \in sessions : pc[g] = "established"

Took(g) == pc[g] \in {"holding", "logged", "established"}
KeyInv == \A g \in Guests : token[g] \notin exposed =>
  /\ pc[g] # "fallbackDel"
  /\ pc[g] = "fallbackGet" \/ Took(g) => token[g] \notin stored

UniqueInv == \A g, h \in Guests :
  Took(g) /\ Took(h) /\ token[g] = token[h] /\ token[g] \notin exposed => g = h

IInv == TypeOK /\ TokenInv /\ CheckedInv /\ SessionInv /\ KeyInv /\ UniqueInv

-----------------------------------------------------------------------------
LEMMA QrInit == Init => IInv
BY DEF Init, IInv, TypeOK, TokenInv, CheckedInv, Past, SessionInv, KeyInv, Took, UniqueInv,
       InFlight, Answers

LEMMA TypeStep == TypeOK /\ TokenInv /\ [Next]_vars => TypeOK'
<1> SUFFICES ASSUME TypeOK, TokenInv, [Next]_vars PROVE TypeOK'
  OBVIOUS
<1> USE DEF TypeOK, TokenInv, issueVars, requestVars, InFlight, Answers, Goto
<1>1. ASSUME NEW t \in Tokens, NEW a \in Addresses, IssueToken(t, a) PROVE TypeOK'
  BY <1>1 DEF IssueToken
<1>2. ASSUME NEW t \in Tokens, StoreToken(t) \/ ExpireToken(t) PROVE TypeOK'
  BY <1>2 DEF StoreToken, ExpireToken
<1>3. ASSUME NEW g \in Guests, NEW t \in Tokens, NEW a \in Addresses, ConsumeToken(g, t, a)
      PROVE  TypeOK'
  BY <1>3 DEF ConsumeToken
<1>4. ASSUME NEW g \in Guests, EvalGetAndDelete(g) \/ EvalFails(g) PROVE TypeOK'
  BY <1>4 DEF EvalGetAndDelete, EvalFails
<1>5. ASSUME NEW g \in Guests, FallbackGet(g) \/ FallbackDel(g) PROVE TypeOK'
  BY <1>5 DEF FallbackGet, FallbackDel
<1>6. ASSUME NEW g \in Guests, CheckAndLog(g) PROVE TypeOK'
  <2>1. token[g] \in Tokens
    BY <1>6 DEF CheckAndLog
  <2>2. log' \subseteq Tokens \X Guests \X {"written", "failed"}
    BY <1>6, <2>1 DEF CheckAndLog, WriteLog
  <2>3. QED
    BY <1>6, <2>2 DEF CheckAndLog
<1>7. ASSUME NEW g \in Guests, EstablishSession(g) PROVE TypeOK'
  BY <1>7 DEF EstablishSession
<1>8. CASE Crash
  BY <1>8 DEF Crash
<1>9. CASE UNCHANGED vars
  BY <1>9 DEF vars
<1>10. QED
  BY <1>1, <1>2, <1>3, <1>4, <1>5, <1>6, <1>7, <1>8, <1>9 DEF Next, GuestStep

\* What a step may do: nobody unlogs, unexposes or un-issues anything, and the
\* key of an issued token does not come back.
LEMMA Frame ==
  ASSUME TypeOK, TokenInv, [Next]_vars
  PROVE  /\ log \subseteq log' /\ exposed \subseteq exposed'
         /\ \A t \in Tokens : issuePc[t] = "issued" =>
              issuePc'[t] = "issued" /\ createdIp'[t] = createdIp[t] /\ (t \in stored' => t \in stored)
         /\ \A g \in Guests : pc[g] # "idle" =>
              pc'[g] # "idle" /\ token'[g] = token[g] /\ ip'[g] = ip[g]
<1> DEFINE Framed ==
      /\ log \subseteq log' /\ exposed \subseteq exposed'
      /\ \A t \in Tokens : issuePc[t] = "issued" =>
           issuePc'[t] = "issued" /\ createdIp'[t] = createdIp[t] /\ (t \in stored' => t \in stored)
      /\ \A g \in Guests : pc[g] # "idle" =>
           pc'[g] # "idle" /\ token'[g] = token[g] /\ ip'[g] = ip[g]
<1> USE DEF TypeOK, issueVars, requestVars, InFlight, Goto
<1>1. ASSUME NEW t \in Tokens, NEW a \in Addresses, IssueToken(t, a) PROVE Framed
  BY <1>1 DEF IssueToken
<1>2. ASSUME NEW t \in Tokens, StoreToken(t) \/ ExpireToken(t) PROVE Framed
  BY <1>2 DEF StoreToken, ExpireToken
<1>3. ASSUME NEW g \in Guests, NEW t \in Tokens, NEW a \in Addresses, ConsumeToken(g, t, a)
      PROVE  Framed
  BY <1>3 DEF ConsumeToken
<1>4. ASSUME NEW g \in Guests, EvalGetAndDelete(g) \/ EvalFails(g) PROVE Framed
  BY <1>4 DEF EvalGetAndDelete, EvalFails
<1>5. ASSUME NEW g \in Guests, FallbackGet(g) \/ FallbackDel(g) PROVE Framed
  BY <1>5 DEF FallbackGet, FallbackDel
<1>6. ASSUME NEW g \in Guests, CheckAndLog(g) PROVE Framed
  BY <1>6 DEF CheckAndLog, WriteLog
<1>7. ASSUME NEW g \in Guests, EstablishSession(g) PROVE Framed
  BY <1>7 DEF EstablishSession
<1>8. CASE Crash
  BY <1>8 DEF Crash
<1>9. CASE UNCHANGED vars
  BY <1>9 DEF vars
<1>10. QED
  BY <1>1, <1>2, <1>3, <1>4, <1>5, <1>6, <1>7, <1>8, <1>9 DEF Next, GuestStep

LEMMA TokenStep == TypeOK /\ TokenInv /\ [Next]_vars => TokenInv'
<1> SUFFICES ASSUME TypeOK, TokenInv, [Next]_vars, NEW g \in Guests, pc'[g] # "idle"
             PROVE  token'[g] \in Tokens /\ issuePc'[token'[g]] = "issued"
  BY DEF TokenInv
<1>1. CASE pc[g] # "idle"
  BY <1>1, Frame DEF TokenInv
<1>2. CASE pc[g] = "idle"
  <2>1. PICK t \in Tokens, a \in Addresses : ConsumeToken(g, t, a)
    BY <1>2 DEF Next, GuestStep, IssueToken, StoreToken, ExpireToken, ConsumeToken,
                EvalGetAndDelete, EvalFails, FallbackGet, FallbackDel, CheckAndLog,
                EstablishSession, Crash, vars, InFlight, Goto, TypeOK
  <2>2. QED
    BY <2>1 DEF ConsumeToken, TypeOK, issueVars
<1>3. QED
  BY <1>1, <1>2

\* How a request comes to where the invariants say something of it.
LEMMA Moves ==
  ASSUME TypeOK, TokenInv, [Next]_vars, NEW g \in Guests
  PROVE  /\ pc'[g] = "fallbackGet" => pc[g] = "fallbackGet" \/ EvalFails(g)
         /\ pc'[g] = "fallbackDel" => pc[g] = "fallbackDel" \/ FallbackGet(g)
         /\ pc'[g] = "holding" => pc[g] = "holding" \/ EvalGetAndDelete(g) \/ FallbackDel(g)
         /\ pc'[g] = "logged" => pc[g] = "logged" \/ CheckAndLog(g)
         /\ pc'[g] = "established" => pc[g] \in {"logged", "established"}
         /\ pc[g] = "established" => pc'[g] = "established"
         /\ sessions' \subseteq sessions \cup {h \in Guests : pc'[h] = "established"}
<1> USE DEF TypeOK, issueVars, requestVars, InFlight, Goto
<1> DEFINE Moved ==
         /\ pc'[g] = "fallbackGet" => pc[g] = "fallbackGet" \/ EvalFails(g)
         /\ pc'[g] = "fallbackDel" => pc[g] = "fallbackDel" \/ FallbackGet(g)
         /\ pc'[g] = "holding" => pc[g] = "holding" \/ EvalGetAndDelete(g) \/ FallbackDel(g)
         /\ pc'[g] = "logged" => pc[g] = "logged" \/ CheckAndLog(g)
         /\ pc'[g] = "established" => pc[g] \in {"logged", "established"}
         /\ pc[g] = "established" => pc'[g] = "established"
         /\ sessions' \subseteq sessions \cup {h \in Guests : pc'[h] = "established"}
<1>1. ASSUME NEW t \in Tokens, NEW a \in Addresses, IssueToken(t, a) PROVE Moved
  BY <1>1 DEF IssueToken
<1>2. ASSUME NEW t \in Tokens, StoreToken(t) \/ ExpireToken(t) PROVE Moved
  BY <1>2 DEF StoreToken, ExpireToken
<1>3. ASSUME NEW h \in Guests, NEW t \in Tokens, NEW a \in Addresses, ConsumeToken(h, t, a)
      PROVE  Moved
  BY <1>3 DEF ConsumeToken
<1>4. ASSUME NEW h \in Guests, EvalGetAndDelete(h) PROVE Moved
  BY <1>4 DEF EvalGetAndDelete
<1>5. ASSUME NEW h \in Guests, EvalFails(h) PROVE Moved
  BY <1>5 DEF EvalFails
<1>6. ASSUME NEW h \in Guests, FallbackGet(h) PROVE Moved
  BY <1>6 DEF FallbackGet
<1>7. ASSUME NEW h \in Guests, FallbackDel(h) PROVE Moved
  BY <1>7 DEF FallbackDel
<1>8. ASSUME NEW h \in Guests, CheckAndLog(h) PROVE Moved
  BY <1>8 DEF CheckAndLog
<1>9. ASSUME NEW h \in Guests, EstablishSession(h) PROVE Moved
  BY <1>9 DEF EstablishSession
<1>10. CASE Crash
  BY <1>10 DEF Crash
<1>11. CASE UNCHANGED vars
  BY <1>11 DEF vars
<1>12. QED
  BY <1>1, <1>2, <1>3, <1>4, <1>5, <1>6, <1>7, <1>8, <1>9, <1>10, <1>11 DEF Next, GuestStep

LEMMA CheckedStep == IInv /\ [Next]_vars => CheckedInv'
<1> SUFFICES ASSUME IInv, [Next]_vars, NEW g \in Guests, pc'[g] \in {"logged", "established"}
             PROVE  /\ BindToIp => ip'[g] = createdIp'[token'[g]]
                    /\ \/ <<token'[g], g, "written">> \in log'
                       \/ <<token'[g], g, "failed">> \in log'
  BY DEF CheckedInv, Past
<1> USE DEF IInv
<1>1. Past(g) \/ CheckAndLog(g)
  BY Moves DEF Past
<1>2. pc[g] # "idle"
  BY <1>1 DEF Past, CheckAndLog
<1>3. /\ token'[g] = token[g] /\ ip'[g] = ip[g] /\ token[g] \in Tokens
      /\ createdIp'[token[g]] = createdIp[token[g]] /\ log \subseteq log'
  BY <1>2, Frame DEF TokenInv
<1>4. CASE Past(g)
  BY <1>3, <1>4 DEF CheckedInv
<1>5. CASE CheckAndLog(g)
  <2>1. ~IpMismatch(g) /\ WriteLog(g)
    BY <1>5 DEF CheckAndLog, Goto, TypeOK
  <2>2. QED
    BY <1>3, <2>1 DEF IpMismatch, WriteLog
<1>6. QED
  BY <1>1, <1>4, <1>5

LEMMA SessionStep == IInv /\ [Next]_vars => SessionInv'
<1> SUFFICES ASSUME IInv, [Next]_vars, NEW g \in sessions' PROVE pc'[g] = "established"
  BY DEF SessionInv
<1>1. sessions' \subseteq sessions \cup {h \in Guests : pc'[h] = "established"}
  <2>1. ASSUME NEW h \in Guests
        PROVE  sessions' \subseteq sessions \cup {k \in Guests : pc'[k] = "established"}
    BY Moves DEF IInv
  <2>2. CASE Guests = {}
    BY <2>2 DEF IInv, TypeOK, Next, GuestStep, IssueToken, StoreToken, ExpireToken, Crash, vars
  <2>3. QED
    BY <2>1, <2>2
<1>2. CASE g \in sessions
  <2>1. g \in Guests /\ pc[g] = "established"
    BY <1>2 DEF IInv, TypeOK, SessionInv
  <2>2. QED
    BY <2>1, Moves DEF IInv
<1>3. QED
  BY <1>1, <1>2

LEMMA KeyStep == IInv /\ [Next]_vars => KeyInv'
<1> SUFFICES ASSUME IInv, [Next]_vars, NEW g \in Guests, token'[g] \notin exposed'
             PROVE  /\ pc'[g] # "fallbackDel"
                    /\ pc'[g] = "fallbackGet" \/ Took(g)' => token'[g] \notin stored'
  BY DEF KeyInv
<1> USE DEF IInv
<1>1. CASE pc[g] = "idle"
  <2>1. pc'[g] # "fallbackDel" /\ pc'[g] # "fallbackGet" /\ ~Took(g)'
    BY <1>1, Moves DEF Took, EvalFails, FallbackGet, EvalGetAndDelete, FallbackDel, CheckAndLog
  <2>2. QED
    BY <2>1
<1>2. CASE pc[g] # "idle"
  <2>1. /\ token'[g] = token[g] /\ token[g] \in Tokens /\ token[g] \notin exposed
        /\ token[g] \in stored' => token[g] \in stored
    BY <1>2, Frame DEF TokenInv
  <2>2. /\ pc[g] # "fallbackDel"
        /\ pc[g] = "fallbackGet" \/ Took(g) => token[g] \notin stored
    BY <2>1 DEF KeyInv
  <2>3. CASE FallbackGet(g)
    BY <2>1, <2>2, <2>3 DEF FallbackGet, Goto, TypeOK, Took
  <2>4. CASE EvalFails(g)
    BY <2>1, <2>4 DEF EvalFails, Goto, TypeOK, Took
  <2>5. CASE EvalGetAndDelete(g)
    BY <2>1, <2>5 DEF EvalGetAndDelete, Goto, TypeOK, Took
  <2>6. ~FallbackDel(g)
    BY <2>2 DEF FallbackDel
  <2>7. CASE CheckAndLog(g)
    BY <2>1, <2>2, <2>7 DEF CheckAndLog, Took, Goto, TypeOK
  <2>8. CASE ~FallbackGet(g) /\ ~EvalFails(g) /\ ~EvalGetAndDelete(g) /\ ~CheckAndLog(g)
    <3>1. /\ pc'[g] # "fallbackDel" /\ (pc'[g] = "fallbackGet" => pc[g] = "fallbackGet")
          /\ Took(g)' => Took(g)
      BY <2>2, <2>6, <2>8, Moves DEF Took
    <3>2. QED
      BY <3>1, <2>1, <2>2
  <2>9. QED
    BY <2>3, <2>4, <2>5, <2>7, <2>8
<1>3. QED
  BY <1>1, <1>2

LEMMA UniqueStep == IInv /\ [Next]_vars => UniqueInv'
<1> USE DEF IInv
\* Who takes an unexposed token finds its key, so nobody took it before.
<1>1. ASSUME IInv, [Next]_vars, NEW g \in Guests, Took(g)', token'[g] \notin exposed'
      PROVE  /\ token'[g] = token[g] /\ token[g] \notin exposed
             /\ Took(g) \/ (EvalGetAndDelete(g) /\ token[g] \in stored)
  <2>1. pc[g] # "idle"
    BY <1>1, Moves DEF Took, EvalGetAndDelete, FallbackDel, CheckAndLog
  <2>2. token'[g] = token[g] /\ token[g] \in Tokens /\ token[g] \notin exposed
    BY <1>1, <2>1, Frame DEF TokenInv
  <2>3. ~FallbackDel(g)
    BY <1>1, <2>2 DEF FallbackDel, KeyInv
  <2>4. Took(g) \/ EvalGetAndDelete(g)
    BY <1>1, <2>3, Moves DEF Took, CheckAndLog
  <2>5. EvalGetAndDelete(g) => token[g] \in stored
    BY <1>1 DEF EvalGetAndDelete, Goto, Took, TypeOK
  <2>6. QED
    BY <2>2, <2>4, <2>5
<1>2. ASSUME NEW g \in Guests, NEW h \in Guests, g # h, EvalGetAndDelete(g), EvalGetAndDelete(h), TypeOK
      PROVE  FALSE
  <2>1. pc[g] = "eval" /\ pc[h] = "eval" /\ pc'[g] # "eval"
    BY <1>2 DEF EvalGetAndDelete, Goto, TypeOK
  <2>2. pc'[g] = pc[g]
    BY <1>2 DEF EvalGetAndDelete, Goto, TypeOK
  <2>3. QED
    BY <2>1, <2>2
<1>3. ASSUME IInv, [Next]_vars, NEW g \in Guests, NEW h \in Guests, g # h,
             Took(g)', Took(h)', token'[g] = token'[h], token'[g] \notin exposed'
      PROVE  FALSE
  <2>1. /\ token[g] = token[h] /\ token[g] \notin exposed
        /\ Took(g) \/ (EvalGetAndDelete(g) /\ token[g] \in stored)
        /\ Took(h) \/ (EvalGetAndDelete(h) /\ token[g] \in stored)
    BY <1>1, <1>3
  <2>2. Took(g) \/ Took(h) => token[g] \notin stored
    BY <1>3, <2>1 DEF KeyInv
  <2>3. Took(g) /\ Took(h)
    BY <1>2, <1>3, <2>1, <2>2
  <2>4. QED
    BY <1>3, <2>1, <2>3 DEF UniqueInv
<1>4. QED
  BY <1>3 DEF UniqueInv

LEMMA QrStep == IInv /\ [Next]_vars => IInv'
BY TypeStep, TokenStep, CheckedStep, SessionStep, KeyStep, UniqueStep DEF IInv

\* The strengthened invariant of the check-in holds of every reachable state.
THEOREM QrInvariant == Spec => []IInv
BY QrInit, QrStep, PTL DEF Spec

\* Every variable of the check-in keeps its type.
THEOREM QrTypeOK == Spec => []TypeOK
<1>1. IInv => TypeOK
  BY DEF IInv
<1>2. QED
  BY QrInvariant, <1>1, PTL

\* However many guests consume a token at once, one of them at most gets a
\* session, unless the script failed to run while the token had its key.
THEOREM QrSingleUseByScript == Spec => []SingleUseByScript
<1>1. IInv => SingleUseByScript
  BY DEF IInv, UniqueInv, Took, SingleUseByScript, BothEstablished
<1>2. QED
  BY QrInvariant, <1>1, PTL

\* With QR_BIND_TO_IP a session only goes to the address its token was issued to.
THEOREM QrSessionOnIssuingAddress == Spec => []SessionOnIssuingAddress
<1>1. IInv => SessionOnIssuingAddress
  BY DEF IInv, TypeOK, SessionInv, CheckedInv, Past, SessionOnIssuingAddress
<1>2. QED
  BY QrInvariant, <1>1, PTL

\* Every session was logged before, or logging it failed.
THEOREM QrSessionWasLogged == Spec => []SessionWasLogged
<1>1. IInv => SessionWasLogged
  BY DEF IInv, TypeOK, SessionInv, CheckedInv, Past, SessionWasLogged
<1>2. QED
  BY QrInvariant, <1>1, PTL

-----------------------------------------------------------------------------
(***************************************************************************)
(* The check-in implements a one-shot token.  Storing a token issues it,   *)
(* establishing a session redeems it, and every other step leaves the      *)
(* tokens alone or wastes some.                                            *)
(***************************************************************************)
IssuedInv == \A t \in Tokens : t \in stored \cup exposed => issuePc[t] = "issued"

RInv == IInv /\ IssuedInv

Issued == {t \in Tokens : issuePc[t] = "issued"}
Got(g, t) == pc[g] = "established" /\ token[g] = t

-----------------------------------------------------------------------------
LEMMA IssuedInit == Init => IssuedInv
BY DEF Init, IssuedInv

LEMMA IssuedStep == RInv /\ [Next]_vars => IssuedInv'
<1> SUFFICES ASSUME RInv, [Next]_vars PROVE IssuedInv'
  OBVIOUS
<1> USE DEF RInv, IInv, TypeOK, TokenInv, IssuedInv, issueVars, requestVars, Goto
<1>1. ASSUME NEW t \in Tokens, NEW a \in Addresses, IssueToken(t, a) PROVE IssuedInv'
  BY <1>1 DEF IssueToken
<1>2. ASSUME NEW t \in Tokens, StoreToken(t) \/ ExpireToken(t) PROVE IssuedInv'
  BY <1>2 DEF StoreToken, ExpireToken
<1>3. ASSUME NEW g \in Guests, NEW t \in Tokens, NEW a \in Addresses, ConsumeToken(g, t, a)
      PROVE  IssuedInv'
  BY <1>3 DEF ConsumeToken
<1>4. ASSUME NEW g \in Guests, GuestStep(g) PROVE IssuedInv'
  BY <1>4 DEF GuestStep, EvalGetAndDelete, EvalFails, FallbackGet, FallbackDel, CheckAndLog,
              EstablishSession
<1>5. CASE Crash
  BY <1>5 DEF Crash
<1>6. CASE UNCHANGED vars
  BY <1>6 DEF vars
<1>7. QED
  BY <1>1, <1>2, <1>3, <1>4, <1>5, <1>6 DEF Next

\* The guest that got a session for an unexposed token is its holder.
LEMMA HolderIs ==
  ASSUME RInv, NEW t \in Tokens \ exposed, NEW g \in Guests, Got(g, t)
  PROVE  HolderOf(t) = g
<1>1. \A h \in Guests : Got(h, t) => h = g
  BY DEF RInv, IInv, UniqueInv, Took, Got
<1>2. QED
  BY <1>1 DEF HolderOf, Got

\* A token keeps its holder as long as it is exposed or not, and got by the
\* same guests.
LEMMA HolderSame ==
  ASSUME RInv, RInv', NEW t \in Tokens,
         \A g \in Guests : (t \notin exposed /\ Got(g, t)) <=> (t \notin exposed' /\ Got(g, t)')
  PROVE  HolderOf(t)' = HolderOf(t)
<1>1. CASE \E g \in Guests : t \notin exposed /\ Got(g, t)
  <2>1. PICK g \in Guests : t \notin exposed /\ Got(g, t)
    BY <1>1
  <2>2. HolderOf(t) = g
    BY <2>1, HolderIs
  <2>3. t \notin exposed' /\ Got(g, t)'
    BY <2>1
  <2>4. \A h \in Guests : pc'[h] = "established" /\ token'[h] = t => h = g
    BY <2>3 DEF RInv, IInv, UniqueInv, Took, Got
  <2>5. HolderOf(t)' = g
    BY <2>3, <2>4 DEF HolderOf, Got
  <2>6. QED
    BY <2>2, <2>5
<1>2. CASE ~ \E g \in Guests : t \notin exposed /\ Got(g, t)
  <2>1. HolderOf(t) = None
    BY <1>2 DEF HolderOf, Got
  <2>2. HolderOf(t)' = None
    BY <1>2 DEF HolderOf, Got
  <2>3. QED
    BY <2>1, <2>2
<1>3. QED
  BY <1>1, <1>2

LEMMA LiveIssued == RInv => LiveTokens \subseteq Issued
BY DEF RInv, IInv, IssuedInv, TokenInv, LiveTokens, Held, Issued

\* Without a new issue no token becomes live.
LEMMA LiveShrinks ==
  ASSUME RInv, [Next]_vars, Issued' = Issued
  PROVE  LiveTokens' \subseteq LiveTokens
<1> USE DEF RInv, IInv
<1> SUFFICES ASSUME NEW t \in Tokens, t \notin exposed', t \in stored' \/ Held(t)'
             PROVE  t \in LiveTokens
  BY DEF LiveTokens
<1>1. t \notin exposed
  BY Frame
<1>2. CASE t \in stored'
  <2>1. issuePc'[t] = "issued"
    BY <1>2, IssuedStep DEF IssuedInv
  <2>2. issuePc[t] = "issued"
    BY <2>1 DEF Issued
  <2>3. QED
    BY <1>1, <1>2, <2>2, Frame DEF LiveTokens
<1>3. CASE Held(t)'
  <2>1. PICK g \in Guests : pc'[g] \in {"fallbackDel", "holding", "logged"} /\ token'[g] = t
    BY <1>3 DEF Held
  <2>2. \/ pc[g] \in {"fallbackDel", "holding", "logged"}
        \/ EvalGetAndDelete(g) \/ FallbackGet(g)
    BY <2>1, Moves DEF FallbackDel, CheckAndLog
  <2>3. pc[g] # "idle"
    BY <2>2 DEF EvalGetAndDelete, FallbackGet
  <2>4. token[g] = t
    BY <2>1, <2>3, Frame
  <2>5. CASE pc[g] \in {"fallbackDel", "holding", "logged"}
    BY <1>1, <2>4, <2>5 DEF LiveTokens, Held
  <2>6. CASE EvalGetAndDelete(g) \/ FallbackGet(g)
    <3>1. token[g] \in stored
      BY <2>1, <2>6 DEF EvalGetAndDelete, FallbackGet, Goto, TypeOK
    <3>2. QED
      BY <1>1, <2>4, <3>1 DEF LiveTokens
  <2>7. QED
    BY <2>2, <2>5, <2>6
<1>4. QED
  BY <1>2, <1>3

\* Tokens stop being live and nobody gets them: they are wasted, if any.
LEMMA Wasted ==
  ASSUME RInv, [Next]_vars, Issued' = Issued, \A t \in Tokens : HolderOf(t)' = HolderOf(t)
  PROVE  [Promise!Next]_(Promise!tokenVars)
<1> DEFINE T == LiveTokens \ LiveTokens'
<1>1. LiveTokens' \subseteq LiveTokens /\ LiveTokens \subseteq Issued
  BY LiveShrinks, LiveIssued
<1>2. SpentTokens = Issued \ LiveTokens /\ SpentTokens' = Issued' \ LiveTokens'
  BY DEF SpentTokens, Issued
<1>3. SpentTokens' = SpentTokens \cup T /\ LiveTokens' = LiveTokens \ T
  BY <1>1, <1>2
<1>4. UNCHANGED [t \in Tokens |-> HolderOf(t)]
  OBVIOUS
<1>5. CASE T = {}
  BY <1>3, <1>4, <1>5 DEF Promise!tokenVars
<1>6. CASE T # {}
  <2>1. T \in SUBSET Tokens /\ T \subseteq LiveTokens
    BY DEF LiveTokens
  <2>2. Promise!Waste(T)
    BY <1>3, <1>4, <1>6, <2>1 DEF Promise!Waste
  <2>3. QED
    BY <2>1, <2>2 DEF Promise!Next
<1>7. QED
  BY <1>5, <1>6

LEMMA StoreRefines ==
  ASSUME RInv, RInv', [Next]_vars, NEW t \in Tokens, StoreToken(t)
  PROVE  [Promise!Next]_(Promise!tokenVars)
<1> USE DEF RInv, IInv, TypeOK, requestVars
<1>1. /\ issuePc[t] = "storing" /\ UNCHANGED <<pc, token, exposed>>
      /\ Issued' = Issued \cup {t} /\ t \notin Issued
      /\ stored' = stored \/ stored' = stored \cup {t}
  BY DEF StoreToken, Issued
<1>2. t \notin exposed /\ t \notin stored
  BY <1>1 DEF IssuedInv
<1>3. t \notin LiveTokens \cup SpentTokens
  BY <1>1, LiveIssued DEF SpentTokens, Issued
<1>4. \A u \in Tokens : HolderOf(u)' = HolderOf(u)
  BY <1>1 DEF HolderOf
<1>5. UNCHANGED [u \in Tokens |-> HolderOf(u)]
  BY <1>4
<1>6. \A u \in Tokens : Held(u)' <=> Held(u)
  BY <1>1 DEF Held
<1>7. SpentTokens = Issued \ LiveTokens /\ SpentTokens' = Issued' \ LiveTokens'
  BY DEF SpentTokens, Issued
<1>8. CASE stored' = stored \cup {t}
  <2>1. LiveTokens' = LiveTokens \cup {t}
    BY <1>1, <1>2, <1>6, <1>8 DEF LiveTokens
  <2>2. SpentTokens' = SpentTokens
    BY <1>1, <1>7, <2>1
  <2>3. Promise!Issue(t)
    BY <1>3, <1>5, <2>1, <2>2 DEF Promise!Issue
  <2>4. QED
    BY <2>3 DEF Promise!Next
<1>9. CASE stored' = stored
  <2>1. LiveTokens' = LiveTokens
    BY <1>1, <1>6, <1>9 DEF LiveTokens
  <2>2. SpentTokens' = SpentTokens \cup {t}
    BY <1>1, <1>3, <1>7, <2>1
  <2>3. Promise!IssueDud(t)
    BY <1>3, <1>5, <2>1, <2>2 DEF Promise!IssueDud
  <2>4. QED
    BY <2>3 DEF Promise!Next
<1>10. QED
  BY <1>1, <1>8, <1>9

LEMMA EstablishRefines ==
  ASSUME RInv, RInv', [Next]_vars, NEW g \in Guests, EstablishSession(g), token[g] \notin exposed
  PROVE  [Promise!Next]_(Promise!tokenVars)
<1> DEFINE t == token[g]
<1> USE DEF RInv, IInv, requestVars, issueVars
<1>1. /\ pc[g] = "logged" /\ pc' = [pc EXCEPT ![g] = "established"]
      /\ UNCHANGED <<issuePc, stored, token, exposed>>
  BY DEF EstablishSession, Goto
<1>2. t \in Tokens /\ t \notin stored /\ issuePc[t] = "issued"
  BY <1>1 DEF TokenInv, KeyInv, Took
<1>3. \A h \in Guests : token[h] = t /\ pc[h] \in {"fallbackDel", "holding", "logged"} => h = g
  BY <1>1 DEF KeyInv, UniqueInv, Took
<1>4. \A h \in Guests : pc'[h] = IF h = g THEN "established" ELSE pc[h]
  BY <1>1 DEF TypeOK
<1>5. t \in LiveTokens
  BY <1>1, <1>2 DEF LiveTokens, Held
<1>6. ~Held(t)' /\ \A u \in Tokens \ {t} : Held(u)' <=> Held(u)
  BY <1>1, <1>3, <1>4 DEF Held
<1>7. LiveTokens' = LiveTokens \ {t}
  BY <1>1, <1>2, <1>6 DEF LiveTokens
<1>8. SpentTokens' = SpentTokens \cup {t}
  BY <1>1, <1>2, <1>7 DEF SpentTokens
<1>10. \A u \in Tokens \ {t} : HolderOf(u)' = HolderOf(u)
  <2> SUFFICES ASSUME NEW u \in Tokens \ {t} PROVE HolderOf(u)' = HolderOf(u)
    OBVIOUS
  <2>1. \A h \in Guests : (u \notin exposed /\ Got(h, u)) <=> (u \notin exposed' /\ Got(h, u)')
    BY <1>1, <1>4 DEF Got
  <2>2. QED
    BY <2>1, HolderSame
<1>11. [u \in Tokens |-> HolderOf(u)]' = [[u \in Tokens |-> HolderOf(u)] EXCEPT ![t] = g]
  <2>1. \A u \in Tokens : HolderOf(u)' = IF u = t THEN g ELSE HolderOf(u)
    <3> SUFFICES ASSUME NEW u \in Tokens
                 PROVE  HolderOf(u)' = IF u = t THEN g ELSE HolderOf(u)
      OBVIOUS
    <3>1. CASE u = t
      <4>1. \A h \in Guests : pc'[h] = "established" /\ token'[h] = u => h = g
        BY <3>1, <1>1, <1>4 DEF UniqueInv, Took
      <4>2. pc'[g] = "established" /\ token'[g] = u /\ u \notin exposed'
        BY <3>1, <1>1, <1>4
      <4>3. QED
        BY <3>1, <4>1, <4>2 DEF HolderOf
    <3>2. CASE u # t
      BY <3>2, <1>10
    <3>3. QED
      BY <3>1, <3>2
  <2>2. [u \in Tokens |-> HolderOf(u)]' = [u \in Tokens |-> IF u = t THEN g ELSE HolderOf(u)]
    BY <2>1
  <2>3. QED
    BY <2>2
<1>12. Promise!Redeem(t, g)
  BY <1>5, <1>7, <1>8, <1>11 DEF Promise!Redeem
<1>13. QED
  BY <1>2, <1>12 DEF Promise!Next

\* Who gets a token in any other step.
LEMMA OthersGetNothing ==
  ASSUME RInv, RInv', [Next]_vars,
         \A g \in Guests : EstablishSession(g) => token[g] \in exposed, NEW t \in Tokens
  PROVE  HolderOf(t)' = HolderOf(t)
<1> USE DEF RInv, IInv
<1>1. exposed' \subseteq exposed \cup stored
  <2>1. ASSUME NEW g \in Guests, EvalFails(g) PROVE exposed' \subseteq exposed \cup stored
    BY <2>1 DEF EvalFails
  <2>2. (\A g \in Guests : ~EvalFails(g)) => exposed' = exposed
    BY DEF Next, GuestStep, IssueToken, StoreToken, ExpireToken, ConsumeToken, EvalGetAndDelete,
           FallbackGet, FallbackDel, CheckAndLog, EstablishSession, Crash, vars
  <2>3. QED
    BY <2>1, <2>2
<1>2. ASSUME NEW g \in Guests, t \notin exposed, Got(g, t) PROVE t \notin exposed' /\ Got(g, t)'
  <2>1. t \notin stored
    BY <1>2 DEF KeyInv, Took, Got
  <2>2. pc'[g] = "established" /\ token'[g] = t
    BY <1>2, Frame, Moves DEF Got
  <2>3. QED
    BY <1>1, <1>2, <2>1, <2>2 DEF Got
<1>3. ASSUME NEW g \in Guests, t \notin exposed', Got(g, t)' PROVE t \notin exposed /\ Got(g, t)
  <2>1. t \notin exposed
    BY <1>3, Frame
  <2>2. pc[g] \in {"logged", "established"}
    BY <1>3, Moves DEF Got
  <2>3. token[g] = t
    BY <1>3, <2>2, Frame DEF Got
  <2>4. pc[g] # "logged"
    <3>1. ASSUME pc[g] = "logged" PROVE EstablishSession(g)
      BY <1>3, <3>1 DEF Got, Next, GuestStep, IssueToken, StoreToken, ExpireToken, ConsumeToken,
         EvalGetAndDelete, EvalFails, FallbackGet, FallbackDel, CheckAndLog, EstablishSession,
         Crash, vars, Goto, InFlight, TypeOK
    <3>2. QED
      BY <2>1, <2>3, <3>1
  <2>5. QED
    BY <2>1, <2>2, <2>3, <2>4 DEF Got
<1>4. QED
  BY <1>2, <1>3, HolderSame

LEMMA QrStepRefines == RInv /\ RInv' /\ [Next]_vars => [Promise!Next]_(Promise!tokenVars)
<1> SUFFICES ASSUME RInv, RInv', [Next]_vars PROVE [Promise!Next]_(Promise!tokenVars)
  OBVIOUS
<1>1. CASE \E t \in Tokens : StoreToken(t)
  BY <1>1, StoreRefines
<1>2. CASE \E g \in Guests : EstablishSession(g) /\ token[g] \notin exposed
  BY <1>2, EstablishRefines
<1>3. CASE /\ \A t \in Tokens : ~StoreToken(t)
           /\ \A g \in Guests : EstablishSession(g) => token[g] \in exposed
  <2>1. \A t \in Tokens : issuePc'[t] = "issued" <=> issuePc[t] = "issued"
    BY <1>3 DEF RInv, IInv, TypeOK, Next, GuestStep, IssueToken, ExpireToken, ConsumeToken,
                EvalGetAndDelete, EvalFails, FallbackGet, FallbackDel, CheckAndLog,
                EstablishSession, Crash, vars, issueVars
  <2>2. Issued' = Issued
    BY <2>1 DEF Issued
  <2>3. \A t \in Tokens : HolderOf(t)' = HolderOf(t)
    BY <1>3, OthersGetNothing
  <2>4. QED
    BY <2>2, <2>3, Wasted
<1>4. QED
  BY <1>1, <1>2, <1>3

\* The check-in implements a one-shot token: once issued it is redeemed by one
\* guest at most or wasted, and never comes back, as long as it is not exposed.
THEOREM QrImplementsOneShotToken == Spec => ImplementsOneShotToken
<1>1. Init => Promise!Init
  BY DEF Init, Promise!Init, LiveTokens, SpentTokens, HolderOf, Held
<1>2. Spec => []RInv
  <2>1. Init => RInv
    BY QrInit, IssuedInit DEF RInv
  <2>2. RInv /\ [Next]_vars => RInv'
    BY QrStep, IssuedStep DEF RInv
  <2>3. QED
    BY <2>1, <2>2, PTL DEF Spec
<1>3. QED
  BY <1>1, <1>2, QrStepRefines, PTL DEF Spec, ImplementsOneShotToken, Promise!Spec
=============================================================================
