------------------------------- MODULE QrToken -------------------------------
(***************************************************************************)
(* QR check-in of qr.service.ts / qr.controller.ts over redis.service.ts:  *)
(* a table's QR code issues a token kept in Redis, a guest consumes it     *)
(* once and gets a table session.  Consuming reads and deletes the key in  *)
(* one Lua script; when the script fails RedisService falls back to a GET  *)
(* followed by a DEL.  A token stands for one issue request, a guest for   *)
(* one consume request and for the session it may establish.               *)
(***************************************************************************)
EXTENDS FiniteSets

CONSTANTS
  Tokens,     \* issue requests
  Guests,     \* consume requests
  Addresses,  \* client IP addresses
  None,
  BindToIp,   \* QR_BIND_TO_IP
  Faults      \* what may go wrong around the service

FaultKinds == {"evalError",   \* the script does not run; other calls may fail
               "replyLost",   \* the script runs, its reply is lost
               "setexError",  \* a swallowed failure of SETEX
               "dbError",     \* a swallowed failure of the session log
               "crash"}       \* the Node process dies

ASSUME NoneAssumption == None \notin Guests
ASSUME BindAssumption == BindToIp \in BOOLEAN
ASSUME FaultsAssumption == Faults \subseteq FaultKinds

VARIABLES
  issuePc,    \* progress of each issue request
  createdIp,  \* payload.createdIp of each token
  stored,     \* the tokens with a key table:session:<token>
  pc,         \* progress of each consume request
  token, ip,  \* what it asks for and from where
  sessions,   \* the guests with a key table:active:<sessionId>
  log,        \* consumptions written to TableSessionLog, with the outcome
  exposed     \* history: tokens with a key when the script did not run

issueVars == <<issuePc, createdIp>>
requestVars == <<token, ip>>
vars == <<issueVars, stored, pc, requestVars, sessions, log, exposed>>

InFlight == {"eval", "fallbackGet", "fallbackDel", "holding", "logged"}
Answers == {"gone", "conflict", "established"}

Init ==
  /\ issuePc = [t \in Tokens |-> "idle"]
  /\ createdIp = [t \in Tokens |-> None]
  /\ stored = {}
  /\ pc = [g \in Guests |-> "idle"]
  /\ token = [g \in Guests |-> None]
  /\ ip = [g \in Guests |-> None]
  /\ sessions = {}
  /\ log = {}
  /\ exposed = {}

Goto(g, label) == pc' = [pc EXCEPT ![g] = label]

-----------------------------------------------------------------------------
(* issueToken *)

\* getTableByStaticId finds the table, or throws NotFound.
IssueToken(t, a) ==
  /\ issuePc[t] = "idle"
  /\ \/ issuePc' = [issuePc EXCEPT ![t] = "storing"]
     \/ issuePc' = [issuePc EXCEPT ![t] = "refused"]
  /\ createdIp' = [createdIp EXCEPT ![t] = a]
  /\ UNCHANGED <<stored, pc, requestVars, sessions, log, exposed>>

\* SETEX, whose failure RedisService swallows; the token is handed out in
\* either case.
StoreToken(t) ==
  /\ issuePc[t] = "storing"
  /\ \/ stored' = stored \cup {t}
     \/ "setexError" \in Faults /\ UNCHANGED stored
  /\ issuePc' = [issuePc EXCEPT ![t] = "issued"]
  /\ UNCHANGED <<createdIp, pc, requestVars, sessions, log, exposed>>

\* The TTL of the key runs out.
ExpireToken(t) ==
  /\ t \in stored
  /\ stored' = stored \ {t}
  /\ UNCHANGED <<issueVars, pc, requestVars, sessions, log, exposed>>

-----------------------------------------------------------------------------
(* consumeToken *)

\* A request with a well-formed token reaches getAndDelete.
ConsumeToken(g, t, a) ==
  /\ pc[g] = "idle" /\ issuePc[t] = "issued"
  /\ token' = [token EXCEPT ![g] = t]
  /\ ip' = [ip EXCEPT ![g] = a]
  /\ Goto(g, "eval")
  /\ UNCHANGED <<issueVars, stored, sessions, log, exposed>>

\* Mutant: the script only reads the key.
EvalWithoutDelete(g) ==
  /\ pc[g] = "eval"
  /\ Goto(g, IF token[g] \in stored THEN "holding" ELSE "gone")
  /\ UNCHANGED <<issueVars, stored, requestVars, sessions, log, exposed>>

\* The Lua script reads and deletes the key in one step; no value is Gone.
EvalGetAndDelete(g) ==
  /\ pc[g] = "eval"
  /\ Goto(g, IF token[g] \in stored THEN "holding" ELSE "gone")
  /\ stored' = stored \ {token[g]}
  /\ UNCHANGED <<issueVars, requestVars, sessions, log, exposed>>

\* eval throws, before or after the script had its effect.
EvalFails(g) ==
  /\ pc[g] = "eval"
  /\ \/ /\ "evalError" \in Faults
        /\ exposed' = exposed \cup ({token[g]} \cap stored)
        /\ UNCHANGED stored
     \/ /\ "replyLost" \in Faults
        /\ stored' = stored \ {token[g]}
        /\ UNCHANGED exposed
  /\ Goto(g, "fallbackGet")
  /\ UNCHANGED <<issueVars, requestVars, sessions, log>>

\* The fallback's GET; an error of its own reads as null.
FallbackGet(g) ==
  /\ pc[g] = "fallbackGet"
  /\ \/ token[g] \in stored /\ Goto(g, "fallbackDel")
     \/ (token[g] \notin stored \/ "evalError" \in Faults) /\ Goto(g, "gone")
  /\ UNCHANGED <<issueVars, stored, requestVars, sessions, log, exposed>>

\* The fallback's DEL; its error is swallowed.
FallbackDel(g) ==
  /\ pc[g] = "fallbackDel"
  /\ \/ stored' = stored \ {token[g]}
     \/ "evalError" \in Faults /\ UNCHANGED stored
  /\ Goto(g, "holding")
  /\ UNCHANGED <<issueVars, requestVars, sessions, log, exposed>>

IpMismatch(g) == BindToIp /\ createdIp[token[g]] # ip[g]

\* The success is logged; a failure to do so is swallowed.
WriteLog(g) ==
  \/ log' = log \cup {<<token[g], g, "written">>}
  \/ "dbError" \in Faults /\ log' = log \cup {<<token[g], g, "failed">>}

\* Mutant: the payload's address is not compared with the client's.
LogAnyAddress(g) ==
  /\ pc[g] = "holding"
  /\ Goto(g, "logged")
  /\ WriteLog(g)
  /\ UNCHANGED <<issueVars, stored, requestVars, sessions, exposed>>

\* Another device is answered with Conflict, its key being deleted already;
\* otherwise the success is logged.  The checks of the payload's shape and of
\* uses < maxUses hold of every payload issueToken stores.
CheckAndLog(g) ==
  /\ pc[g] = "holding"
  /\ \/ IpMismatch(g) /\ Goto(g, "conflict") /\ UNCHANGED log
     \/ /\ ~IpMismatch(g) /\ Goto(g, "logged")
        /\ WriteLog(g)
  /\ UNCHANGED <<issueVars, stored, requestVars, sessions, exposed>>

\* Mutant: the session is stored as soon as the token is held, before the
\* address is checked and the success logged.
EstablishFirst(g) ==
  /\ pc[g] \in {"holding", "logged"}
  /\ \/ sessions' = sessions \cup {g}
     \/ "setexError" \in Faults /\ UNCHANGED sessions
  /\ Goto(g, "established")
  /\ UNCHANGED <<issueVars, stored, requestVars, log, exposed>>

\* Mutant: the session key is built from the token, not the session id.
EstablishUnderToken(g) ==
  /\ pc[g] = "logged"
  /\ sessions' = sessions \cup {token[g]}
  /\ Goto(g, "established")
  /\ UNCHANGED <<issueVars, stored, requestVars, log, exposed>>

\* The session is stored (a failure is swallowed) and its cookie set.
EstablishSession(g) ==
  /\ pc[g] = "logged"
  /\ \/ sessions' = sessions \cup {g}
     \/ "setexError" \in Faults /\ UNCHANGED sessions
  /\ Goto(g, "established")
  /\ UNCHANGED <<issueVars, stored, requestVars, log, exposed>>

\* The process dies: requests in flight are lost, Redis and the log stay.
Crash ==
  /\ "crash" \in Faults
  /\ issuePc' = [t \in Tokens |-> IF issuePc[t] = "storing" THEN "refused" ELSE issuePc[t]]
  /\ pc' = [g \in Guests |-> IF pc[g] \in InFlight THEN "lost" ELSE pc[g]]
  /\ UNCHANGED <<createdIp, stored, requestVars, sessions, log, exposed>>

GuestStep(g) ==
  \/ EvalGetAndDelete(g) \/ EvalFails(g) \/ FallbackGet(g) \/ FallbackDel(g)
  \/ CheckAndLog(g) \/ EstablishSession(g)

Next ==
  \/ \E t \in Tokens, a \in Addresses : IssueToken(t, a)
  \/ \E t \in Tokens : StoreToken(t) \/ ExpireToken(t)
  \/ \E g \in Guests, t \in Tokens, a \in Addresses : ConsumeToken(g, t, a)
  \/ \E g \in Guests : GuestStep(g)
  \/ Crash

Spec == Init /\ [][Next]_vars

-----------------------------------------------------------------------------
(* Properties *)

TypeOK ==
  /\ issuePc \in [Tokens -> {"idle", "refused", "storing", "issued"}]
  /\ createdIp \in [Tokens -> Addresses \cup {None}]
  /\ stored \subseteq Tokens
  /\ pc \in [Guests -> {"idle", "lost"} \cup InFlight \cup Answers]
  /\ token \in [Guests -> Tokens \cup {None}]
  /\ ip \in [Guests -> Addresses \cup {None}]
  /\ sessions \subseteq Guests
  /\ log \subseteq Tokens \X Guests \X {"written", "failed"}
  /\ exposed \subseteq Tokens

BothEstablished(g, h) ==
  pc[g] = "established" /\ pc[h] = "established" /\ token[g] = token[h]

\* However many guests consume a token at once, at most one of them gets a
\* table session ("atomic, single-use").
SingleUse == \A g, h \in Guests : BothEstablished(g, h) => g = h

\* The same of every token that had no key whenever the script failed to run,
\* whatever replies are lost, calls fail and crashes come in between.
SingleUseByScript ==
  \A g, h \in Guests : BothEstablished(g, h) /\ token[g] \notin exposed => g = h

\* With QR_BIND_TO_IP a session only goes to the address the token was
\* issued to.
SessionOnIssuingAddress ==
  BindToIp => \A g \in sessions : ip[g] = createdIp[token[g]]

\* Every table session has its row in the session log, even across a crash:
\* the row is written before the session, or the write failed then.
SessionWasLogged ==
  \A g \in sessions : \E outcome \in {"written", "failed"} : <<token[g], g, outcome>> \in log

-----------------------------------------------------------------------------
(* The promise: a token is live while its key or a request holding its     *)
(* payload exists, and spent afterwards.  It is not made for an exposed    *)
(* token, which counts as spent without a holder.                          *)

Held(t) == \E g \in Guests : pc[g] \in {"fallbackDel", "holding", "logged"} /\ token[g] = t
LiveTokens == {t \in Tokens \ exposed : t \in stored \/ Held(t)}
SpentTokens == {t \in Tokens : issuePc[t] = "issued" /\ t \notin LiveTokens}
HolderOf(t) == IF t \notin exposed /\ \E g \in Guests : pc[g] = "established" /\ token[g] = t
                 THEN CHOOSE g \in Guests : pc[g] = "established" /\ token[g] = t
                 ELSE None

Promise == INSTANCE OneShotToken WITH
  live <- LiveTokens, spent <- SpentTokens, holder <- [t \in Tokens |-> HolderOf(t)]

\* The check-in keeps the promise of a one-shot token.
ImplementsOneShotToken == Promise!Spec
=============================================================================
