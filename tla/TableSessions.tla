----------------------------- MODULE TableSessions -----------------------------
(***************************************************************************)
(* The session of a table (qr.service: the end of consumeToken,            *)
(* validateActiveSession and invalidateActiveSession; table-session.guard).*)
(* Every validation reads the session from Redis and writes it back with   *)
(* the time it has left.  Time is counted in parts of a second, expiries   *)
(* of keys in seconds.  No code calls invalidateActiveSession today.       *)
(***************************************************************************)
EXTENDS Naturals

CONSTANTS
  Requests,
  Addresses,  \* of the guest and of others
  SessionTtl, \* in seconds
  Second,     \* parts of a second
  MaxTime     \* bound on the clock

VARIABLES
  clock,
  createdIp,   \* of the session
  expiresAt,
  keyUntil,    \* the key is there until then
  pc,
  ip,          \* of each request
  ttl,         \* what it computed for the write
  over,        \* history: the session was over when it read it
  late,        \* history: it was invalidated when it read it
  invalidated, \* history: the session was invalidated ...
  overtaken    \* ... while a request was past its read

requestVars == <<pc, ip, ttl, over, late>>
vars == <<clock, createdIp, expiresAt, keyUntil, requestVars, invalidated, overtaken>>

\* consumeToken stored the session; the write may have come late.
Init ==
  /\ createdIp \in Addresses
  /\ clock = 0
  /\ expiresAt = SessionTtl * Second
  /\ keyUntil \in {expiresAt, expiresAt + 1}
  /\ pc = [r \in Requests |-> "idle"]
  /\ ip = [r \in Requests |-> createdIp]
  /\ ttl = [r \in Requests |-> 0]
  /\ over = [r \in Requests |-> FALSE]
  /\ late = [r \in Requests |-> FALSE]
  /\ invalidated = FALSE /\ overtaken = FALSE

Goto(r, label) == pc' = [pc EXCEPT ![r] = label]

\* GET; without a key, and when it fails, the request is refused.
Read(r) ==
  /\ pc[r] = "idle"
  /\ \E a \in Addresses : ip' = [ip EXCEPT ![r] = a]
  /\ over' = [over EXCEPT ![r] = clock >= expiresAt]
  /\ late' = [late EXCEPT ![r] = invalidated]
  /\ Goto(r, "refused") \/ (keyUntil > clock /\ Goto(r, "check"))
  /\ UNCHANGED <<clock, createdIp, expiresAt, keyUntil, ttl, invalidated, overtaken>>

\* What the write-back gives the key: whole seconds, and at least one.
SecondsLeft == LET s == (expiresAt - clock) \div Second IN IF s > 1 THEN s ELSE 1

\* Mutant: Redis' expiry is relied upon.
CheckAddress(r) ==
  /\ pc[r] = "check"
  /\ ttl' = [ttl EXCEPT ![r] = IF expiresAt <= clock THEN 1 ELSE SecondsLeft]
  /\ Goto(r, IF ip[r] # createdIp THEN "refused" ELSE "write")
  /\ UNCHANGED <<clock, createdIp, expiresAt, keyUntil, ip, over, late, invalidated, overtaken>>

\* The reply is checked, and the time left computed.
Check(r) ==
  /\ pc[r] = "check"
  /\ IF expiresAt <= clock THEN Goto(r, "delete") /\ UNCHANGED ttl
     ELSE /\ Goto(r, IF ip[r] # createdIp THEN "refused" ELSE "write")
          /\ ttl' = [ttl EXCEPT ![r] = SecondsLeft]
  /\ UNCHANGED <<clock, createdIp, expiresAt, keyUntil, ip, over, late, invalidated, overtaken>>

\* SETEX, whether the key is still there or not; an error is swallowed.
WriteBack(r) ==
  /\ pc[r] = "write"
  /\ keyUntil' \in {clock + ttl[r] * Second, keyUntil}
  /\ Goto(r, "accepted")
  /\ UNCHANGED <<clock, createdIp, expiresAt, ip, ttl, over, late, invalidated, overtaken>>

DeleteExpired(r) ==
  /\ pc[r] = "delete"
  /\ keyUntil' \in {0, keyUntil}
  /\ Goto(r, "refused")
  /\ UNCHANGED <<clock, createdIp, expiresAt, ip, ttl, over, late, invalidated, overtaken>>

\* The guard lets the request pass, or not; what it knew is dropped.
Respond(r) ==
  /\ pc[r] \in {"accepted", "refused"}
  /\ Goto(r, "idle")
  /\ ip' = [ip EXCEPT ![r] = createdIp]
  /\ ttl' = [ttl EXCEPT ![r] = 0]
  /\ over' = [over EXCEPT ![r] = FALSE]
  /\ late' = [late EXCEPT ![r] = FALSE]
  /\ UNCHANGED <<clock, createdIp, expiresAt, keyUntil, invalidated, overtaken>>

Past(r) == pc[r] \in {"check", "write"}

\* DEL that reaches Redis.
Invalidate ==
  /\ keyUntil' = 0
  /\ invalidated' = TRUE
  /\ overtaken' = (overtaken \/ \E r \in Requests : Past(r))
  /\ UNCHANGED <<clock, createdIp, expiresAt, requestVars>>

Tick ==
  /\ clock < MaxTime
  /\ clock' = clock + 1
  /\ UNCHANGED <<createdIp, expiresAt, keyUntil, requestVars, invalidated, overtaken>>

Next ==
  \/ \E r \in Requests : Read(r) \/ Check(r) \/ WriteBack(r) \/ DeleteExpired(r) \/ Respond(r)
  \/ Invalidate \/ Tick

Spec == Init /\ [][Next]_vars

-----------------------------------------------------------------------------
(* Properties *)

\* A request that starts when the session is over is refused, though written
\* back keys outlive the session by the rest of a second and by the time a write
\* takes.  So is one that starts after an invalidation, unless a validation that
\* had read the session before it wrote it back.
DeadIsRefused ==
  \A r \in Requests : pc[r] = "accepted" => ~over[r] /\ (late[r] => overtaken)
=============================================================================
