------------------------------ MODULE TableCache ------------------------------
(***************************************************************************)
(* QrService.getTableByStaticId: the dining tables a QR code may name are  *)
(* loaded from the database into a field of the service and reused for     *)
(* tableCacheTtlMs, while admins change the tables behind the cache's back *)
(* and concurrent requests load it at the same time.                       *)
(***************************************************************************)
EXTENDS Integers

CONSTANTS
  Tables,    \* staticIds
  Requests,  \* lookups served at the same time
  Ttl,       \* tableCacheTtlMs
  MaxTime    \* bound on the clock

ASSUME TtlAssumption == Ttl \in Nat \ {0}
ASSUME TimeAssumption == MaxTime \in Nat

VARIABLES
  clock,
  active,        \* the tables with isActive in the database
  lastActive,    \* history: when an inactive table was last active
  lastInactive,  \* history: when an active table was last inactive
  cache,         \* tablesCache: none, or the tables loaded and expiresAt
  pc, want,      \* each request's progress and the table it asks for
  now,           \* const now = Date.now(), taken before the query
  rows           \* the rows its query returned

tableVars == <<active, lastActive, lastInactive>>
requestVars == <<pc, want, now, rows>>
vars == <<clock, tableVars, cache, requestVars>>

\* The field holds null until the first load; data is what reduce() built.
Cached(data, expiresAt) == [data |-> data, expiresAt |-> expiresAt]
NoCache == Cached({}, 0)
Live(time) == cache.expiresAt > time

Init ==
  /\ clock = 0
  /\ active \in SUBSET Tables
  /\ lastActive = [t \in Tables |-> -Ttl]
  /\ lastInactive = [t \in Tables |-> -Ttl]
  /\ cache = NoCache
  /\ pc = [r \in Requests |-> "idle"]
  /\ want \in [Requests -> Tables]
  /\ now = [r \in Requests |-> 0]
  /\ rows = [r \in Requests |-> {}]

-----------------------------------------------------------------------------
(* The dining-tables service: create, update and delete change which       *)
(* tables are active and tell the cache nothing.                           *)

Activate(t) ==
  /\ t \notin active
  /\ active' = active \cup {t}
  /\ lastInactive' = [lastInactive EXCEPT ![t] = clock]
  /\ UNCHANGED <<clock, lastActive, cache, requestVars>>

Deactivate(t) ==
  /\ t \in active
  /\ active' = active \ {t}
  /\ lastActive' = [lastActive EXCEPT ![t] = clock]
  /\ UNCHANGED <<clock, lastInactive, cache, requestVars>>

-----------------------------------------------------------------------------
(* getTableByStaticId *)

\* A live cache answers at once, also that there is no such table; otherwise
\* the tables are queried.
Lookup(r, t) ==
  /\ pc[r] = "idle"
  /\ want' = [want EXCEPT ![r] = t]
  /\ now' = [now EXCEPT ![r] = clock]
  /\ pc' = [pc EXCEPT ![r] = IF ~Live(clock) THEN "reading"
                             ELSE IF t \in cache.data THEN "found" ELSE "notFound"]
  /\ UNCHANGED <<clock, tableVars, cache, rows>>

\* The database evaluates the query some time after now was taken.
ReadTables(r) ==
  /\ pc[r] = "reading"
  /\ rows' = [rows EXCEPT ![r] = active]
  /\ pc' = [pc EXCEPT ![r] = "filling"]
  /\ UNCHANGED <<clock, tableVars, cache, want, now>>

\* The query throws: the request fails, the cache is left alone.
ReadFails(r) ==
  /\ pc[r] = "reading"
  /\ pc' = [pc EXCEPT ![r] = "failed"]
  /\ UNCHANGED <<clock, tableVars, cache, want, now, rows>>

\* Mutant: the expiry is computed when the rows arrive.
FillWithLateClock(r) ==
  /\ pc[r] = "filling"
  /\ cache' = Cached(rows[r], clock + Ttl)
  /\ pc' = [pc EXCEPT ![r] = IF want[r] \in rows[r] THEN "found" ELSE "notFound"]
  /\ UNCHANGED <<clock, tableVars, want, now, rows>>

\* The rows replace the cache, whatever another request put there since.
FillCache(r) ==
  /\ pc[r] = "filling"
  /\ cache' = Cached(rows[r], now[r] + Ttl)
  /\ pc' = [pc EXCEPT ![r] = IF want[r] \in rows[r] THEN "found" ELSE "notFound"]
  /\ UNCHANGED <<clock, tableVars, want, now, rows>>

\* The answer leaves the service; the request's place is free again.
Respond(r) ==
  /\ pc[r] \in {"found", "notFound", "failed"}
  /\ pc' = [pc EXCEPT ![r] = "idle"]
  /\ UNCHANGED <<clock, tableVars, cache, want, now, rows>>

\* The process is restarted: the field is null again, requests are lost.
Restart ==
  /\ cache' = NoCache
  /\ pc' = [r \in Requests |-> "idle"]
  /\ UNCHANGED <<clock, tableVars, want, now, rows>>

Tick ==
  /\ clock < MaxTime
  /\ clock' = clock + 1
  /\ UNCHANGED <<tableVars, cache, requestVars>>

Next ==
  \/ \E t \in Tables : Activate(t) \/ Deactivate(t)
  \/ \E r \in Requests, t \in Tables : Lookup(r, t)
  \/ \E r \in Requests : ReadTables(r) \/ ReadFails(r) \/ FillCache(r) \/ Respond(r)
  \/ Restart
  \/ Tick

Spec == Init /\ [][Next]_vars

-----------------------------------------------------------------------------
(* Properties *)

TypeOK ==
  /\ clock \in 0..MaxTime
  /\ active \subseteq Tables
  /\ lastActive \in [Tables -> Int] /\ lastInactive \in [Tables -> Int]
  /\ cache \in [data : SUBSET Tables, expiresAt : Nat]
  /\ pc \in [Requests -> {"idle", "reading", "filling", "found", "notFound", "failed"}]
  /\ want \in [Requests -> Tables]
  /\ now \in [Requests -> 0..MaxTime]
  /\ rows \in [Requests -> SUBSET Tables]

\* The last moment at which table t was active, and was not.
ActiveAt(t) == IF t \in active THEN clock ELSE lastActive[t]
InactiveAt(t) == IF t \in active THEN lastInactive[t] ELSE clock

Answers(r, answer) == pc[r] # answer /\ pc'[r] = answer

\* However loads and changes interleave, an answer is not older than
\* tableCacheTtlMs: a table is only found if it was active less than the TTL
\* before the request came, so that a deactivated one stops issuing tokens, and
\* only reported missing if it was missing or inactive then.
AnswerIsFresh ==
  [][\A r \in Requests :
       /\ Answers(r, "found") => ActiveAt(want'[r]) > now'[r] - Ttl
       /\ Answers(r, "notFound") => InactiveAt(want'[r]) > now'[r] - Ttl]_vars
=============================================================================
