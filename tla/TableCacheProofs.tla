--------------------------- MODULE TableCacheProofs ---------------------------
(***************************************************************************)
(* Proofs about TableCache and about the parts beside it in its run: the   *)
(* staleness bound of the cache, the end of a table's session, and the     *)
(* expiry of a throttler's counter, for any requests and times.            *)
(***************************************************************************)
EXTENDS MCTableCache, TLAPS

(***************************************************************************)
(* The inductive invariant.  Rows are not older than the request's now,    *)
(* and so the cached tables not older than the TTL before their expiry.    *)
(***************************************************************************)
ClockInv == /\ \A t \in Tables : /\ lastActive[t] \in -Ttl..clock
                                 /\ lastInactive[t] \in -Ttl..clock
            /\ \A r \in Requests : now[r] <= clock

AsOf(tables, time) == /\ \A t \in tables : ActiveAt(t) >= time
                      /\ \A t \in Tables \ tables : InactiveAt(t) >= time

RowsInv == \A r \in Requests : pc[r] = "filling" => AsOf(rows[r], now[r])

CacheInv == AsOf(cache.data, cache.expiresAt - Ttl)

IInv == TypeOK /\ ClockInv /\ RowsInv /\ CacheInv

-----------------------------------------------------------------------------
LEMMA CacheInit == Init => IInv
<1> SUFFICES ASSUME Init PROVE IInv
  OBVIOUS
<1> USE TtlAssumption, TimeAssumption DEF Init, NoCache, Cached
<1>1. TypeOK
  BY DEF TypeOK
<1>2. ClockInv
  BY DEF ClockInv
<1>3. RowsInv /\ CacheInv
  BY DEF RowsInv, CacheInv, AsOf, InactiveAt
<1>4. QED
  BY <1>1, <1>2, <1>3 DEF IInv

\* Time and the admins only move the two moments forward.
LEMMA MomentsGrow ==
  ASSUME TypeOK, ClockInv, [Next]_vars, NEW t \in Tables
  PROVE  /\ ActiveAt(t) \in Int /\ ActiveAt(t)' >= ActiveAt(t)
         /\ InactiveAt(t) \in Int /\ InactiveAt(t)' >= InactiveAt(t)
         /\ ActiveAt(t)' \in Int /\ InactiveAt(t)' \in Int
<1> USE TtlAssumption DEF TypeOK, ClockInv, ActiveAt, InactiveAt, tableVars
<1>1. ASSUME NEW u \in Tables, Activate(u) \/ Deactivate(u)
      PROVE  /\ ActiveAt(t)' >= ActiveAt(t) /\ InactiveAt(t)' >= InactiveAt(t)
             /\ ActiveAt(t)' \in Int /\ InactiveAt(t)' \in Int
  BY <1>1 DEF Activate, Deactivate
<1>2. CASE Tick
  BY <1>2 DEF Tick
<1>3. CASE UNCHANGED <<clock, tableVars>>
  BY <1>3
<1>4. UNCHANGED <<clock, tableVars>> \/ Tick
        \/ \E u \in Tables : Activate(u) \/ Deactivate(u)
  BY DEF Next, Lookup, ReadTables, ReadFails, FillCache, Respond, Restart, vars
<1>5. QED
  BY <1>1, <1>2, <1>3, <1>4

\* What was the case as of a moment stays so.
LEMMA AsOfStable ==
  ASSUME TypeOK, ClockInv, [Next]_vars,
         NEW T \in SUBSET Tables, NEW time \in Int, AsOf(T, time)
  PROVE  /\ \A t \in T : ActiveAt(t)' >= time
         /\ \A t \in Tables \ T : InactiveAt(t)' >= time
<1>1. \A t \in Tables : /\ ActiveAt(t) \in Int /\ ActiveAt(t)' >= ActiveAt(t)
                       /\ InactiveAt(t) \in Int /\ InactiveAt(t)' >= InactiveAt(t)
                       /\ ActiveAt(t)' \in Int /\ InactiveAt(t)' \in Int
  BY MomentsGrow
<1>2. ASSUME NEW t \in T PROVE ActiveAt(t)' >= time
  <2>1. t \in Tables /\ ActiveAt(t) >= time
    BY DEF AsOf
  <2>2. /\ ActiveAt(t) \in Int /\ ActiveAt(t)' >= ActiveAt(t) /\ ActiveAt(t)' \in Int
    BY <1>1, <2>1
  <2>3. QED
    BY <2>1, <2>2
<1>3. ASSUME NEW t \in Tables \ T PROVE InactiveAt(t)' >= time
  <2>1. t \in Tables /\ InactiveAt(t) >= time
    BY DEF AsOf
  <2>2. /\ InactiveAt(t) \in Int /\ InactiveAt(t)' >= InactiveAt(t) /\ InactiveAt(t)' \in Int
    BY <1>1, <2>1
  <2>3. QED
    BY <2>1, <2>2
<1>4. QED
  BY <1>2, <1>3

LEMMA CacheStep == IInv /\ [Next]_vars => IInv'
<1> SUFFICES ASSUME IInv, [Next]_vars PROVE IInv'
  OBVIOUS
<1> USE TtlAssumption, TimeAssumption DEF IInv
<1>1. TypeOK' /\ ClockInv'
  <2> USE DEF TypeOK, ClockInv, tableVars, requestVars
  <2>1. ASSUME NEW t \in Tables, Activate(t) \/ Deactivate(t) PROVE TypeOK' /\ ClockInv'
    BY <2>1 DEF Activate, Deactivate
  <2>2. ASSUME NEW r \in Requests, NEW t \in Tables, Lookup(r, t)
        PROVE  TypeOK' /\ ClockInv'
    BY <2>2 DEF Lookup
  <2>3. ASSUME NEW r \in Requests, ReadTables(r) \/ ReadFails(r) \/ Respond(r)
        PROVE  TypeOK' /\ ClockInv'
    BY <2>3 DEF ReadTables, ReadFails, Respond
  <2>4. ASSUME NEW r \in Requests, FillCache(r) PROVE TypeOK' /\ ClockInv'
    BY <2>4 DEF FillCache, Cached
  <2>5. CASE Restart
    BY <2>5 DEF Restart, NoCache, Cached
  <2>6. CASE Tick
    BY <2>6 DEF Tick
  <2>7. CASE UNCHANGED vars
    BY <2>7 DEF vars
  <2>8. QED
    BY <2>1, <2>2, <2>3, <2>4, <2>5, <2>6, <2>7 DEF Next
<1>2. RowsInv'
  <2> DEFINE Fresh(q) == /\ \A t \in rows'[q] : ActiveAt(t)' >= now'[q]
                         /\ \A t \in Tables \ rows'[q] : InactiveAt(t)' >= now'[q]
  <2>1. ASSUME NEW q \in Requests, pc[q] = "filling", rows'[q] = rows[q], now'[q] = now[q]
        PROVE  Fresh(q)
    <3>1. AsOf(rows[q], now[q]) /\ rows[q] \in SUBSET Tables /\ now[q] \in Int
      BY <2>1 DEF RowsInv, TypeOK
    <3>2. /\ \A t \in rows[q] : ActiveAt(t)' >= now[q]
          /\ \A t \in Tables \ rows[q] : InactiveAt(t)' >= now[q]
      BY <3>1, AsOfStable
    <3>3. QED
      BY <2>1, <3>2
  <2>2. ASSUME NEW q \in Requests, rows'[q] = active, now'[q] = now[q],
               UNCHANGED <<clock, tableVars>>
        PROVE  Fresh(q)
    BY <2>2 DEF ActiveAt, InactiveAt, TypeOK, ClockInv, tableVars
  <2>3. ASSUME NEW q \in Requests, pc'[q] = "filling" PROVE Fresh(q)
    <3> DEFINE Kept == pc[q] = "filling" /\ rows'[q] = rows[q] /\ now'[q] = now[q]
    <3>1. ASSUME NEW r \in Requests, ReadTables(r)
          PROVE  \/ Kept
                 \/ rows'[q] = active /\ now'[q] = now[q] /\ UNCHANGED <<clock, tableVars>>
      BY <2>3, <3>1 DEF ReadTables, TypeOK
    <3>2. ASSUME NEW r \in Requests, NEW t \in Tables, Lookup(r, t) PROVE Kept
      BY <2>3, <3>2 DEF Lookup, TypeOK
    <3>3. ASSUME NEW r \in Requests, ReadFails(r) \/ FillCache(r) \/ Respond(r) PROVE Kept
      BY <2>3, <3>3 DEF ReadFails, FillCache, Respond, TypeOK
    <3>4. ASSUME NEW t \in Tables, Activate(t) \/ Deactivate(t) PROVE Kept
      BY <2>3, <3>4 DEF Activate, Deactivate, requestVars
    <3>5. ASSUME Restart \/ Tick \/ UNCHANGED vars PROVE Kept
      BY <2>3, <3>5 DEF Restart, Tick, vars, requestVars, TypeOK
    <3>6. QED
      BY <2>1, <2>2, <2>3, <3>1, <3>2, <3>3, <3>4, <3>5 DEF Next
  <2>4. QED
    BY <2>3 DEF RowsInv, AsOf
<1>3. CacheInv'
  <2>1. CASE UNCHANGED cache
    <3>1. cache.data \in SUBSET Tables /\ cache.expiresAt - Ttl \in Int
      BY DEF TypeOK
    <3>2. /\ \A t \in cache.data : ActiveAt(t)' >= cache.expiresAt - Ttl
          /\ \A t \in Tables \ cache.data : InactiveAt(t)' >= cache.expiresAt - Ttl
      BY <3>1, AsOfStable DEF CacheInv
    <3>3. QED
      BY <2>1, <3>2 DEF CacheInv, AsOf
  <2>2. ASSUME NEW r \in Requests, FillCache(r) PROVE CacheInv'
    <3>1. AsOf(rows[r], now[r]) /\ rows[r] \in SUBSET Tables /\ now[r] \in Int
      BY <2>2 DEF FillCache, RowsInv, TypeOK
    <3>2. cache'.data = rows[r] /\ cache'.expiresAt - Ttl = now[r]
      BY <2>2, <3>1 DEF FillCache, Cached
    <3>3. /\ \A t \in rows[r] : ActiveAt(t)' >= now[r]
          /\ \A t \in Tables \ rows[r] : InactiveAt(t)' >= now[r]
      BY <3>1, AsOfStable
    <3>4. QED
      BY <3>2, <3>3 DEF CacheInv, AsOf
  <2>3. CASE Restart
    BY <2>3, <1>1 DEF Restart, NoCache, Cached, CacheInv, AsOf, InactiveAt, ClockInv,
                      TypeOK, tableVars
  <2>4. QED
    BY <2>1, <2>2, <2>3 DEF Next, Activate, Deactivate, Lookup, ReadTables, ReadFails,
                            Respond, Tick, vars
<1>4. QED
  BY <1>1, <1>2, <1>3

\* The strengthened invariant of the cache holds of every reachable state.
THEOREM CacheInvariant == Spec => []IInv
BY CacheInit, CacheStep, PTL DEF Spec

\* Every variable of the cache keeps its type.
THEOREM CacheTypeOK == Spec => []TypeOK
<1>1. IInv => TypeOK
  BY DEF IInv
<1>2. QED
  BY CacheInvariant, <1>1, PTL

\* However many requests load the cache at once, a table that was found had been
\* active, and one that was reported missing had been missing or inactive, less
\* than the TTL before the request came.
THEOREM CacheAnswerIsFresh == Spec => AnswerIsFresh
<1>1. ASSUME IInv, [Next]_vars, NEW r \in Requests, Answers(r, "found")
      PROVE  ActiveAt(want'[r]) > now'[r] - Ttl
  <2> USE TtlAssumption DEF IInv, TypeOK, Answers
  <2>1. ASSUME NEW q \in Requests, NEW t \in Tables, Lookup(q, t)
        PROVE  ActiveAt(want'[r]) > now'[r] - Ttl
    <3>1. q = r /\ want'[r] = t /\ now'[r] = clock /\ cache.expiresAt > clock /\ t \in cache.data
      BY <1>1, <2>1 DEF Lookup, Live
    <3>2. ActiveAt(t) >= cache.expiresAt - Ttl
      BY <1>1, <3>1 DEF CacheInv, AsOf
    <3>3. ActiveAt(t) \in Int
      BY <1>1 DEF ActiveAt
    <3>4. QED
      BY <1>1, <3>1, <3>2, <3>3
  <2>2. ASSUME NEW q \in Requests, FillCache(q)
        PROVE  ActiveAt(want'[r]) > now'[r] - Ttl
    <3>1. q = r /\ want'[r] = want[r] /\ now'[r] = now[r] /\ want[r] \in rows[r]
            /\ pc[r] = "filling"
      BY <1>1, <2>2 DEF FillCache
    <3>2. ActiveAt(want[r]) >= now[r]
      BY <1>1, <3>1 DEF RowsInv, AsOf
    <3>3. ActiveAt(want[r]) \in Int
      BY <1>1 DEF ActiveAt
    <3>4. QED
      BY <1>1, <3>1, <3>2, <3>3
  <2>3. QED
    BY <1>1, <2>1, <2>2 DEF Next, Activate, Deactivate, ReadTables, ReadFails, Respond,
                            Restart, Tick, vars, requestVars
<1>2. ASSUME IInv, [Next]_vars, NEW r \in Requests, Answers(r, "notFound")
      PROVE  InactiveAt(want'[r]) > now'[r] - Ttl
  <2> USE TtlAssumption DEF IInv, TypeOK, Answers
  <2>1. ASSUME NEW q \in Requests, NEW t \in Tables, Lookup(q, t)
        PROVE  InactiveAt(want'[r]) > now'[r] - Ttl
    <3>1. q = r /\ want'[r] = t /\ now'[r] = clock /\ cache.expiresAt > clock /\ t \in Tables \ cache.data
      BY <1>2, <2>1 DEF Lookup, Live
    <3>2. InactiveAt(t) >= cache.expiresAt - Ttl
      BY <1>2, <3>1 DEF CacheInv, AsOf
    <3>3. InactiveAt(t) \in Int
      BY <1>2 DEF InactiveAt
    <3>4. QED
      BY <1>2, <3>1, <3>2, <3>3
  <2>2. ASSUME NEW q \in Requests, FillCache(q)
        PROVE  InactiveAt(want'[r]) > now'[r] - Ttl
    <3>1. q = r /\ want'[r] = want[r] /\ now'[r] = now[r] /\ want[r] \in Tables \ rows[r]
            /\ pc[r] = "filling"
      BY <1>2, <2>2 DEF FillCache
    <3>2. InactiveAt(want[r]) >= now[r]
      BY <1>2, <3>1 DEF RowsInv, AsOf
    <3>3. InactiveAt(want[r]) \in Int
      BY <1>2 DEF InactiveAt
    <3>4. QED
      BY <1>2, <3>1, <3>2, <3>3
  <2>3. QED
    BY <1>2, <2>1, <2>2 DEF Next, Activate, Deactivate, ReadTables, ReadFails, Respond,
                            Restart, Tick, vars, requestVars
<1>3. IInv /\ [Next]_vars =>
        [\A r \in Requests :
           /\ Answers(r, "found") => ActiveAt(want'[r]) > now'[r] - Ttl
           /\ Answers(r, "notFound") => InactiveAt(want'[r]) > now'[r] - Ttl]_vars
  BY <1>1, <1>2
<1>4. QED
  BY <1>3, CacheInvariant, PTL DEF Spec, AnswerIsFresh

-----------------------------------------------------------------------------
(***************************************************************************)
(* The sessions.  Once the session is invalidated its key is gone and      *)
(* nobody holds what it read before, unless a validation was overtaken.    *)
(***************************************************************************)
SessionShape ==
  /\ clock \in Nat /\ expiresAt \in Nat /\ keyUntil \in Int
  /\ sessionPc \in [Requests -> {"idle", "check", "write", "delete", "accepted", "refused"}]
  /\ over \in [Requests -> BOOLEAN] /\ late \in [Requests -> BOOLEAN]
  /\ ttl \in [Requests -> Int]
  /\ invalidated \in BOOLEAN /\ overtaken \in BOOLEAN

InvalidatedInv ==
  invalidated => overtaken \/ (keyUntil <= clock /\ \A r \in Requests : ~S!Past(r))

ReadInv ==
  \A r \in Requests :
    /\ over[r] => expiresAt <= clock
    /\ sessionPc[r] \in {"write", "accepted"} => ~over[r]
    /\ S!Past(r) \/ sessionPc[r] = "accepted" => (late[r] => overtaken)

SessionInv == SessionShape /\ InvalidatedInv /\ ReadInv

LEMMA SessionInit == S!Init => SessionInv
<1>1. SessionTtl * Second \in Nat
  BY SessionAssumption
<1> SUFFICES ASSUME S!Init PROVE SessionInv
  OBVIOUS
<1>2. SessionShape
  <2>1. clock \in Nat /\ expiresAt \in Nat /\ keyUntil \in Int
    BY <1>1 DEF S!Init
  <2>2. ttl \in [Requests -> Int]
    BY DEF S!Init
  <2>3. QED
    BY <2>1, <2>2, Zenon DEF S!Init, SessionShape
<1>3. InvalidatedInv
  BY DEF S!Init, InvalidatedInv
<1>4. ReadInv
  BY DEF S!Init, ReadInv, S!Past
<1>5. QED
  BY <1>2, <1>3, <1>4 DEF SessionInv

LEMMA SessionStep ==
  ASSUME SessionInv, [S!Next]_<<clock, sessionVars>>
  PROVE  SessionInv'
<1> USE DEF SessionInv, SessionShape, InvalidatedInv, ReadInv, S!Past, S!Goto, S!requestVars
<1>1. ASSUME NEW r \in Requests, S!Read(r) PROVE SessionInv'
  BY <1>1 DEF S!Read
<1>2. ASSUME NEW r \in Requests, S!Check(r) PROVE SessionInv'
  <2>1. S!SecondsLeft \in Int
    BY SessionAssumption DEF S!SecondsLeft
  <2>2. QED
    BY <1>2, <2>1 DEF S!Check
<1>3. ASSUME NEW r \in Requests, S!WriteBack(r) PROVE SessionInv'
  <2>1. clock + ttl[r] * Second \in Int
    BY SessionAssumption
  <2>2. QED
    BY <1>3, <2>1 DEF S!WriteBack
<1>4. ASSUME NEW r \in Requests, S!DeleteExpired(r) \/ S!Respond(r) PROVE SessionInv'
  <2>1. CASE S!DeleteExpired(r)
    BY <2>1 DEF S!DeleteExpired
  <2>2. CASE S!Respond(r)
    BY <2>2 DEF S!Respond
  <2>3. QED
    BY <1>4, <2>1, <2>2
<1>5. CASE S!Invalidate
  <2>1. SessionShape'
    <3>1. UNCHANGED <<clock, expiresAt, sessionPc, over, late, ttl>> /\ keyUntil' = 0
      BY <1>5 DEF S!Invalidate
    <3>2. invalidated' \in BOOLEAN /\ overtaken' \in BOOLEAN
      BY <1>5, Zenon DEF S!Invalidate
    <3>3. QED
      BY <3>1, <3>2
  <2>2. InvalidatedInv'
    <3>1. keyUntil' <= clock' /\ UNCHANGED sessionPc
      BY <1>5 DEF S!Invalidate
    <3>2. (\E r \in Requests : S!Past(r)) => overtaken'
      BY <1>5, Zenon DEF S!Invalidate
    <3>3. QED
      BY <3>1, <3>2
  <2>3. ReadInv'
    BY <1>5 DEF S!Invalidate
  <2>4. QED
    BY <2>1, <2>2, <2>3
<1>6. CASE S!Tick \/ UNCHANGED <<clock, sessionVars>>
  BY <1>6 DEF S!Tick, sessionVars
<1>7. QED
  BY <1>1, <1>2, <1>3, <1>4, <1>5, <1>6 DEF S!Next

(***************************************************************************)
(* The throttler.  Only the request that counted first sets the expiry of  *)
(* the counter, and the counter is without one until then.                 *)
(***************************************************************************)
CounterInv ==
  /\ hits \in Nat /\ hitsLeft \in Nat \cup {Forever} /\ blockLeft \in Nat
  /\ stuck \in BOOLEAN
  /\ throttlerPc \in
       [Requests -> {"idle", "incr", "expire", "block", "admitted", "refused"}]
  /\ hits = 0 <=> hitsLeft = 0
  /\ \A q, r \in Requests : throttlerPc[r] = "expire" =>
       hitsLeft = Forever /\ (throttlerPc[q] = "expire" => q = r)
  /\ H!CounterExpires

LEMMA CounterInit == H!Init => CounterInv
<1>1. Forever # 0
  BY ThrottlerAssumption
<1> SUFFICES ASSUME H!Init PROVE CounterInv
  OBVIOUS
<1>2. H!CounterExpires
  BY <1>1 DEF H!Init, H!CounterExpires
<1>3. QED
  BY <1>2 DEF H!Init, CounterInv

LEMMA CounterStep ==
  ASSUME CounterInv, [H!Next]_throttlerVars
  PROVE  CounterInv'
<1> USE ThrottlerAssumption DEF CounterInv, H!CounterExpires, H!Goto
<1>1. ASSUME NEW r \in Requests, H!Exists(r) \/ H!SetEx(r) \/ H!Respond(r) PROVE CounterInv'
  BY <1>1 DEF H!Exists, H!SetEx, H!Respond
<1>2. ASSUME NEW r \in Requests, H!Incr(r) PROVE CounterInv'
  BY <1>2 DEF H!Incr, H!Saturated, H!Verdict
<1>3. ASSUME NEW r \in Requests, H!Expire(r) PROVE CounterInv'
  BY <1>3 DEF H!Expire, H!Verdict
<1>4. ASSUME NEW r \in Requests, H!Fail(r) PROVE CounterInv'
  BY <1>4 DEF H!Fail
<1>5. CASE H!Tick
  BY <1>5 DEF H!Tick, H!Less
<1>6. CASE UNCHANGED throttlerVars
  BY <1>6 DEF throttlerVars
<1>7. QED
  BY <1>1, <1>2, <1>3, <1>4, <1>5, <1>6 DEF H!Next, H!Step

\* A request that starts after the end or the invalidation of the session is
\* refused (validateActiveSession of qr.service), whatever keys are written back
\* late, unless a validation was overtaken by the invalidation.
THEOREM CacheDeadIsRefused == MCSpec => []DeadIsRefused
<1> DEFINE Inv == part = "sessions" => SessionInv
<1>1. MCInit => Inv
  BY SessionInit DEF MCInit
<1>2. Inv /\ [MCNext]_allVars => Inv'
  <2> SUFFICES ASSUME part' = "sessions", Inv, [MCNext]_allVars PROVE SessionInv'
    OBVIOUS
  <2>1. part = "sessions" /\ [S!Next]_<<clock, sessionVars>>
    BY DEF MCNext, ThrottlerDoes, ListsDo, allVars, vars
  <2>2. QED
    BY <2>1, SessionStep
<1>3. Inv => DeadIsRefused
  BY DEF DeadIsRefused, S!DeadIsRefused, SessionInv, ReadInv
<1>4. QED
  BY <1>1, <1>2, <1>3, PTL DEF MCSpec

\* A counter of the throttler without expiry is about to get one (increment of
\* the throttler's storage), unless the request that would set it stopped.
THEOREM CacheCounterExpires == MCSpec => []CounterExpires
<1> DEFINE Inv == part = "throttler" => CounterInv
<1>1. MCInit => Inv
  BY CounterInit DEF MCInit
<1>2. Inv /\ [MCNext]_allVars => Inv'
  <2> SUFFICES ASSUME part' = "throttler", Inv, [MCNext]_allVars PROVE CounterInv'
    OBVIOUS
  <2>1. part = "throttler" /\ [H!Next]_throttlerVars
    BY DEF MCNext, ThrottlerDoes, ListsDo, allVars
  <2>2. QED
    BY <2>1, CounterStep
<1>3. Inv => CounterExpires
  BY DEF CounterExpires, CounterInv
<1>4. QED
  BY <1>1, <1>2, <1>3, PTL DEF MCSpec

=============================================================================
