----------------------------- MODULE MCTableCache -----------------------------
(***************************************************************************)
(* One run for what the service keeps in its memory and in Redis for a     *)
(* time: the cache of the tables, the sessions of tables, the counters of  *)
(* the throttler and the lists of categories.  Each is checked on its own: *)
(* part says which moves.                                                  *)
(***************************************************************************)
EXTENDS TableCache

CONSTANTS Addresses, SessionTtl, Second, Limit, HitsTtl, Block, Forever,
          Categories, ListTtl, MaxChanges, None

ASSUME SessionAssumption == SessionTtl \in Nat /\ Second \in Nat \ {0}
ASSUME ThrottlerAssumption ==
  Limit \in Nat /\ HitsTtl \in Nat \ {0} /\ Block \in Nat /\ Forever \notin Nat

VARIABLES
  part,
  createdIp, expiresAt, keyUntil, sessionPc, ip, ttl, over, late, invalidated, overtaken,
  hits, hitsLeft, blockLeft, throttlerPc, stuck,
  status, changes, cached, left, listPc, list, loaded

sessionVars == <<createdIp, expiresAt, keyUntil, sessionPc, ip, ttl, over, late, invalidated,
                 overtaken>>
throttlerVars == <<hits, hitsLeft, blockLeft, throttlerPc, stuck>>
listVars == <<status, changes, cached, left, listPc, list, loaded>>
allVars == <<part, vars, sessionVars, throttlerVars, listVars>>

S == INSTANCE TableSessions WITH pc <- sessionPc
H == INSTANCE Throttler WITH pc <- throttlerPc, Ttl <- HitsTtl
L == INSTANCE CategoryLists WITH
       pc <- listPc, want <- list, rows <- loaded, CacheTtl <- ListTtl

\* The sessions share the clock of the cache.
MCInit ==
  /\ Init /\ S!Init /\ H!Init /\ L!Init
  /\ part \in {"cache", "sessions", "throttler", "lists"}
  /\ part # "cache" => active = {} /\ \A r \in Requests : want[r] = CHOOSE t \in Tables : TRUE
  /\ part # "sessions" => keyUntil = expiresAt /\ createdIp = CHOOSE a \in Addresses : TRUE
  /\ part # "lists" => status = [c \in Categories |-> "absent"]

ThrottlerDoes(A) == part = "throttler" /\ A /\ UNCHANGED <<part, vars, sessionVars, listVars>>
ListsDo(A) == part = "lists" /\ A /\ UNCHANGED <<part, vars, sessionVars, throttlerVars>>

MCNext ==
  \/ part = "cache" /\ Next /\ UNCHANGED <<part, sessionVars, throttlerVars, listVars>>
  \/ /\ part = "sessions" /\ S!Next
     /\ UNCHANGED <<part, tableVars, cache, requestVars, throttlerVars, listVars>>
  \/ ThrottlerDoes(H!Next)
  \/ ListsDo(L!Next)

\* The fairness of the throttler and of the lists.
MCSpec ==
  /\ MCInit /\ [][MCNext]_allVars
  /\ WF_allVars(ThrottlerDoes(H!Tick)) /\ WF_allVars(ListsDo(L!Tick))
  /\ \A r \in Requests :
       WF_allVars(ThrottlerDoes(H!Step(r))) /\ WF_allVars(ListsDo(L!Step(r)))

-----------------------------------------------------------------------------
(* The properties of the parts, where they are stated and explained *)

\* A request that starts after the session's end or invalidation is refused.
DeadIsRefused == part = "sessions" => S!DeadIsRefused

\* A counter without expiry is about to get one.
CounterExpires == part = "throttler" => H!CounterExpires

\* A blocked client is let in again.
Readmitted == H!Readmitted

\* The lists become what the categories are.
ListsCatchUp == L!ListsCatchUp
=============================================================================
