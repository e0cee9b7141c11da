----------------------------- MODULE CategoryLists -----------------------------
(***************************************************************************)
(* The lists of all and of the active categories (categories.repository):  *)
(* findAll and findAllActive keep them in Redis for cacheTtl, and no write *)
(* of a category tells them.  A category is what the lists tell apart:     *)
(* absent, active or hidden; 'uncategorized' is in none of them.           *)
(***************************************************************************)
EXTENDS Naturals

CONSTANTS
  Categories,
  Requests,
  CacheTtl,    \* 300 s
  MaxChanges,  \* bound on the changes of categories
  None         \* no cached list

VARIABLES
  status,   \* of each category
  changes,  \* how many there were
  cached,   \* the list under each key
  left,     \* the time each key has left, 0 when there is none
  pc,
  want,     \* the list a request is for
  rows      \* the list its query returned

cacheVars == <<cached, left>>
vars == <<status, changes, cacheVars, pc, want, rows>>

Lists == {"all", "active"}
Content(l) == {c \in Categories : status[c] = "active" \/ (l = "all" /\ status[c] = "hidden")}

Init ==
  /\ status \in [Categories -> {"absent", "active", "hidden"}]
  /\ changes = 0
  /\ cached = [l \in Lists |-> None]
  /\ left = [l \in Lists |-> 0]
  /\ pc = [r \in Requests |-> "idle"]
  /\ want = [r \in Requests |-> "all"]
  /\ rows = [r \in Requests |-> {}]

Change(c, from, to) ==
  /\ status[c] \in from /\ changes < MaxChanges
  /\ status' = [status EXCEPT ![c] = to]
  /\ changes' = changes + 1
  /\ UNCHANGED <<cacheVars, pc, want, rows>>

Create(c) == Change(c, {"absent"}, "active")
\* A PATCH sets isActive.
Update(c, to) == Change(c, {"active", "hidden"}, to)
Delete(c) == Change(c, {"active", "hidden"}, "absent")

Goto(r, label) == pc' = [pc EXCEPT ![r] = label]

\* A list in Redis is the answer; without one, or when GET fails, the
\* database is asked.
GetCached(r, l) ==
  /\ pc[r] = "idle"
  /\ want' = [want EXCEPT ![r] = l]
  /\ Goto(r, "query") \/ (cached[l] # None /\ Goto(r, "answered"))
  /\ UNCHANGED <<status, changes, cacheVars, rows>>

\* The rows come in time or not.
Query(r) ==
  /\ pc[r] = "query"
  /\ \/ Goto(r, "store") /\ rows' = [rows EXCEPT ![r] = Content(want[r])]
     \/ Goto(r, "answered") /\ UNCHANGED rows
  /\ UNCHANGED <<status, changes, cacheVars, want>>

\* Mutant: the key gets no expiry.
StoreForever(r) ==
  /\ pc[r] = "store"
  /\ cached' = [cached EXCEPT ![want[r]] = rows[r]]
  /\ Goto(r, "answered")
  /\ UNCHANGED <<status, changes, left, want, rows>>

\* The list replaces what another request stored; an error is swallowed.
Store(r) ==
  /\ pc[r] = "store"
  /\ \/ cached' = [cached EXCEPT ![want[r]] = rows[r]] /\ left' = [left EXCEPT ![want[r]] = CacheTtl]
     \/ UNCHANGED cacheVars
  /\ Goto(r, "answered")
  /\ UNCHANGED <<status, changes, want, rows>>

Answer(r) ==
  /\ pc[r] = "answered"
  /\ Goto(r, "idle")
  /\ rows' = [rows EXCEPT ![r] = {}]
  /\ UNCHANGED <<status, changes, cacheVars, want>>

\* The process dies, with its requests.
Restart ==
  /\ pc' = [r \in Requests |-> "idle"]
  /\ rows' = [r \in Requests |-> {}]
  /\ UNCHANGED <<status, changes, cacheVars, want>>

Tick ==
  /\ cached' = [l \in Lists |-> IF left[l] = 1 THEN None ELSE cached[l]]
  /\ left' = [l \in Lists |-> IF left[l] = 0 THEN 0 ELSE left[l] - 1]
  /\ UNCHANGED <<status, changes, pc, want, rows>>

Step(r) == (\E l \in Lists : GetCached(r, l)) \/ Query(r) \/ Store(r) \/ Answer(r)

Next ==
  \/ \E c \in Categories : Create(c) \/ Delete(c) \/ \E to \in {"active", "hidden"} : Update(c, to)
  \/ \E r \in Requests : Step(r)
  \/ Restart \/ Tick

\* Time passes, and the event loop, Redis and the database serve every request.
Spec == Init /\ [][Next]_vars /\ WF_vars(Tick) /\ \A r \in Requests : WF_vars(Step(r))

-----------------------------------------------------------------------------
(* Properties *)

\* Once the categories stop changing, the lists in Redis are or become what
\* they are and stay so, though requests store lists they read before the last
\* change, after others stored newer ones, and nothing is ever invalidated.
ListsCatchUp == <>[](\A l \in Lists : cached[l] \in {None, Content(l)})
=============================================================================
