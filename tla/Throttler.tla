------------------------------- MODULE Throttler -------------------------------
(***************************************************************************)
(* RedisThrottlerStorage.increment: every request of a client looks for    *)
(* its block, increments its counter and sets the two keys' expiries, each *)
(* a command of its own, while other requests of that client do the same.  *)
(* A key has the time it has left, 0 when there is no key.  Counts above   *)
(* the limit are not told apart.                                           *)
(***************************************************************************)
EXTENDS Naturals

CONSTANTS
  Requests,  \* requests of one client served at the same time
  Limit,     \* limit: 100
  Ttl,       \* ttl: 60 s
  Block,     \* blockDuration: 300 s
  Forever    \* the time left of a key without expiry

VARIABLES
  hits,      \* the counter, 0 when there is none
  hitsLeft,  \* the time it has left
  blockLeft, \* the time the block has left
  pc,
  stuck      \* history: a request stopped between INCR and EXPIRE

vars == <<hits, hitsLeft, blockLeft, pc, stuck>>

Init ==
  /\ hits = 0 /\ hitsLeft = 0 /\ blockLeft = 0
  /\ pc = [r \in Requests |-> "idle"]
  /\ stuck = FALSE

Goto(r, label) == pc' = [pc EXCEPT ![r] = label]

\* A request arrives; with a block it is refused at once, and not counted.
Exists(r) ==
  /\ pc[r] = "idle"
  /\ Goto(r, IF blockLeft # 0 THEN "refused" ELSE "incr")
  /\ UNCHANGED <<hits, hitsLeft, blockLeft, stuck>>

Saturated(n) == IF n > Limit THEN Limit + 1 ELSE n
Verdict(n) == IF n > Limit THEN "block" ELSE "admitted"

\* Mutant: the expiry is only set when the client goes over the limit.
IncrExpireLate(r) ==
  /\ pc[r] = "incr"
  /\ hits' = Saturated(hits + 1)
  /\ hitsLeft' = IF hitsLeft = 0 THEN Forever ELSE hitsLeft
  /\ Goto(r, IF hits = Limit THEN "expire" ELSE Verdict(hits'))
  /\ UNCHANGED <<blockLeft, stuck>>

\* The first hit starts the counter's minute; INCR keeps an expiry.
Incr(r) ==
  /\ pc[r] = "incr"
  /\ hits' = Saturated(hits + 1)
  /\ hitsLeft' = IF hitsLeft = 0 THEN Forever ELSE hitsLeft
  /\ Goto(r, IF hits = 0 THEN "expire" ELSE Verdict(hits'))
  /\ UNCHANGED <<blockLeft, stuck>>

\* The request goes on with the count that INCR returned to it.
Expire(r) ==
  /\ pc[r] = "expire"
  /\ hitsLeft' = Ttl
  /\ Goto(r, Verdict(1))
  /\ UNCHANGED <<hits, blockLeft, stuck>>

\* Mutant: SET in place of SETEX; the block stays until it is overwritten.
SetBlock(r) ==
  /\ pc[r] = "block"
  /\ blockLeft' = Forever
  /\ Goto(r, "refused")
  /\ UNCHANGED <<hits, hitsLeft, stuck>>

\* A request over the limit starts the block, or starts it again.
SetEx(r) ==
  /\ pc[r] = "block"
  /\ blockLeft' = Block
  /\ Goto(r, "refused")
  /\ UNCHANGED <<hits, hitsLeft, stuck>>

Respond(r) ==
  /\ pc[r] \in {"admitted", "refused"}
  /\ Goto(r, "idle")
  /\ UNCHANGED <<hits, hitsLeft, blockLeft, stuck>>

\* A command fails, or the process dies; what Redis holds stays.
Fail(r) ==
  /\ pc[r] \in {"incr", "expire", "block"}
  /\ Goto(r, "idle")
  /\ stuck' = (stuck \/ pc[r] = "expire")
  /\ UNCHANGED <<hits, hitsLeft, blockLeft>>

Less(left) == IF left \in {0, Forever} THEN left ELSE left - 1

Tick ==
  /\ hits' = IF hitsLeft = 1 THEN 0 ELSE hits
  /\ hitsLeft' = Less(hitsLeft)
  /\ blockLeft' = Less(blockLeft)
  /\ UNCHANGED <<pc, stuck>>

Step(r) == Exists(r) \/ Incr(r) \/ Expire(r) \/ SetEx(r) \/ Respond(r)

Next == (\E r \in Requests : Step(r) \/ Fail(r)) \/ Tick

\* Time passes, and Redis and the event loop serve every request.
Spec == Init /\ [][Next]_vars /\ WF_vars(Tick) /\ \A r \in Requests : WF_vars(Step(r))

-----------------------------------------------------------------------------
(* Properties *)

\* A counter without expiry is one whose first request is about to set it, or
\* stopped before it did: however requests overlap, expiry included, no later
\* request meets a counter that nobody will end.
CounterExpires ==
  hitsLeft = Forever => stuck \/ \E r \in Requests : pc[r] = "expire"

\* A blocked client is let in again in the end, though its requests keep
\* coming, unless a request of it stopped between INCR and EXPIRE.
Readmitted == blockLeft # 0 ~> stuck \/ (blockLeft = 0 /\ hits <= Limit)
=============================================================================
