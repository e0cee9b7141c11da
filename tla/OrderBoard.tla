------------------------------ MODULE OrderBoard ------------------------------
(***************************************************************************)
(* The status of orders, and what the screens of the cafe show of it:      *)
(* orders.repository.updateStatus reads the row, writes it and publishes   *)
(* it to Redis; orders.gateway broadcasts what is published to every       *)
(* client connected at that time.  A client fetches the orders when it     *)
(* connects.  Nothing is stored or repeated for a broadcast that is lost.  *)
(***************************************************************************)
EXTENDS Naturals, FiniteSets

CONSTANTS
  Orders,
  Requests,   \* PATCH /orders/:id/status
  Clients,    \* sockets of the gateway
  Wanted,     \* the statuses requests ask for
  None,
  Faults,     \* {"publishError", "crash"}
  MaxCrashes  \* bound on crashes

VARIABLES
  status,     \* Order rows
  pc,         \* progress of each request
  order,      \* the order it updates
  wanted,     \* the status it asks for
  connected,  \* connected clients
  view,       \* the status each client shows, None for an order it has not seen
  subscribed, \* the gateway's Redis subscriber is up
  crashes,
  unsent,     \* history: orders whose last change was not broadcast
  raced       \* history: orders changed again while a change was unpublished

boardVars == <<status, pc, order, wanted, connected, view, subscribed, crashes, unsent, raced>>

Statuses == {"CONFIRMED", "DELIVERED", "PAID", "CANCELLED"}
Blank == [o \in Orders |-> None]

Init ==
  /\ status = Blank
  /\ pc = [r \in Requests |-> "idle"]
  /\ order = [r \in Requests |-> None]
  /\ wanted = [r \in Requests |-> None]
  /\ connected = {}
  /\ view = [c \in Clients |-> Blank]
  /\ subscribed = FALSE
  /\ crashes = 0
  /\ unsent = {}
  /\ raced = {}

requestVars == <<pc, order, wanted>>
clientVars == <<connected, view>>
histories == <<unsent, raced>>

Goto(r, label) == pc' = [pc EXCEPT ![r] = label]

\* The request has written the row and not published it yet.
Publishing(r, o) == pc[r] = "publish" /\ order[r] = o

-----------------------------------------------------------------------------
\* An order is inserted.  Nothing is published for it.
CreateOrder(o) ==
  /\ status[o] = None
  /\ status' = [status EXCEPT ![o] = "CONFIRMED"]
  /\ UNCHANGED <<requestVars, clientVars, subscribed, crashes, histories>>

\* A missing order is answered with null, and so is an order that has the
\* status already: nothing is written or published then.
ReadStatus(r, o, s) ==
  /\ pc[r] = "idle"
  /\ order' = [order EXCEPT ![r] = o]
  /\ wanted' = [wanted EXCEPT ![r] = s]
  /\ Goto(r, IF status[o] \in {None, s} THEN "answered" ELSE "write")
  /\ UNCHANGED <<status, clientVars, subscribed, crashes, histories>>

\* A change that no other one overtakes makes up for those before it.
WriteStatus(r) ==
  LET o == order[r] IN
  /\ pc[r] = "write"
  /\ status' = [status EXCEPT ![o] = wanted[r]]
  /\ raced' = IF \E q \in Requests : Publishing(q, o) THEN raced \cup {o} ELSE raced \ {o}
  /\ unsent' = unsent \ {o}
  /\ Goto(r, "publish")
  /\ UNCHANGED <<order, wanted, clientVars, subscribed, crashes>>

Shown(c, o, s) == [view[c] EXCEPT ![o] = s]

\* Mutant: the gateway subscribes to the channel of one order, not to orders:*.
PublishToOneChannel(r) ==
  LET o == order[r] IN
  /\ pc[r] = "publish"
  /\ view' = [c \in Clients |->
       IF c \in connected /\ o = (CHOOSE x \in Orders : TRUE)
         THEN Shown(c, o, wanted[r]) ELSE view[c]]
  /\ Goto(r, "answered")
  /\ UNCHANGED <<status, order, wanted, connected, subscribed, crashes, histories>>

\* The row as written is published, and broadcast if the gateway listens; an
\* error is swallowed.
Publish(r) ==
  LET o == order[r] IN
  /\ pc[r] = "publish"
  /\ \/ /\ subscribed
        /\ view' = [c \in Clients |->
             IF c \in connected THEN Shown(c, o, wanted[r]) ELSE view[c]]
        /\ UNCHANGED unsent
     \/ /\ ~subscribed \/ "publishError" \in Faults
        /\ unsent' = unsent \cup {o}
        /\ UNCHANGED view
  /\ Goto(r, "answered")
  /\ UNCHANGED <<status, order, wanted, connected, subscribed, crashes, raced>>

-----------------------------------------------------------------------------
(* The gateway and its clients *)

\* The subscriber waits for the Redis client at most five seconds after the
\* start, and is not tried again: it may also never come up.
Subscribe ==
  /\ ~subscribed
  /\ subscribed' = TRUE
  /\ UNCHANGED <<status, requestVars, clientVars, crashes, histories>>

\* The client fetches the orders as they are (GET /orders).
Connect(c) ==
  /\ c \notin connected
  /\ connected' = connected \cup {c}
  /\ view' = [view EXCEPT ![c] = status]
  /\ UNCHANGED <<status, requestVars, subscribed, crashes, histories>>

\* A client that is away goes on showing what it knew.
Disconnect(c) ==
  /\ c \in connected
  /\ connected' = connected \ {c}
  /\ UNCHANGED <<status, requestVars, view, subscribed, crashes, histories>>

\* The process dies: requests in flight are lost and all clients disconnected.
Crash ==
  /\ "crash" \in Faults /\ crashes < MaxCrashes
  /\ crashes' = crashes + 1
  /\ unsent' = unsent \cup {order[r] : r \in {q \in Requests : pc[q] = "publish"}}
  /\ pc' = [r \in Requests |-> IF pc[r] \in {"write", "publish"} THEN "lost" ELSE pc[r]]
  /\ connected' = {}
  /\ subscribed' = FALSE
  /\ UNCHANGED <<status, order, wanted, view, raced>>

BoardStep(r) == WriteStatus(r) \/ Publish(r)

Next ==
  \/ \E o \in Orders : CreateOrder(o)
  \/ \E r \in Requests, o \in Orders, s \in Wanted : ReadStatus(r, o, s)
  \/ \E r \in Requests : BoardStep(r)
  \/ \E c \in Clients : Connect(c) \/ Disconnect(c)
  \/ Subscribe \/ Crash

Spec == Init /\ [][Next]_boardVars

-----------------------------------------------------------------------------
(* Properties *)

TypeOK ==
  /\ status \in [Orders -> Statuses \cup {None}]
  /\ pc \in [Requests -> {"idle", "write", "publish", "answered", "lost"}]
  /\ order \in [Requests -> Orders \cup {None}]
  /\ wanted \in [Requests -> Wanted \cup {None}]
  /\ connected \subseteq Clients
  /\ view \in [Clients -> [Orders -> Statuses \cup {None}]]
  /\ subscribed \in BOOLEAN
  /\ crashes \in 0..MaxCrashes
  /\ unsent \subseteq Orders
  /\ raced \subseteq Orders

\* Once a status change is published, every connected client that shows the
\* order shows its status, whatever requests, failures, restarts and
\* reconnections came before.  Two things break it: a change that was not
\* broadcast, for a change to the same status again is not published either;
\* and two changes that overtook each other between write and publish.
ViewsAgree ==
  \A c \in connected, o \in Orders \ (unsent \cup raced) :
    /\ view[c][o] # None
    /\ \A r \in Requests : ~Publishing(r, o)
    => view[c][o] = status[o]
=============================================================================
