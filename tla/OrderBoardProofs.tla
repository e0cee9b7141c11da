--------------------------- MODULE OrderBoardProofs ---------------------------
(***************************************************************************)
(* Proofs about OrderBoard: what connected clients show, for any orders,   *)
(* requests, clients and faults.                                           *)
(***************************************************************************)
EXTENDS OrderBoard, TLAPS

\* What the theorems assume of the constants.
WantedAreStatuses == Wanted \subseteq Statuses \ {None}

Changing(r) == pc[r] \in {"write", "publish"}

BoardShape ==
  /\ status \in [Orders -> Statuses \cup {None}]
  /\ view \in [Clients -> [Orders -> Statuses \cup {None}]]
  /\ connected \subseteq Clients
  /\ pc \in [Requests -> {"idle", "write", "publish", "answered", "lost"}]
  /\ order \in [Requests -> Orders \cup {None}]
  /\ wanted \in [Requests -> Wanted \cup {None}]
  /\ \A r \in Requests : Changing(r) => order[r] \in Orders /\ wanted[r] \in Wanted

\* Of an order whose changes did not overtake each other one change at most is
\* unpublished, and it is the one the row has.
PublishInv ==
  \A o \in Orders \ raced : \A q, r \in Requests :
    Publishing(q, o) => /\ wanted[q] = status[o]
                        /\ Publishing(r, o) => q = r

IInv == BoardShape /\ PublishInv /\ ViewsAgree

-----------------------------------------------------------------------------
LEMMA BoardInit == Init => IInv
BY DEF Init, IInv, BoardShape, Changing, PublishInv, Publishing, ViewsAgree, Blank

LEMMA ShapeStep ==
  ASSUME WantedAreStatuses, BoardShape, [Next]_boardVars
  PROVE  BoardShape'
<1> USE DEF BoardShape, Changing, Goto, requestVars, clientVars, histories
<1>1. ASSUME NEW o \in Orders, CreateOrder(o) PROVE BoardShape'
  BY <1>1 DEF CreateOrder, Statuses
<1>2. ASSUME NEW r \in Requests, NEW o \in Orders, NEW s \in Wanted, ReadStatus(r, o, s)
      PROVE  BoardShape'
  BY <1>2 DEF ReadStatus
<1>3. ASSUME NEW r \in Requests, WriteStatus(r) PROVE BoardShape'
  BY <1>3, WantedAreStatuses DEF WriteStatus, WantedAreStatuses
<1>4. ASSUME NEW r \in Requests, Publish(r) PROVE BoardShape'
  <2>1. order[r] \in Orders /\ wanted[r] \in Statuses
    BY <1>4, WantedAreStatuses DEF Publish, WantedAreStatuses
  <2>2. view' \in [Clients -> [Orders -> Statuses \cup {None}]]
    BY <1>4, <2>1 DEF Publish, Shown
  <2>3. QED
    BY <1>4, <2>2 DEF Publish
<1>5. ASSUME NEW c \in Clients, Connect(c) \/ Disconnect(c) PROVE BoardShape'
  BY <1>5 DEF Connect, Disconnect
<1>6. CASE Subscribe \/ UNCHANGED boardVars
  BY <1>6 DEF Subscribe, boardVars
<1>7. CASE Crash
  BY <1>7 DEF Crash
<1>8. QED
  BY <1>1, <1>2, <1>3, <1>4, <1>5, <1>6, <1>7 DEF Next, BoardStep

\* The changes of an order that did not overtake each other.
LEMMA PublishStep ==
  ASSUME WantedAreStatuses, BoardShape, PublishInv, [Next]_boardVars
  PROVE  PublishInv'
<1> USE DEF BoardShape, PublishInv, Publishing, Changing, Goto, requestVars, clientVars, histories
<1>1. ASSUME NEW o \in Orders, CreateOrder(o) PROVE PublishInv'
  BY <1>1, WantedAreStatuses DEF CreateOrder, WantedAreStatuses
<1>2. ASSUME NEW r \in Requests, NEW o \in Orders, NEW s \in Wanted, ReadStatus(r, o, s)
      PROVE  PublishInv'
  BY <1>2 DEF ReadStatus
<1>3. ASSUME NEW r \in Requests, WriteStatus(r) PROVE PublishInv'
  BY <1>3 DEF WriteStatus
<1>4. ASSUME NEW r \in Requests, Publish(r) PROVE PublishInv'
  BY <1>4 DEF Publish
<1>5. ASSUME NEW c \in Clients, Connect(c) \/ Disconnect(c) PROVE PublishInv'
  BY <1>5 DEF Connect, Disconnect
<1>6. CASE Subscribe \/ UNCHANGED boardVars
  BY <1>6 DEF Subscribe, boardVars
<1>7. CASE Crash
  BY <1>7 DEF Crash
<1>8. QED
  BY <1>1, <1>2, <1>3, <1>4, <1>5, <1>6, <1>7 DEF Next, BoardStep

\* What connected clients show.
LEMMA ViewStep ==
  ASSUME BoardShape, PublishInv, ViewsAgree, [Next]_boardVars
  PROVE  ViewsAgree'
<1> USE DEF BoardShape, ViewsAgree, Publishing, Changing, Goto, requestVars, clientVars, histories
<1>1. ASSUME NEW o \in Orders, CreateOrder(o) PROVE ViewsAgree'
  BY <1>1 DEF CreateOrder
<1>2. ASSUME NEW r \in Requests, NEW o \in Orders, NEW s \in Wanted, ReadStatus(r, o, s)
      PROVE  ViewsAgree'
  BY <1>2 DEF ReadStatus
<1>3. ASSUME NEW r \in Requests, WriteStatus(r) PROVE ViewsAgree'
  BY <1>3 DEF WriteStatus
<1>4. ASSUME NEW r \in Requests, Publish(r) PROVE ViewsAgree'
  BY <1>4 DEF Publish, Shown, PublishInv
<1>5. ASSUME NEW c \in Clients, Connect(c) \/ Disconnect(c) PROVE ViewsAgree'
  BY <1>5 DEF Connect, Disconnect
<1>6. CASE Subscribe \/ UNCHANGED boardVars
  BY <1>6 DEF Subscribe, boardVars
<1>7. CASE Crash
  BY <1>7 DEF Crash
<1>8. QED
  BY <1>1, <1>2, <1>3, <1>4, <1>5, <1>6, <1>7 DEF Next, BoardStep

LEMMA BoardInductive == ASSUME WantedAreStatuses PROVE IInv /\ [Next]_boardVars => IInv'
<1> SUFFICES ASSUME IInv, [Next]_boardVars PROVE IInv'
  OBVIOUS
<1> QED
  BY ShapeStep, PublishStep, ViewStep, WantedAreStatuses DEF IInv

-----------------------------------------------------------------------------
(* The theorems *)

\* The inductive invariant of the board.
THEOREM BoardInvariant == ASSUME WantedAreStatuses PROVE Spec => []IInv
BY BoardInit, BoardInductive, PTL, WantedAreStatuses DEF Spec

\* Every connected client shows the status of an order once it is published
\* (updateStatus of orders.repository, orders.gateway), unless changes overtook
\* each other or one was not broadcast.
THEOREM BoardViewsAgree == ASSUME WantedAreStatuses PROVE Spec => []ViewsAgree
<1>1. IInv => ViewsAgree
  BY DEF IInv
<1>2. QED
  BY <1>1, BoardInvariant, PTL, WantedAreStatuses

=============================================================================
