------------------------------- MODULE Payment -------------------------------
(***************************************************************************)
(* The online payment flow of payment.controller.ts / payment.service.ts:  *)
(* POST /pay/create stores a PendingOrder and opens a gateway payment,     *)
(* the gateway sends the customer back to GET /pay/callback, and the       *)
(* callback verifies the payment and turns the pending order into an       *)
(* Order.  Every await is a point where other requests, a gateway timeout  *)
(* or a crash of the process may come in between.                          *)
(*                                                                         *)
(* A checkout stands for one createPayment request, for the PendingOrder   *)
(* row it stores and for the Authority the gateway issues for it.          *)
(* Requests run in slots: a slot whose request was answered may serve the  *)
(* next one, so callbacks can repeat without end.                          *)
(***************************************************************************)
EXTENDS Naturals, Sequences

CONSTANTS
  Checkouts,   \* createPayment requests
  Slots,       \* callback requests served at the same time
  None,        \* null authorityCode, or a query without Authority
  Faults,      \* the kinds of environment events that happen
  MaxCrashes   \* bound on crashes of the process

FaultKinds == {"cancel",        \* POST /pay/cancel or Status=NOK at any time
               "stray",         \* callbacks the gateway did not just send
               "requestError",  \* refusal, timeout or lost answer of request.json
               "verifyError",   \* timeout or lost answer of verify.json
               "dbError",       \* a failing database call
               "crash"}         \* the Node process dies

ASSUME NoneAssumption == None \notin Checkouts
ASSUME FaultsAssumption == Faults \subseteq FaultKinds
ASSUME CrashAssumption == MaxCrashes \in Nat

VARIABLES
  createPc,       \* progress of each createPayment request
  pendingOrders,  \* the PendingOrder rows
  authorityCode,  \* column PendingOrder.authorityCode
  payment,        \* the gateway's payment opened for each checkout
  orders,         \* tracking codes of the Order rows made from each checkout
  pc,             \* progress of the callback in each slot
  query,          \* its query: the pending order it names and its Authority
  reply,          \* the gateway's answer to its verify.json
  crashes

rowVars == <<pendingOrders, authorityCode, orders>>
slotVars == <<pc, query, reply>>
vars == <<createPc, rowVars, payment, slotVars, crashes>>

Authorities == Checkouts \cup {None}

CreateStates == {"idle", "refused", "requesting", "storing", "cleanup",
                 "done", "failed"}
PaymentStates == {"none", "open", "paid", "abandoned", "captured"}
SlotStates == {"idle", "verifying", "error", "succeeded", "rejected"}

\* No request is in the slot: never used, answered, or lost in a crash.
Free(s) == pc[s] \in {"idle", "succeeded", "rejected"}

Init ==
  /\ createPc = [c \in Checkouts |-> "idle"]
  /\ pendingOrders = {}
  /\ authorityCode = [c \in Checkouts |-> None]
  /\ payment = [c \in Checkouts |-> "none"]
  /\ orders = [c \in Checkouts |-> <<>>]
  /\ pc = [s \in Slots |-> "idle"]
  /\ query = [s \in Slots |-> [pending |-> None, authority |-> None]]
  /\ reply = [s \in Slots |-> "none"]
  /\ crashes = 0

-----------------------------------------------------------------------------
(* POST /pay/create *)

\* Pricing or the insert of the row throws: nothing was stored.
RefuseCreate(c) ==
  /\ createPc[c] = "idle"
  /\ createPc' = [createPc EXCEPT ![c] = "refused"]
  /\ UNCHANGED <<rowVars, payment, slotVars, crashes>>

\* The row is stored, without an authority, and request.json is posted.
StorePendingOrder(c) ==
  /\ createPc[c] = "idle"
  /\ createPc' = [createPc EXCEPT ![c] = "requesting"]
  /\ pendingOrders' = pendingOrders \cup {c}
  /\ UNCHANGED <<authorityCode, orders, payment, slotVars, crashes>>

\* The gateway opens a payment and issues its authority (external).
OpenPayment(c) ==
  /\ createPc[c] = "requesting" /\ payment[c] = "none"
  /\ payment' = [payment EXCEPT ![c] = "open"]
  /\ UNCHANGED <<createPc, rowVars, slotVars, crashes>>

ReceiveAuthority(c) ==
  /\ createPc[c] = "requesting" /\ payment[c] = "open"
  /\ createPc' = [createPc EXCEPT ![c] = "storing"]
  /\ UNCHANGED <<rowVars, payment, slotVars, crashes>>

\* A refusal (code other than 100), a timeout or a lost answer of the
\* gateway, or a failing update of authorityCode, enters the catch block.
CreateFails(c) ==
  /\ \/ createPc[c] = "requesting" /\ "requestError" \in Faults
     \/ createPc[c] = "storing" /\ "dbError" \in Faults
  /\ createPc' = [createPc EXCEPT ![c] = "cleanup"]
  /\ UNCHANGED <<rowVars, payment, slotVars, crashes>>

\* Mutant: the gateway's answer is stored in place of its authority.
StoreWholeAnswer(c) ==
  /\ createPc[c] = "storing" /\ c \in pendingOrders
  /\ authorityCode' = [authorityCode EXCEPT ![c] = [code |-> "100", authority |-> c]]
  /\ createPc' = [createPc EXCEPT ![c] = "done"]
  /\ UNCHANGED <<pendingOrders, orders, payment, slotVars, crashes>>

\* The authority is stored and the payment link handed to the customer.
StoreAuthority(c) ==
  /\ createPc[c] = "storing" /\ c \in pendingOrders
  /\ authorityCode' = [authorityCode EXCEPT ![c] = c]
  /\ createPc' = [createPc EXCEPT ![c] = "done"]
  /\ UNCHANGED <<pendingOrders, orders, payment, slotVars, crashes>>

\* Deleting row c, in a catch block that ignores a failure to delete.
DeleteIgnoringErrors(c) ==
  \/ pendingOrders' = pendingOrders \ {c}
  \/ "dbError" \in Faults /\ UNCHANGED pendingOrders

\* Mutant: the catch block answers without deleting the row.
CleanupKeepingRow(c) ==
  /\ createPc[c] = "cleanup"
  /\ UNCHANGED pendingOrders
  /\ createPc' = [createPc EXCEPT ![c] = "failed"]
  /\ UNCHANGED <<authorityCode, orders, payment, slotVars, crashes>>

\* The catch block of createPayment deletes the row and rethrows.
CleanupCreate(c) ==
  /\ createPc[c] = "cleanup"
  /\ DeleteIgnoringErrors(c)
  /\ createPc' = [createPc EXCEPT ![c] = "failed"]
  /\ UNCHANGED <<authorityCode, orders, payment, slotVars, crashes>>

-----------------------------------------------------------------------------
(* The customer at the gateway (external) *)

LinkHandedOut(c) == createPc[c] = "done"

Pay(c) ==
  /\ LinkHandedOut(c) /\ payment[c] = "open"
  /\ payment' = [payment EXCEPT ![c] = "paid"]
  /\ UNCHANGED <<createPc, rowVars, slotVars, crashes>>

Abandon(c) ==
  /\ LinkHandedOut(c) /\ payment[c] = "open"
  /\ payment' = [payment EXCEPT ![c] = "abandoned"]
  /\ UNCHANGED <<createPc, rowVars, slotVars, crashes>>

-----------------------------------------------------------------------------
(* GET /pay/callback with Status=OK: verifyPayment *)

\* The gateway redirects the customer after a payment, and the customer may
\* load the same URL again; a stray callback carries any authority or none.
CallbackComes(p, a) ==
  /\ LinkHandedOut(p)
  /\ \/ a = p /\ payment[p] \in {"paid", "captured"}
     \/ "stray" \in Faults

\* Mutant: the authority of the callback is not compared with the row's.
LoadWithoutAuthorityCheck(s, p, a) ==
  /\ Free(s) /\ CallbackComes(p, a)
  /\ query' = [query EXCEPT ![s] = [pending |-> p, authority |-> a]]
  /\ reply' = [reply EXCEPT ![s] = "none"]
  /\ pc' = [pc EXCEPT ![s] = IF p \in pendingOrders THEN "verifying" ELSE "error"]
  /\ UNCHANGED <<createPc, rowVars, payment, crashes>>

\* findUnique and the checks on the row; verify.json is posted when they
\* pass, otherwise NotFound or BadRequest is thrown into the catch block.
LoadPendingOrder(s, p, a) ==
  /\ Free(s) /\ CallbackComes(p, a)
  /\ query' = [query EXCEPT ![s] = [pending |-> p, authority |-> a]]
  /\ reply' = [reply EXCEPT ![s] = "none"]
  /\ LET matches == p \in pendingOrders /\ authorityCode[p] \in {None, a}
     IN  \/ pc' = [pc EXCEPT ![s] = IF matches THEN "verifying" ELSE "error"]
         \/ "dbError" \in Faults /\ pc' = [pc EXCEPT ![s] = "error"]
  /\ UNCHANGED <<createPc, rowVars, payment, crashes>>

\* Mutant: code 101, a transaction verified before, is not a success.
OnlyCode100 == {"100"}

\* Mutant: any answer of verify.json counts as a success.
AnyCode == {"100", "101", "declined"}

\* The codes of verify.json that let the callback create the order.
SuccessCodes == {"100", "101"}

\* The gateway serves verify.json: it captures a paid payment (code 100),
\* recognises a captured one (code 101), and declines any other (external).
GatewayVerifies(s) ==
  LET a == query[s].authority IN
  /\ pc[s] = "verifying" /\ reply[s] = "none"
  /\ \/ /\ a # None /\ payment[a] = "paid"
        /\ payment' = [payment EXCEPT ![a] = "captured"]
        /\ reply' = [reply EXCEPT ![s] = "100"]
     \/ /\ a # None /\ payment[a] = "captured"
        /\ reply' = [reply EXCEPT ![s] = "101"]
        /\ UNCHANGED payment
     \/ /\ a # None => payment[a] \notin {"paid", "captured"}
        /\ reply' = [reply EXCEPT ![s] = "declined"]
        /\ UNCHANGED payment
  /\ UNCHANGED <<createPc, rowVars, pc, query, crashes>>

\* Mutant: without the client's timeout a gateway that never answers is
\* waited for without end.
VerifyWithoutTimeout(s) ==
  /\ "verifyError" \in Faults
  /\ pc[s] = "verifying" /\ reply[s] # "none"
  /\ pc' = [pc EXCEPT ![s] = "error"]
  /\ UNCHANGED <<createPc, rowVars, payment, query, reply, crashes>>

\* The request fails or the 30 seconds of the HTTP client run out; whether
\* the gateway captured the payment is unknown to the handler.
VerifyRequestFails(s) ==
  /\ "verifyError" \in Faults
  /\ pc[s] = "verifying"
  /\ pc' = [pc EXCEPT ![s] = "error"]
  /\ UNCHANGED <<createPc, rowVars, payment, query, reply, crashes>>

\* Mutant: the two statements are not in one transaction, so the order stays
\* when the delete of the row fails.
CreateOrderUntransacted(s) ==
  LET p == query[s].pending IN
  /\ pc[s] = "verifying" /\ reply[s] \in SuccessCodes
  /\ orders' = [orders EXCEPT ![p] = Append(@, query[s].authority)]
  /\ pendingOrders' = pendingOrders \ {p}
  /\ pc' = [pc EXCEPT ![s] = IF p \in pendingOrders THEN "succeeded" ELSE "error"]
  /\ UNCHANGED <<authorityCode, createPc, payment, query, reply, crashes>>

\* The transaction of verifyPayment: insert the Order, delete the row.  A
\* row that is gone makes the delete throw and rolls the insert back.
CommitOrder(s) ==
  LET p == query[s].pending IN
  /\ pc[s] = "verifying" /\ reply[s] \in SuccessCodes
  /\ \/ /\ p \in pendingOrders
        /\ orders' = [orders EXCEPT ![p] = Append(@, query[s].authority)]
        /\ pendingOrders' = pendingOrders \ {p}
        /\ pc' = [pc EXCEPT ![s] = "succeeded"]
     \/ /\ p \notin pendingOrders \/ "dbError" \in Faults
        /\ pc' = [pc EXCEPT ![s] = "error"]
        /\ UNCHANGED <<orders, pendingOrders>>
  /\ UNCHANGED <<authorityCode, createPc, payment, query, reply, crashes>>

\* Any other code: the row is deleted and the customer sent to the failure
\* page; if the row is gone the delete throws into the catch block.
DropDeclined(s) ==
  LET p == query[s].pending IN
  /\ pc[s] = "verifying" /\ reply[s] \notin SuccessCodes \cup {"none"}
  /\ \/ /\ p \in pendingOrders
        /\ pendingOrders' = pendingOrders \ {p}
        /\ pc' = [pc EXCEPT ![s] = "rejected"]
     \/ /\ p \notin pendingOrders \/ "dbError" \in Faults
        /\ pc' = [pc EXCEPT ![s] = "error"]
        /\ UNCHANGED pendingOrders
  /\ UNCHANGED <<authorityCode, orders, createPc, payment, query, reply, crashes>>

\* The catch block of verifyPayment: whatever went wrong, the row the query
\* names is deleted, and the customer is sent to the failure page.
CatchVerifyError(s) ==
  /\ pc[s] = "error"
  /\ DeleteIgnoringErrors(query[s].pending)
  /\ pc' = [pc EXCEPT ![s] = "rejected"]
  /\ UNCHANGED <<authorityCode, orders, createPc, payment, query, reply, crashes>>

-----------------------------------------------------------------------------
(* GET /pay/callback with another Status, and POST /pay/cancel *)

\* cancelPendingOrder deletes the row; without one it answers BadRequest
\* and changes nothing.  The gateway reports an abandoned payment with
\* Status=NOK; the page that cancels does so at a time of its own.
CancelPendingOrder(p) ==
  /\ LinkHandedOut(p) /\ p \in pendingOrders
  /\ payment[p] = "abandoned" \/ "cancel" \in Faults
  /\ pendingOrders' = pendingOrders \ {p}
  /\ UNCHANGED <<authorityCode, orders, createPc, payment, slotVars, crashes>>

-----------------------------------------------------------------------------
\* The process dies: every request in flight is lost, the rows stay.
Crash ==
  /\ "crash" \in Faults /\ crashes < MaxCrashes
  /\ crashes' = crashes + 1
  /\ createPc' = [c \in Checkouts |->
       IF createPc[c] \in {"requesting", "storing", "cleanup"}
         THEN "failed" ELSE createPc[c]]
  /\ pc' = [s \in Slots |-> IF Free(s) THEN pc[s] ELSE "idle"]
  /\ UNCHANGED <<rowVars, payment, query, reply>>

CreateStep(c) ==
  \/ RefuseCreate(c) \/ StorePendingOrder(c) \/ OpenPayment(c)
  \/ ReceiveAuthority(c) \/ CreateFails(c) \/ StoreAuthority(c)
  \/ CleanupCreate(c)

CustomerStep(c) == Pay(c) \/ Abandon(c) \/ CancelPendingOrder(c)

Redirect(p) == \E s \in Slots : LoadPendingOrder(s, p, p)

ServerStep(s) ==
  \/ VerifyRequestFails(s) \/ CommitOrder(s) \/ DropDeclined(s)
  \/ CatchVerifyError(s)

Next ==
  \/ \E c \in Checkouts : CreateStep(c) \/ CustomerStep(c)
  \/ \E s \in Slots, p \in Checkouts, a \in Authorities : LoadPendingOrder(s, p, a)
  \/ \E s \in Slots : GatewayVerifies(s) \/ ServerStep(s)
  \/ Crash

Spec == Init /\ [][Next]_vars

\* The event loop runs every handler that can go on, and the timeout of the
\* HTTP client fires; nothing is assumed of the gateway or the customer.
ServerSpec == Spec /\ \A s \in Slots : WF_vars(ServerStep(s))

\* Besides, the gateway answers, and the browser of a customer who paid
\* loads the callback URL (again) as long as there is no order.  SF because
\* a slot is free again and again, not for ever.
CalmSpec ==
  /\ ServerSpec
  /\ \A s \in Slots : WF_vars(GatewayVerifies(s))
  /\ \A c \in Checkouts : SF_vars(orders[c] = <<>> /\ Redirect(c))

-----------------------------------------------------------------------------
(* Properties *)

TypeOK ==
  /\ createPc \in [Checkouts -> CreateStates]
  /\ pendingOrders \subseteq Checkouts
  /\ authorityCode \in [Checkouts -> Authorities]
  /\ payment \in [Checkouts -> PaymentStates]
  /\ orders \in [Checkouts -> Seq(Authorities)]
  /\ pc \in [Slots -> SlotStates]
  /\ query \in [Slots -> [pending : Authorities, authority : Authorities]]
  /\ reply \in [Slots -> {"none", "100", "101", "declined"}]
  /\ crashes \in 0..MaxCrashes

\* However callbacks, cancellations, crashes and failures interleave, a
\* checkout becomes at most one order (the transaction of verifyPayment).
AtMostOneOrder == \A c \in Checkouts : Len(orders[c]) <= 1

\* An online order is persisted only after successful verification: its
\* tracking code is the authority issued for that very pending order, and
\* the gateway captured that payment.
OrderIsBacked ==
  \A c \in Checkouts : orders[c] # <<>> => orders[c][1] = c /\ payment[c] = "captured"

\* The customer's money is never kept for nothing: of a captured payment
\* there is an order, or still the pending order a later callback turns
\* into one.
CapturedIsKept ==
  \A c \in Checkouts :
    payment[c] = "captured" => c \in pendingOrders \/ orders[c] # <<>>

\* A createPayment that answered with an error leaves no pending order
\* behind, as long as no crash and no database error hits its catch block.
FailedCreateLeavesNoRow ==
  crashes = 0 /\ "dbError" \notin Faults =>
    \A c \in Checkouts : createPc[c] \in {"refused", "failed"} => c \notin pendingOrders

\* Every callback is answered (or lost in a crash): no gateway behaviour
\* and no missing row leaves the customer waiting for ever.
CallbackAnswered == \A s \in Slots : ~Free(s) ~> Free(s)

\* When only crashes and refused requests go wrong, everybody who paid gets an
\* order: code 101 makes a callback repeatable after a crash between capture
\* and commit.
PaidIsOrdered == \A c \in Checkouts : payment[c] = "paid" ~> orders[c] # <<>>

-----------------------------------------------------------------------------
(* The contract the flow implements: a pending order is present, became an *)
(* order, or is gone.  Only when nothing but crashes and failures of       *)
(* request.json go wrong is no charged checkout dropped.                   *)

StatusOf(c) ==
  CASE orders[c] # <<>> -> "ordered"
    [] orders[c] = <<>> /\ c \in pendingOrders -> "pending"
    [] orders[c] = <<>> /\ c \notin pendingOrders
         -> IF createPc[c] \in {"idle", "refused"} THEN "none" ELSE "dropped"

Calm == Faults \subseteq {"crash", "requestError"}

Contract == INSTANCE PendingOrderContract WITH
  DropCharged <- ~Calm,
  status <- [c \in Checkouts |-> StatusOf(c)],
  charged <- [c \in Checkouts |-> payment[c] = "captured"]

\* The flow implements the contract of a pending order.
ImplementsContract == Contract!Spec
=============================================================================
