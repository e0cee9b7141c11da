---------------------------- MODULE PaymentProofs ----------------------------
(***************************************************************************)
(* Proofs about Payment, for any set of checkouts and slots and any kinds  *)
(* of faults.                                                              *)
(***************************************************************************)
EXTENDS Payment, TLAPS

(***************************************************************************)
(* The inductive invariant.  A row is only there before its order; links,  *)
(* and so payments and callbacks, exist only of checkouts whose authority  *)
(* is stored; a handler past the checks of verifyPayment holds the row's   *)
(* own authority, and a success code only of a captured payment.           *)
(***************************************************************************)
RowInv == \A c \in pendingOrders :
            createPc[c] \notin {"idle", "refused"} /\ orders[c] = <<>>

LinkInv == \A c \in Checkouts :
             /\ createPc[c] = "done" => authorityCode[c] = c
             /\ payment[c] \in {"paid", "abandoned", "captured"} => createPc[c] = "done"

OrderInv == \A c \in Checkouts :
              /\ orders[c] \in {<<>>, <<c>>}
              /\ orders[c] # <<>> => payment[c] = "captured"

QueryInv == \A s \in Slots :
              pc[s] \in {"verifying", "error"} =>
                /\ query[s].pending \in Checkouts
                /\ createPc[query[s].pending] = "done"

VerifyInv == \A s \in Slots :
               pc[s] = "verifying" =>
                 /\ query[s].authority = query[s].pending
                 /\ reply[s] \in SuccessCodes => payment[query[s].authority] = "captured"

IInv == TypeOK /\ RowInv /\ LinkInv /\ OrderInv /\ QueryInv /\ VerifyInv

-----------------------------------------------------------------------------
LEMMA PaymentInit == Init => IInv
BY NoneAssumption, CrashAssumption
   DEF Init, IInv, TypeOK, RowInv, LinkInv, OrderInv, QueryInv, VerifyInv,
       CreateStates, PaymentStates, SlotStates, Authorities

\* A step of createPayment.
LEMMA CreateStepInv ==
  ASSUME IInv, NEW c \in Checkouts, CreateStep(c)
  PROVE  IInv'
<1> USE NoneAssumption, CrashAssumption
        DEF rowVars, slotVars, Authorities, CreateStates, PaymentStates
<1>1. CASE RefuseCreate(c)
  BY <1>1 DEF RefuseCreate, IInv, TypeOK, RowInv, LinkInv, OrderInv, QueryInv, VerifyInv
<1>2. CASE StorePendingOrder(c)
  BY <1>2 DEF StorePendingOrder, IInv, TypeOK, RowInv, LinkInv, OrderInv, QueryInv, VerifyInv
<1>3. CASE OpenPayment(c)
  BY <1>3 DEF OpenPayment, IInv, TypeOK, RowInv, LinkInv, OrderInv, QueryInv, VerifyInv
<1>4. CASE ReceiveAuthority(c)
  BY <1>4 DEF ReceiveAuthority, IInv, TypeOK, RowInv, LinkInv, OrderInv, QueryInv, VerifyInv
<1>5. CASE CreateFails(c)
  BY <1>5 DEF CreateFails, IInv, TypeOK, RowInv, LinkInv, OrderInv, QueryInv, VerifyInv
<1>6. CASE StoreAuthority(c)
  BY <1>6 DEF StoreAuthority, IInv, TypeOK, RowInv, LinkInv, OrderInv, QueryInv, VerifyInv
<1>7. CASE CleanupCreate(c)
  BY <1>7 DEF CleanupCreate, DeleteIgnoringErrors, IInv, TypeOK, RowInv, LinkInv,
              OrderInv, QueryInv, VerifyInv
<1>8. QED
  BY <1>1, <1>2, <1>3, <1>4, <1>5, <1>6, <1>7 DEF CreateStep

\* A step of the customer, at the gateway or with a cancellation.
LEMMA CustomerStepInv ==
  ASSUME IInv, NEW c \in Checkouts, CustomerStep(c)
  PROVE  IInv'
<1> USE DEF rowVars, slotVars, PaymentStates, LinkHandedOut
<1>1. CASE Pay(c)
  BY <1>1 DEF Pay, IInv, TypeOK, RowInv, LinkInv, OrderInv, QueryInv, VerifyInv
<1>2. CASE Abandon(c)
  BY <1>2 DEF Abandon, IInv, TypeOK, RowInv, LinkInv, OrderInv, QueryInv, VerifyInv
<1>3. CASE CancelPendingOrder(c)
  BY <1>3 DEF CancelPendingOrder, IInv, TypeOK, RowInv, LinkInv, OrderInv, QueryInv, VerifyInv
<1>4. QED
  BY <1>1, <1>2, <1>3 DEF CustomerStep

\* The checks of verifyPayment: the row of a handed-out link carries its
\* own authority, so a callback that passes them does too.
LEMMA LoadInv ==
  ASSUME IInv, NEW s \in Slots, NEW p \in Checkouts, NEW a \in Authorities,
         LoadPendingOrder(s, p, a)
  PROVE  IInv'
<1> USE NoneAssumption
        DEF rowVars, Authorities, SlotStates, SuccessCodes, LinkHandedOut, CallbackComes
<1>1. TypeOK' /\ RowInv' /\ LinkInv' /\ OrderInv'
  BY DEF LoadPendingOrder, IInv, TypeOK, RowInv, LinkInv, OrderInv
<1>2. QueryInv'
  BY DEF LoadPendingOrder, IInv, TypeOK, QueryInv
<1>3. VerifyInv'
  BY DEF LoadPendingOrder, IInv, TypeOK, LinkInv, VerifyInv
<1>4. QED
  BY <1>1, <1>2, <1>3 DEF IInv

\* The gateway's answer, and the steps of a callback handler.
LEMMA GatewayInv ==
  ASSUME IInv, NEW s \in Slots, GatewayVerifies(s)
  PROVE  IInv'
<1> USE NoneAssumption DEF rowVars, Authorities, PaymentStates, SuccessCodes
<1>1. TypeOK' /\ RowInv' /\ QueryInv'
  BY DEF GatewayVerifies, IInv, TypeOK, RowInv, QueryInv, VerifyInv
<1>2. LinkInv' /\ OrderInv'
  BY DEF GatewayVerifies, IInv, TypeOK, LinkInv, OrderInv, QueryInv, VerifyInv
<1>3. VerifyInv'
  BY DEF GatewayVerifies, IInv, TypeOK, QueryInv, VerifyInv
<1>4. QED
  BY <1>1, <1>2, <1>3 DEF IInv

LEMMA ServerStepInv ==
  ASSUME IInv, NEW s \in Slots, ServerStep(s)
  PROVE  IInv'
<1> USE NoneAssumption DEF rowVars, slotVars, Authorities, SlotStates
<1>1. CASE VerifyRequestFails(s)
  BY <1>1 DEF VerifyRequestFails, IInv, TypeOK, RowInv, LinkInv, OrderInv, QueryInv, VerifyInv
<1>2. CASE CommitOrder(s)
  <2> DEFINE p == query[s].pending
  <2>1. /\ p \in Checkouts /\ createPc[p] = "done"
        /\ query[s].authority = p /\ payment[p] = "captured"
    BY <1>2 DEF CommitOrder, IInv, QueryInv, VerifyInv
  <2>2. CASE /\ p \in pendingOrders
             /\ orders' = [orders EXCEPT ![p] = Append(@, query[s].authority)]
             /\ pendingOrders' = pendingOrders \ {p}
             /\ pc' = [pc EXCEPT ![s] = "succeeded"]
    <3>1. orders[p] = <<>>
      BY <2>2 DEF IInv, RowInv
    <3>2. orders' = [orders EXCEPT ![p] = <<p>>]
      BY <2>1, <2>2, <3>1 DEF IInv, TypeOK
    <3>3. TypeOK' /\ RowInv' /\ LinkInv'
      BY <1>2, <2>1, <2>2, <3>2 DEF CommitOrder, IInv, TypeOK, RowInv, LinkInv
    <3>4. OrderInv'
      BY <1>2, <2>1, <3>2 DEF CommitOrder, IInv, TypeOK, OrderInv
    <3>5. QueryInv' /\ VerifyInv'
      BY <1>2, <2>2 DEF CommitOrder, IInv, TypeOK, QueryInv, VerifyInv
    <3>6. QED
      BY <3>3, <3>4, <3>5 DEF IInv
  <2>3. CASE UNCHANGED <<orders, pendingOrders>> /\ pc' = [pc EXCEPT ![s] = "error"]
    BY <1>2, <2>1, <2>3 DEF CommitOrder, IInv, TypeOK, RowInv, LinkInv, OrderInv,
                            QueryInv, VerifyInv
  <2>4. QED
    BY <1>2, <2>2, <2>3 DEF CommitOrder
<1>3. CASE DropDeclined(s)
  <2>1. TypeOK'
    BY <1>3 DEF DropDeclined, IInv, TypeOK
  <2>2. RowInv' /\ LinkInv' /\ OrderInv'
    BY <1>3 DEF DropDeclined, IInv, RowInv, LinkInv, OrderInv
  <2>3. QueryInv' /\ VerifyInv'
    BY <1>3 DEF DropDeclined, IInv, TypeOK, QueryInv, VerifyInv
  <2>4. QED
    BY <2>1, <2>2, <2>3 DEF IInv
<1>4. CASE CatchVerifyError(s)
  BY <1>4 DEF CatchVerifyError, DeleteIgnoringErrors, IInv, TypeOK, RowInv, LinkInv,
              OrderInv, QueryInv, VerifyInv
<1>5. QED
  BY <1>1, <1>2, <1>3, <1>4, Zenon DEF ServerStep

\* A crash ends requests; it changes no row and no payment.
LEMMA CrashInv == IInv /\ Crash => IInv'
BY CrashAssumption DEF Crash, Free, rowVars, IInv, TypeOK, RowInv, LinkInv, OrderInv,
       QueryInv, VerifyInv, CreateStates, SlotStates

LEMMA PaymentStep == IInv /\ [Next]_vars => IInv'
<1> SUFFICES ASSUME IInv, [Next]_vars PROVE IInv'
  OBVIOUS
<1>1. CASE UNCHANGED vars
  BY <1>1 DEF vars, rowVars, slotVars, IInv, TypeOK, RowInv, LinkInv, OrderInv,
              QueryInv, VerifyInv
<1>2. CASE Next
  BY <1>2, CreateStepInv, CustomerStepInv, LoadInv, GatewayInv, ServerStepInv, CrashInv
     DEF Next
<1>3. QED
  BY <1>1, <1>2

\* The strengthened invariant holds of every reachable state.
THEOREM PaymentInvariant == Spec => []IInv
BY PaymentInit, PaymentStep, PTL DEF Spec

\* Every variable of the payment flow keeps its type.
THEOREM PaymentTypeOK == Spec => []TypeOK
<1>1. IInv => TypeOK
  BY DEF IInv
<1>2. QED
  BY PaymentInvariant, <1>1, PTL

\* Whatever requests, crashes and failures interleave, and however many
\* checkouts and concurrent callbacks there are, a checkout becomes at most
\* one order (the transaction of verifyPayment).
THEOREM PaymentAtMostOneOrder == Spec => []AtMostOneOrder
<1>1. ASSUME IInv, NEW c \in Checkouts PROVE Len(orders[c]) <= 1
  <2>1. orders[c] = <<>> \/ orders[c] = <<c>>
    BY <1>1 DEF IInv, OrderInv
  <2>2. CASE orders[c] = <<>>
    BY <2>2
  <2>3. CASE orders[c] = <<c>>
    BY <2>3
  <2>4. QED
    BY <2>1, <2>2, <2>3
<1>2. IInv => AtMostOneOrder
  BY <1>1 DEF AtMostOneOrder
<1>3. QED
  BY PaymentInvariant, <1>2, PTL

\* Every online order rests on a captured payment opened for that very
\* pending order (the authority check and the verification before it).
THEOREM PaymentOrderIsBacked == Spec => []OrderIsBacked
<1>1. IInv => OrderIsBacked
  BY DEF IInv, OrderInv, OrderIsBacked
<1>2. QED
  BY PaymentInvariant, <1>1, PTL

-----------------------------------------------------------------------------
(***************************************************************************)
(* When only crashes and request.json go wrong.  A verified callback       *)
(* is of a paid payment, so it is never declined; an error is only met     *)
(* when the row is gone; and a row goes with its order or after the        *)
(* customer abandoned the payment.                                         *)
(***************************************************************************)
RowKept(c) ==
  createPc[c] \in {"requesting", "storing", "done"} /\ payment[c] # "abandoned"
    => c \in pendingOrders \/ orders[c] # <<>>

CallbackSound(s) ==
  /\ pc[s] = "verifying" => /\ payment[query[s].authority] \in {"paid", "captured"}
                            /\ reply[s] # "declined"
  /\ pc[s] = "error" => query[s].pending \notin pendingOrders

CalmInv == /\ \A c \in Checkouts : RowKept(c)
           /\ \A s \in Slots : CallbackSound(s)

LEMMA CalmStep ==
  ASSUME Calm, IInv, CalmInv, [Next]_vars
  PROVE  CalmInv'
<1> USE NoneAssumption
        DEF Calm, CalmInv, RowKept, CallbackSound, IInv, TypeOK, LinkInv, QueryInv, VerifyInv,
            rowVars, slotVars, Authorities, SlotStates, PaymentStates, CreateStates
<1>1. CASE UNCHANGED vars
  BY <1>1 DEF vars
<1>2. ASSUME NEW c \in Checkouts, CreateStep(c) PROVE CalmInv'
  <2>1. CASE RefuseCreate(c) \/ ReceiveAuthority(c)
    BY <2>1 DEF RefuseCreate, ReceiveAuthority
  <2>2. CASE OpenPayment(c)
    BY <2>2 DEF OpenPayment
  <2>3. CASE StorePendingOrder(c)
    BY <2>3 DEF StorePendingOrder
  <2>4. CASE StoreAuthority(c)
    BY <2>4 DEF StoreAuthority
  <2>5. CASE CreateFails(c)
    BY <2>5 DEF CreateFails
  <2>6. CASE CleanupCreate(c)
    BY <2>6 DEF CleanupCreate, DeleteIgnoringErrors
  <2>7. QED
    BY <1>2, <2>1, <2>2, <2>3, <2>4, <2>5, <2>6, Zenon DEF CreateStep
<1>3. ASSUME NEW c \in Checkouts, CustomerStep(c) PROVE CalmInv'
  <2>1. CASE Pay(c)
    BY <2>1 DEF Pay, LinkHandedOut
  <2>2. CASE Abandon(c)
    BY <2>2 DEF Abandon, LinkHandedOut
  <2>3. CASE CancelPendingOrder(c)
    BY <2>3 DEF CancelPendingOrder, LinkHandedOut
  <2>4. QED
    BY <1>3, <2>1, <2>2, <2>3, Zenon DEF CustomerStep
<1>4. ASSUME NEW s \in Slots, NEW p \in Checkouts, NEW a \in Authorities,
             LoadPendingOrder(s, p, a)
      PROVE CalmInv'
  BY <1>4 DEF LoadPendingOrder, CallbackComes, LinkHandedOut
<1>5. ASSUME NEW s \in Slots, GatewayVerifies(s) PROVE CalmInv'
  <2> DEFINE p == query[s].pending
  <2>1. /\ p \in Checkouts /\ query[s].authority = p
        /\ payment[p] \in {"paid", "captured"}
    BY <1>5 DEF GatewayVerifies
  <2>2. /\ payment' = [payment EXCEPT ![p] = "captured"]
        /\ \E r \in {"100", "101"} : reply' = [reply EXCEPT ![s] = r]
        /\ UNCHANGED <<createPc, rowVars, pc, query>>
    BY <1>5, <2>1 DEF GatewayVerifies
  <2>3. \A c \in Checkouts : RowKept(c)'
    BY <2>1, <2>2
  <2>4. \A t \in Slots : CallbackSound(t)'
    BY <2>1, <2>2
  <2>5. QED
    BY <2>3, <2>4
<1>6. ASSUME NEW s \in Slots, CommitOrder(s) PROVE CalmInv'
  <2> DEFINE p == query[s].pending
  <2>1. p \in Checkouts
    BY <1>6 DEF CommitOrder
  <2>2. CASE /\ p \in pendingOrders
             /\ orders' = [orders EXCEPT ![p] = Append(@, query[s].authority)]
             /\ pendingOrders' = pendingOrders \ {p}
             /\ pc' = [pc EXCEPT ![s] = "succeeded"]
    <3>1. orders' = [orders EXCEPT ![p] = <<query[s].authority>>]
      <4>1. orders[p] = <<>>
        BY <2>2 DEF RowInv
      <4>2. QED
        BY <2>1, <2>2, <4>1
    <3>2. ASSUME NEW c \in Checkouts PROVE RowKept(c)'
      <4>1. CASE c = p
        BY <1>6, <2>1, <3>1, <4>1 DEF CommitOrder
      <4>2. CASE c # p
        BY <1>6, <2>1, <2>2, <3>1, <4>2 DEF CommitOrder
      <4>3. QED
        BY <4>1, <4>2
    <3>3. \A t \in Slots : CallbackSound(t)'
      BY <1>6, <2>2 DEF CommitOrder
    <3>4. QED
      BY <3>2, <3>3
  <2>3. CASE /\ UNCHANGED <<orders, pendingOrders>> /\ p \notin pendingOrders
             /\ pc' = [pc EXCEPT ![s] = "error"]
    BY <1>6, <2>3 DEF CommitOrder
  <2>4. QED
    BY <1>6, <2>2, <2>3 DEF CommitOrder
<1>7. ASSUME NEW s \in Slots, VerifyRequestFails(s) \/ DropDeclined(s) PROVE CalmInv'
  BY <1>7 DEF VerifyRequestFails, DropDeclined, SuccessCodes
<1>8. ASSUME NEW s \in Slots, CatchVerifyError(s) PROVE CalmInv'
  BY <1>8 DEF CatchVerifyError, DeleteIgnoringErrors
<1>9. CASE Crash
  BY <1>9 DEF Crash, Free
<1>10. QED
  BY <1>1, <1>2, <1>3, <1>4, <1>5, <1>6, <1>7, <1>8, <1>9 DEF Next, ServerStep

LEMMA CalmInitially == Init => CalmInv
BY DEF Init, CalmInv, RowKept, CallbackSound

THEOREM PaymentCalm == Spec => [](Calm => CalmInv)
<1>1. Init => (Calm => CalmInv)
  BY CalmInitially
<1>2. IInv /\ (Calm => CalmInv) /\ [Next]_vars => (Calm => CalmInv)'
  BY CalmStep DEF Calm
<1>3. QED
  BY <1>1, <1>2, PaymentInvariant, PTL DEF Spec

\* When only crashes go wrong, a captured payment always has its order, or
\* the pending order that a repeated callback (code 101) turns into one.
THEOREM PaymentCapturedIsKept ==
  ASSUME Calm
  PROVE  Spec => []CapturedIsKept
<1>1. IInv /\ (Calm => CalmInv) => CapturedIsKept
  BY DEF IInv, LinkInv, CalmInv, RowKept, CapturedIsKept
<1>2. QED
  BY <1>1, PaymentInvariant, PaymentCalm, PTL

-----------------------------------------------------------------------------
\* Rows are only inserted by a request that goes on to fail through its
\* cleanup, and the cleanup fails only with the database.
LEMMA FailedCreateStep ==
  ASSUME IInv, FailedCreateLeavesNoRow, [Next]_vars
  PROVE  FailedCreateLeavesNoRow'
<1> USE DEF IInv, TypeOK, RowInv, FailedCreateLeavesNoRow, rowVars, slotVars, CreateStates
<1>1. CASE UNCHANGED vars
  BY <1>1 DEF vars
<1>2. ASSUME NEW c \in Checkouts, CreateStep(c) PROVE FailedCreateLeavesNoRow'
  <2>1. CASE RefuseCreate(c) \/ ReceiveAuthority(c) \/ OpenPayment(c) \/ StoreAuthority(c)
             \/ CreateFails(c)
    BY <2>1 DEF RefuseCreate, ReceiveAuthority, OpenPayment, StoreAuthority, CreateFails
  <2>2. CASE StorePendingOrder(c)
    BY <2>2 DEF StorePendingOrder
  <2>3. CASE CleanupCreate(c)
    BY <2>3 DEF CleanupCreate, DeleteIgnoringErrors
  <2>4. QED
    BY <1>2, <2>1, <2>2, <2>3, Zenon DEF CreateStep
<1>3. ASSUME NEW c \in Checkouts, CustomerStep(c) PROVE FailedCreateLeavesNoRow'
  BY <1>3 DEF CustomerStep, Pay, Abandon, CancelPendingOrder
<1>4. ASSUME NEW s \in Slots, NEW p \in Checkouts, NEW a \in Authorities,
             LoadPendingOrder(s, p, a)
      PROVE FailedCreateLeavesNoRow'
  BY <1>4 DEF LoadPendingOrder
<1>5. ASSUME NEW s \in Slots, GatewayVerifies(s) PROVE FailedCreateLeavesNoRow'
  BY <1>5 DEF GatewayVerifies
<1>6. ASSUME NEW s \in Slots, ServerStep(s) PROVE FailedCreateLeavesNoRow'
  BY <1>6 DEF ServerStep, VerifyRequestFails, CommitOrder, DropDeclined, CatchVerifyError,
              DeleteIgnoringErrors
<1>7. CASE Crash
  BY <1>7, CrashAssumption DEF Crash
<1>8. QED
  BY <1>1, <1>2, <1>3, <1>4, <1>5, <1>6, <1>7, Zenon DEF Next

\* A createPayment that failed left no row, unless the process died or the
\* database failed under its catch block.
THEOREM PaymentFailedCreate == Spec => []FailedCreateLeavesNoRow
<1>1. Init => FailedCreateLeavesNoRow
  BY DEF Init, FailedCreateLeavesNoRow
<1>2. QED
  BY <1>1, FailedCreateStep, PaymentInvariant, PTL DEF Spec

-----------------------------------------------------------------------------
(***************************************************************************)
(* The refinement of PendingOrderContract.  Three facts say which changes  *)
(* of the flow's state are a stutter, a Drop or something else in the      *)
(* contract; every action is an instance of one of them.                   *)
(***************************************************************************)
Placed(c) == createPc[c] \notin {"idle", "refused"}

\* What the contract sees of the other variables does not change.
SamePlaced == \A c \in Checkouts : Placed(c)' <=> Placed(c)
SameCharged == \A c \in Checkouts :
                 (payment'[c] = "captured") <=> (payment[c] = "captured")

LEMMA ContractStutter ==
  ASSUME SamePlaced, SameCharged, UNCHANGED <<orders, pendingOrders>>
  PROVE  UNCHANGED Contract!contractVars
BY DEF SamePlaced, SameCharged, Placed, Contract!contractVars, StatusOf

LEMMA ContractDrop ==
  ASSUME NEW c \in Checkouts, c \in pendingOrders, RowInv,
         Calm => payment[c] # "captured",
         SamePlaced, SameCharged,
         UNCHANGED orders, pendingOrders' = pendingOrders \ {c}
  PROVE  Contract!Drop(c)
<1>1. orders[c] = <<>> /\ Placed(c)
  BY DEF RowInv, Placed
<1>2. StatusOf(c) = "pending" /\ StatusOf(c)' = "dropped"
  BY <1>1 DEF StatusOf, SamePlaced, Placed
<1>3. \A d \in Checkouts \ {c} : StatusOf(d)' = StatusOf(d)
  BY DEF StatusOf, SamePlaced, Placed
<1>4. [d \in Checkouts |-> StatusOf(d)]' =
        [[d \in Checkouts |-> StatusOf(d)] EXCEPT ![c] = "dropped"]
  BY <1>2, <1>3
<1>5. UNCHANGED [d \in Checkouts |-> payment[d] = "captured"]
  BY DEF SameCharged
<1>6. QED
  BY <1>2, <1>4, <1>5 DEF Contract!Drop

\* createPayment places the pending order; its cleanup drops it again.
LEMMA CreateStepRefines ==
  ASSUME IInv, NEW c \in Checkouts, CreateStep(c)
  PROVE  [Contract!Next]_(Contract!contractVars)
<1> USE DEF IInv, TypeOK, CreateStates, PaymentStates, rowVars, slotVars
<1>1. CASE RefuseCreate(c) \/ OpenPayment(c) \/ ReceiveAuthority(c) \/ CreateFails(c)
              \/ StoreAuthority(c)
  <2>1. SamePlaced /\ SameCharged /\ UNCHANGED <<orders, pendingOrders>>
    BY <1>1 DEF RefuseCreate, OpenPayment, ReceiveAuthority, CreateFails, StoreAuthority,
                SamePlaced, SameCharged, Placed
  <2>2. QED
    BY <2>1, ContractStutter
<1>2. CASE StorePendingOrder(c)
  <2>1. orders[c] = <<>> /\ c \notin pendingOrders
    BY <1>2 DEF StorePendingOrder, RowInv, LinkInv, OrderInv
  <2>2. StatusOf(c) = "none" /\ StatusOf(c)' = "pending"
    BY <1>2, <2>1 DEF StorePendingOrder, StatusOf
  <2>3. \A d \in Checkouts \ {c} : StatusOf(d)' = StatusOf(d)
    BY <1>2 DEF StorePendingOrder, StatusOf
  <2>4. [d \in Checkouts |-> StatusOf(d)]' =
          [[d \in Checkouts |-> StatusOf(d)] EXCEPT ![c] = "pending"]
    BY <2>2, <2>3
  <2>5. UNCHANGED [d \in Checkouts |-> payment[d] = "captured"]
    BY <1>2 DEF StorePendingOrder
  <2>6. QED
    BY <2>2, <2>4, <2>5 DEF Contract!Place, Contract!Next
<1>3. CASE CleanupCreate(c)
  <2>1. SamePlaced /\ SameCharged /\ UNCHANGED orders /\ payment[c] # "captured"
    BY <1>3 DEF CleanupCreate, SamePlaced, SameCharged, Placed, LinkInv
  <2>2. CASE pendingOrders' = pendingOrders
    BY <2>1, <2>2, ContractStutter
  <2>3. CASE c \in pendingOrders /\ pendingOrders' = pendingOrders \ {c}
    BY <2>1, <2>3, ContractDrop DEF Contract!Next
  <2>4. QED
    BY <1>3, <2>2, <2>3 DEF CleanupCreate, DeleteIgnoringErrors
<1>4. QED
  BY <1>1, <1>2, <1>3, Zenon DEF CreateStep

\* A cancellation drops the row; paying changes nothing of the contract.
LEMMA CustomerStepRefines ==
  ASSUME IInv, NEW c \in Checkouts, CustomerStep(c)
  PROVE  [Contract!Next]_(Contract!contractVars)
<1> USE DEF IInv, TypeOK, CreateStates, PaymentStates, rowVars, slotVars
<1>1. CASE Pay(c) \/ Abandon(c)
  <2>1. SamePlaced /\ SameCharged /\ UNCHANGED <<orders, pendingOrders>>
    BY <1>1 DEF Pay, Abandon, SamePlaced, SameCharged, Placed
  <2>2. QED
    BY <2>1, ContractStutter
<1>2. CASE CancelPendingOrder(c)
  <2>1. SamePlaced /\ SameCharged /\ UNCHANGED orders
    BY <1>2 DEF CancelPendingOrder, SamePlaced, SameCharged, Placed
  <2>2. Calm => payment[c] # "captured"
    BY <1>2 DEF CancelPendingOrder, Calm
  <2>3. QED
    BY <1>2, <2>1, <2>2, ContractDrop DEF CancelPendingOrder, Contract!Next
<1>3. QED
  BY <1>1, <1>2, Zenon DEF CustomerStep

\* The capture of a payment charges a checkout that has no order yet, and
\* in the calm case one that was not dropped.
LEMMA GatewayRefines ==
  ASSUME IInv, Calm => CalmInv, NEW s \in Slots, GatewayVerifies(s)
  PROVE  [Contract!Next]_(Contract!contractVars)
<1> USE DEF IInv, TypeOK, rowVars, slotVars
<1> DEFINE p == query[s].pending
<1>1. p \in Checkouts /\ query[s].authority = p /\ createPc[p] = "done"
  BY DEF GatewayVerifies, QueryInv, VerifyInv
<1>2. CASE payment[p] = "paid" /\ payment' = [payment EXCEPT ![p] = "captured"]
  <2>1. /\ UNCHANGED [c \in Checkouts |-> StatusOf(c)]
        /\ [c \in Checkouts |-> payment[c] = "captured"]' =
             [[c \in Checkouts |-> payment[c] = "captured"] EXCEPT ![p] = TRUE]
    BY <1>1, <1>2 DEF GatewayVerifies, StatusOf
  <2>2. StatusOf(p) \in {"pending", "dropped"}
    BY <1>1, <1>2 DEF StatusOf, OrderInv
  <2>3. StatusOf(p) = "dropped" => ~Calm
    BY <1>1, <1>2, NoneAssumption DEF StatusOf, OrderInv, CalmInv, RowKept
  <2>4. QED
    BY <1>1, <1>2, <2>1, <2>2, <2>3 DEF Contract!Charge, Contract!Next
<1>3. CASE UNCHANGED payment
  <2>1. SamePlaced /\ SameCharged /\ UNCHANGED <<orders, pendingOrders>>
    BY <1>3 DEF GatewayVerifies, SamePlaced, SameCharged, Placed
  <2>2. QED
    BY <2>1, ContractStutter
<1>4. QED
  BY <1>1, <1>2, <1>3, NoneAssumption DEF GatewayVerifies

\* A verified callback fulfils the checkout; a declined or failed one drops
\* it, which in the calm case happens to no checkout whose row is present.
LEMMA ServerStepRefines ==
  ASSUME IInv, Calm => CalmInv, NEW s \in Slots, ServerStep(s)
  PROVE  [Contract!Next]_(Contract!contractVars)
<1> USE DEF IInv, TypeOK, rowVars, slotVars
<1> DEFINE p == query[s].pending
<1>1. p \in Checkouts
  BY DEF ServerStep, VerifyRequestFails, CommitOrder, DropDeclined, CatchVerifyError, QueryInv
<1>2. CASE VerifyRequestFails(s)
  BY <1>2, ContractStutter DEF VerifyRequestFails, SamePlaced, SameCharged, Placed
<1>3. CASE CommitOrder(s)
  <2>1. SamePlaced /\ SameCharged
    BY <1>3 DEF CommitOrder, SamePlaced, SameCharged, Placed
  <2>2. CASE UNCHANGED <<orders, pendingOrders>>
    BY <2>1, <2>2, ContractStutter
  <2>3. CASE /\ p \in pendingOrders
             /\ orders' = [orders EXCEPT ![p] = Append(@, query[s].authority)]
             /\ pendingOrders' = pendingOrders \ {p}
    <3>1. query[s].authority = p /\ payment[p] = "captured" /\ orders[p] = <<>>
      BY <1>3, <2>3 DEF CommitOrder, VerifyInv, RowInv
    <3>2. orders' = [orders EXCEPT ![p] = <<p>>]
      BY <1>1, <2>3, <3>1
    <3>3. ASSUME NEW d \in Checkouts, d = p
          PROVE  StatusOf(d) = "pending" /\ StatusOf(d)' = "ordered"
      BY <2>3, <3>1, <3>2, <3>3 DEF StatusOf
    <3>4. \A d \in Checkouts \ {p} : StatusOf(d)' = StatusOf(d)
      BY <2>1, <2>3, <3>2 DEF StatusOf, SamePlaced, Placed
    <3>5. [d \in Checkouts |-> StatusOf(d)]' =
            [[d \in Checkouts |-> StatusOf(d)] EXCEPT ![p] = "ordered"]
      BY <1>1, <3>3, <3>4
    <3>6. UNCHANGED [d \in Checkouts |-> payment[d] = "captured"]
      BY <2>1 DEF SameCharged
    <3>7. QED
      BY <1>1, <3>1, <3>3, <3>5, <3>6 DEF Contract!Fulfil, Contract!Next
  <2>4. QED
    BY <1>3, <2>2, <2>3 DEF CommitOrder
<1>4. CASE DropDeclined(s)
  <2>1. SamePlaced /\ SameCharged /\ UNCHANGED orders
    BY <1>4 DEF DropDeclined, SamePlaced, SameCharged, Placed
  <2>2. ~Calm
    BY <1>4 DEF DropDeclined, CalmInv, CallbackSound, SuccessCodes
  <2>3. CASE p \in pendingOrders /\ pendingOrders' = pendingOrders \ {p}
    BY <1>1, <2>1, <2>2, <2>3, ContractDrop DEF Contract!Next
  <2>4. CASE UNCHANGED pendingOrders
    BY <2>1, <2>4, ContractStutter
  <2>5. QED
    BY <1>4, <2>3, <2>4 DEF DropDeclined
<1>5. CASE CatchVerifyError(s)
  <2>1. SamePlaced /\ SameCharged /\ UNCHANGED orders
    BY <1>5 DEF CatchVerifyError, SamePlaced, SameCharged, Placed
  <2>2. CASE p \in pendingOrders /\ pendingOrders' = pendingOrders \ {p}
    <3>1. ~Calm
      BY <1>5, <2>2 DEF CatchVerifyError, CalmInv, CallbackSound
    <3>2. QED
      BY <1>1, <2>1, <2>2, <3>1, ContractDrop DEF Contract!Next
  <2>3. CASE UNCHANGED pendingOrders
    BY <2>1, <2>3, ContractStutter
  <2>4. QED
    BY ZenonT(40), <1>5, <2>2, <2>3 DEF CatchVerifyError, DeleteIgnoringErrors
<1>6. QED
  BY <1>2, <1>3, <1>4, <1>5, Zenon DEF ServerStep

LEMMA StepRefines ==
  IInv /\ (Calm => CalmInv) /\ [Next]_vars => [Contract!Next]_(Contract!contractVars)
<1> SUFFICES ASSUME IInv, Calm => CalmInv, [Next]_vars
             PROVE  [Contract!Next]_(Contract!contractVars)
  OBVIOUS
<1>1. CASE UNCHANGED vars
  BY <1>1, ContractStutter DEF vars, rowVars, SamePlaced, SameCharged, Placed
<1>2. ASSUME NEW s \in Slots, NEW p \in Checkouts, NEW a \in Authorities,
             LoadPendingOrder(s, p, a)
      PROVE  UNCHANGED Contract!contractVars
  BY <1>2, ContractStutter DEF LoadPendingOrder, rowVars, SamePlaced, SameCharged, Placed
<1>3. CASE Crash
  <2>1. SamePlaced /\ SameCharged /\ UNCHANGED <<orders, pendingOrders>>
    BY <1>3 DEF Crash, rowVars, IInv, TypeOK, SamePlaced, SameCharged, Placed
  <2>2. QED
    BY <2>1, ContractStutter
<1>4. QED
  BY <1>1, <1>2, <1>3, CreateStepRefines, CustomerStepRefines, GatewayRefines,
     ServerStepRefines DEF Next

\* The payment flow implements the contract of a pending order: a charged
\* checkout is fulfilled at most once, nothing comes back after it was
\* dropped, and when only crashes go wrong no charged checkout is dropped.
THEOREM PaymentImplementsContract == Spec => ImplementsContract
<1>1. Init => Contract!Init
  BY DEF Init, Contract!Init, StatusOf
<1>2. QED
  BY <1>1, StepRefines, PaymentInvariant, PaymentCalm, PTL
     DEF Spec, ImplementsContract, Contract!Spec
=============================================================================
