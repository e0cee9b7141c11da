----------------------------- MODULE OrderHistory -----------------------------
(***************************************************************************)
(* Orders and the products they name: POST /orders of orders.repository.ts *)
(* with its sold counters, the pending orders of payment.service.ts, and   *)
(* the removal of products of products.repository.ts, all on one database. *)
(* OrderItem refers to Product by a foreign key, PendingOrderItem does     *)
(* not.  A line of an order is a product, ordered once.                    *)
(***************************************************************************)
EXTENDS Integers, FiniteSets

CONSTANTS
  Products,
  Requests,   \* order requests, COD or online
  Admins,     \* removal requests
  None,
  Faults,     \* subset of {"dbError", "crash"}
  MaxCrashes  \* bound on crashes of the process

ASSUME NoneAssumption == None \notin Products
ASSUME RequestsAssumption == IsFiniteSet(Requests)
ASSUME FaultsAssumption == Faults \subseteq {"dbError", "crash"}
ASSUME CrashAssumption == MaxCrashes \in Nat

VARIABLES
  products,   \* the Product rows
  active,     \* those with isActive
  soldCount,  \* column Product.soldCount
  pc,         \* progress of each order request
  items,      \* the products it orders
  uncounted,  \* its soldCount updates in flight
  orders,     \* the requests with an Order row
  pending,    \* the requests with a PendingOrder row
  captured,   \* the requests whose payment the gateway captured
  adminPc, target, \* progress of each removal, and the product it is of
  crashes

productVars == <<products, active>>
countVars == <<soldCount, uncounted>>
rowVars == <<orders, pending>>
adminVars == <<adminPc, target>>
vars == <<productVars, countVars, pc, items, rowVars, captured, adminVars, crashes>>

Init ==
  /\ products \in SUBSET Products
  /\ active = products
  /\ soldCount = [p \in Products |-> 0]
  /\ pc = [r \in Requests |-> "idle"]
  /\ items = [r \in Requests |-> {}]
  /\ uncounted = [r \in Requests |-> {}]
  /\ orders = {}
  /\ pending = {}
  /\ captured = {}
  /\ adminPc = [a \in Admins |-> "idle"]
  /\ target = [a \in Admins |-> None]
  /\ crashes = 0

\* An order with these lines passes the foreign key of OrderItem.
Insertable(lines) == lines \subseteq products
HasHistory(p) == \E r \in orders : p \in items[r]

-----------------------------------------------------------------------------
(* POST /orders *)

\* The order and its items are inserted, and an update of soldCount is
\* started for each item; a product that does not exist is a BadRequest.
PlaceCod(r, lines) ==
  /\ pc[r] = "idle"
  /\ items' = [items EXCEPT ![r] = lines]
  /\ IF Insertable(lines)
       THEN /\ pc' = [pc EXCEPT ![r] = "counting"]
            /\ orders' = orders \cup {r}
            /\ uncounted' = [uncounted EXCEPT ![r] = lines]
       ELSE /\ pc' = [pc EXCEPT ![r] = "failed"]
            /\ UNCHANGED <<orders, uncounted>>
  /\ UNCHANGED <<productVars, soldCount, pending, captured, adminVars, crashes>>

\* Mutant: the update stores the quantity instead of incrementing.
CountLineAbsolute(r, p) ==
  /\ p \in uncounted[r] /\ p \in products
  /\ uncounted' = [uncounted EXCEPT ![r] = @ \ {p}]
  /\ soldCount' = [soldCount EXCEPT ![p] = 1]
  /\ UNCHANGED <<productVars, pc, items, rowVars, captured, adminVars, crashes>>

\* One of the updates of Promise.all increments its counter; when the row is
\* missing it throws, which fails the request but not the other updates.
CountLine(r, p) ==
  /\ p \in uncounted[r]
  /\ uncounted' = [uncounted EXCEPT ![r] = @ \ {p}]
  /\ \/ /\ p \in products
        /\ soldCount' = [soldCount EXCEPT ![p] = @ + 1]
        /\ UNCHANGED pc
     \/ /\ p \notin products \/ "dbError" \in Faults
        /\ pc' = [pc EXCEPT ![r] = "failed"]
        /\ UNCHANGED soldCount
  /\ UNCHANGED <<productVars, items, rowVars, captured, adminVars, crashes>>

AnswerCod(r) ==
  /\ pc[r] = "counting" /\ uncounted[r] = {}
  /\ pc' = [pc EXCEPT ![r] = "done"]
  /\ UNCHANGED <<productVars, countVars, items, rowVars, captured, adminVars, crashes>>

-----------------------------------------------------------------------------
(* An online order, as far as products matter *)

\* createPayment stores the items without looking at the products.
PlaceOnline(r, lines) ==
  /\ pc[r] = "idle"
  /\ pc' = [pc EXCEPT ![r] = "pending"]
  /\ items' = [items EXCEPT ![r] = lines]
  /\ pending' = pending \cup {r}
  /\ UNCHANGED <<productVars, countVars, orders, captured, adminVars, crashes>>

\* verify.json answers 100 or 101: the gateway has captured the payment.
VerifyOnline(r) ==
  /\ pc[r] = "pending"
  /\ pc' = [pc EXCEPT ![r] = "verified"]
  /\ captured' = captured \cup {r}
  /\ UNCHANGED <<productVars, countVars, items, rowVars, adminVars, crashes>>

\* The transaction inserts the order and deletes the pending one; when the
\* insert fails, the catch block deletes the pending order, if it can.
CommitOnline(r) ==
  /\ pc[r] = "verified"
  /\ \/ /\ Insertable(items[r])
        /\ orders' = orders \cup {r}
        /\ pending' = pending \ {r}
        /\ pc' = [pc EXCEPT ![r] = "done"]
     \/ /\ ~Insertable(items[r]) \/ "dbError" \in Faults
        /\ pending' = pending \ {r}
        /\ pc' = [pc EXCEPT ![r] = "failed"]
        /\ UNCHANGED orders
     \/ /\ "dbError" \in Faults
        /\ pc' = [pc EXCEPT ![r] = "pending"]
        /\ UNCHANGED <<orders, pending>>
  /\ UNCHANGED <<productVars, countVars, items, captured, adminVars, crashes>>

-----------------------------------------------------------------------------
(* DELETE /products/:id *)

AdminGoto(a, label) == adminPc' = [adminPc EXCEPT ![a] = label]

\* The removal counts the order items of the product, once.
CountHistory(a, p) ==
  /\ adminPc[a] = "idle"
  /\ target' = [target EXCEPT ![a] = p]
  /\ AdminGoto(a, IF HasHistory(p) THEN "hiding" ELSE "deleting")
  /\ UNCHANGED <<productVars, countVars, pc, items, rowVars, captured, crashes>>

\* With history the product is only marked inactive.
HideProduct(a) ==
  /\ adminPc[a] = "hiding"
  /\ target[a] \in products
  /\ active' = active \ {target[a]}
  /\ AdminGoto(a, "removed")
  /\ UNCHANGED <<products, countVars, pc, items, rowVars, captured, target, crashes>>

\* Mutant: the items of the product's orders go with it (onDelete: Cascade).
DeleteCascading(a) ==
  /\ adminPc[a] = "deleting"
  /\ products' = products \ {target[a]}
  /\ active' = active \ {target[a]}
  /\ AdminGoto(a, "removed")
  /\ UNCHANGED <<countVars, pc, items, rowVars, captured, target, crashes>>

\* Without history the images and the product are deleted in a transaction,
\* which the foreign key of an order item inserted meanwhile rolls back.
DeleteProduct(a) ==
  /\ adminPc[a] = "deleting"
  /\ \/ /\ target[a] \in products /\ ~HasHistory(target[a])
        /\ products' = products \ {target[a]}
        /\ active' = active \ {target[a]}
        /\ AdminGoto(a, "removed")
     \/ /\ target[a] \notin products \/ HasHistory(target[a]) \/ "dbError" \in Faults
        /\ AdminGoto(a, "failed")
        /\ UNCHANGED productVars
  /\ UNCHANGED <<countVars, pc, items, rowVars, captured, target, crashes>>

-----------------------------------------------------------------------------
\* The process dies: updates in flight are lost, a repeated callback finds
\* the pending order of a verified payment again.
Crash ==
  /\ "crash" \in Faults /\ crashes < MaxCrashes
  /\ crashes' = crashes + 1
  /\ pc' = [r \in Requests |->
       CASE pc[r] = "counting" -> "failed"
         [] pc[r] = "verified" -> "pending"
         [] OTHER -> pc[r]]
  /\ uncounted' = [r \in Requests |-> {}]
  /\ adminPc' = [a \in Admins |->
       IF adminPc[a] \in {"hiding", "deleting"} THEN "failed" ELSE adminPc[a]]
  /\ UNCHANGED <<productVars, soldCount, items, rowVars, captured, target>>

Next ==
  \/ \E r \in Requests, lines \in SUBSET Products \ {{}} :
       PlaceCod(r, lines) \/ PlaceOnline(r, lines)
  \/ \E r \in Requests, p \in Products : CountLine(r, p)
  \/ \E r \in Requests : AnswerCod(r) \/ VerifyOnline(r) \/ CommitOnline(r)
  \/ \E a \in Admins, p \in Products : CountHistory(a, p)
  \/ \E a \in Admins : HideProduct(a) \/ DeleteProduct(a)
  \/ Crash

Spec == Init /\ [][Next]_vars

-----------------------------------------------------------------------------
(* Properties *)

TypeOK ==
  /\ products \subseteq Products /\ active \subseteq products
  /\ soldCount \in [Products -> Nat]
  /\ pc \in [Requests -> {"idle", "counting", "pending", "verified", "done", "failed"}]
  /\ items \in [Requests -> SUBSET Products]
  /\ uncounted \in [Requests -> SUBSET Products]
  /\ orders \subseteq Requests /\ pending \subseteq Requests
  /\ captured \subseteq Requests
  /\ adminPc \in [Admins -> {"idle", "hiding", "deleting", "removed", "failed"}]
  /\ target \in [Admins -> Products \cup {None}]
  /\ crashes \in 0..MaxCrashes

\* "The order history must remain intact": however removals and orders
\* race, no product named by an order is ever deleted.
HistoryIntact == \A r \in orders : items[r] \subseteq products

Ordered(p) == {r \in orders \ captured : p \in items[r]}
InFlight(p) == {r \in Requests : p \in uncounted[r]}

\* Whatever fails, no product is counted as sold more often than COD orders
\* name it.
SoldCountBacked ==
  \A p \in Products :
    soldCount[p] + Cardinality(InFlight(p)) <= Cardinality(Ordered(p))

\* Concurrent orders lose no increment: unless one of the COD orders that
\* name a product failed half-way, its counter and the updates in flight
\* account for all of them.
SoldCountExact ==
  \A p \in Products :
    (\A r \in Ordered(p) : pc[r] # "failed") =>
      soldCount[p] + Cardinality(InFlight(p)) = Cardinality(Ordered(p))

\* The counters of the products agree with the COD orders.
SoldCountAgrees == SoldCountBacked /\ SoldCountExact

\* A captured payment has its pending order or its order, although products
\* are removed meanwhile.
CapturedIsKept == \A r \in captured : r \in orders \cup pending
=============================================================================
