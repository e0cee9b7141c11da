------------------------------- MODULE Banners -------------------------------
(***************************************************************************)
(* The order of the banners (banners.repository).  Creating, swapping and  *)
(* reordering are transactions at Postgres' Read Committed: a statement    *)
(* sees the rows committed when it starts and waits for the rows others    *)
(* are writing, so what a transaction read may have changed at its commit. *)
(***************************************************************************)
EXTENDS Integers, Sequences, FiniteSets

CONSTANTS
  Banners,
  Requests,
  None,
  HandOrders, \* orders given by hand
  MaxOrder    \* bound on the orders

VARIABLES
  order,     \* of each Banner row, None for no row
  pc,
  args,      \* the banners a request is about
  seen,      \* their orders as it read them; all rows for a create
  shuffled   \* history: orders may tie, see Commit

vars == <<order, pc, args, seen, shuffled>>

NoOrders == [b \in Banners |-> None]
Rows == {b \in Banners : order[b] # None}

IndexIn(b, ids) == CHOOSE i \in DOMAIN ids : ids[i] = b
Lists == {ids \in UNION {[1..n -> Banners] : n \in 0..Cardinality(Banners)} :
            \A i, j \in DOMAIN ids : ids[i] = ids[j] => i = j}
Listed(ids) == {ids[i] : i \in DOMAIN ids}

\* Some banners in order.
Init ==
  /\ \E ids \in Lists :
       order = [b \in Banners |-> IF b \in Listed(ids) THEN IndexIn(b, ids) - 1 ELSE None]
  /\ pc = [r \in Requests |-> "idle"]
  /\ args = [r \in Requests |-> <<>>]
  /\ seen = [r \in Requests |-> NoOrders]
  /\ shuffled = FALSE

\* A transaction starts; its first statement sees the rows as they are.
Begin(r, transaction, banners) ==
  /\ pc[r] = "idle"
  /\ pc' = [pc EXCEPT ![r] = transaction]
  /\ args' = [args EXCEPT ![r] = banners]
  /\ seen' = [seen EXCEPT ![r] = order]
  /\ UNCHANGED <<order, shuffled>>

\* A new banner, once its image is uploaded.
BeginCreate(r, b) == order[b] = None /\ (\A q \in Requests : args[q] # <<b>>) /\ Begin(r, "create", <<b>>)

\* Both banners are read, one after the other.
BeginSwap(r, a, b) == a # b /\ {a, b} \subseteq Rows /\ Begin(r, "swapSecond", <<a, b>>)

ReadSecond(r) ==
  LET b == args[r][2] IN
  /\ pc[r] = "swapSecond"
  /\ seen' = [seen EXCEPT ![r][b] = order[b]]
  /\ pc' = [pc EXCEPT ![r] = IF b \in Rows THEN "swap" ELSE "failed"]
  /\ UNCHANGED <<order, args, shuffled>>

\* The ids are those of a list the client got earlier.
BeginReorder(r, ids) == Begin(r, "reorder", ids)

\* A transaction commits; the orders tie afterwards if "ties".
Commit(r, orders, ties) ==
  /\ order' = orders
  /\ pc' = [pc EXCEPT ![r] = "done"]
  /\ shuffled' = ties
  /\ UNCHANGED <<args, seen>>

Fail(r) ==
  /\ pc' = [pc EXCEPT ![r] = "failed"]
  /\ UNCHANGED <<order, args, seen, shuffled>>

\* Mutant: the other banners are not shifted.
CreateUnshifted(r, n) ==
  LET b == args[r][1] IN
  /\ pc[r] = "create"
  /\ Commit(r, [order EXCEPT ![b] = n], shuffled \/ n # 0 \/ \E x \in Rows : seen[r][x] = None)

\* The rows the updateMany saw when it started are incremented, and the new
\* one has order 0 unless another was given.
CommitCreate(r, n) ==
  LET b == args[r][1] IN
  /\ pc[r] = "create"
  /\ \A x \in Rows : order[x] < MaxOrder
  /\ Commit(r, [x \in Banners |-> CASE x = b -> n
                                     [] x \in Rows \ {b} /\ seen[r][x] # None -> order[x] + 1
                                     [] OTHER -> order[x]],
            shuffled \/ n # 0 \/ \E x \in Rows : seen[r][x] = None)

\* Each gets the order the other had when it was read.
CommitSwap(r) ==
  LET a == args[r][1]
      b == args[r][2] IN
  /\ pc[r] = "swap"
  /\ IF {a, b} \subseteq Rows
       THEN Commit(r, [order EXCEPT ![a] = seen[r][b], ![b] = seen[r][a]],
                   shuffled \/ {order[a], order[b]} # {seen[r][a], seen[r][b]})
       ELSE Fail(r)

\* Every listed banner gets its place in the list; a list of all of them
\* undoes any ties, a list of some makes new ones.
CommitReorder(r) ==
  LET ids == args[r] IN
  /\ pc[r] = "reorder"
  /\ IF Listed(ids) \subseteq Rows
       THEN Commit(r, [b \in Banners |-> IF b \in Listed(ids) THEN IndexIn(b, ids) - 1 ELSE order[b]],
                   IF Rows = Listed(ids) THEN FALSE ELSE ids # <<>> \/ shuffled)
       ELSE Fail(r)

\* One statement each: PATCH /banners/:id with an order, and DELETE.
UpdateOrder(r, b, n) ==
  /\ pc[r] = "idle" /\ b \in Rows
  /\ Commit(r, [order EXCEPT ![b] = n], TRUE)

Remove(r, b) ==
  /\ pc[r] = "idle" /\ b \in Rows
  /\ order' = [order EXCEPT ![b] = None]
  /\ pc' = [pc EXCEPT ![r] = "done"]
  /\ UNCHANGED <<args, seen, shuffled>>

Next ==
  \E r \in Requests :
    \/ \E b \in Banners : BeginCreate(r, b) \/ Remove(r, b)
    \/ \E a, b \in Banners : BeginSwap(r, a, b)
    \/ \E ids \in Lists : BeginReorder(r, ids)
    \/ \E b \in Banners, n \in HandOrders : UpdateOrder(r, b, n)
    \/ \E n \in HandOrders \cup {0} : CommitCreate(r, n)
    \/ ReadSecond(r) \/ CommitSwap(r) \/ CommitReorder(r)

Spec == Init /\ [][Next]_vars

-----------------------------------------------------------------------------
(* Properties *)

\* The list of banners has one order: no two have the same, unless one was
\* given by hand, only some were reordered, a create did not see the banner of
\* another one, or a swap read orders that have changed since; and reordering all
\* of them makes the orders differ again, whatever overtakes it.
OrdersDiffer ==
  ~shuffled => \A a, b \in Rows : order[a] = order[b] => a = b
=============================================================================
