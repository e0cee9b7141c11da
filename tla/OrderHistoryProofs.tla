-------------------------- MODULE OrderHistoryProofs --------------------------
(***************************************************************************)
(* Proofs about OrderHistory, and about the parts beside it in its run:    *)
(* no removal of a product breaks the history of the orders, no fault lets *)
(* a sold counter exceed the COD orders, clients show the status of their  *)
(* orders, reports agree, and prices are of one pair of settings and add   *)
(* up.  Each part has its inductive invariant and, last, its theorem.      *)
(***************************************************************************)
EXTENDS MCOrderHistory, FiniteSetTheorems, TLAPS

\* A request that has not started has left nothing behind, and one that
\* waits for its payment has no order; updates in flight are those of lines
\* of a COD order.
StageInv ==
  \A r \in Requests :
    /\ pc[r] = "idle" => r \notin orders /\ r \notin captured /\ uncounted[r] = {}
    /\ pc[r] = "pending" => r \notin orders /\ uncounted[r] = {}
    /\ pc[r] = "verified" => r \notin orders /\ uncounted[r] = {} /\ r \in captured
    /\ uncounted[r] # {} =>
         /\ r \in orders \ captured /\ pc[r] \in {"counting", "failed"}
         /\ uncounted[r] \subseteq items[r]

IInv == TypeOK /\ StageInv /\ HistoryIntact /\ SoldCountBacked /\ SoldCountExact

\* The requests whose update of p is in flight, and the COD orders of p, are
\* finitely many.
LEMMA CountedAreFinite ==
  ASSUME TypeOK, NEW p \in Products
  PROVE  /\ IsFiniteSet(InFlight(p)) /\ Cardinality(InFlight(p)) \in Nat
         /\ IsFiniteSet(Ordered(p)) /\ Cardinality(Ordered(p)) \in Nat
         /\ soldCount[p] \in Nat
<1>1. InFlight(p) \subseteq Requests /\ Ordered(p) \subseteq Requests
  BY DEF InFlight, Ordered, TypeOK
<1> QED BY <1>1, RequestsAssumption, FS_Subset, FS_CardinalityType DEF TypeOK

\* The initial states satisfy the inductive invariant.
LEMMA InitIInv == Init => IInv
<1> SUFFICES ASSUME Init PROVE IInv
  OBVIOUS
<1>1. TypeOK
  BY NoneAssumption, CrashAssumption DEF Init, TypeOK
<1>2. StageInv /\ HistoryIntact
  BY DEF Init, StageInv, HistoryIntact
<1>3. SoldCountBacked /\ SoldCountExact
  <2> SUFFICES ASSUME NEW p \in Products
               PROVE soldCount[p] + Cardinality(InFlight(p)) = Cardinality(Ordered(p))
    <3>1. \A p \in Products : Cardinality(Ordered(p)) \in Nat
      BY <1>1, CountedAreFinite
    <3> QED BY <3>1 DEF SoldCountBacked, SoldCountExact
  <2>1. InFlight(p) = {} /\ Ordered(p) = {}
    BY DEF Init, InFlight, Ordered
  <2> QED BY <2>1, FS_EmptySet DEF Init
<1> QED BY <1>1, <1>2, <1>3 DEF IInv

\* Every step preserves the types.
LEMMA TypeStep == TypeOK /\ [Next]_vars => TypeOK'
<1> SUFFICES ASSUME TypeOK, [Next]_vars PROVE TypeOK'
  OBVIOUS
<1> USE DEF TypeOK
<1>1. ASSUME NEW r \in Requests, NEW lines \in SUBSET Products \ {{}}, PlaceCod(r, lines)
      PROVE TypeOK'
  BY <1>1 DEF PlaceCod, productVars, adminVars
<1>2. ASSUME NEW r \in Requests, NEW lines \in SUBSET Products \ {{}}, PlaceOnline(r, lines)
      PROVE TypeOK'
  BY <1>2 DEF PlaceOnline, productVars, countVars, adminVars
<1>3. ASSUME NEW r \in Requests, NEW p \in Products, CountLine(r, p)
      PROVE TypeOK'
  BY <1>3 DEF CountLine, productVars, rowVars, adminVars
<1>4. ASSUME NEW r \in Requests, AnswerCod(r) PROVE TypeOK'
  BY <1>4 DEF AnswerCod, productVars, countVars, rowVars, adminVars
<1>5. ASSUME NEW r \in Requests, VerifyOnline(r) PROVE TypeOK'
  BY <1>5 DEF VerifyOnline, productVars, countVars, rowVars, adminVars
<1>6. ASSUME NEW r \in Requests, CommitOnline(r) PROVE TypeOK'
  BY <1>6 DEF CommitOnline, productVars, countVars, rowVars, adminVars
<1>7. ASSUME NEW a \in Admins, NEW p \in Products, CountHistory(a, p) PROVE TypeOK'
  BY <1>7 DEF CountHistory, AdminGoto, productVars, countVars, rowVars
<1>8. ASSUME NEW a \in Admins, HideProduct(a) PROVE TypeOK'
  BY <1>8 DEF HideProduct, AdminGoto, countVars, rowVars
<1>9. ASSUME NEW a \in Admins, DeleteProduct(a) PROVE TypeOK'
  BY <1>9 DEF DeleteProduct, AdminGoto, productVars, countVars, rowVars
<1>10. ASSUME Crash PROVE TypeOK'
  BY <1>10, CrashAssumption DEF Crash, productVars, rowVars
<1>11. ASSUME UNCHANGED vars PROVE TypeOK'
  BY <1>11 DEF vars, productVars, countVars, rowVars, adminVars
<1> QED
  BY <1>1, <1>2, <1>3, <1>4, <1>5, <1>6, <1>7, <1>8, <1>9, <1>10, <1>11
     DEF Next

\* Every step keeps requests to their stages.
LEMMA StageStep == TypeOK /\ StageInv /\ [Next]_vars => StageInv'
<1> SUFFICES ASSUME TypeOK, StageInv, [Next]_vars PROVE StageInv'
  OBVIOUS
<1> USE DEF TypeOK, StageInv
<1>1. ASSUME NEW r \in Requests, NEW lines \in SUBSET Products \ {{}}, PlaceCod(r, lines)
      PROVE StageInv'
  BY <1>1 DEF PlaceCod, productVars, adminVars
<1>2. ASSUME NEW r \in Requests, NEW lines \in SUBSET Products \ {{}}, PlaceOnline(r, lines)
      PROVE StageInv'
  BY <1>2 DEF PlaceOnline, productVars, countVars, adminVars
<1>3. ASSUME NEW r \in Requests, NEW p \in Products, CountLine(r, p)
      PROVE StageInv'
  BY <1>3 DEF CountLine, productVars, rowVars, adminVars
<1>4. ASSUME NEW r \in Requests, AnswerCod(r) PROVE StageInv'
  BY <1>4 DEF AnswerCod, productVars, countVars, rowVars, adminVars
<1>5. ASSUME NEW r \in Requests, VerifyOnline(r) PROVE StageInv'
  BY <1>5 DEF VerifyOnline, productVars, countVars, rowVars, adminVars
<1>6. ASSUME NEW r \in Requests, CommitOnline(r) PROVE StageInv'
  BY <1>6 DEF CommitOnline, productVars, countVars, rowVars, adminVars
<1>7. ASSUME NEW a \in Admins, NEW p \in Products, CountHistory(a, p) PROVE StageInv'
  BY <1>7 DEF CountHistory, AdminGoto, productVars, countVars, rowVars
<1>8. ASSUME NEW a \in Admins, HideProduct(a) PROVE StageInv'
  BY <1>8 DEF HideProduct, AdminGoto, countVars, rowVars
<1>9. ASSUME NEW a \in Admins, DeleteProduct(a) PROVE StageInv'
  BY <1>9 DEF DeleteProduct, AdminGoto, productVars, countVars, rowVars
<1>10. ASSUME Crash PROVE StageInv'
  BY <1>10 DEF Crash, productVars, rowVars
<1>11. ASSUME UNCHANGED vars PROVE StageInv'
  BY <1>11 DEF vars, productVars, countVars, rowVars, adminVars
<1> QED
  BY <1>1, <1>2, <1>3, <1>4, <1>5, <1>6, <1>7, <1>8, <1>9, <1>10, <1>11
     DEF Next

-----------------------------------------------------------------------------
\* The orders' products survive every step.  Only an insert adds lines to the
\* history, and it passes the foreign key; only DeleteProduct removes a
\* product, and the foreign key makes it look at the orders again.
LEMMA HistoryStep ==
  TypeOK /\ StageInv /\ HistoryIntact /\ [Next]_vars => HistoryIntact'
<1> SUFFICES ASSUME TypeOK, StageInv, HistoryIntact, [Next]_vars PROVE HistoryIntact'
  OBVIOUS
<1> USE DEF HistoryIntact
<1>1. ASSUME NEW r \in Requests, NEW lines \in SUBSET Products \ {{}}, PlaceCod(r, lines)
      PROVE HistoryIntact'
  BY <1>1 DEF PlaceCod, Insertable, productVars, TypeOK, StageInv
<1>2. ASSUME NEW r \in Requests, NEW lines \in SUBSET Products \ {{}}, PlaceOnline(r, lines)
      PROVE HistoryIntact'
  BY <1>2 DEF PlaceOnline, productVars, TypeOK, StageInv
<1>3. ASSUME NEW r \in Requests, CommitOnline(r) PROVE HistoryIntact'
  BY <1>3 DEF CommitOnline, Insertable, productVars
<1>4. ASSUME NEW a \in Admins, DeleteProduct(a) PROVE HistoryIntact'
  BY <1>4 DEF DeleteProduct, HasHistory, AdminGoto, productVars, rowVars
<1>5. ASSUME UNCHANGED <<products, orders, items>> PROVE HistoryIntact'
  BY <1>5
<1> QED
  <2>1. ASSUME NEW r \in Requests, NEW p \in Products, CountLine(r, p)
        PROVE UNCHANGED <<products, orders, items>>
    BY <2>1 DEF CountLine, productVars, rowVars
  <2>2. ASSUME NEW r \in Requests, AnswerCod(r) \/ VerifyOnline(r)
        PROVE UNCHANGED <<products, orders, items>>
    BY <2>2 DEF AnswerCod, VerifyOnline, productVars, rowVars
  <2>3. ASSUME NEW a \in Admins, NEW p \in Products, CountHistory(a, p)
        PROVE UNCHANGED <<products, orders, items>>
    BY <2>3 DEF CountHistory, productVars, rowVars
  <2>4. ASSUME NEW a \in Admins, HideProduct(a) PROVE UNCHANGED <<products, orders, items>>
    BY <2>4 DEF HideProduct, rowVars
  <2>5. ASSUME Crash \/ UNCHANGED vars PROVE UNCHANGED <<products, orders, items>>
    BY <2>5 DEF Crash, vars, productVars, rowVars
  <2> QED
    BY <1>1, <1>2, <1>3, <1>4, <1>5, <2>1, <2>2, <2>3, <2>4, <2>5 DEF Next

-----------------------------------------------------------------------------
\* A COD order enters the account of a product together with its update.
LEMMA PlaceCodAccount ==
  ASSUME TypeOK, StageInv, NEW p \in Products,
         NEW r \in Requests, NEW lines \in SUBSET Products \ {{}}, PlaceCod(r, lines)
  PROVE  /\ soldCount' = soldCount
         /\ \/ InFlight(p)' = InFlight(p) /\ Ordered(p)' = Ordered(p)
            \/ /\ Cardinality(InFlight(p)') = Cardinality(InFlight(p)) + 1
               /\ Cardinality(Ordered(p)') = Cardinality(Ordered(p)) + 1
         /\ \A q \in Ordered(p) : q \in Ordered(p)' /\ pc'[q] = pc[q]
<1>0. soldCount' = soldCount /\ r \notin InFlight(p) /\ r \notin Ordered(p)
  BY DEF PlaceCod, TypeOK, StageInv, InFlight, Ordered
<1>1. \A q \in Ordered(p) : q \in Ordered(p)' /\ pc'[q] = pc[q]
  BY DEF PlaceCod, Ordered, TypeOK, StageInv
<1>2. CASE Insertable(lines) /\ p \in lines
  <2>1. InFlight(p)' = InFlight(p) \cup {r}
    BY <1>2 DEF PlaceCod, InFlight, TypeOK
  <2>2. Ordered(p)' = Ordered(p) \cup {r}
    BY <1>2 DEF PlaceCod, Ordered, TypeOK, StageInv
  <2> QED BY <1>0, <1>1, <2>1, <2>2, CountedAreFinite, FS_AddElement
<1>3. CASE ~(Insertable(lines) /\ p \in lines)
  <2>1. InFlight(p)' = InFlight(p)
    BY <1>3 DEF PlaceCod, InFlight, TypeOK, StageInv
  <2>2. Ordered(p)' = Ordered(p)
    BY <1>3 DEF PlaceCod, Ordered, TypeOK, StageInv
  <2> QED BY <1>0, <1>1, <2>1, <2>2
<1> QED BY <1>2, <1>3

\* An update leaves the account when it is applied, or when its order fails.
LEMMA CountLineAccount ==
  ASSUME TypeOK, StageInv, NEW p \in Products,
         NEW r \in Requests, NEW q \in Products, CountLine(r, q)
  PROVE  /\ Ordered(p)' = Ordered(p)
         /\ \/ InFlight(p)' = InFlight(p) /\ soldCount'[p] = soldCount[p]
            \/ /\ Cardinality(InFlight(p)') = Cardinality(InFlight(p)) - 1
               /\ \/ soldCount'[p] = soldCount[p] + 1
                  \/ soldCount'[p] = soldCount[p] /\ r \in Ordered(p) /\ pc'[r] = "failed"
<1>0. Ordered(p)' = Ordered(p)
  BY DEF CountLine, Ordered, rowVars
<1>1. CASE p = q
  <2>1. r \in InFlight(p) /\ InFlight(p)' = InFlight(p) \ {r}
    BY <1>1 DEF CountLine, InFlight, TypeOK
  <2>2. Cardinality(InFlight(p)') = Cardinality(InFlight(p)) - 1
    BY <2>1, CountedAreFinite, FS_RemoveElement
  <2>3. r \in Ordered(p)
    BY <1>1 DEF CountLine, StageInv, Ordered, TypeOK
  <2>4. \/ soldCount'[p] = soldCount[p] + 1
        \/ soldCount'[p] = soldCount[p] /\ pc'[r] = "failed"
    BY <1>1 DEF CountLine, TypeOK
  <2> QED BY <1>0, <2>2, <2>3, <2>4
<1>2. CASE p # q
  <2>1. InFlight(p)' = InFlight(p) /\ soldCount'[p] = soldCount[p]
    BY <1>2 DEF CountLine, InFlight, TypeOK
  <2> QED BY <1>0, <2>1
<1> QED BY <1>1, <1>2

\* A crash empties the account of updates in flight, and fails the orders
\* they belong to.
LEMMA CrashAccount ==
  ASSUME TypeOK, StageInv, NEW p \in Products, Crash
  PROVE  /\ InFlight(p)' = {} /\ Ordered(p)' = Ordered(p) /\ soldCount' = soldCount
         /\ \A r \in InFlight(p) : r \in Ordered(p) /\ pc'[r] = "failed"
         /\ \A r \in Ordered(p) : pc[r] = "failed" => pc'[r] = "failed"
<1>1. InFlight(p)' = {} /\ Ordered(p)' = Ordered(p) /\ soldCount' = soldCount
  BY DEF Crash, InFlight, Ordered, rowVars
<1>2. ASSUME NEW r \in InFlight(p) PROVE r \in Ordered(p) /\ pc'[r] = "failed"
  BY <1>2 DEF Crash, InFlight, Ordered, StageInv, TypeOK
<1>3. ASSUME NEW r \in Ordered(p), pc[r] = "failed" PROVE pc'[r] = "failed"
  BY <1>3 DEF Crash, Ordered, TypeOK
<1> QED BY <1>1, <1>2, <1>3

\* A request that fails in some other way is not a COD order.
OtherStep ==
  /\ UNCHANGED <<soldCount, uncounted>>
  /\ \A p \in Products : Ordered(p)' = Ordered(p)
  /\ \A r \in orders \ captured : pc[r] = "failed" => pc'[r] = "failed"

\* The steps of Next that the account of the sold counters has to look at.
LEMMA AccountCases ==
  ASSUME TypeOK, StageInv, [Next]_vars
  PROVE  \/ \E r \in Requests, lines \in SUBSET Products \ {{}} : PlaceCod(r, lines)
         \/ \E r \in Requests, q \in Products : CountLine(r, q)
         \/ Crash
         \/ OtherStep
<1>1. ASSUME NEW r \in Requests, NEW lines \in SUBSET Products \ {{}}, PlaceOnline(r, lines)
      PROVE OtherStep
  BY <1>1 DEF PlaceOnline, countVars, OtherStep, Ordered, StageInv, TypeOK
<1>2. ASSUME NEW r \in Requests, AnswerCod(r) PROVE OtherStep
  BY <1>2 DEF AnswerCod, countVars, rowVars, OtherStep, Ordered, TypeOK
<1>3. ASSUME NEW r \in Requests, VerifyOnline(r) PROVE OtherStep
  BY <1>3 DEF VerifyOnline, countVars, rowVars, OtherStep, Ordered, StageInv, TypeOK
<1>4. ASSUME NEW r \in Requests, CommitOnline(r) PROVE OtherStep
  BY <1>4 DEF CommitOnline, countVars, OtherStep, Ordered, StageInv, TypeOK
<1>5. ASSUME NEW a \in Admins, NEW p \in Products, CountHistory(a, p) PROVE OtherStep
  BY <1>5 DEF CountHistory, countVars, rowVars, OtherStep, Ordered
<1>6. ASSUME NEW a \in Admins, HideProduct(a) \/ DeleteProduct(a) PROVE OtherStep
  BY <1>6 DEF HideProduct, DeleteProduct, countVars, rowVars, OtherStep, Ordered
<1>7. ASSUME UNCHANGED vars PROVE OtherStep
  BY <1>7 DEF vars, countVars, rowVars, OtherStep, Ordered
<1> QED BY <1>1, <1>2, <1>3, <1>4, <1>5, <1>6, <1>7 DEF Next

\* The bound on the sold counters survives every step, faults included.
LEMMA CountStep ==
  TypeOK /\ StageInv /\ SoldCountBacked /\ [Next]_vars => SoldCountBacked'
<1> SUFFICES ASSUME TypeOK, StageInv, SoldCountBacked, [Next]_vars, NEW p \in Products
             PROVE soldCount'[p] + Cardinality(InFlight(p)') <= Cardinality(Ordered(p)')
  BY DEF SoldCountBacked
<1>0. soldCount[p] + Cardinality(InFlight(p)) <= Cardinality(Ordered(p))
  BY DEF SoldCountBacked
<1>1. ASSUME NEW r \in Requests, NEW lines \in SUBSET Products \ {{}}, PlaceCod(r, lines)
      PROVE soldCount'[p] + Cardinality(InFlight(p)') <= Cardinality(Ordered(p)')
  <2>1. /\ soldCount'[p] = soldCount[p]
        /\ \/ InFlight(p)' = InFlight(p) /\ Ordered(p)' = Ordered(p)
           \/ /\ Cardinality(InFlight(p)') = Cardinality(InFlight(p)) + 1
              /\ Cardinality(Ordered(p)') = Cardinality(Ordered(p)) + 1
    BY <1>1, PlaceCodAccount
  <2>2. CASE InFlight(p)' = InFlight(p) /\ Ordered(p)' = Ordered(p)
    BY <1>0, <2>1, <2>2
  <2>3. CASE ~(InFlight(p)' = InFlight(p) /\ Ordered(p)' = Ordered(p))
    BY <1>0, <2>1, <2>3, CountedAreFinite
  <2> QED BY <2>2, <2>3
<1>2. ASSUME NEW r \in Requests, NEW q \in Products, CountLine(r, q)
      PROVE soldCount'[p] + Cardinality(InFlight(p)') <= Cardinality(Ordered(p)')
  BY <1>0, <1>2, CountLineAccount, CountedAreFinite
<1>3. ASSUME Crash
      PROVE soldCount'[p] + Cardinality(InFlight(p)') <= Cardinality(Ordered(p)')
  <2>1. Cardinality(InFlight(p)') = 0 /\ Ordered(p)' = Ordered(p)
        /\ soldCount'[p] = soldCount[p]
    BY <1>3, CrashAccount, FS_EmptySet
  <2> QED BY <1>0, <2>1, CountedAreFinite
<1>4. ASSUME OtherStep
      PROVE soldCount'[p] + Cardinality(InFlight(p)') <= Cardinality(Ordered(p)')
  <2>1. InFlight(p)' = InFlight(p)
    BY <1>4 DEF OtherStep, InFlight
  <2> QED BY <1>0, <1>4, <2>1 DEF OtherStep
<1> QED BY <1>1, <1>2, <1>3, <1>4, AccountCases

\* While no COD order of a product has failed, its account is exact.
LEMMA ExactStep ==
  TypeOK /\ StageInv /\ SoldCountExact /\ [Next]_vars => SoldCountExact'
<1> SUFFICES ASSUME TypeOK, StageInv, SoldCountExact, [Next]_vars, NEW p \in Products,
                    \A r \in Ordered(p)' : pc'[r] # "failed"
             PROVE soldCount'[p] + Cardinality(InFlight(p)') = Cardinality(Ordered(p)')
  BY DEF SoldCountExact
<1>0. (\A r \in Ordered(p) : pc[r] # "failed") =>
        soldCount[p] + Cardinality(InFlight(p)) = Cardinality(Ordered(p))
  BY DEF SoldCountExact
<1>1. ASSUME NEW r \in Requests, NEW lines \in SUBSET Products \ {{}}, PlaceCod(r, lines)
      PROVE soldCount'[p] + Cardinality(InFlight(p)') = Cardinality(Ordered(p)')
  <2>1. \A q \in Ordered(p) : pc[q] # "failed"
    BY <1>1, PlaceCodAccount
  <2>2. /\ soldCount'[p] = soldCount[p]
        /\ \/ InFlight(p)' = InFlight(p) /\ Ordered(p)' = Ordered(p)
           \/ /\ Cardinality(InFlight(p)') = Cardinality(InFlight(p)) + 1
              /\ Cardinality(Ordered(p)') = Cardinality(Ordered(p)) + 1
    BY <1>1, PlaceCodAccount
  <2>3. CASE InFlight(p)' = InFlight(p) /\ Ordered(p)' = Ordered(p)
    BY <1>0, <2>1, <2>2, <2>3
  <2>4. CASE ~(InFlight(p)' = InFlight(p) /\ Ordered(p)' = Ordered(p))
    BY <1>0, <2>1, <2>2, <2>4, CountedAreFinite
  <2> QED BY <2>3, <2>4
<1>2. ASSUME NEW r \in Requests, NEW q \in Products, CountLine(r, q)
      PROVE soldCount'[p] + Cardinality(InFlight(p)') = Cardinality(Ordered(p)')
  <2>1. \A s \in Ordered(p) : s \in Requests /\ (pc[s] = "failed" => pc'[s] = "failed")
    BY <1>2 DEF CountLine, Ordered, TypeOK
  <2>2. Ordered(p)' = Ordered(p)
    BY <1>2, CountLineAccount
  <2>3. \A s \in Ordered(p) : pc[s] # "failed"
    BY <2>1, <2>2
  <2> QED BY <1>0, <1>2, <2>2, <2>3, CountLineAccount, CountedAreFinite
<1>3. ASSUME Crash
      PROVE soldCount'[p] + Cardinality(InFlight(p)') = Cardinality(Ordered(p)')
  <2>1. InFlight(p) = {} /\ \A r \in Ordered(p) : pc[r] # "failed"
    BY <1>3, CrashAccount
  <2> QED BY <1>0, <1>3, <2>1, CrashAccount
<1>4. ASSUME OtherStep
      PROVE soldCount'[p] + Cardinality(InFlight(p)') = Cardinality(Ordered(p)')
  <2>1. InFlight(p)' = InFlight(p)
    BY <1>4 DEF OtherStep, InFlight
  <2>2. \A r \in Ordered(p) : pc[r] # "failed"
    BY <1>4 DEF OtherStep, Ordered
  <2> QED BY <1>0, <1>4, <2>1, <2>2 DEF OtherStep
<1> QED BY <1>1, <1>2, <1>3, <1>4, AccountCases

-----------------------------------------------------------------------------
\* The inductive invariant of the orders and the products.
THEOREM HistoryInvariant == Spec => []IInv
<1>1. Init => IInv
  BY InitIInv
<1>2. IInv /\ [Next]_vars => IInv'
  BY TypeStep, StageStep, HistoryStep, CountStep, ExactStep DEF IInv
<1> QED BY <1>1, <1>2, PTL DEF Spec

\* The variables of orders and products keep their types.
THEOREM HistoryTypeOK == Spec => []TypeOK
<1>1. IInv => TypeOK
  BY DEF IInv
<1> QED BY <1>1, HistoryInvariant, PTL

\* For any products, requests and removals, and whatever fails, no product an
\* order names is deleted.
THEOREM HistoryStaysIntact == Spec => []HistoryIntact
<1>1. IInv => HistoryIntact
  BY DEF IInv
<1> QED BY <1>1, HistoryInvariant, PTL

\* For any finite set of requests, and whatever fails, soldCount never exceeds
\* the COD orders that name the product; and unless one of these failed
\* half-way, it and the updates in flight account for every one of them.
THEOREM SoldCountsAgree == Spec => []SoldCountAgrees
<1>1. IInv => SoldCountAgrees
  BY DEF IInv, SoldCountAgrees
<1> QED BY <1>1, HistoryInvariant, PTL

\* A captured payment whose products are all there has its pending order or its
\* order.
KeptWithProducts ==
  \A r \in captured : items[r] \subseteq products => r \in orders \cup pending

\* Only requests that wait or have ended are captured, and those that wait have
\* their pending order.
CapturedInv ==
  /\ captured \cap {r \in Requests : pc[r] \in {"idle", "counting"}} = {}
  /\ \A r \in Requests : pc[r] \in {"pending", "verified"} => r \in pending

LEMMA KeptStep ==
  ASSUME IInv, CapturedInv, KeptWithProducts, "dbError" \notin Faults, [Next]_vars
  PROVE  CapturedInv' /\ KeptWithProducts'
<1> USE DEF IInv, TypeOK, CapturedInv, KeptWithProducts
<1>1. ASSUME NEW r \in Requests, NEW lines \in SUBSET Products \ {{}},
             PlaceCod(r, lines) \/ PlaceOnline(r, lines)
      PROVE  CapturedInv' /\ KeptWithProducts'
  <2>1. r \notin captured
    BY <1>1 DEF PlaceCod, PlaceOnline
  <2>2. CASE PlaceCod(r, lines)
    BY <2>1, <2>2 DEF PlaceCod, productVars
  <2>3. CASE PlaceOnline(r, lines)
    BY <2>1, <2>3 DEF PlaceOnline, productVars
  <2>4. QED
    BY <1>1, <2>2, <2>3
<1>2. ASSUME NEW r \in Requests, NEW p \in Products, CountLine(r, p)
      PROVE  CapturedInv' /\ KeptWithProducts'
  <2>1. pc[r] \in {"counting", "failed"}
    BY <1>2 DEF CountLine, StageInv
  <2>2. QED
    BY <1>2, <2>1 DEF CountLine, productVars, rowVars
<1>3. ASSUME NEW r \in Requests, AnswerCod(r)
      PROVE  CapturedInv' /\ KeptWithProducts'
  BY <1>3 DEF AnswerCod, productVars, rowVars
<1>4. ASSUME NEW r \in Requests, VerifyOnline(r)
      PROVE  CapturedInv' /\ KeptWithProducts'
  BY <1>4 DEF VerifyOnline, productVars, rowVars
<1>5. ASSUME NEW r \in Requests, CommitOnline(r)
      PROVE  CapturedInv' /\ KeptWithProducts'
  BY <1>5 DEF CommitOnline, Insertable, productVars
<1>6. ASSUME NEW a \in Admins, NEW p \in Products, CountHistory(a, p)
      PROVE  CapturedInv' /\ KeptWithProducts'
  BY <1>6 DEF CountHistory, productVars, rowVars
<1>7. ASSUME NEW a \in Admins, HideProduct(a) \/ DeleteProduct(a)
      PROVE  CapturedInv' /\ KeptWithProducts'
  <2>1. products' \subseteq products /\ UNCHANGED <<pc, items, rowVars, captured>>
    BY <1>7 DEF HideProduct, DeleteProduct, productVars
  <2>2. QED
    BY <2>1 DEF rowVars
<1>8. CASE Crash
  BY <1>8 DEF Crash, productVars, rowVars
<1>9. CASE UNCHANGED vars
  BY <1>9 DEF vars, productVars, rowVars
<1>10. QED
  BY <1>1, <1>2, <1>3, <1>4, <1>5, <1>6, <1>7, <1>8, <1>9 DEF Next

\* While the database does not fail, crashes and removals lose the order of a
\* captured payment (CapturedIsKept) only if a product it names is gone: the
\* missing foreign key of PendingOrderItem is all there is to it.
THEOREM HistoryLostWithProduct ==
  ASSUME "dbError" \notin Faults
  PROVE  Spec => []KeptWithProducts
<1>1. Init => CapturedInv /\ KeptWithProducts
  BY DEF Init, CapturedInv, KeptWithProducts
<1>2. IInv /\ CapturedInv /\ KeptWithProducts /\ [Next]_vars =>
        CapturedInv' /\ KeptWithProducts'
  BY KeptStep
<1>3. QED
  BY <1>1, <1>2, HistoryInvariant, PTL DEF Spec

-----------------------------------------------------------------------------
(* The status board beside the orders *)

BP == INSTANCE OrderBoardProofs WITH
        Requests <- BoardRequests, Wanted <- SomeStatuses, Faults <- BoardFaults,
        pc <- boardPc, crashes <- boardCrashes

LEMMA SomeAreStatuses == BP!WantedAreStatuses
BY StatusAssumption DEF BP!WantedAreStatuses, SomeStatuses, BP!Statuses

LEMMA BoardRefines ==
  /\ B!Init => BP!Init
  /\ B!Next => BP!Next
  /\ BP!ViewsAgree => B!ViewsAgree
<1> USE DEF B!Publishing, BP!Publishing
<1>1. B!Init => BP!Init
  BY DEF B!Init, BP!Init, B!Blank, BP!Blank
<1>2. B!Next => BP!Next
  BY DEF B!Next, BP!Next, B!CreateOrder, BP!CreateOrder, B!ReadStatus, BP!ReadStatus,
         B!BoardStep, BP!BoardStep, B!WriteStatus, BP!WriteStatus, B!Publish, BP!Publish,
         B!Shown, BP!Shown, B!Connect, BP!Connect, B!Disconnect, BP!Disconnect,
         B!Subscribe, BP!Subscribe, B!Crash, BP!Crash, B!Goto, BP!Goto,
         B!requestVars, BP!requestVars, B!clientVars, BP!clientVars, B!histories, BP!histories
<1>3. BP!ViewsAgree => B!ViewsAgree
  BY DEF B!ViewsAgree, BP!ViewsAgree
<1>4. QED
  BY <1>1, <1>2, <1>3

\* Every connected client shows the status of an order once it is published
\* (updateStatus of orders.repository, orders.gateway), unless changes overtook
\* each other or one was not broadcast.
THEOREM HistoryViewsAgree == MCSpec => []ViewsAgree
<1> DEFINE BoardInv == part = "board" => BP!IInv
<1>1. MCInit => BoardInv
  BY BoardRefines, BP!BoardInit DEF MCInit
<1>2. BoardInv /\ [MCNext]_<<part, vars, boardVars, reportVars, priceVars>> => BoardInv'
  <2> SUFFICES ASSUME part' = "board", BoardInv,
                      [MCNext]_<<part, vars, boardVars, reportVars, priceVars>>
               PROVE  BP!IInv'
    OBVIOUS
  <2>1. part = "board" /\ [BP!Next]_BP!boardVars
    BY BoardRefines DEF MCNext, boardVars, BP!boardVars
  <2>2. QED
    BY <2>1, SomeAreStatuses, BP!BoardInductive
<1>3. BoardInv => ViewsAgree
  BY BoardRefines DEF ViewsAgree, BP!IInv
<1>4. QED
  BY <1>1, <1>2, <1>3, PTL DEF MCSpec

-----------------------------------------------------------------------------
(***************************************************************************)
(* Sales reports.  An order is dated once, with the time of the clock, so  *)
(* that months of the past never change and the current one only grows;    *)
(* what a summary has read of the paid orders stays what they are until a  *)
(* status changes, which the history shifted records.                      *)
(***************************************************************************)

\* The orders dated in the k-th month, and the month a report is made in.
MonthOf(k) ==
  {o \in Orders : /\ createdAt[o] # None
                  /\ k * MonthLength <= createdAt[o]
                  /\ createdAt[o] < k * MonthLength + MonthLength}
Now(s) == period[s].to \div MonthLength

SalesShape ==
  /\ time \in Nat
  /\ status \in [Orders -> S!Statuses \cup {None}]
  /\ wanted \in [BoardReaders -> SomeStatuses \cup {None}]
  /\ \A r \in BoardReaders : boardPc[r] = "write" => wanted[r] # None
  /\ DOMAIN boardPc = BoardReaders
  /\ DOMAIN reportPc = Reports /\ DOMAIN period = Reports
  /\ first \in [Reports -> [S!Months -> SUBSET Orders]]
  /\ second \in [Reports -> [S!Months -> SUBSET Orders]]

\* An order has a date if it has a status, and none of the future.
Dated ==
  /\ createdAt \in [Orders -> Nat \cup {None}]
  /\ \A o \in Orders : createdAt[o] # None => createdAt[o] <= time /\ status[o] # None

SummaryOK(s) ==
  s \notin shifted =>
    /\ reportPc[s] = "options" => first[s].current = S!PaidIn(period[s])
    /\ reportPc[s] = "summary" => second[s].current = first[s].current

MetricsOK(s) ==
  /\ reportPc[s] \in {"count", "sum", "metrics"} => period[s].to \in Nat /\ period[s].to <= time
  /\ reportPc[s] \in {"sum", "metrics"} =>
       first[s].current \subseteq MonthOf(Now(s)) /\ first[s].previous = MonthOf(Now(s) - 1)
  /\ reportPc[s] = "metrics" =>
       /\ \A m \in S!Months : first[s][m] \subseteq second[s][m]
       /\ second[s].current \subseteq MonthOf(Now(s))

SalesInv == SalesShape /\ Dated /\ \A s \in Reports : SummaryOK(s) /\ MetricsOK(s)

\* A month ends before the next one starts, and starts before any of its days.
LEMMA Calendar ==
  /\ \A k \in Int : (k - 1) * MonthLength + MonthLength = k * MonthLength
  /\ \A t \in Nat : t \div MonthLength \in Nat /\ (t \div MonthLength) * MonthLength <= t
  /\ \A k \in Int : k * MonthLength \in Int
BY MonthAssumption

LEMMA MonthIsMonthOf ==
  ASSUME NEW s \in Reports
  PROVE  /\ period[s].to \in Nat => S!Month(s, "current") = MonthOf(Now(s))
         /\ period[s].to \in Nat => S!Month(s, "previous") = MonthOf(Now(s) - 1)
BY MonthAssumption DEF S!Month, MonthOf, Now

LEMMA MonthsDiffer ==
  ASSUME Dated, NEW k \in Int
  PROVE  MonthOf(k) \cap MonthOf(k - 1) = {}
BY Calendar, TitleAssumption DEF MonthOf, Dated

\* Dates are given once.
LEMMA MonthsOnlyGrow ==
  ASSUME Dated, time \in Nat, UNCHANGED time,
         createdAt' = [o \in Orders |-> IF status[o] = None /\ status'[o] # None THEN time
                                        ELSE createdAt[o]]
  PROVE  /\ \A k \in Int : MonthOf(k) \subseteq MonthOf(k)'
         /\ \A t \in Nat : t <= time =>
              MonthOf(t \div MonthLength - 1)' = MonthOf(t \div MonthLength - 1)
<1>1. ASSUME NEW k \in Int PROVE MonthOf(k) \subseteq MonthOf(k)'
  BY DEF MonthOf, Dated
<1>2. ASSUME NEW t \in Nat, t <= time, NEW o \in Orders,
             o \in MonthOf(t \div MonthLength - 1)'
      PROVE  o \in MonthOf(t \div MonthLength - 1)
  <2> DEFINE k == t \div MonthLength
  <2>1. k \in Int /\ k * MonthLength \in Int /\ k * MonthLength <= t
        /\ (k - 1) * MonthLength \in Int /\ (k - 1) * MonthLength + MonthLength = k * MonthLength
    BY Calendar
  <2> HIDE DEF k
  <2>2. createdAt'[o] < (k - 1) * MonthLength + MonthLength
    BY <1>2, MonthAssumption DEF MonthOf, k
  <2>3. createdAt'[o] = createdAt[o]
    BY <1>2, <2>1, <2>2, TitleAssumption DEF Dated
  <2>4. QED
    BY <1>2, <2>3, MonthAssumption DEF MonthOf
<1>3. ASSUME NEW t \in Nat, t <= time
      PROVE  MonthOf(t \div MonthLength - 1)' = MonthOf(t \div MonthLength - 1)
  <2>1. t \div MonthLength - 1 \in Int
    BY Calendar
  <2>2. MonthOf(t \div MonthLength - 1)' \subseteq Orders
    BY DEF MonthOf
  <2>3. QED
    BY <1>1, <1>2, <1>3, <2>1, <2>2
<1>4. QED
  BY <1>1, <1>3

LEMMA SalesInitial == S!SalesInit => SalesInv
<1> SUFFICES ASSUME S!SalesInit PROVE SalesInv
  OBVIOUS
<1> USE DEF S!SalesInit, S!Init, S!ReportInit, S!Blank, S!NoOrders
<1>1. SalesShape
  BY DEF SalesShape
<1>2. Dated
  BY DEF Dated
<1>3. \A s \in Reports : SummaryOK(s) /\ MetricsOK(s)
  BY DEF SummaryOK, MetricsOK
<1>4. QED
  BY <1>1, <1>2, <1>3 DEF SalesInv

\* A step of the orders inserts one or moves one on, and none loses its status.
LEMMA OrdersMove ==
  ASSUME SalesShape, S!Next
  PROVE  /\ status' \in [Orders -> S!Statuses \cup {None}]
         /\ wanted' \in [BoardReaders -> SomeStatuses \cup {None}]
         /\ DOMAIN boardPc' = BoardReaders
         /\ \A r \in BoardReaders : boardPc'[r] = "write" => wanted'[r] # None
         /\ \A o \in Orders : status[o] # None => status'[o] # None
<1> USE DEF SalesShape, S!requestVars, S!Goto
<1>1. SomeStatuses \subseteq S!Statuses /\ None \notin SomeStatuses
  BY StatusAssumption DEF SomeStatuses, S!Statuses
<1>2. ASSUME NEW o \in Orders, S!CreateOrder(o)
      PROVE  /\ status' = [status EXCEPT ![o] = "CONFIRMED"]
             /\ UNCHANGED <<boardPc, wanted>>
  BY <1>2 DEF S!CreateOrder
<1>3. ASSUME NEW r \in BoardReaders, S!WriteStatus(r)
      PROVE  /\ status' = [status EXCEPT ![order[r]] = wanted[r]] /\ wanted[r] \in SomeStatuses
             /\ boardPc' = [boardPc EXCEPT ![r] = "publish"] /\ UNCHANGED wanted
  BY <1>3 DEF S!WriteStatus
<1>4. ASSUME NEW r \in BoardReaders, NEW o \in Orders, NEW s \in SomeStatuses, S!ReadStatus(r, o, s)
      PROVE  /\ wanted' = [wanted EXCEPT ![r] = s] /\ UNCHANGED status
             /\ DOMAIN boardPc' = BoardReaders /\ \A q \in BoardReaders \ {r} : boardPc'[q] = boardPc[q]
  BY <1>4 DEF S!ReadStatus
<1>5. ASSUME \/ \E r \in BoardReaders : S!Publish(r)
             \/ \E c \in {} : S!Connect(c) \/ S!Disconnect(c)
             \/ S!Subscribe \/ S!Crash
      PROVE  /\ UNCHANGED <<status, wanted>> /\ DOMAIN boardPc' = BoardReaders
             /\ \A q \in BoardReaders : boardPc'[q] = "write" => boardPc[q] = "write"
  BY <1>5 DEF S!Publish, S!Subscribe, S!Crash
<1>6. CASE \E o \in Orders : S!CreateOrder(o)
  BY <1>2, <1>6, StatusAssumption DEF S!Statuses
<1>7. CASE \E r \in BoardReaders : S!WriteStatus(r)
  BY <1>1, <1>3, <1>7
<1>8. CASE \E r \in BoardReaders, o \in Orders, s \in SomeStatuses : S!ReadStatus(r, o, s)
  BY <1>1, <1>4, <1>8
<1>9. QED
  BY <1>5, <1>6, <1>7, <1>8 DEF S!Next, S!BoardStep

LEMMA OrdersStep ==
  ASSUME SalesInv, S!OrderStep
  PROVE  SalesInv'
<1> USE DEF SalesInv, S!OrderStep, S!reportVars
<1>1. SalesShape'
  BY OrdersMove DEF SalesShape
<1>2. Dated'
  BY OrdersMove, TitleAssumption DEF Dated, SalesShape
<1>3. ASSUME NEW s \in Reports PROVE SummaryOK(s)'
  <2>1. CASE \E o \in Orders : status[o] # status'[o]
    BY <2>1 DEF SummaryOK, S!Disturbed
  <2>2. CASE \A o \in Orders : status[o] = status'[o]
    <3>1. createdAt' = createdAt
      BY <2>2 DEF Dated
    <3>2. status' = status
      BY <2>2, OrdersMove DEF SalesShape
    <3>3. S!PaidIn(period[s])' = S!PaidIn(period[s])
      BY <3>1, <3>2 DEF S!PaidIn, S!Within
    <3>4. shifted' = shifted
      BY <2>2
    <3>5. QED
      BY <3>3, <3>4 DEF SummaryOK
  <2>3. QED
    BY <2>1, <2>2
<1>4. ASSUME NEW s \in Reports PROVE MetricsOK(s)'
  <2>1. CASE reportPc[s] \in {"sum", "metrics"}
    <3>1. Now(s) \in Int /\ Now(s)' = Now(s)
      BY <2>1, Calendar DEF Now, MetricsOK
    <3>2. MonthOf(Now(s)) \subseteq MonthOf(Now(s))'
      BY <3>1, MonthsOnlyGrow DEF MonthOf, SalesShape
    <3>3. MonthOf(Now(s) - 1)' = MonthOf(Now(s) - 1)
      <4>1. period[s].to \in Nat /\ period[s].to <= time /\ time \in Nat
        BY <2>1 DEF MetricsOK, SalesShape
      <4>2. MonthOf(period[s].to \div MonthLength - 1)' = MonthOf(period[s].to \div MonthLength - 1)
        BY <4>1, MonthsOnlyGrow DEF MonthOf
      <4>3. QED
        BY <4>2 DEF Now, MonthOf
    <3>4. QED
      BY <3>2, <3>3 DEF MetricsOK
  <2>2. CASE reportPc[s] \notin {"sum", "metrics"}
    BY <2>2 DEF MetricsOK
  <2>3. QED
    BY <2>1, <2>2
<1>5. QED
  BY <1>1, <1>2, <1>3, <1>4

\* A step of one report leaves the others alone.
LEMMA OthersStay ==
  ASSUME UNCHANGED <<status, createdAt, time>>, NEW s \in Reports, SummaryOK(s), MetricsOK(s),
         UNCHANGED <<reportPc[s], period[s], first[s], second[s], shifted>>
  PROVE  SummaryOK(s)' /\ MetricsOK(s)'
<1>1. S!PaidIn(period[s])' = S!PaidIn(period[s])
  BY DEF S!PaidIn, S!Within
<1>2. MonthOf(Now(s))' = MonthOf(Now(s)) /\ MonthOf(Now(s) - 1)' = MonthOf(Now(s) - 1)
  BY DEF MonthOf, Now
<1>3. QED
  BY <1>1, <1>2 DEF SummaryOK, MetricsOK

LEMMA ReportsStep ==
  ASSUME SalesInv, NEW s \in Reports,
         \/ \E range \in SomeRanges : S!RequestSummary(s, range)
         \/ S!ResetSales(s) \/ S!ClearResets(s) \/ S!RequestMetrics(s) \/ S!ReportStep(s)
  PROVE  SalesInv'
<1> USE DEF SalesInv, S!Continue, S!reportVars, S!boardVars, SalesShape
<1>1. ASSUME NEW range, S!RequestSummary(s, range) PROVE SalesInv'
  <2>1. SummaryOK(s)' /\ MetricsOK(s)'
    BY <1>1 DEF S!RequestSummary, SummaryOK, MetricsOK
  <2>2. \A u \in Reports \ {s} : SummaryOK(u)' /\ MetricsOK(u)'
    BY <1>1, OthersStay DEF S!RequestSummary
  <2>3. SalesShape' /\ Dated'
    BY <1>1 DEF S!RequestSummary, Dated
  <2>4. QED
    BY <2>1, <2>2, <2>3
<1>2. CASE S!ResetSales(s)
  <2>1. SummaryOK(s)' /\ MetricsOK(s)'
    BY <1>2 DEF S!ResetSales, SummaryOK, MetricsOK
  <2>2. \A u \in Reports \ {s} : SummaryOK(u)' /\ MetricsOK(u)'
    BY <1>2, OthersStay DEF S!ResetSales
  <2>3. SalesShape' /\ Dated'
    BY <1>2 DEF S!ResetSales, Dated
  <2>4. QED
    BY <2>1, <2>2, <2>3
<1>3. CASE S!RequestMetrics(s)
  <2>1. SummaryOK(s)' /\ MetricsOK(s)'
    BY <1>3 DEF S!RequestMetrics, SummaryOK, MetricsOK
  <2>2. \A u \in Reports \ {s} : SummaryOK(u)' /\ MetricsOK(u)'
    BY <1>3, OthersStay DEF S!RequestMetrics
  <2>3. SalesShape' /\ Dated'
    BY <1>3 DEF S!RequestMetrics, Dated
  <2>4. QED
    BY <2>1, <2>2, <2>3
<1>4. CASE S!GroupItems(s)
  <2>1. SummaryOK(s)' /\ MetricsOK(s)'
    <3>1. S!PaidIn(period[s])' = S!PaidIn(period[s])
      BY <1>4 DEF S!GroupItems, S!PaidIn, S!Within
    <3>2. first'[s].current = S!PaidIn(period[s]) /\ reportPc'[s] = "options"
      BY <1>4 DEF S!GroupItems, S!Months
    <3>3. QED
      BY <3>1, <3>2 DEF SummaryOK, MetricsOK
  <2>2. \A u \in Reports \ {s} : SummaryOK(u)' /\ MetricsOK(u)'
    BY <1>4, OthersStay DEF S!GroupItems
  <2>3. SalesShape' /\ Dated'
    BY <1>4 DEF S!GroupItems, Dated, S!Months, S!PaidIn
  <2>4. QED
    BY <2>1, <2>2, <2>3
<1>5. CASE S!ReadOptions(s)
  <2>1. SummaryOK(s)' /\ MetricsOK(s)'
    <3>1. ASSUME s \notin shifted PROVE second'[s].current = first'[s].current
      BY <1>5, <3>1 DEF S!ReadOptions, SummaryOK, S!Months
    <3>2. reportPc'[s] = "summary" /\ shifted' = shifted
      BY <1>5 DEF S!ReadOptions
    <3>3. QED
      BY <3>1, <3>2 DEF SummaryOK, MetricsOK
  <2>2. \A u \in Reports \ {s} : SummaryOK(u)' /\ MetricsOK(u)'
    BY <1>5, OthersStay DEF S!ReadOptions
  <2>3. SalesShape' /\ Dated'
    BY <1>5 DEF S!ReadOptions, Dated, S!Months, S!PaidIn
  <2>4. QED
    BY <2>1, <2>2, <2>3
<1>6. ASSUME S!CountOrders(s) \/ S!SumAmounts(s)
      PROVE  /\ S!Month(s, "current") = MonthOf(Now(s)) /\ S!Month(s, "previous") = MonthOf(Now(s) - 1)
             /\ MonthOf(Now(s))' = MonthOf(Now(s)) /\ MonthOf(Now(s) - 1)' = MonthOf(Now(s) - 1)
             /\ \A m \in S!Months : S!Month(s, m) \in SUBSET Orders
  BY <1>6, MonthIsMonthOf DEF S!CountOrders, S!SumAmounts, MonthOf, Now, MetricsOK, S!Month
<1>7. CASE S!CountOrders(s)
  <2>1. SummaryOK(s)' /\ MetricsOK(s)'
    <3>1. reportPc'[s] = "sum" /\ UNCHANGED <<period, time>> /\ reportPc[s] = "count"
          /\ first'[s].current = MonthOf(Now(s)) /\ first'[s].previous = MonthOf(Now(s) - 1)
      BY <1>6, <1>7 DEF S!CountOrders, S!Months
    <3>2. QED
      BY <1>6, <1>7, <3>1 DEF SummaryOK, MetricsOK
  <2>2. \A u \in Reports \ {s} : SummaryOK(u)' /\ MetricsOK(u)'
    BY <1>7, OthersStay DEF S!CountOrders
  <2>3. SalesShape' /\ Dated'
    BY <1>6, <1>7 DEF S!CountOrders, Dated
  <2>4. QED
    BY <2>1, <2>2, <2>3
<1>8. CASE S!SumAmounts(s)
  <2>1. SummaryOK(s)' /\ MetricsOK(s)'
    <3>1. reportPc'[s] = "metrics" /\ UNCHANGED <<period, time, first>> /\ reportPc[s] = "sum"
          /\ second'[s].current = MonthOf(Now(s)) /\ second'[s].previous = MonthOf(Now(s) - 1)
      BY <1>6, <1>8 DEF S!SumAmounts, S!Months
    <3>2. \A m \in S!Months : first[s][m] \subseteq second'[s][m]
      BY <3>1 DEF MetricsOK, S!Months
    <3>3. QED
      BY <1>6, <1>8, <3>1, <3>2 DEF SummaryOK, MetricsOK
  <2>2. \A u \in Reports \ {s} : SummaryOK(u)' /\ MetricsOK(u)'
    BY <1>8, OthersStay DEF S!SumAmounts
  <2>3. SalesShape' /\ Dated'
    BY <1>6, <1>8 DEF S!SumAmounts, Dated
  <2>4. QED
    BY <2>1, <2>2, <2>3
<1>9. QED
  BY <1>1, <1>2, <1>3, <1>4, <1>5, <1>7, <1>8 DEF S!ClearResets, S!ReportStep

LEMMA SalesStep ==
  ASSUME SalesInv, S!SalesNext \/ UNCHANGED <<boardVars, reportVars>>
  PROVE  SalesInv'
<1>1. CASE S!Tick
  <2>1. UNCHANGED <<status, createdAt, reportPc, period, first, second, shifted, wanted, boardPc>>
        /\ time' \in Nat /\ time <= time'
    BY <1>1 DEF S!Tick, S!boardVars, S!reportVars, SalesInv, SalesShape
  <2>2. SalesShape' /\ Dated'
    BY <2>1 DEF SalesInv, SalesShape, Dated
  <2>3. ASSUME NEW s \in Reports PROVE SummaryOK(s)' /\ MetricsOK(s)'
    <3>1. /\ S!PaidIn(period[s])' = S!PaidIn(period[s])
          /\ MonthOf(Now(s))' = MonthOf(Now(s)) /\ MonthOf(Now(s) - 1)' = MonthOf(Now(s) - 1)
      BY <2>1 DEF S!PaidIn, S!Within, MonthOf, Now
    <3>2. QED
      BY <2>1, <3>1 DEF SalesInv, SalesShape, SummaryOK, MetricsOK
  <2>4. QED
    BY <2>2, <2>3 DEF SalesInv
<1>2. CASE UNCHANGED <<boardVars, reportVars>>
  <2>1. UNCHANGED <<status, createdAt, time, reportPc, period, first, second, shifted, wanted, boardPc>>
    BY <1>2 DEF boardVars, reportVars
  <2>2. SalesShape' /\ Dated'
    BY <2>1 DEF SalesInv, SalesShape, Dated
  <2>3. QED
    BY <2>1, <2>2, OthersStay DEF SalesInv
<1>3. QED
  BY <1>1, <1>2, OrdersStep, ReportsStep DEF S!SalesNext

\* The queries of a report agree (getSalesSummary and getMetricsMonthly of
\* admin.service): the options of a summary are of the items it sums, if no
\* status changed between its queries; no order counts for two months, what is
\* counted is summed, and the previous month of a report has all that was in it.
THEOREM HistoryReportsAgree == MCSpec => []ReportsAgree
<1> DEFINE Inv == part = "sales" => SalesInv
<1>1. MCInit => Inv
  BY SalesInitial DEF MCInit
<1>2. Inv /\ [MCNext]_<<part, vars, boardVars, reportVars, priceVars>> => Inv'
  <2> SUFFICES ASSUME part' = "sales", Inv,
                      [MCNext]_<<part, vars, boardVars, reportVars, priceVars>>
               PROVE  SalesInv'
    OBVIOUS
  <2>1. part = "sales" /\ (S!SalesNext \/ UNCHANGED <<boardVars, reportVars>>)
    BY DEF MCNext
  <2>2. QED
    BY <2>1, SalesStep
<1>3. Inv => ReportsAgree
  <2> SUFFICES ASSUME part = "sales", SalesInv PROVE S!OptionsAreSold /\ S!MonthsAgree
    BY DEF ReportsAgree, S!ReportsAgree
  <2> USE DEF SalesInv
  <2>1. S!OptionsAreSold
    BY DEF S!OptionsAreSold, SummaryOK
  <2>2. ASSUME NEW s \in Reports, reportPc[s] = "metrics"
        PROVE  /\ first[s].current \cap first[s].previous = {}
               /\ \A m \in S!Months : first[s][m] \subseteq second[s][m]
               /\ period[s].to \in Nat /\ Now(s) \in Int
    <3>1. period[s].to \in Nat /\ Now(s) \in Int
      BY <2>2, Calendar DEF MetricsOK, Now
    <3>2. MonthOf(Now(s)) \cap MonthOf(Now(s) - 1) = {}
      BY <3>1, MonthsDiffer
    <3>3. QED
      BY <2>2, <3>1, <3>2 DEF MetricsOK
  <2>3. ASSUME NEW s \in Reports, NEW u \in Reports,
               reportPc[s] = "metrics", reportPc[u] = "metrics", Now(u) = 1 + Now(s)
        PROVE  second[s].current \subseteq first[u].previous
    <3>1. Now(u) - 1 = Now(s)
      BY <2>2, <2>3
    <3>2. QED
      BY <2>3, <3>1 DEF MetricsOK
  <2>4. QED
    BY <2>1, <2>2, <2>3 DEF S!MonthsAgree, Now
<1>4. QED
  BY <1>1, <1>2, <1>3, PTL DEF MCSpec

-----------------------------------------------------------------------------
(***************************************************************************)
(* Prices.  Until a second change is made, what a request has read is of   *)
(* the rates in force or of those before, and these differ in one of both. *)
(***************************************************************************)
InForce == C!Rates(tax, fee)

\* m and f were read while rates were in force, or other ones of past of which
\* they keep one.
Between(m, f, rates, past) ==
  \E t, g \in Int :
    /\ <<t, g>> \in past /\ (t = rates[1] \/ g = rates[2])
    /\ m \in {None, t, rates[1]} /\ f \in {None, g, rates[2]}
Read(m, f, rates) == m \in {None, rates[1]} /\ f \in {None, rates[2]}

PriceShape ==
  /\ tax \in Titles /\ fee \in Titles
  /\ pricePc \in [Requests -> {"idle", "reading", "priced"}]
  /\ multiplier \in [Requests -> Nat \cup {None}]
  /\ serviceFee \in [Requests -> Nat \cup {None}]
  /\ changes \in Nat /\ began \in [Requests -> Nat]
  /\ DOMAIN inForce = Requests

RequestOK(r) ==
  /\ pricePc[r] = "idle" => multiplier[r] = None /\ serviceFee[r] = None
  /\ pricePc[r] = "reading" =>
       /\ began[r] <= changes /\ InForce \in inForce[r]
       /\ changes <= began[r] + 1 => Between(multiplier[r], serviceFee[r], InForce, inForce[r])
       /\ changes = began[r] => Read(multiplier[r], serviceFee[r], InForce)

SettingsInv == PriceShape /\ \A r \in Requests : RequestOK(r)

LEMMA NumericIsNat ==
  ASSUME NEW title \in Titles, NEW fallback \in Nat
  PROVE  C!Numeric(title, fallback) \in Nat
BY TitleAssumption DEF Titles, C!Numeric, C!Coerced

LEMMA FullIsFallback == C!Numeric(None, C!Full) = C!Full /\ C!Numeric(C!Full, C!Full) = C!Full
BY TitleAssumption DEF C!Numeric, C!Coerced, C!Full

LEMMA RatesOf ==
  ASSUME NEW t \in Titles, NEW f \in Titles
  PROVE  /\ C!Rates(t, f)[1] = C!Numeric(t, C!Full) /\ C!Rates(t, f)[2] = C!Numeric(f, 0)
         /\ C!Rates(t, f) = <<C!Rates(t, f)[1], C!Rates(t, f)[2]>>
         /\ C!Rates(t, f)[1] \in Nat /\ C!Rates(t, f)[2] \in Nat
BY NumericIsNat DEF C!Rates, C!Full

LEMMA BetweenReads ==
  ASSUME NEW m, NEW f, NEW rates, NEW past, Between(m, f, rates, past)
  PROVE  Between(rates[1], f, rates, past) /\ Between(m, rates[2], rates, past)
BY DEF Between

\* One change after the read, of one of the two.
LEMMA BetweenChange ==
  ASSUME NEW m, NEW f, NEW rates, NEW new, NEW past, <<rates[1], rates[2]>> \in past,
         rates[1] \in Int, rates[2] \in Int,
         Read(m, f, rates), new[1] = rates[1] \/ new[2] = rates[2]
  PROVE  Between(m, f, new, past)
BY DEF Between, Read

LEMMA PriceInit == C!Init => SettingsInv
BY DEF C!Init, SettingsInv, PriceShape, RequestOK, Titles

\* What a request may rely on while the rates stay what they are.
LEMMA RequestStays ==
  ASSUME InForce' = InForce, NEW r \in Requests, RequestOK(r),
         UNCHANGED <<multiplier[r], serviceFee[r], inForce[r], began[r], changes>>,
         pricePc'[r] \in {pricePc[r], "priced"}
  PROVE  RequestOK(r)'
BY DEF RequestOK, Between, Read

LEMMA PriceStep ==
  ASSUME SettingsInv, [C!Next]_priceVars
  PROVE  SettingsInv'
<1> USE DEF SettingsInv, PriceShape, C!settings
<1>1. InForce[1] \in Nat /\ InForce[2] \in Nat /\ InForce = <<InForce[1], InForce[2]>>
  BY RatesOf DEF InForce
<1>2. ASSUME NEW r \in Requests, NEW basket \in SomeCarts, C!Begin(r, basket) PROVE SettingsInv'
  <2>1. InForce' = InForce /\ InForce = C!Rates(tax, fee)
    BY <1>2 DEF C!Begin, InForce
  <2>2. RequestOK(r)'
    <3>1. /\ inForce'[r] = {InForce} /\ multiplier'[r] = None /\ serviceFee'[r] = None
          /\ pricePc'[r] = "reading" /\ began'[r] = changes' /\ changes' \in Nat
      BY <1>2, <2>1 DEF C!Begin, RequestOK
    <3>2. Read(None, None, InForce)
      BY DEF Read
    <3>3. Between(None, None, InForce, {InForce})
      BY <1>1, <3>2, BetweenChange
    <3>4. Between(multiplier[r], serviceFee[r], InForce, inForce[r])'
      BY <2>1, <3>1, <3>3 DEF Between
    <3>5. Read(multiplier[r], serviceFee[r], InForce)'
      BY <2>1, <3>1, <3>2 DEF Read
    <3>6. QED
      BY <2>1, <3>1, <3>4, <3>5 DEF RequestOK
  <2>3. \A q \in Requests \ {r} : RequestOK(q)'
    BY <1>2, <2>1, RequestStays DEF C!Begin
  <2>4. PriceShape'
    BY <1>2 DEF C!Begin
  <2>5. QED
    BY <2>2, <2>3, <2>4
<1>3. ASSUME NEW r \in Requests, C!ReadTax(r) PROVE SettingsInv'
  <2>1. C!Numeric(tax', C!Full) = C!Numeric(tax, C!Full)
    BY <1>3, FullIsFallback DEF C!ReadTax
  <2>2. tax' \in Titles
    BY <1>3 DEF C!ReadTax, Titles, C!Full
  <2>3. InForce' = InForce /\ multiplier' = [multiplier EXCEPT ![r] = InForce[1]]
    BY <1>3, <2>1 DEF C!ReadTax, InForce, C!Rates
  <2>4. PriceShape'
    BY <1>1, <1>3, <2>2, <2>3 DEF C!ReadTax
  <2>5. RequestOK(r)'
    <3>1. UNCHANGED <<serviceFee, inForce, began, changes, pricePc>> /\ pricePc[r] = "reading"
      BY <1>3 DEF C!ReadTax
    <3>2. multiplier'[r] = InForce[1]
      BY <2>3
    <3>3. changes <= began[r] + 1 => Between(InForce[1], serviceFee[r], InForce, inForce[r])
      BY <3>1, BetweenReads DEF RequestOK
    <3>4. QED
      BY <2>3, <3>1, <3>2, <3>3 DEF RequestOK, Between, Read
  <2>6. \A q \in Requests \ {r} : RequestOK(q)'
    BY <1>3, <2>3, RequestStays DEF C!ReadTax
  <2>7. QED
    BY <2>4, <2>5, <2>6
<1>4. ASSUME NEW r \in Requests, C!ReadFee(r) PROVE SettingsInv'
  <2>1. InForce' = InForce /\ serviceFee' = [serviceFee EXCEPT ![r] = InForce[2]]
    BY <1>4 DEF C!ReadFee, InForce, C!Rates
  <2>2. PriceShape'
    BY <1>1, <1>4, <2>1 DEF C!ReadFee
  <2>3. RequestOK(r)'
    <3>1. UNCHANGED <<multiplier, inForce, began, changes, pricePc>> /\ pricePc[r] = "reading"
      BY <1>4 DEF C!ReadFee
    <3>2. serviceFee'[r] = InForce[2]
      BY <2>1
    <3>3. changes <= began[r] + 1 => Between(multiplier[r], InForce[2], InForce, inForce[r])
      BY <3>1, BetweenReads DEF RequestOK
    <3>4. QED
      BY <2>1, <3>1, <3>2, <3>3 DEF RequestOK, Between, Read
  <2>4. \A q \in Requests \ {r} : RequestOK(q)'
    BY <1>4, <2>1, RequestStays DEF C!ReadFee
  <2>5. QED
    BY <2>2, <2>3, <2>4
<1>5. ASSUME NEW r \in Requests, C!Compute(r) PROVE SettingsInv'
  <2>1. InForce' = InForce
    BY <1>5 DEF C!Compute, InForce
  <2>2. \A q \in Requests : RequestOK(q)'
    BY <1>5, <2>1, RequestStays DEF C!Compute
  <2>3. QED
    BY <1>5, <2>2 DEF C!Compute
<1>6. ASSUME NEW t \in SomeTaxes \cup {None, Words, Dashes, tax},
             NEW f \in SomeFees \cup {None, Words, Dashes, fee}, C!ChangeSetting(t, f)
      PROVE  SettingsInv'
  <2>1. t \in Titles /\ f \in Titles
    BY DEF Titles, SomeTaxes, SomeFees, Negative
  <2>2. InForce' = C!Rates(t, f)
    BY <1>6 DEF C!ChangeSetting, InForce
  <2>3. InForce'[1] = InForce[1] \/ InForce'[2] = InForce[2]
    BY <1>6, <2>1, <2>2, RatesOf DEF C!ChangeSetting, InForce
  <2>4. ASSUME NEW r \in Requests, pricePc[r] = "reading" PROVE RequestOK(r)'
    <3>1. /\ inForce'[r] = inForce[r] \cup {InForce'} /\ changes' = changes + 1
          /\ UNCHANGED <<multiplier, serviceFee, began, pricePc>>
      BY <1>6, <2>2, <2>4 DEF C!ChangeSetting
    <3>2. ASSUME changes = began[r]
          PROVE  Between(multiplier[r], serviceFee[r], InForce', inForce'[r])
      <4>1. Read(multiplier[r], serviceFee[r], InForce) /\ InForce \in inForce'[r]
        BY <2>4, <3>1, <3>2 DEF RequestOK
      <4>2. QED
        BY <1>1, <2>3, <4>1, BetweenChange
    <3>3. changes = began[r] => Between(multiplier[r], serviceFee[r], InForce, inForce[r])'
      BY <3>1, <3>2 DEF Between
    <3>4. QED
      BY <2>2, <2>4, <3>1, <3>3 DEF RequestOK
  <2>5. ASSUME NEW r \in Requests, pricePc[r] # "reading" PROVE RequestOK(r)'
    BY <1>6, <2>5 DEF C!ChangeSetting, RequestOK
  <2>6. QED
    BY <1>6, <2>1, <2>4, <2>5 DEF C!ChangeSetting
<1>7. CASE UNCHANGED priceVars
  <2>1. InForce' = InForce
    BY <1>7 DEF priceVars, InForce
  <2>2. QED
    BY <1>7, <2>1, RequestStays DEF priceVars
<1>8. QED
  BY <1>2, <1>3, <1>4, <1>5, <1>6, <1>7 DEF C!Next

\* The tax and the fee of a price were set together (computeOrderPricing with
\* getTaxMultiplier and getServiceFee), if no two changes were made meanwhile.
THEOREM HistoryPricedAsSet == MCSpec => []PricedAsSet
<1> DEFINE Inv == part = "prices" => SettingsInv
<1>1. MCInit => Inv
  BY PriceInit DEF MCInit
<1>2. Inv /\ [MCNext]_<<part, vars, boardVars, reportVars, priceVars>> => Inv'
  <2> SUFFICES ASSUME part' = "prices", Inv,
                      [MCNext]_<<part, vars, boardVars, reportVars, priceVars>>
               PROVE  SettingsInv'
    OBVIOUS
  <2>1. part = "prices" /\ [C!Next]_priceVars
    BY DEF MCNext
  <2>2. QED
    BY <2>1, PriceStep
<1>3. Inv => PricedAsSet
  <2> SUFFICES ASSUME part = "prices", SettingsInv, NEW r \in Requests, pricePc[r] = "reading",
                      multiplier[r] # None, serviceFee[r] # None, changes <= began[r] + 1
               PROVE  <<multiplier[r], serviceFee[r]>> \in inForce[r]
    BY DEF PricedAsSet, C!PricedAsSet
  <2>1. PICK t \in Int, f \in Int :
          /\ <<t, f>> \in inForce[r] /\ (t = InForce[1] \/ f = InForce[2])
          /\ multiplier[r] \in {t, InForce[1]} /\ serviceFee[r] \in {f, InForce[2]}
    BY DEF SettingsInv, RequestOK, Between
  <2>2. InForce = <<InForce[1], InForce[2]>> /\ InForce \in inForce[r]
    BY RatesOf DEF SettingsInv, PriceShape, RequestOK, InForce
  <2>3. QED
    BY <2>1, <2>2
<1>4. QED
  BY <1>1, <1>2, <1>3, PTL DEF MCSpec

-----------------------------------------------------------------------------
(***************************************************************************)
(* Sums and roundings.                                                     *)
(***************************************************************************)

\* Induction for a set; the intervals 0..n-1 are ordered as their ends are.
LEMMA Inductive ==
  ASSUME NEW T \in SUBSET Nat, 0 \in T, \A n \in T : n + 1 \in T
  PROVE  T = Nat
<1> SUFFICES ASSUME Nat \ T # {} PROVE FALSE
  OBVIOUS
<1> DEFINE below == {0 .. (n - 1) : n \in Nat \ T}
<1>1. below \subseteq FiniteSubsetsOf(Nat) /\ below # {}
  <2>1. ASSUME NEW n \in Nat PROVE 0 .. (n - 1) \in SUBSET Nat /\ IsFiniteSet(0 .. (n - 1))
    BY FS_Interval
  <2>2. QED
    BY <2>1 DEF FiniteSubsetsOf
<1>2. PICK x \in below : \A y \in below : ~(<<y, x>> \in StrictSubsetOrdering(Nat))
  <2> HIDE DEF below
  <2>1. QED
    BY <1>1, FS_StrictSubsetOrderingWellFounded, WFMin
<1>3. PICK n \in Nat \ T : x = 0 .. (n - 1)
  OBVIOUS
<1>4. n - 1 \in Nat \ T
  BY <1>3
<1>5. 0 .. (n - 1 - 1) \in below
  BY <1>4
<1>6. <<0 .. (n - 1 - 1), 0 .. (n - 1)>> \in StrictSubsetOrdering(Nat)
  <2>1. n - 1 \in 0 .. (n - 1) /\ n - 1 \notin 0 .. (n - 1 - 1)
    BY <1>4
  <2>2. QED
    BY SMTT(30), <1>3, <2>1 DEF StrictSubsetOrdering
<1>7. QED
  BY <1>2, <1>3, <1>5, <1>6

\* The sums of the beginnings of a sequence.
IsSums(s, seq) ==
  /\ s \in [0 .. Len(seq) -> Int] /\ s[0] = 0
  /\ \A i \in 1 .. Len(seq) : s[i] = s[i - 1] + seq[i]

LEMMA SumsExist ==
  ASSUME NEW seq \in Seq(Int)
  PROVE  \E s : IsSums(s, seq)
<1> DEFINE Partial(s, n) ==
             /\ s \in [0 .. n -> Int] /\ s[0] = 0
             /\ \A i \in 1 .. n : s[i] = s[i - 1] + seq[i]
           T == {n \in Nat : n <= Len(seq) => \E s : Partial(s, n)}
<1>1. Partial([i \in 0 .. 0 |-> 0], 0)
  OBVIOUS
<1>2. ASSUME NEW n \in Nat, n + 1 <= Len(seq), NEW s, Partial(s, n)
      PROVE  \E t : Partial(t, n + 1)
  <2> DEFINE t == [i \in 0 .. (n + 1) |-> IF i = n + 1 THEN s[n] + seq[n + 1] ELSE s[i]]
  <2>1. seq[n + 1] \in Int
    BY <1>2
  <2>2. t \in [0 .. (n + 1) -> Int] /\ t[0] = 0
    BY <1>2, <2>1
  <2>3. ASSUME NEW i \in 1 .. (n + 1) PROVE t[i] = t[i - 1] + seq[i]
    <3>1. CASE i = n + 1
      BY <1>2, <3>1
    <3>2. CASE i # n + 1
      BY <1>2, <3>2
    <3>3. QED
      BY <3>1, <3>2
  <2> HIDE DEF t
  <2>4. QED
    BY <2>2, <2>3
<1> HIDE DEF Partial
<1>3. 0 \in T
  BY <1>1
<1>4. ASSUME NEW n \in T PROVE n + 1 \in T
  BY <1>2
<1>5. T \in SUBSET Nat
  OBVIOUS
<1>6. T = Nat
  <2> HIDE DEF T
  <2>1. QED
    BY <1>3, <1>4, <1>5, Inductive
<1>7. \E s : Partial(s, Len(seq))
  <2>1. Len(seq) \in Nat
    OBVIOUS
  <2>2. Len(seq) \in T /\ Len(seq) <= Len(seq)
    BY <1>6, <2>1
  <2>3. QED
    BY <2>2
<1>8. QED
  BY <1>7 DEF IsSums, Partial

LEMMA SumIsLast ==
  ASSUME NEW seq \in Seq(Int), NEW s, IsSums(s, seq)
  PROVE  C!SumOf(seq) = s[Len(seq)]
<1> DEFINE sum == CHOOSE f : f = [i \in 0 .. Len(seq) |-> IF i = 0 THEN 0 ELSE f[i - 1] + seq[i]]
<1>1. s = [i \in 0 .. Len(seq) |-> IF i = 0 THEN 0 ELSE s[i - 1] + seq[i]]
  BY DEF IsSums
<1>2. sum = [i \in 0 .. Len(seq) |-> IF i = 0 THEN 0 ELSE sum[i - 1] + seq[i]]
  BY <1>1
<1>3. C!SumOf(seq) = sum[Len(seq)]
  BY DEF C!SumOf
<1> HIDE DEF sum
<1> DEFINE T == {n \in Nat : n <= Len(seq) => sum[n] = s[n]}
<1>4. 0 \in T
  BY <1>1, <1>2
<1>5. ASSUME NEW n \in T PROVE n + 1 \in T
  <2> SUFFICES ASSUME n + 1 <= Len(seq) PROVE sum[n + 1] = s[n + 1]
    OBVIOUS
  <2>1. sum[n] = s[n] /\ n + 1 \in 0 .. Len(seq)
    OBVIOUS
  <2>2. sum[n + 1] = sum[n] + seq[n + 1] /\ s[n + 1] = s[n] + seq[n + 1]
    BY <1>1, <1>2, <2>1
  <2>3. QED
    BY <2>1, <2>2
<1>6. T = Nat
  <2> HIDE DEF T
  <2>1. T \in SUBSET Nat
    BY DEF T
  <2>2. QED
    BY <1>4, <1>5, <2>1, Inductive
<1>7. QED
  BY <1>3, <1>6

\* A rounded quotient is within half of the quotient, and has its sign.
LEMMA Rounding ==
  ASSUME NEW n \in Int, NEW d \in Nat \ {0}
  PROVE  /\ C!Money(n, d) \in Int
         /\ 2 * (C!Money(n, d) * d - n) <= d /\ 2 * (n - C!Money(n, d) * d) <= d
         /\ n >= 0 => C!Money(n, d) >= 0
         /\ n = 0 => C!Money(n, d) = 0
<1> DEFINE k == C!Magnitude(n)
           q == (2 * k + d) \div (2 * d)
<1>1. k \in Nat /\ (n < 0 => k = -n) /\ (n >= 0 => k = n)
  BY DEF C!Magnitude
<1>2. C!Money(n, d) = IF n < 0 THEN -q ELSE q
  BY DEF C!Money
<1>3. \A x \in Nat, y \in Nat \ {0} : x \div y \in Nat /\ (x \div y) * y <= x /\ x < (x \div y) * y + y
  OBVIOUS
<1>4. q \in Nat /\ q * (2 * d) <= 2 * k + d /\ 2 * k + d < q * (2 * d) + 2 * d
  <2>1. 2 * k + d \in Nat /\ 2 * d \in Nat \ {0}
    BY <1>1
  <2> HIDE DEF k
  <2>2. QED
    BY <1>3, <2>1
<1>5. q * (2 * d) = 2 * (q * d) /\ q * d \in Nat /\ (-q) * d = -(q * d)
  BY <1>4
<1>6. n = 0 => q = 0
  <2> SUFFICES ASSUME n = 0, q # 0 PROVE FALSE
    OBVIOUS
  <2>1. k = 0
    BY <1>1
  <2>2. q * (2 * d) >= 2 * d
    <3> HIDE DEF q, k
    <3>1. \A x, y \in Nat : x # 0 => x * y >= y
      OBVIOUS
    <3>2. QED
      BY <1>4, <3>1
  <2>3. QED
    BY <1>4, <2>1, <2>2
<1> HIDE DEF q, k
<1>7. QED
  BY <1>1, <1>2, <1>4, <1>5, <1>6

LEMMA TotalsAreSeq ==
  ASSUME NEW n \in Nat, NEW list, DOMAIN list = 1 .. n,
         \A i \in 1 .. n : list[i].totalPrice \in Nat
  PROVE  /\ C!Column(list, "totalPrice") \in Seq(Nat) /\ Len(C!Column(list, "totalPrice")) = n
         /\ \A i \in 1 .. n : C!Column(list, "totalPrice")[i] = list[i].totalPrice
BY DEF C!Column

LEMMA TaxesAreSeq ==
  ASSUME NEW n \in Nat, NEW list, DOMAIN list = 1 .. n,
         \A i \in 1 .. n : list[i].taxAmount \in Int
  PROVE  /\ C!Column(list, "taxAmount") \in Seq(Int) /\ Len(C!Column(list, "taxAmount")) = n
         /\ \A i \in 1 .. n : C!Column(list, "taxAmount")[i] = list[i].taxAmount
BY DEF C!Column

LEMMA ElementsOfSeq ==
  ASSUME NEW T, NEW list \in Seq(T)
  PROVE  /\ Len(list) \in Nat /\ DOMAIN list = 1 .. Len(list)
         /\ \A i \in 1 .. Len(list) : list[i] \in T
OBVIOUS

\* Shares t of an amount that are each within half of their part p of it are
\* together within n halves of it.
LEMMA SharesAddUp ==
  ASSUME NEW p \in Seq(Int), NEW t \in Seq(Int), Len(p) = Len(t),
         NEW whole \in Nat, NEW amount \in Int,
         \A i \in 1 .. Len(t) : /\ 2 * (t[i] * whole - amount * p[i]) <= whole
                               /\ 2 * (amount * p[i] - t[i] * whole) <= whole
  PROVE  /\ C!SumOf(p) \in Int /\ C!SumOf(t) \in Int
         /\ 2 * (C!SumOf(t) * whole - amount * C!SumOf(p)) <= Len(t) * whole
         /\ 2 * (amount * C!SumOf(p) - C!SumOf(t) * whole) <= Len(t) * whole
<1>1. PICK u, v : IsSums(u, p) /\ IsSums(v, t)
  BY SumsExist
<1>2. C!SumOf(p) = u[Len(p)] /\ C!SumOf(t) = v[Len(t)]
  BY <1>1, SumIsLast
<1> DEFINE Close(x, y, k) == /\ 2 * (y * whole - amount * x) <= k * whole
                            /\ 2 * (amount * x - y * whole) <= k * whole
           T == {k \in Nat : k <= Len(t) => Close(u[k], v[k], k)}
<1>3. ASSUME NEW x \in Int, NEW y \in Int, NEW k \in Nat, Close(x, y, k),
             NEW dx \in Int, NEW dy \in Int, Close(dx, dy, 1)
      PROVE  Close(x + dx, y + dy, k + 1)
  <2>1. /\ (y + dy) * whole = y * whole + dy * whole
        /\ amount * (x + dx) = amount * x + amount * dx
        /\ (k + 1) * whole = k * whole + whole
        /\ y * whole \in Int /\ dy * whole \in Int /\ amount * x \in Int /\ amount * dx \in Int
        /\ k * whole \in Int
    OBVIOUS
  <2>2. QED
    BY <1>3, <2>1
<1>4. Close(0, 0, 0)
  OBVIOUS
<1>5. \A i \in 1 .. Len(t) : Close(p[i], t[i], 1)
  OBVIOUS
<1> HIDE DEF Close
<1>6. 0 \in T
  BY <1>1, <1>4 DEF IsSums
<1>7. ASSUME NEW k \in T PROVE k + 1 \in T
  <2> SUFFICES ASSUME k + 1 <= Len(t) PROVE Close(u[k + 1], v[k + 1], k + 1)
    OBVIOUS
  <2>1. /\ k \in Nat /\ k \in 0 .. Len(t) /\ k + 1 \in 1 .. Len(t) /\ Close(u[k], v[k], k)
        /\ k + 1 - 1 = k
    OBVIOUS
  <2> HIDE DEF T
  <2>2. /\ u[k + 1] = u[k] + p[k + 1] /\ u[k] \in Int /\ p[k + 1] \in Int
        /\ v[k + 1] = v[k] + t[k + 1] /\ v[k] \in Int /\ t[k + 1] \in Int
    <3>1. u[k + 1] = u[k] + p[k + 1] /\ v[k + 1] = v[k] + t[k + 1]
      BY <1>1, <2>1 DEF IsSums
    <3>2. u[k] \in Int /\ v[k] \in Int
      BY <1>1, <2>1 DEF IsSums
    <3>3. p[k + 1] \in Int /\ t[k + 1] \in Int
      BY <2>1
    <3>4. QED
      BY <3>1, <3>2, <3>3
  <2>3. QED
    BY <1>3, <1>5, <2>1, <2>2
<1>8. T = Nat
  <2>1. T \in SUBSET Nat
    OBVIOUS
  <2> HIDE DEF T
  <2>2. QED
    BY <1>6, <1>7, <2>1, Inductive
<1>9. Close(u[Len(t)], v[Len(t)], Len(t))
  <2>1. Len(t) \in T /\ Len(t) <= Len(t)
    BY <1>8
  <2>2. QED
    BY <2>1
<1>10. u[Len(p)] \in Int /\ v[Len(t)] \in Int
  BY <1>1 DEF IsSums
<1>11. QED
  BY <1>2, <1>9, <1>10 DEF Close

LEMMA SumIsNat ==
  ASSUME NEW p \in Seq(Nat)
  PROVE  C!SumOf(p) \in Nat
<1>1. p \in Seq(Int)
  OBVIOUS
<1>2. PICK u : IsSums(u, p)
  BY <1>1, SumsExist
<1> DEFINE T == {k \in Nat : k <= Len(p) => u[k] \in Nat}
<1>3. 0 \in T
  BY <1>2 DEF IsSums
<1>4. ASSUME NEW k \in T PROVE k + 1 \in T
  <2> SUFFICES ASSUME k + 1 <= Len(p) PROVE u[k + 1] \in Nat
    OBVIOUS
  <2>1. u[k + 1] = u[k] + p[k + 1] /\ u[k] \in Nat /\ p[k + 1] \in Nat
    BY <1>2 DEF IsSums
  <2>2. QED
    BY <2>1
<1>5. T = Nat
  <2>1. T \in SUBSET Nat
    OBVIOUS
  <2> HIDE DEF T
  <2>2. QED
    BY <1>3, <1>4, <2>1, Inductive
<1>6. Len(p) \in T
  BY <1>5
<1>7. QED
  BY <1>1, <1>2, <1>6, SumIsLast

LEMMA SumIsZero ==
  ASSUME NEW p \in Seq(Int), \A i \in 1 .. Len(p) : p[i] = 0
  PROVE  C!SumOf(p) = 0
<1>1. PICK u : IsSums(u, p)
  BY SumsExist
<1> DEFINE T == {k \in Nat : k <= Len(p) => u[k] = 0}
<1>2. 0 \in T
  BY <1>1 DEF IsSums
<1>3. ASSUME NEW k \in T PROVE k + 1 \in T
  <2> SUFFICES ASSUME k + 1 <= Len(p) PROVE u[k + 1] = 0
    OBVIOUS
  <2>1. u[k + 1] = u[k] + p[k + 1] /\ u[k] = 0 /\ p[k + 1] = 0
    BY <1>1 DEF IsSums
  <2>2. QED
    BY <2>1
<1>4. T = Nat
  <2>1. T \in SUBSET Nat
    OBVIOUS
  <2> HIDE DEF T
  <2>2. QED
    BY <1>2, <1>3, <2>1, Inductive
<1>5. Len(p) \in T
  BY <1>4
<1>6. QED
  BY <1>1, <1>5, SumIsLast

-----------------------------------------------------------------------------
(* A price of any basket *)

Baskets == Seq([quantity : Nat \ {0}, unitPrice : Nat])

\* What ItemsAddUp says of one price.
AddsUp(p) ==
  /\ \A i \in DOMAIN p.items :
       LET item == p.items[i] IN
       /\ item.totalPrice = item.unitPrice * item.quantity
       /\ 2 * C!Magnitude(item.totalPriceFinal - item.unitPriceFinal * item.quantity)
            <= item.quantity
       /\ item.totalPriceFinal >= 0
  /\ 2 * C!Magnitude(C!SumOf(C!Column(p.items, "taxAmount")) - p.taxAmount) <= Len(p.items)
  /\ p.totalAmount >= 0

LEMMA MagnitudeBounds ==
  ASSUME NEW n \in Int, NEW k \in Int, 2 * n <= k, -(2 * n) <= k
  PROVE  2 * C!Magnitude(n) <= k
BY DEF C!Magnitude

\* A tax takes off at most the price.
LEMMA TaxTakesAtMostAll ==
  ASSUME NEW subtotal \in Nat, NEW m \in Nat
  PROVE  C!Money(subtotal * (m - C!Full), C!Full) >= -subtotal
<1> DEFINE n == subtotal * (m - C!Full)
           T == C!Money(n, C!Full)
<1>1. C!Full = 10000
  BY DEF C!Full
<1>2. n = subtotal * m - subtotal * 10000 /\ subtotal * m \in Nat
  BY <1>1
<1>3. n \in Int /\ n >= -(subtotal * 10000)
  BY <1>2
<1> HIDE DEF n
<1>4. T \in Int /\ 2 * (n - T * 10000) <= 10000
  BY <1>1, <1>3, Rounding
<1> HIDE DEF T
<1>5. T >= -subtotal
  BY <1>3, <1>4
<1>6. QED
  BY <1>5 DEF T, n

\* The share of an item is within half of what is due, and takes off at most
\* its price.
LEMMA ShareOfTax ==
  ASSUME NEW total \in Nat, NEW subtotal \in Nat \ {0}, NEW amount \in Int, amount >= -subtotal
  PROVE  LET share == C!Money(amount * total, subtotal) IN
         /\ share \in Int /\ total + share >= 0
         /\ 2 * (share * subtotal - amount * total) <= subtotal
         /\ 2 * (amount * total - share * subtotal) <= subtotal
<1> DEFINE share == C!Money(amount * total, subtotal)
<1>1. amount * total \in Int
  OBVIOUS
<1>2. /\ share \in Int
      /\ 2 * (share * subtotal - amount * total) <= subtotal
      /\ 2 * (amount * total - share * subtotal) <= subtotal
  BY <1>1, Rounding
<1> HIDE DEF share
<1>3. amount * total >= -(subtotal * total)
  <2>1. \A x, y \in Int, z \in Nat : x >= y => x * z >= y * z
    OBVIOUS
  <2>2. (-subtotal) * total = -(subtotal * total)
    OBVIOUS
  <2>3. QED
    BY <2>1, <2>2
<1>4. ASSUME share + total <= -1 PROVE FALSE
  <2>1. (share + total) * subtotal <= -subtotal
    <3>1. \A x \in Int, z \in Nat : x <= -1 => x * z <= -z
      OBVIOUS
    <3>2. QED
      BY <1>2, <1>4, <3>1
  <2>2. (share + total) * subtotal = share * subtotal + subtotal * total
    BY <1>2
  <2>3. share * subtotal \in Int /\ subtotal * total \in Int
    BY <1>2
  <2>4. QED
    BY <1>1, <1>2, <1>3, <2>1, <2>2, <2>3
<1>5. QED
  BY <1>2, <1>4 DEF share

\* What is at most so many times a whole is at most so many.
LEMMA DivideByWhole ==
  ASSUME NEW x \in Int, NEW y \in Int, NEW z \in Nat \ {0}, 2 * (x * z) <= y * z
  PROVE  2 * x <= y
<1> SUFFICES ASSUME 2 * x >= y + 1 PROVE FALSE
  OBVIOUS
<1>1. (2 * x - y) * z >= z
  <2>1. \A a \in Int : a >= 1 => a * z >= z
    OBVIOUS
  <2>2. QED
    BY <2>1
<1>2. (2 * x - y) * z = 2 * (x * z) - y * z /\ x * z \in Int /\ y * z \in Int
  OBVIOUS
<1>3. QED
  BY <1>1, <1>2

LEMMA NormalizedItem ==
  ASSUME NEW item \in [quantity : Nat \ {0}, unitPrice : Nat]
  PROVE  /\ C!Normalized(item).quantity \in Nat \ {0}
         /\ C!Normalized(item).unitPrice \in Nat
         /\ C!Normalized(item).totalPrice =
              C!Normalized(item).unitPrice * C!Normalized(item).quantity
         /\ C!Normalized(item).totalPrice \in Nat
<1> DEFINE unit == C!Money(item.unitPrice, 10)
<1>1. item.quantity \in Nat \ {0} /\ item.unitPrice \in Int /\ item.unitPrice >= 0 /\ 10 \in Nat \ {0}
  OBVIOUS
<1>2. unit \in Int /\ unit >= 0
  BY <1>1, Rounding
<1>3. C!Normalized(item) = [quantity |-> item.quantity, unitPrice |-> unit,
                           totalPrice |-> unit * item.quantity]
  BY DEF C!Normalized
<1> HIDE DEF unit
<1>4. unit * item.quantity \in Nat
  BY <1>1, <1>2
<1>5. QED
  BY <1>1, <1>2, <1>3, <1>4

\* For every basket, tax and fee, the price computeOrderPricing returns adds up.
THEOREM PriceAddsUp ==
  ASSUME NEW list \in Baskets, NEW m \in Nat, NEW f \in Nat
  PROVE  AddsUp(C!PriceOf(list, m, f))
<1> DEFINE n == Len(list)
           normalized == [i \in DOMAIN list |-> C!Normalized(list[i])]
           totals == C!Column(normalized, "totalPrice")
           subtotal == C!SumOf(totals)
           amount == C!Money(subtotal * (m - C!Full), C!Full)
           untaxed == subtotal <= 0 \/ m = C!Full
           share == [i \in DOMAIN list |-> C!ItemTax(normalized[i], subtotal, amount, m)]
           final == [i \in DOMAIN list |-> C!Finished(normalized[i], share[i], untaxed)]
           shares == C!Column(final, "taxAmount")
           p == C!PriceOf(list, m, f)
<1>1. /\ p.subtotal = subtotal /\ p.taxAmount = amount /\ p.items = final
      /\ p.totalAmount = subtotal + amount + f
  BY DEF C!PriceOf
<1>2. /\ n \in Nat /\ DOMAIN list = 1 .. n
      /\ \A i \in 1 .. n : list[i] \in [quantity : Nat \ {0}, unitPrice : Nat]
  BY ElementsOfSeq DEF Baskets
<1>3. ASSUME NEW i \in 1 .. n
      PROVE  /\ normalized[i].quantity \in Nat \ {0}
             /\ normalized[i].unitPrice \in Nat
             /\ normalized[i].totalPrice = normalized[i].unitPrice * normalized[i].quantity
             /\ normalized[i].totalPrice \in Nat
  <2>1. normalized[i] = C!Normalized(list[i])
    BY <1>2
  <2>2. QED
    BY <1>2, <2>1, NormalizedItem
<1>4. DOMAIN normalized = 1 .. n /\ DOMAIN final = 1 .. n /\ Len(final) = n
  BY <1>2
<1> HIDE DEF normalized
<1>5. totals \in Seq(Nat) /\ totals \in Seq(Int) /\ Len(totals) = n
      /\ \A i \in 1 .. n : totals[i] = normalized[i].totalPrice
  <2>1. n \in Nat /\ DOMAIN normalized = 1 .. n
    BY <1>2, <1>4
  <2>2. \A i \in 1 .. n : normalized[i].totalPrice \in Nat
    BY <1>3
  <2> HIDE DEF n
  <2>3. /\ totals \in Seq(Nat) /\ Len(totals) = n
        /\ \A i \in 1 .. n : totals[i] = normalized[i].totalPrice
    BY <2>1, <2>2, TotalsAreSeq
  <2>4. totals \in Seq(Int)
    BY <2>3
  <2>5. QED
    BY <2>3, <2>4
<1> HIDE DEF totals
<1>6. subtotal \in Nat
  BY <1>5, SumIsNat
<1> HIDE DEF subtotal
<1>7. amount \in Int /\ amount >= -subtotal
  <2>1. subtotal * (m - C!Full) \in Int /\ C!Full \in Nat \ {0}
    BY <1>6 DEF C!Full
  <2>2. C!Money(subtotal * (m - C!Full), C!Full) \in Int
    BY <2>1, Rounding
  <2>3. QED
    BY <1>6, <2>2, TaxTakesAtMostAll
<1>8. untaxed => amount = 0
  <2>1. untaxed => subtotal * (m - C!Full) = 0
    BY <1>6 DEF C!Full
  <2>2. C!Full \in Nat \ {0}
    BY DEF C!Full
  <2>3. C!Money(0, C!Full) = 0
    BY <2>2, Rounding
  <2>4. QED
    BY <2>1, <2>3
<1> HIDE DEF amount
<1>9. ASSUME NEW i \in 1 .. n
      PROVE  /\ share[i] \in Int /\ normalized[i].totalPrice + share[i] >= 0
             /\ 2 * (share[i] * subtotal - amount * normalized[i].totalPrice) <= subtotal
             /\ 2 * (amount * normalized[i].totalPrice - share[i] * subtotal) <= subtotal
             /\ untaxed => share[i] = 0
  <2>1. CASE untaxed
    <3>1. share[i] = 0
      BY <2>1 DEF C!ItemTax
    <3>2. amount * normalized[i].totalPrice = 0 /\ 0 * subtotal = 0
      BY <1>3, <1>6, <1>8, <2>1
    <3>3. QED
      BY <1>3, <1>6, <3>1, <3>2
  <2>2. CASE ~untaxed
    <3>1. share[i] = C!Money(amount * normalized[i].totalPrice, subtotal)
      BY <1>2, <2>2 DEF C!ItemTax
    <3>2. subtotal \in Nat \ {0} /\ normalized[i].totalPrice \in Nat
      BY <1>3, <1>6, <2>2
    <3> HIDE DEF share, untaxed
    <3>3. /\ share[i] \in Int /\ normalized[i].totalPrice + share[i] >= 0
          /\ 2 * (share[i] * subtotal - amount * normalized[i].totalPrice) <= subtotal
          /\ 2 * (amount * normalized[i].totalPrice - share[i] * subtotal) <= subtotal
      BY <1>7, <3>1, <3>2, ShareOfTax
    <3>4. QED
      BY <2>2, <3>3
  <2>3. QED
    BY <2>1, <2>2
<1>10. ASSUME NEW i \in 1 .. n
       PROVE  /\ final[i].quantity = normalized[i].quantity
              /\ final[i].unitPrice = normalized[i].unitPrice
              /\ final[i].totalPrice = normalized[i].totalPrice
              /\ final[i].taxAmount = share[i]
              /\ final[i].totalPriceFinal = normalized[i].totalPrice + share[i]
              /\ final[i].unitPriceFinal =
                   IF untaxed THEN normalized[i].unitPrice
                   ELSE C!Money(normalized[i].totalPrice + share[i], normalized[i].quantity)
  BY <1>2 DEF C!Finished
<1> HIDE DEF share, final, untaxed, p, shares
<1>11. shares \in Seq(Int) /\ Len(shares) = n /\ \A i \in 1 .. n : shares[i] = share[i]
  <2>1. \A i \in 1 .. n : final[i].taxAmount = share[i] /\ final[i].taxAmount \in Int
    BY <1>9, <1>10
  <2>2. n \in Nat /\ DOMAIN final = 1 .. n
    BY <1>2, <1>4
  <2> HIDE DEF n
  <2>3. /\ shares \in Seq(Int) /\ Len(shares) = n
        /\ \A i \in 1 .. n : shares[i] = final[i].taxAmount
    BY <2>1, <2>2, TaxesAreSeq DEF shares
  <2>4. QED
    BY <2>1, <2>3
<1>12. 2 * C!Magnitude(C!SumOf(shares) - amount) <= n
  <2>1. CASE untaxed
    <3>1. C!SumOf(shares) = 0
      BY <1>9, <1>11, <2>1, SumIsZero
    <3>2. QED
      BY <1>2, <1>8, <2>1, <3>1 DEF C!Magnitude
  <2>2. CASE ~untaxed
    <3>1. subtotal \in Nat \ {0}
      BY <1>6, <2>2 DEF untaxed
    <3>2. /\ C!SumOf(shares) \in Int
          /\ 2 * (C!SumOf(shares) * subtotal - amount * subtotal) <= n * subtotal
          /\ 2 * (amount * subtotal - C!SumOf(shares) * subtotal) <= n * subtotal
      <4>1. \A i \in 1 .. n : /\ 2 * (shares[i] * subtotal - amount * totals[i]) <= subtotal
                              /\ 2 * (amount * totals[i] - shares[i] * subtotal) <= subtotal
        BY <1>5, <1>9, <1>11
      <4>2. QED
        BY <1>5, <1>6, <1>7, <1>11, <4>1, SharesAddUp DEF subtotal
    <3> DEFINE d == C!SumOf(shares) - amount
    <3>3. /\ d \in Int /\ -d \in Int /\ d * subtotal = C!SumOf(shares) * subtotal - amount * subtotal
          /\ (-d) * subtotal = amount * subtotal - C!SumOf(shares) * subtotal
      BY SMTT(30), <1>6, <1>7, <3>2
    <3> HIDE DEF d
    <3>4. 2 * (d * subtotal) <= n * subtotal /\ 2 * ((-d) * subtotal) <= n * subtotal
      BY <3>2, <3>3
    <3>5. 2 * d <= n /\ 2 * (-d) <= n
      <4>1. n \in Int
        BY <1>2
      <4>2. 2 * d <= n
        BY <3>1, <3>3, <3>4, <4>1, DivideByWhole
      <4>3. 2 * (-d) <= n
        BY <3>1, <3>3, <3>4, <4>1, DivideByWhole
      <4>4. QED
        BY <4>2, <4>3
    <3>6. QED
      BY <1>2, <3>3, <3>5, MagnitudeBounds DEF d
  <2>3. QED
    BY <2>1, <2>2
<1>13. ASSUME NEW i \in 1 .. n
       PROVE  /\ final[i].totalPrice = final[i].unitPrice * final[i].quantity
              /\ 2 * C!Magnitude(final[i].totalPriceFinal - final[i].unitPriceFinal * final[i].quantity)
                   <= final[i].quantity
              /\ final[i].totalPriceFinal >= 0
  <2>1. /\ normalized[i].quantity \in Nat \ {0} /\ normalized[i].totalPrice + share[i] \in Nat
        /\ normalized[i].unitPrice \in Nat
    BY <1>2, <1>3, <1>9
  <2>2. CASE untaxed
    <3>1. final[i].totalPriceFinal = final[i].unitPriceFinal * final[i].quantity
      BY <1>3, <1>9, <1>10, <2>1, <2>2
    <3>2. final[i].totalPriceFinal - final[i].unitPriceFinal * final[i].quantity = 0
      BY <1>10, <2>1, <3>1
    <3>3. QED
      BY <1>3, <1>10, <2>1, <3>2 DEF C!Magnitude
  <2>3. CASE ~untaxed
    <3> DEFINE total == normalized[i].totalPrice + share[i]
               unit == C!Money(total, normalized[i].quantity)
               rest == total - unit * normalized[i].quantity
    <3>1. /\ unit \in Int /\ 2 * (unit * normalized[i].quantity - total) <= normalized[i].quantity
          /\ 2 * (total - unit * normalized[i].quantity) <= normalized[i].quantity
      <4>1. total \in Int /\ normalized[i].quantity \in Nat \ {0}
        BY <2>1
      <4> HIDE DEF total
      <4>2. QED
        BY <4>1, Rounding
    <3>2. final[i].unitPriceFinal = unit /\ final[i].totalPriceFinal = total
      BY <1>10, <2>3
    <3> HIDE DEF unit, total
    <3>3. total \in Nat
      BY <2>1 DEF total
    <3>4. rest \in Int /\ 2 * rest <= normalized[i].quantity /\ -(2 * rest) <= normalized[i].quantity
      <4> DEFINE whole == unit * normalized[i].quantity
      <4>1. /\ whole \in Int /\ total \in Int /\ normalized[i].quantity \in Int
            /\ 2 * (whole - total) <= normalized[i].quantity
            /\ 2 * (total - whole) <= normalized[i].quantity /\ rest = total - whole
        BY <2>1, <3>1, <3>3
      <4> HIDE DEF whole, rest
      <4>2. QED
        BY <4>1
    <3>5. 2 * C!Magnitude(rest) <= normalized[i].quantity
      BY <2>1, <3>4, MagnitudeBounds
    <3> HIDE DEF rest
    <3>6. final[i].totalPriceFinal - final[i].unitPriceFinal * final[i].quantity = rest
      BY <1>10, <3>2 DEF rest
    <3>7. final[i].totalPriceFinal >= 0
      BY <3>2, <3>3
    <3>8. QED
      BY <1>3, <1>10, <3>5, <3>6, <3>7
  <2>4. QED
    BY <2>2, <2>3
<1>14. subtotal + amount + f >= 0
  BY <1>6, <1>7
<1>15. QED
  BY <1>1, <1>4, <1>12, <1>13, <1>14 DEF AddsUp, p, shares

BasketInv == cart \in [Requests -> Baskets] /\ DOMAIN price = Requests /\ C!ItemsAddUp

LEMMA SomeAreBaskets == SomeCarts \subseteq Baskets
BY DEF SomeCarts, Baskets, Item

LEMMA BasketInit == C!Init => BasketInv
BY DEF C!Init, BasketInv, Baskets, C!ItemsAddUp

LEMMA BasketStep ==
  ASSUME SettingsInv, BasketInv, [C!Next]_priceVars
  PROVE  BasketInv'
<1>1. ASSUME NEW r \in Requests, C!Compute(r) PROVE BasketInv'
  <2>1. /\ price' = [price EXCEPT ![r] = C!PriceOf(cart[r], multiplier[r], serviceFee[r])]
        /\ cart' = cart
    BY <1>1 DEF C!Compute
  <2>2. cart[r] \in Baskets /\ multiplier[r] \in Nat /\ serviceFee[r] \in Nat
    BY <1>1 DEF BasketInv, SettingsInv, PriceShape, C!Compute
  <2>3. AddsUp(C!PriceOf(cart[r], multiplier[r], serviceFee[r]))
    BY <2>2, PriceAddsUp
  <2>4. \A q \in Requests : price'[q] # None => AddsUp(price'[q])
    <3>1. \A q \in Requests : price[q] # None => AddsUp(price[q])
      BY DEF BasketInv, C!ItemsAddUp, AddsUp
    <3>2. DOMAIN price = Requests
      BY DEF BasketInv
    <3>3. QED
      BY <2>1, <2>3, <3>1, <3>2
  <2>5. C!ItemsAddUp'
    BY <2>4 DEF C!ItemsAddUp, AddsUp
  <2>6. QED
    BY <2>1, <2>5 DEF BasketInv
<1>2. CASE UNCHANGED <<price, cart>>
  BY <1>2 DEF BasketInv, C!ItemsAddUp
<1>3. ASSUME NEW r \in Requests, NEW basket \in SomeCarts, C!Begin(r, basket) PROVE BasketInv'
  <2>1. cart' = [cart EXCEPT ![r] = basket] /\ price' = price /\ basket \in Baskets
    BY <1>3, SomeAreBaskets DEF C!Begin
  <2>2. QED
    BY <2>1 DEF BasketInv, C!ItemsAddUp
<1>4. QED
  BY <1>1, <1>2, <1>3 DEF C!Next, C!ReadTax, C!ReadFee, C!ChangeSetting, priceVars

\* The rounded items of every price add up to its totals, and neither it nor a
\* line of it is negative (computeOrderPricing of pricing.util.ts).
THEOREM HistoryItemsAddUp == MCSpec => []ItemsAddUp
<1> DEFINE Inv == part = "prices" => SettingsInv /\ BasketInv
<1>1. MCInit => Inv
  BY PriceInit, BasketInit DEF MCInit
<1>2. Inv /\ [MCNext]_<<part, vars, boardVars, reportVars, priceVars>> => Inv'
  <2> SUFFICES ASSUME part' = "prices", Inv,
                      [MCNext]_<<part, vars, boardVars, reportVars, priceVars>>
               PROVE  SettingsInv' /\ BasketInv'
    OBVIOUS
  <2>1. part = "prices" /\ [C!Next]_priceVars
    BY DEF MCNext
  <2>2. QED
    BY <2>1, PriceStep, BasketStep
<1>3. Inv => ItemsAddUp
  BY DEF ItemsAddUp, BasketInv
<1>4. QED
  BY <1>1, <1>2, <1>3, PTL DEF MCSpec

=============================================================================
