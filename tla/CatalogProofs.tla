---------------------------- MODULE CatalogProofs ----------------------------
(***************************************************************************)
(* Proofs about Catalog: ordered products and their categories stay, and   *)
(* only an edit of its original price can leave a product with a price     *)
(* that does not match.  The inductive invariant says what a request that  *)
(* waits between its read and its write may still rely on.  Then, with an  *)
(* invariant each, the parts beside it in the run: comments, banners,      *)
(* icons and options.                                                      *)
(***************************************************************************)
EXTENDS MCCatalog, FiniteSetTheorems, TLAPS

\* Ids that were never used are no product's, and no request knows them; a
\* request that has not started edits nothing.
FreshInv ==
  /\ fresh \cap products = {}
  /\ \A r \in Requests :
       /\ listed[r] \cap fresh = {}
       /\ pc[r] = "edit" => product[r] \in Products \ fresh
       /\ pc[r] = "idle" => product[r] = None /\ dto[r] = NoEdit
       /\ pc[r] = "delete" => category[r] \in Categories

\* Unless its original price is edited, a product still has the original
\* price that the edit about to write it read, and that edit read a price
\* that matches.
EditSound ==
  \A r \in Requests :
    pc[r] = "edit" /\ product[r] \in products /\ ~OriginalEdited(product[r]) =>
      /\ Matches(existing[r])
      /\ existing[r].originalPrice = row[product[r]].originalPrice

\* Unless its original price is edited, the price computed for a product is
\* still the one to write.
BatchSound ==
  \A r \in Requests, p \in Products :
    pc[r] = "apply" /\ p \in listed[r] \cap products /\ ~OriginalEdited(p) =>
      newPrice[r][p] = PriceOf(row[p].originalPrice, discount[r])

IInv == TypeOK /\ FreshInv /\ EditSound /\ BatchSound /\ PriceMatches /\ OrderedIsKept

USE IdAssumption, PriceAssumption, NoneAssumption, EditAssumption

\* A price is a natural number, whatever the discount.
LEMMA PriceIsNat ==
  ASSUME NEW o \in Nat, NEW d \in Nat
  PROVE  PriceOf(o, d) \in Nat
<1> DEFINE k == 100 - IF d > 100 THEN 100 ELSE d
<1>1. k \in Nat
  OBVIOUS
<1> HIDE DEF k
<1>2. o * k \in Nat
  BY <1>1
<1>3. (o * k) \div 100 \in Nat
  BY <1>2
<1> QED BY <1>3 DEF PriceOf, k

\* So is a row with another discount and price, or in another category.
LEMMA ChangedIsRow ==
  ASSUME NEW old \in Rows
  PROVE  /\ \A d \in Nat, n \in Nat :
              [old EXCEPT !.discountPercent = d, !.price = n] \in Rows
         /\ \A c \in AllCategories : [old EXCEPT !.categoryId = c] \in Rows
BY DEF Rows

\* An edited row is a row.
LEMMA EditedIsRow ==
  ASSUME NEW old \in Rows, NEW edit \in Edits \cup {NoEdit}
  PROVE  Edited(old, edit) \in Rows
<1> DEFINE o == Given(edit.originalPrice, old.originalPrice)
           d == Given(edit.discountPercent, old.discountPercent)
           c == Given(edit.categoryId, old.categoryId)
<1>a. /\ edit.originalPrice \in Prices \cup {None}
      /\ edit.discountPercent \in Discounts \cup {None}
      /\ edit.categoryId \in Categories \cup {None}
  BY DEF NoEdit
<1>b. /\ old.originalPrice \in Nat /\ old.discountPercent \in Nat
      /\ old.categoryId \in AllCategories
  BY DEF Rows
<1>1. o \in Nat /\ d \in Nat /\ c \in AllCategories
  BY <1>a, <1>b DEF Given, AllCategories
<1>2. PriceOf(o, d) \in Nat /\ old.price \in Nat
  BY <1>1, PriceIsNat DEF Rows
<1>3. NewRow(o, d, c) \in Rows
  BY <1>1, <1>2 DEF NewRow, Rows
<1> HIDE DEF o, d, c
<1>4. Merged(old, edit) = NewRow(o, d, c)
  BY DEF Merged, o, d, c
<1> QED BY <1>2, <1>3, <1>4 DEF Edited, Rows

\* An edit that carries no original price keeps it, and a price that matches.
LEMMA EditedMatches ==
  ASSUME NEW old \in Rows, NEW edit \in Edits \cup {NoEdit},
         edit.originalPrice = None, Matches(old)
  PROVE  /\ Matches(Edited(old, edit))
         /\ Edited(old, edit).originalPrice = old.originalPrice
<1>1. CASE edit.discountPercent = None
  BY <1>1 DEF Edited, Merged, NewRow, Given, Matches
<1>2. CASE edit.discountPercent # None
  BY <1>2 DEF Edited, Merged, NewRow, Given, Matches
<1> QED BY <1>1, <1>2

\* The initial states satisfy the inductive invariant.
LEMMA InitIInv == Init => IInv
<1> SUFFICES ASSUME Init PROVE IInv
  OBVIOUS
<1> USE DEF Init
<1>1. Blank \in Rows
  BY DEF Blank, Rows, AllCategories
<1>2. TypeOK
  BY <1>1 DEF TypeOK, AllCategories
<1>3. FreshInv /\ EditSound /\ BatchSound
  BY DEF FreshInv, EditSound, BatchSound
<1>4. PriceMatches /\ OrderedIsKept
  BY DEF PriceMatches, OrderedIsKept
<1> QED BY <1>2, <1>3, <1>4 DEF IInv

\* Every step preserves the types.
LEMMA TypeStep == TypeOK /\ [Next]_vars => TypeOK'
<1> SUFFICES ASSUME TypeOK, [Next]_vars PROVE TypeOK'
  OBVIOUS
<1> USE DEF TypeOK
<1>1. ASSUME NEW c \in Categories, CreateCategory(c) PROVE TypeOK'
  BY <1>1 DEF CreateCategory, editVars, batchVars, AllCategories
<1>2. ASSUME NEW p \in Products, NEW o \in Prices, NEW d \in Discounts,
             NEW c \in Categories, CreateProduct(p, o, d, c)
      PROVE  TypeOK'
  <2>1. NewRow(o, d, c) \in Rows
    BY PriceIsNat DEF NewRow, Rows, AllCategories
  <2> QED BY <1>2, <2>1 DEF CreateProduct, editVars, batchVars
<1>3. ASSUME NEW p \in Products, OrderProduct(p) PROVE TypeOK'
  BY <1>3 DEF OrderProduct, editVars, batchVars
<1>4. ASSUME NEW r \in Requests, NEW p \in Products, NEW edit \in Edits, ReadForEdit(r, p, edit)
      PROVE  TypeOK'
  BY <1>4 DEF ReadForEdit, Goto, tables, batchVars, InFlight
<1>5. ASSUME NEW r \in Requests, StoreEdit(r) PROVE TypeOK'
  <2>1. Edited(existing[r], dto[r]) \in Rows
    BY EditedIsRow
  <2> QED BY <1>5, <2>1 DEF StoreEdit, Goto, editVars, batchVars
<1>6. ASSUME NEW r \in Requests, NEW p \in Products, CountOrderItems(r, p)
      PROVE  TypeOK'
  BY <1>6 DEF CountOrderItems, Goto, tables, batchVars, InFlight
<1>7. ASSUME NEW r \in Requests, RemoveProduct(r) PROVE TypeOK'
  BY <1>7 DEF RemoveProduct, Goto, editVars, batchVars
<1>8. ASSUME NEW r \in Requests, NEW c \in Categories, NEW d \in Discounts, UpdateCategory(r, c, d)
      PROVE  TypeOK'
  BY <1>8 DEF UpdateCategory, Goto, tables, editVars, AllCategories, InFlight
<1>9. ASSUME NEW r \in Requests, ReadProducts(r) PROVE TypeOK'
  <2>1. \A p \in Products : PriceOf(row[p].originalPrice, discount[r]) \in Nat
    BY PriceIsNat DEF Rows
  <2>2. newPrice'[r] \in [Products -> Nat]
    BY <1>9, <2>1 DEF ReadProducts
  <2>3. newPrice' \in [Requests -> [Products -> Nat]]
    BY <1>9, <2>2 DEF ReadProducts
  <2> QED BY <1>9, <2>3 DEF ReadProducts, InCategory, InFlight, Goto, tables, editVars
<1>10. ASSUME NEW r \in Requests, ApplyDiscount(r) PROVE TypeOK'
  <2>1. ASSUME NEW p \in Products
        PROVE [row[p] EXCEPT !.discountPercent = discount[r], !.price = newPrice[r][p]] \in Rows
    <3>1. row[p] \in Rows /\ discount[r] \in Nat /\ newPrice[r][p] \in Nat
      OBVIOUS
    <3> QED BY <3>1, ChangedIsRow
  <2>2. row' \in [Products -> Rows]
    BY <1>10, <2>1 DEF ApplyDiscount
  <2> QED BY <1>10, <2>2 DEF ApplyDiscount, Goto, editVars, batchVars
<1>11. ASSUME NEW r \in Requests, NEW c \in Categories, ListCategory(r, c)
      PROVE  TypeOK'
  BY <1>11 DEF ListCategory, Goto, tables, editVars, AllCategories, InCategory, InFlight
<1>12. ASSUME NEW r \in Requests, DeleteCategory(r) PROVE TypeOK'
  <2>1. \A p \in Products : [row[p] EXCEPT !.categoryId = Uncategorized] \in Rows
    BY ChangedIsRow DEF AllCategories
  <2>2. row' \in [Products -> Rows]
    BY <1>12, <2>1 DEF DeleteCategory
  <2>3. categories' \subseteq AllCategories /\ products' \subseteq Products
    BY <1>12 DEF DeleteCategory, AllCategories
  <2> QED BY <1>12, <2>2, <2>3 DEF DeleteCategory, Goto, editVars, batchVars
<1>13. ASSUME NEW r \in Requests, Fail(r) PROVE TypeOK'
  BY <1>13 DEF Fail, Goto, tables, editVars, batchVars
<1>14. ASSUME UNCHANGED vars PROVE TypeOK'
  BY <1>14 DEF vars, tables, editVars, batchVars
<1> QED
  BY <1>1, <1>2, <1>3, <1>4, <1>5, <1>6, <1>7, <1>8, <1>9, <1>10, <1>11, <1>12, <1>13, <1>14
     DEF Next, RequestStep

\* Every step keeps new ids new, and requests to their stages.
LEMMA FreshStep == TypeOK /\ FreshInv /\ [Next]_vars => FreshInv'
<1> SUFFICES ASSUME TypeOK, FreshInv, [Next]_vars PROVE FreshInv'
  OBVIOUS
<1> USE DEF TypeOK, FreshInv
<1>1. ASSUME NEW c \in Categories, CreateCategory(c) PROVE FreshInv'
  BY <1>1 DEF CreateCategory, editVars, batchVars
<1>2. ASSUME NEW p \in Products, NEW o \in Prices, NEW d \in Discounts,
             NEW c \in Categories, CreateProduct(p, o, d, c)
      PROVE  FreshInv'
  BY <1>2 DEF CreateProduct, editVars, batchVars
<1>3. ASSUME NEW p \in Products, OrderProduct(p) PROVE FreshInv'
  BY <1>3 DEF OrderProduct, editVars, batchVars
<1>4. ASSUME NEW r \in Requests, NEW p \in Products, NEW edit \in Edits, ReadForEdit(r, p, edit)
      PROVE  FreshInv'
  BY <1>4 DEF ReadForEdit, Goto, tables, batchVars
<1>5. ASSUME NEW r \in Requests, StoreEdit(r) PROVE FreshInv'
  BY <1>5 DEF StoreEdit, Goto, editVars, batchVars
<1>6. ASSUME NEW r \in Requests, NEW p \in Products, CountOrderItems(r, p)
      PROVE  FreshInv'
  BY <1>6 DEF CountOrderItems, Goto, tables, batchVars
<1>7. ASSUME NEW r \in Requests, RemoveProduct(r) PROVE FreshInv'
  BY <1>7 DEF RemoveProduct, Goto, editVars, batchVars
<1>8. ASSUME NEW r \in Requests, NEW c \in Categories, NEW d \in Discounts, UpdateCategory(r, c, d)
      PROVE  FreshInv'
  BY <1>8 DEF UpdateCategory, Goto, tables, editVars
<1>9. ASSUME NEW r \in Requests, ReadProducts(r) PROVE FreshInv'
  BY <1>9 DEF ReadProducts, Goto, tables, editVars, InCategory
<1>10. ASSUME NEW r \in Requests, ApplyDiscount(r) PROVE FreshInv'
  BY <1>10 DEF ApplyDiscount, Goto, editVars, batchVars
<1>11. ASSUME NEW r \in Requests, NEW c \in Categories, ListCategory(r, c)
      PROVE  FreshInv'
  BY <1>11 DEF ListCategory, Goto, tables, editVars, InCategory
<1>12. ASSUME NEW r \in Requests, DeleteCategory(r) PROVE FreshInv'
  BY <1>12 DEF DeleteCategory, Goto, editVars, batchVars
<1>13. ASSUME NEW r \in Requests, Fail(r) PROVE FreshInv'
  BY <1>13 DEF Fail, Goto, tables, editVars, batchVars
<1>14. ASSUME UNCHANGED vars PROVE FreshInv'
  BY <1>14 DEF vars, tables, editVars, batchVars
<1> QED
  BY <1>1, <1>2, <1>3, <1>4, <1>5, <1>6, <1>7, <1>8, <1>9, <1>10, <1>11, <1>12, <1>13, <1>14
     DEF Next, RequestStep

\* Every step keeps the ordered products and the categories of products.
LEMMA OrderedStep == TypeOK /\ FreshInv /\ OrderedIsKept /\ [Next]_vars => OrderedIsKept'
<1> SUFFICES ASSUME TypeOK, FreshInv, OrderedIsKept, [Next]_vars PROVE OrderedIsKept'
  OBVIOUS
<1> USE DEF TypeOK, FreshInv, OrderedIsKept
<1>1. ASSUME NEW c \in Categories, CreateCategory(c) PROVE OrderedIsKept'
  BY <1>1 DEF CreateCategory, editVars, batchVars
<1>2. ASSUME NEW p \in Products, NEW o \in Prices, NEW d \in Discounts,
             NEW c \in Categories, CreateProduct(p, o, d, c)
      PROVE  OrderedIsKept'
  BY <1>2 DEF CreateProduct, editVars, batchVars, NewRow
<1>3. ASSUME NEW p \in Products, OrderProduct(p) PROVE OrderedIsKept'
  BY <1>3 DEF OrderProduct, editVars, batchVars
<1>4. ASSUME NEW r \in Requests, NEW p \in Products, NEW edit \in Edits, ReadForEdit(r, p, edit)
      PROVE  OrderedIsKept'
  BY <1>4 DEF ReadForEdit, Goto, tables, batchVars
<1>5. ASSUME NEW r \in Requests, StoreEdit(r) PROVE OrderedIsKept'
  <2>1. \A p \in products : row'[p].categoryId \in categories
    BY <1>5 DEF StoreEdit
  <2> QED BY <1>5, <2>1 DEF StoreEdit
<1>6. ASSUME NEW r \in Requests, NEW p \in Products, CountOrderItems(r, p)
      PROVE  OrderedIsKept'
  BY <1>6 DEF CountOrderItems, Goto, tables, batchVars
<1>7. ASSUME NEW r \in Requests, RemoveProduct(r) PROVE OrderedIsKept'
  BY <1>7 DEF RemoveProduct, Goto, editVars, batchVars
<1>8. ASSUME NEW r \in Requests, NEW c \in Categories, NEW d \in Discounts, UpdateCategory(r, c, d)
      PROVE  OrderedIsKept'
  BY <1>8 DEF UpdateCategory, Goto, tables, editVars
<1>9. ASSUME NEW r \in Requests, ReadProducts(r) PROVE OrderedIsKept'
  BY <1>9 DEF ReadProducts, Goto, tables, editVars
<1>10. ASSUME NEW r \in Requests, ApplyDiscount(r) PROVE OrderedIsKept'
  <2>1. ASSUME NEW p \in products
        PROVE row'[p].categoryId = row[p].categoryId
    <3>1. CASE p \in listed[r]
      <4>1. row'[p] = [row[p] EXCEPT !.discountPercent = discount[r], !.price = newPrice[r][p]]
        BY <1>10, <3>1 DEF ApplyDiscount
      <4> QED BY <4>1 DEF Rows
    <3>2. CASE p \notin listed[r]
      BY <1>10, <3>2 DEF ApplyDiscount
    <3> QED BY <3>1, <3>2
  <2>2. products' = products /\ ordered' = ordered /\ categories' = categories
    BY <1>10 DEF ApplyDiscount
  <2> QED BY <2>1, <2>2
<1>11. ASSUME NEW r \in Requests, NEW c \in Categories, ListCategory(r, c)
      PROVE  OrderedIsKept'
  BY <1>11 DEF ListCategory, Goto, tables, editVars
<1>12. ASSUME NEW r \in Requests, DeleteCategory(r) PROVE OrderedIsKept'
  <2>1. Uncategorized # category[r]
    BY <1>12 DEF DeleteCategory
  <2>2. ASSUME NEW p \in products'
        PROVE row'[p].categoryId \in categories'
    <3>1. CASE p \in listed[r] \cap ordered
      BY <1>12, <2>1, <3>1 DEF DeleteCategory, Rows
    <3>2. CASE p \notin listed[r]
      BY <1>12, <3>2 DEF DeleteCategory, InCategory
    <3> QED BY <1>12, <3>1, <3>2 DEF DeleteCategory
  <2> QED BY <1>12, <2>2 DEF DeleteCategory
<1>13. ASSUME NEW r \in Requests, Fail(r) PROVE OrderedIsKept'
  BY <1>13 DEF Fail, Goto, tables, editVars, batchVars
<1>14. ASSUME UNCHANGED vars PROVE OrderedIsKept'
  BY <1>14 DEF vars, tables, editVars, batchVars
<1> QED
  BY <1>1, <1>2, <1>3, <1>4, <1>5, <1>6, <1>7, <1>8, <1>9, <1>10, <1>11, <1>12, <1>13, <1>14
     DEF Next, RequestStep

\* What a request carries only changes when it starts.
LEMMA RequestFrame ==
  ASSUME TypeOK, [Next]_vars, NEW q \in Requests, pc[q] # "idle"
  PROVE  product'[q] = product[q] /\ dto'[q] = dto[q] /\ existing'[q] = existing[q]
BY DEF TypeOK, Next, RequestStep, CreateCategory, CreateProduct, OrderProduct, ReadForEdit,
     StoreEdit, CountOrderItems, RemoveProduct, UpdateCategory, ReadProducts, ApplyDiscount,
     ListCategory, DeleteCategory, Fail, Goto, vars, tables, editVars, batchVars

\* An edit of an original price is not forgotten.
LEMMA EditedStays ==
  ASSUME TypeOK, FreshInv, [Next]_vars, NEW p \in Products, OriginalEdited(p)
  PROVE  \E q \in Requests : product'[q] = p /\ dto'[q].originalPrice # None
<1>1. PICK q \in Requests : product[q] = p /\ dto[q].originalPrice # None
  BY DEF OriginalEdited
<1>2. pc[q] # "idle"
  BY <1>1 DEF FreshInv
<1> QED BY <1>1, <1>2, RequestFrame

\* A request is about to store an edit because it just read the row, or was so.
LEMMA EditFrame ==
  ASSUME TypeOK, [Next]_vars, NEW q \in Requests, pc'[q] = "edit", pc[q] # "edit"
  PROVE  \E p \in Products, edit \in Edits : ReadForEdit(q, p, edit)
<1>1. ASSUME NEW r \in Requests, NEW p \in Products, NEW edit \in Edits,
             ReadForEdit(r, p, edit)
      PROVE  r = q
  BY <1>1 DEF TypeOK, ReadForEdit, Goto
<1>2. \E r \in Requests, p \in Products, edit \in Edits : ReadForEdit(r, p, edit)
  BY ZenonT(40) DEF TypeOK, Next, RequestStep, CreateCategory, CreateProduct, OrderProduct,
     StoreEdit, CountOrderItems, RemoveProduct, UpdateCategory, ReadProducts, ApplyDiscount,
     ListCategory, DeleteCategory, Fail, Goto, vars, tables, editVars, batchVars
<1> QED BY <1>1, <1>2

\* A request is about to write its batch because it just read the products,
\* or was so, with the same batch.
LEMMA BatchFrame ==
  ASSUME TypeOK, [Next]_vars, NEW q \in Requests, pc'[q] = "apply"
  PROVE  \/ ReadProducts(q)
         \/ /\ pc[q] = "apply"
            /\ listed'[q] = listed[q] /\ newPrice'[q] = newPrice[q] /\ discount'[q] = discount[q]
<1>1. CASE \E r \in Requests : ReadProducts(r)
  <2> SUFFICES ASSUME NEW r \in Requests, ReadProducts(r), r # q PROVE pc[q] = "apply"
    /\ listed'[q] = listed[q] /\ newPrice'[q] = newPrice[q] /\ discount'[q] = discount[q]
    BY <1>1
  <2> QED BY DEF TypeOK, ReadProducts, Goto
<1>2. CASE ~ \E r \in Requests : ReadProducts(r)
  <2>1. pc[q] = "apply"
    BY ZenonT(40), <1>2 DEF TypeOK, Next, RequestStep, CreateCategory, CreateProduct, OrderProduct, ReadForEdit,
     StoreEdit, CountOrderItems, RemoveProduct, UpdateCategory, ApplyDiscount,
     ListCategory, DeleteCategory, Fail, Goto, vars, tables, editVars, batchVars
  <2>2. listed'[q] = listed[q] /\ newPrice'[q] = newPrice[q] /\ discount'[q] = discount[q]
    BY ZenonT(40), <1>2, <2>1 DEF TypeOK, Next, RequestStep, CreateCategory, CreateProduct, OrderProduct, ReadForEdit,
     StoreEdit, CountOrderItems, RemoveProduct, UpdateCategory, ApplyDiscount,
     ListCategory, DeleteCategory, Fail, Goto, vars, tables, editVars, batchVars
  <2> QED BY <2>1, <2>2
<1> QED BY <1>1, <1>2

\* The rows change by four actions only.
LEMMA RowFrame ==
  ASSUME [Next]_vars
  PROVE  \/ row' = row /\ products' \subseteq products
         \/ \E p \in Products, o \in Prices, d \in Discounts, c \in Categories :
              CreateProduct(p, o, d, c)
         \/ \E r \in Requests : StoreEdit(r) \/ ApplyDiscount(r) \/ DeleteCategory(r)
BY DEF Next, RequestStep, CreateCategory, CreateProduct, OrderProduct, ReadForEdit,
     StoreEdit, CountOrderItems, RemoveProduct, UpdateCategory, ReadProducts, ApplyDiscount,
     ListCategory, DeleteCategory, Fail, Goto, vars, tables, editVars, batchVars

\* A product whose original price is not edited keeps it, and a price that
\* matches.
LEMMA RowStays ==
  ASSUME TypeOK, FreshInv, EditSound, BatchSound, [Next]_vars,
         NEW p \in products, ~OriginalEdited(p), Matches(row[p])
  PROVE  row'[p].originalPrice = row[p].originalPrice /\ Matches(row'[p])
<1>0. row[p] \in Rows /\ p \in Products
  BY DEF TypeOK
<1>1. CASE row' = row
  BY <1>1
<1>2. ASSUME NEW q \in Products, NEW o \in Prices, NEW d \in Discounts, NEW c \in Categories,
             CreateProduct(q, o, d, c)
      PROVE  row'[p] = row[p]
  BY <1>2 DEF CreateProduct, TypeOK, FreshInv
<1>3. ASSUME NEW r \in Requests, StoreEdit(r)
      PROVE  row'[p].originalPrice = row[p].originalPrice /\ Matches(row'[p])
  <2>1. CASE product[r] = p
    <3>1. dto[r].originalPrice = None /\ pc[r] = "edit"
      BY <1>3, <2>1 DEF StoreEdit, OriginalEdited
    <3>2. Matches(existing[r]) /\ existing[r].originalPrice = row[p].originalPrice
      BY <2>1, <3>1 DEF EditSound
    <3>3. existing[r] \in Rows /\ dto[r] \in Edits \cup {NoEdit}
      BY DEF TypeOK
    <3>4. row'[p] = Edited(existing[r], dto[r])
      BY <1>3, <2>1 DEF StoreEdit, TypeOK
    <3> QED BY <3>1, <3>2, <3>3, <3>4, EditedMatches
  <2>2. CASE product[r] # p
    BY <1>3, <2>2 DEF StoreEdit, TypeOK
  <2> QED BY <2>1, <2>2
<1>4. ASSUME NEW r \in Requests, ApplyDiscount(r)
      PROVE  row'[p].originalPrice = row[p].originalPrice /\ Matches(row'[p])
  <2>1. CASE p \in listed[r]
    <3>1. newPrice[r][p] = PriceOf(row[p].originalPrice, discount[r])
      BY <1>0, <1>4, <2>1 DEF ApplyDiscount, BatchSound
    <3>2. row'[p] = [row[p] EXCEPT !.discountPercent = discount[r], !.price = newPrice[r][p]]
      BY <1>0, <1>4, <2>1 DEF ApplyDiscount
    <3>3. /\ row'[p].originalPrice = row[p].originalPrice
          /\ row'[p].discountPercent = discount[r]
          /\ row'[p].price = newPrice[r][p]
      BY <1>0, <3>2 DEF Rows
    <3> QED BY <3>1, <3>3 DEF Matches
  <2>2. CASE p \notin listed[r]
    BY <1>0, <1>4, <2>2 DEF ApplyDiscount
  <2> QED BY <2>1, <2>2
<1>5. ASSUME NEW r \in Requests, DeleteCategory(r)
      PROVE  row'[p].originalPrice = row[p].originalPrice /\ Matches(row'[p])
  <2>1. row'[p] = row[p] \/ row'[p] = [row[p] EXCEPT !.categoryId = Uncategorized]
    BY <1>0, <1>5 DEF DeleteCategory
  <2>2. /\ row'[p].originalPrice = row[p].originalPrice
        /\ row'[p].discountPercent = row[p].discountPercent
        /\ row'[p].price = row[p].price
    BY <1>0, <2>1 DEF Rows
  <2> QED BY <2>2 DEF Matches
<1> QED BY <1>1, <1>2, <1>3, <1>4, <1>5, RowFrame

\* A product that appears was new, and its price matches.
LEMMA NewProduct ==
  ASSUME TypeOK, FreshInv, [Next]_vars, NEW p \in products', p \notin products
  PROVE  p \in fresh /\ Matches(row'[p])
<1>1. PICK q \in Products, o \in Prices, d \in Discounts, c \in Categories :
         CreateProduct(q, o, d, c)
  BY RowFrame DEF StoreEdit, ApplyDiscount, DeleteCategory
<1>2. q = p /\ p \in fresh /\ row'[p] = NewRow(o, d, c)
  BY <1>1 DEF CreateProduct, TypeOK
<1> QED BY <1>2 DEF Matches, NewRow

\* Every step keeps prices matching.
LEMMA MatchStep ==
  ASSUME TypeOK, FreshInv, EditSound, BatchSound, PriceMatches, [Next]_vars
  PROVE  PriceMatches'
<1> SUFFICES ASSUME NEW p \in products',
                    ~ \E q \in Requests : product'[q] = p /\ dto'[q].originalPrice # None
             PROVE  Matches(row'[p])
  BY DEF PriceMatches, OriginalEdited, Matches
<1>1. CASE p \in products
  <2>1. p \in Products /\ ~OriginalEdited(p)
    BY <1>1, EditedStays DEF TypeOK
  <2> QED BY <1>1, <2>1, RowStays DEF PriceMatches
<1>2. CASE p \notin products
  BY <1>2, NewProduct
<1> QED BY <1>1, <1>2

\* Every step keeps what an edit relies on.
LEMMA EditStep ==
  ASSUME TypeOK, FreshInv, EditSound, BatchSound, PriceMatches, [Next]_vars
  PROVE  EditSound'
<1> SUFFICES ASSUME NEW r \in Requests, NEW p, p = product'[r],
                    pc'[r] = "edit", p \in products',
                    ~ \E q \in Requests : product'[q] = p /\ dto'[q].originalPrice # None
             PROVE  /\ Matches(existing'[r])
                    /\ existing'[r].originalPrice = row'[p].originalPrice
  BY DEF EditSound, OriginalEdited, Matches
<1>1. CASE pc[r] = "edit"
  <2>1. product[r] = p /\ existing'[r] = existing[r]
    BY <1>1, RequestFrame
  <2>2. p \in Products /\ p \in products
    BY <1>1, <2>1, NewProduct DEF FreshInv
  <2>3. ~OriginalEdited(p)
    BY <2>2, EditedStays
  <2>4. Matches(existing[r]) /\ existing[r].originalPrice = row[p].originalPrice
    BY <1>1, <2>1, <2>2, <2>3 DEF EditSound
  <2>5. row'[p].originalPrice = row[p].originalPrice
    BY <2>2, <2>3, RowStays DEF PriceMatches
  <2> QED BY <2>1, <2>4, <2>5
<1>2. CASE pc[r] # "edit"
  <2>1. PICK q \in Products, edit \in Edits : ReadForEdit(r, q, edit)
    BY <1>2, EditFrame
  <2>2. q = p /\ p \in products /\ existing'[r] = row[p] /\ row' = row
    BY <2>1 DEF ReadForEdit, TypeOK, tables
  <2>3. ~OriginalEdited(p)
    BY <2>2, EditedStays DEF TypeOK
  <2> QED BY <2>2, <2>3 DEF PriceMatches
<1> QED BY <1>1, <1>2

\* Every step keeps the prices a batch is about to write.
LEMMA BatchStep ==
  ASSUME TypeOK, FreshInv, EditSound, BatchSound, PriceMatches, [Next]_vars
  PROVE  BatchSound'
<1> SUFFICES ASSUME NEW r \in Requests, NEW p \in Products,
                    pc'[r] = "apply", p \in listed'[r], p \in products',
                    ~ \E q \in Requests : product'[q] = p /\ dto'[q].originalPrice # None
             PROVE  newPrice'[r][p] = PriceOf(row'[p].originalPrice, discount'[r])
  BY DEF BatchSound, OriginalEdited
<1>1. CASE ReadProducts(r)
  BY <1>1 DEF ReadProducts, TypeOK, tables
<1>2. CASE /\ pc[r] = "apply"
           /\ listed'[r] = listed[r] /\ newPrice'[r] = newPrice[r] /\ discount'[r] = discount[r]
  <2>1. p \in products
    BY <1>2, NewProduct DEF FreshInv
  <2>2. ~OriginalEdited(p)
    BY EditedStays
  <2>3. row'[p].originalPrice = row[p].originalPrice
    BY <2>1, <2>2, RowStays DEF PriceMatches
  <2>4. newPrice[r][p] = PriceOf(row[p].originalPrice, discount[r])
    BY <1>2, <2>1, <2>2 DEF BatchSound
  <2> QED BY <1>2, <2>3, <2>4
<1> QED BY <1>1, <1>2, BatchFrame

-----------------------------------------------------------------------------
(* The theorems *)

\* The inductive invariant holds in every state.
THEOREM CatalogInvariant == Spec => []IInv
<1>1. Init => IInv
  BY InitIInv
<1>2. IInv /\ [Next]_vars => IInv'
  <2> SUFFICES ASSUME IInv, [Next]_vars PROVE IInv'
    OBVIOUS
  <2>1. TypeOK /\ FreshInv /\ EditSound /\ BatchSound /\ PriceMatches /\ OrderedIsKept
    BY DEF IInv
  <2>2. TypeOK' /\ FreshInv' /\ OrderedIsKept'
    BY <2>1, TypeStep, FreshStep, OrderedStep
  <2>3. EditSound' /\ BatchSound' /\ PriceMatches'
    BY <2>1, EditStep, BatchStep, MatchStep
  <2> QED BY <2>2, <2>3 DEF IInv
<1> QED BY <1>1, <1>2, PTL DEF Spec

\* Every variable keeps its type: among the rest, no price is ever negative,
\* whatever discounts are stored.
THEOREM CatalogTypeOK == Spec => []TypeOK
BY CatalogInvariant, PTL DEF IInv

\* For any number of products, categories and racing requests, a product
\* whose original price no edit touches has the price that matches it.
THEOREM CatalogPriceMatches == Spec => []PriceMatches
BY CatalogInvariant, PTL DEF IInv

\* No removal of products or categories, however it races with orders and
\* edits, loses an ordered product or leaves a product without its category.
THEOREM CatalogOrderedIsKept == Spec => []OrderedIsKept
BY CatalogInvariant, PTL DEF IInv

-----------------------------------------------------------------------------
(***************************************************************************)
(* The comments.  A request that corrects a reply may rely on its check,   *)
(* unless the reply was removed meanwhile.                                 *)
(***************************************************************************)
CommentShape ==
  /\ comments \subseteq Comments
  /\ reply \in [Comments -> SomeReplies \cup {None}]
  /\ isReplied \in [Comments -> BOOLEAN]
  /\ commentPc \in [Admins -> {"idle", "notFound", "reply", "update", "remove", "done"}]
  /\ comment \in [Admins -> Comments \cup {None}]
  /\ text \in [Admins -> SomeReplies \cup {None}]

CommentInv ==
  /\ CommentShape
  /\ \A r \in Admins :
       /\ commentPc[r] \in {"reply", "update", "remove"} => comment[r] \in Comments
       /\ commentPc[r] \in {"reply", "update"} => text[r] \in SomeReplies
       /\ commentPc[r] = "update" => isReplied[comment[r]] \/ comment[r] \in overtaken
  /\ M!PublicHaveReplies

LEMMA CommentInit == M!Init => CommentInv
<1> SUFFICES ASSUME M!Init PROVE CommentInv
  OBVIOUS
<1>1. CommentShape
  BY Zenon DEF M!Init, CommentShape
<1>2. QED
  BY <1>1 DEF M!Init, CommentInv, M!PublicHaveReplies, M!Public

LEMMA CommentStep ==
  ASSUME CommentInv, [M!Next]_commentVars
  PROVE  CommentInv'
<1> USE ReplyAssumption DEF CommentInv, CommentShape, M!PublicHaveReplies, M!Public, M!commentVars
<1>1. ASSUME NEW c \in Comments, M!CreateComment(c) PROVE CommentInv'
  BY <1>1 DEF M!CreateComment
<1>2. ASSUME NEW r \in Admins, NEW c \in Comments, NEW t \in SomeReplies \cup {None},
             NEW next, M!Check(r, c, t, next),
             \/ next = "reply" /\ t \in SomeReplies
             \/ next = "update" /\ t \in SomeReplies /\ isReplied[c]
             \/ next \in {"notFound", "remove"}
      PROVE  CommentInv'
  BY <1>2 DEF M!Check
<1>3. ASSUME NEW r \in Admins, M!Reply(r) PROVE CommentInv'
  BY <1>3 DEF M!Reply, M!Write
<1>4. ASSUME NEW r \in Admins, M!UpdateReply(r) PROVE CommentInv'
  BY <1>4 DEF M!UpdateReply, M!Write
<1>5. ASSUME NEW r \in Admins, M!RemoveReply(r) PROVE CommentInv'
  BY <1>5 DEF M!RemoveReply, M!Write, M!Updating
<1>6. CASE UNCHANGED commentVars
  BY <1>6 DEF commentVars
<1>7. QED
  BY <1>1, <1>2, <1>3, <1>4, <1>5, <1>6
     DEF M!Next, M!ReadForReply, M!ReadForUpdate, M!ReadForRemoval

-----------------------------------------------------------------------------
(***************************************************************************)
(* The banners.  A transaction knows the banners it is about; orders that  *)
(* may not tie are not negative, so that a new banner can be the first.    *)
(***************************************************************************)
BannerOrders == [Banners -> Int \cup {None}]

ArgsOK(r) ==
  /\ bannerPc[r] = "create" => \E b \in Banners : args[r] = <<b>>
  /\ bannerPc[r] \in {"swapSecond", "swap"} => \E a, b \in Banners : a # b /\ args[r] = <<a, b>>
  /\ bannerPc[r] = "reorder" => args[r] \in N!Lists

BannerShape ==
  /\ order \in BannerOrders
  /\ bannerPc \in [Requests -> {"idle", "create", "swapSecond", "swap", "reorder", "done", "failed"}]
  /\ DOMAIN args = Requests
  /\ seen \in [Requests -> BannerOrders]
  /\ shuffled \in BOOLEAN
  /\ \A r \in Requests : ArgsOK(r)

UntiedInv == ~shuffled => \A b \in N!Rows : order[b] >= 0

BannerInv == BannerShape /\ UntiedInv /\ N!OrdersDiffer

LEMMA IndexOfListed ==
  ASSUME NEW ids \in N!Lists, NEW b \in N!Listed(ids)
  PROVE  N!IndexIn(b, ids) \in Nat \ {0} /\ ids[N!IndexIn(b, ids)] = b
<1>1. PICK n \in Nat : ids \in [1..n -> Banners]
  BY DEF N!Lists
<1>2. \E i \in DOMAIN ids : ids[i] = b
  BY DEF N!Listed
<1>3. N!IndexIn(b, ids) \in DOMAIN ids /\ ids[N!IndexIn(b, ids)] = b
  BY <1>2 DEF N!IndexIn
<1>4. QED
  BY <1>1, <1>3

\* Banners that take their places in a list have orders that differ.
LEMMA ListedDiffer ==
  ASSUME NEW ids \in N!Lists, NEW orders,
         \A b \in N!Listed(ids) : orders[b] = N!IndexIn(b, ids) - 1
  PROVE  /\ \A b \in N!Listed(ids) : orders[b] \in Int /\ orders[b] >= 0
         /\ \A a, b \in N!Listed(ids) : orders[a] = orders[b] => a = b
<1>1. \A b \in N!Listed(ids) :
        N!IndexIn(b, ids) \in Nat \ {0} /\ ids[N!IndexIn(b, ids)] = b
  BY IndexOfListed
<1>2. QED
  BY <1>1

LEMMA BannerInit == N!Init => BannerInv
<1> SUFFICES ASSUME N!Init PROVE BannerInv
  OBVIOUS
<1>1. PICK ids \in N!Lists :
        order = [b \in Banners |-> IF b \in N!Listed(ids) THEN N!IndexIn(b, ids) - 1 ELSE None]
  BY DEF N!Init
<1>2. /\ \A b \in N!Listed(ids) : N!IndexIn(b, ids) - 1 \in Int
      /\ \A b \in N!Listed(ids) : b \in Banners => order[b] = N!IndexIn(b, ids) - 1
  BY <1>1, IndexOfListed
<1>3. N!Listed(ids) \subseteq Banners
  BY DEF N!Lists, N!Listed
<1>4. N!Rows = N!Listed(ids)
  BY <1>1, <1>2, <1>3, BannerAssumption DEF N!Rows
<1>5. UntiedInv /\ N!OrdersDiffer
  BY <1>2, <1>3, <1>4, ListedDiffer DEF UntiedInv, N!OrdersDiffer
<1>6. order \in BannerOrders
  BY <1>1, <1>2 DEF BannerOrders
<1>7. N!NoOrders \in BannerOrders
  BY DEF N!NoOrders, BannerOrders
<1>8. \A r \in Requests : ArgsOK(r)
  BY DEF N!Init, ArgsOK
<1>9. QED
  BY <1>5, <1>6, <1>7, <1>8, Zenon DEF N!Init, BannerInv, BannerShape

LEMMA BannerStep ==
  ASSUME BannerInv, [N!Next]_bannerVars
  PROVE  BannerInv'
<1> USE DEF BannerInv, BannerShape, BannerOrders, N!Rows
\* A step that changes no order.
<1>1. ASSUME UNCHANGED <<order, shuffled>>, BannerShape' PROVE BannerInv'
  BY <1>1 DEF UntiedInv, N!OrdersDiffer
<1>2. ASSUME NEW r \in Requests, NEW transaction, NEW banners,
             N!Begin(r, transaction, banners),
             \/ transaction = "create" /\ \E b \in Banners : banners = <<b>>
             \/ transaction = "swapSecond" /\ \E a, b \in Banners : a # b /\ banners = <<a, b>>
             \/ transaction = "reorder" /\ banners \in N!Lists
      PROVE  BannerInv'
  <2>1. \A q \in Requests : ArgsOK(q)'
    BY <1>2 DEF N!Begin, ArgsOK
  <2>2. BannerShape'
    BY <1>2, <2>1 DEF N!Begin
  <2>3. QED
    BY <1>1, <1>2, <2>2 DEF N!Begin
<1>3. ASSUME NEW r \in Requests, N!ReadSecond(r) PROVE BannerInv'
  <2>1. \A q \in Requests : ArgsOK(q)'
    BY <1>3 DEF N!ReadSecond, ArgsOK
  <2>2. BannerShape'
    <3>1. bannerPc[r] = "swapSecond" /\ args[r][2] \in Banners
      BY <1>3 DEF N!ReadSecond, ArgsOK
    <3>2. [seen[r] EXCEPT ![args[r][2]] = order[args[r][2]]] \in BannerOrders
      BY <3>1
    <3>3. seen' = [seen EXCEPT ![r] = [seen[r] EXCEPT ![args[r][2]] = order[args[r][2]]]]
      BY <1>3 DEF N!ReadSecond
    <3>4. seen' \in [Requests -> BannerOrders]
      BY <3>2, <3>3
    <3>5. QED
      BY <1>3, <2>1, <3>4 DEF N!ReadSecond
  <2>3. order' = order /\ shuffled' = shuffled
    BY <1>3 DEF N!ReadSecond
  <2>4. QED
    BY <1>1, <2>2, <2>3
<1>4. ASSUME NEW r \in Requests, N!Fail(r) PROVE BannerInv'
  <2>1. \A q \in Requests : ArgsOK(q)'
    BY <1>4 DEF N!Fail, ArgsOK
  <2>2. BannerShape'
    BY <1>4, <2>1 DEF N!Fail
  <2>3. QED
    BY <1>1, <1>4, <2>2 DEF N!Fail
\* A step that writes orders.
<1>5. ASSUME NEW r \in Requests, NEW orders \in BannerOrders, NEW ties \in BOOLEAN,
             N!Commit(r, orders, ties),
             ~ties => \A b \in Banners : orders[b] # None => orders[b] >= 0,
             ~ties => \A a, b \in Banners : orders[a] # None /\ orders[a] = orders[b] => a = b
      PROVE  BannerInv'
  <2>1. \A q \in Requests : ArgsOK(q)'
    BY <1>5 DEF N!Commit, ArgsOK
  <2>2. BannerShape'
    BY <1>5, <2>1 DEF N!Commit
  <2>3. UntiedInv' /\ N!OrdersDiffer'
    BY <1>5 DEF N!Commit, UntiedInv, N!OrdersDiffer
  <2>4. QED
    BY <2>2, <2>3
<1>6. ASSUME NEW r \in Requests, NEW n \in HandGiven \cup {0}, N!CommitCreate(r, n)
      PROVE  BannerInv'
  <2>1. PICK b \in Banners : args[r] = <<b>>
    BY <1>6 DEF N!CommitCreate, ArgsOK
  <2> DEFINE orders == [x \in Banners |-> CASE x = b -> n
                          [] x \in N!Rows \ {b} /\ seen[r][x] # None -> order[x] + 1
                          [] OTHER -> order[x]]
             ties == shuffled \/ n # 0 \/ \E x \in N!Rows : seen[r][x] = None
  <2>2. N!Commit(r, orders, ties)
    BY <1>6, <2>1 DEF N!CommitCreate
  <2>3. n \in Int /\ orders \in BannerOrders /\ ties \in BOOLEAN
    BY DEF HandGiven
  <2>4. ASSUME ~ties PROVE /\ \A x \in Banners : orders[x] # None => orders[x] >= 0
                           /\ \A x, y \in Banners : orders[x] # None /\ orders[x] = orders[y] => x = y
    <3>1. ~shuffled /\ n = 0 /\ \A x \in N!Rows : seen[r][x] # None
      BY <2>4, Zenon
    <3>2. \A x \in Banners : orders[x] = IF x = b THEN 0 ELSE IF order[x] # None THEN order[x] + 1 ELSE None
      <4> TAKE x \in Banners
      <4>1. CASE x = b
        BY <3>1, <4>1
      <4>2. CASE x # b /\ x \in N!Rows
        BY <3>1, <4>2
      <4>3. CASE x # b /\ x \notin N!Rows
        BY <4>3
      <4>4. QED
        BY <4>1, <4>2, <4>3
    <3>3. \A x \in Banners : order[x] # None => order[x] \in Int /\ order[x] >= 0
      BY <3>1 DEF UntiedInv
    <3>4. \A x, y \in Banners : order[x] # None /\ order[x] = order[y] => x = y
      BY <3>1 DEF N!OrdersDiffer
    <3> HIDE DEF orders
    <3>5. \A x \in Banners : orders[x] # None =>
            /\ orders[x] >= 0 /\ (x = b => orders[x] = 0)
            /\ x # b => order[x] # None /\ order[x] \in Nat /\ orders[x] = order[x] + 1
      BY <3>2, <3>3
    <3>6. ASSUME NEW x \in Banners, NEW y \in Banners, orders[x] # None, orders[x] = orders[y]
          PROVE  x = y
      <4>1. orders[y] # None
        BY <3>6
      <4>2. CASE x = b \/ y = b
        BY <3>5, <3>6, <4>1, <4>2
      <4>3. CASE x # b /\ y # b
        <5>1. order[x] # None /\ order[x] \in Nat /\ orders[x] = order[x] + 1
          BY <3>5, <3>6, <4>3
        <5>2. order[y] \in Nat /\ orders[y] = order[y] + 1
          BY <3>5, <4>1, <4>3
        <5>3. \A i, j \in Nat : i + 1 = j + 1 => i = j
          OBVIOUS
        <5>4. order[x] + 1 = order[y] + 1
          BY <3>6, <5>1, <5>2, Zenon
        <5>5. order[x] = order[y]
          BY <5>1, <5>2, <5>3, <5>4, Zenon
        <5>6. QED
          BY <3>4, <5>1, <5>5
      <4>4. QED
        BY <4>2, <4>3
    <3>7. QED
      BY <3>5, <3>6
  <2> HIDE DEF orders, ties
  <2>5. QED
    BY <1>5, <2>2, <2>3, <2>4
<1>7. ASSUME NEW r \in Requests, N!CommitSwap(r) PROVE BannerInv'
  <2>1. PICK a \in Banners, b \in Banners : a # b /\ args[r] = <<a, b>>
    BY <1>7 DEF N!CommitSwap, ArgsOK
  <2> DEFINE orders == [order EXCEPT ![a] = seen[r][b], ![b] = seen[r][a]]
             ties == shuffled \/ {order[a], order[b]} # {seen[r][a], seen[r][b]}
  <2>2. N!Fail(r) \/ ({a, b} \subseteq N!Rows /\ N!Commit(r, orders, ties))
    <3>1. args[r][1] = a /\ args[r][2] = b
      BY <2>1
    <3>2. QED
      BY <1>7, <3>1, Zenon DEF N!CommitSwap
  <2>3. orders \in BannerOrders /\ ties \in BOOLEAN
    OBVIOUS
  <2>4. ASSUME ~ties, {a, b} \subseteq N!Rows
        PROVE  /\ \A x \in Banners : orders[x] # None => orders[x] >= 0
               /\ \A x, y \in Banners : orders[x] # None /\ orders[x] = orders[y] => x = y
    <3>1. order[a] # order[b]
      BY <2>1, <2>4 DEF N!OrdersDiffer
    <3>2. \/ seen[r][a] = order[a] /\ seen[r][b] = order[b]
          \/ seen[r][a] = order[b] /\ seen[r][b] = order[a]
      BY <2>4, <3>1
    <3>3. \A x \in Banners : orders[x] = IF x = b THEN seen[r][a] ELSE IF x = a THEN seen[r][b] ELSE order[x]
      BY <2>1
    <3>4. QED
      BY <2>4, <3>2, <3>3 DEF N!OrdersDiffer, UntiedInv
  <2> HIDE DEF orders, ties
  <2>5. QED
    BY <1>4, <1>5, <2>2, <2>3, <2>4
<1>8. ASSUME NEW r \in Requests, N!CommitReorder(r) PROVE BannerInv'
  <2> DEFINE ids == args[r]
             orders == [b \in Banners |-> IF b \in N!Listed(ids) THEN N!IndexIn(b, ids) - 1 ELSE order[b]]
             ties == IF N!Rows = N!Listed(ids) THEN FALSE ELSE ids # <<>> \/ shuffled
  <2>1. ids \in N!Lists
    BY <1>8 DEF N!CommitReorder, ArgsOK
  <2>2. N!Fail(r) \/ (N!Listed(ids) \subseteq N!Rows /\ N!Commit(r, orders, ties))
    BY <1>8 DEF N!CommitReorder
  <2>3. \A b \in N!Listed(ids) : N!IndexIn(b, ids) - 1 \in Int
    BY <2>1, IndexOfListed
  <2>4. orders \in BannerOrders /\ ties \in BOOLEAN
    BY <2>3
  <2>5. ASSUME ~ties, N!Listed(ids) \subseteq N!Rows
        PROVE  /\ \A x \in Banners : orders[x] # None => orders[x] >= 0
               /\ \A x, y \in Banners : orders[x] # None /\ orders[x] = orders[y] => x = y
    <3>1. CASE N!Rows = N!Listed(ids)
      <4>1. \A x \in Banners : orders[x] # None => x \in N!Listed(ids)
        BY <3>1
      <4>2. \A x \in N!Listed(ids) : orders[x] = N!IndexIn(x, ids) - 1
        BY <3>1
      <4>3. QED
        BY <2>1, <4>1, <4>2, ListedDiffer
    <3>2. CASE N!Rows # N!Listed(ids)
      <4>1. ids = <<>> /\ ~shuffled
        BY <2>5, <3>2
      <4>2. N!Listed(ids) = {}
        BY <4>1 DEF N!Listed
      <4>3. \A x \in Banners : orders[x] = order[x]
        BY <4>2
      <4>4. QED
        BY <4>1, <4>3 DEF UntiedInv, N!OrdersDiffer
    <3>3. QED
      BY <3>1, <3>2
  <2> HIDE DEF orders, ties
  <2>6. QED
    BY <1>4, <1>5, <2>2, <2>4, <2>5
<1>9. ASSUME NEW r \in Requests, NEW b \in Banners, NEW n \in HandGiven, N!UpdateOrder(r, b, n)
      PROVE  BannerInv'
  <2>1. [order EXCEPT ![b] = n] \in BannerOrders
    BY DEF HandGiven
  <2>2. QED
    BY <1>5, <1>9, <2>1 DEF N!UpdateOrder
<1>10. ASSUME NEW r \in Requests, NEW b \in Banners, N!Remove(r, b) PROVE BannerInv'
  <2>1. \A q \in Requests : ArgsOK(q)'
    BY <1>10 DEF N!Remove, ArgsOK
  <2>2. BannerShape'
    BY <1>10, <2>1 DEF N!Remove
  <2>3. \A x \in Banners : order'[x] \in {order[x], None}
    BY <1>10 DEF N!Remove
  <2>4. UntiedInv' /\ N!OrdersDiffer'
    BY <1>10, <2>3 DEF N!Remove, UntiedInv, N!OrdersDiffer
  <2>5. QED
    BY <2>2, <2>4
<1>11. CASE UNCHANGED bannerVars
  <2>1. BannerShape'
    BY <1>11 DEF bannerVars, ArgsOK
  <2>2. QED
    BY <1>1, <1>11, <2>1 DEF bannerVars
<1>12. ASSUME NEW r \in Requests, NEW a \in Banners, NEW b \in Banners,
              N!BeginCreate(r, b) \/ N!BeginSwap(r, a, b)
       PROVE  BannerInv'
  BY <1>2, <1>12 DEF N!BeginCreate, N!BeginSwap
<1>13. ASSUME NEW r \in Requests, NEW ids \in N!Lists, N!BeginReorder(r, ids) PROVE BannerInv'
  BY <1>2, <1>13 DEF N!BeginReorder
<1>14. QED
  BY <1>3, <1>6, <1>7, <1>8, <1>9, <1>10, <1>11, <1>12, <1>13 DEF N!Next

-----------------------------------------------------------------------------
(***************************************************************************)
(* The icons.  Until a category points at it, only the request that saves  *)
(* an icon knows it; who takes a file away has taken the row away, or      *)
(* failed to; and an icon no category shows is one that a request is       *)
(* certain to remove: Handles says only that it may.                       *)
(***************************************************************************)
Saves(r) == kind[r] \in {"create", "replace"}

IconShape ==
  /\ iconOf \in [IconCategories -> I!Icons \cup {None}]
  /\ iconRows \subseteq I!Icons /\ files \subseteq I!Icons
  /\ iconPc \in [Requests -> {"idle", "save", "insert", "point", "rest", "replaced", "cleanup",
                             "cleanupFile", "final", "undo", "undoFile", "done", "failed"}]
  /\ kind \in [Requests -> I!Kinds \cup {None}]
  /\ iconCategory \in [Requests -> IconCategories \cup {None}]
  /\ current \in [Requests -> I!Icons \cup {None}]
  /\ \A r \in Requests :
       /\ iconPc[r] \in {"save", "insert", "point", "rest"} => iconCategory[r] \in IconCategories
       /\ iconPc[r] \in {"save", "insert", "undo", "undoFile"} => Saves(r)
       /\ iconPc[r] \in {"cleanup", "cleanupFile"} => current[r] # None

Unborn(i) == i \in Requests /\ iconPc[i] \in {"idle", "save", "insert", "point"}
UnbornInv ==
  \A r \in Requests : Unborn(r) =>
    /\ \A c \in IconCategories : iconOf[c] # r
    /\ \A q \in Requests : current[q] # r
    /\ iconPc[r] \in {"idle", "save"} => r \notin iconRows \cup files
    /\ iconPc[r] = "insert" => r \notin iconRows /\ r \in files
    /\ iconPc[r] = "point" /\ Saves(r) => r \in iconRows \cap files

RemovalInv ==
  \A r \in Requests : iconPc[r] \in {"undoFile", "cleanupFile"} =>
    I!Victim(r) \notin iconRows \/ I!Victim(r) \in undeleted

WillRemove(r, i) ==
  \/ i = r /\ Saves(r) /\ iconPc[r] \in {"insert", "point", "undo", "undoFile"}
  \/ i = current[r] /\ iconPc[r] \in {"rest", "replaced", "cleanup", "cleanupFile"}
Kept(i) ==
  \/ i \in leaked \cup undeleted
  \/ \E c \in IconCategories : iconOf[c] = i
  \/ \E r \in Requests : WillRemove(r, i)
KeptInv == \A i \in iconRows \cup files : Kept(i)

IconInv == IconShape /\ UnbornInv /\ RemovalInv /\ KeptInv /\ I!ShownIconExists

LEMMA IconInit == I!Init => IconInv
<1> SUFFICES ASSUME I!Init PROVE IconInv
  OBVIOUS
<1> USE IconAssumption DEF I!Init
<1>1. IconShape
  BY DEF IconShape, I!Icons
<1>2. UnbornInv
  BY DEF UnbornInv, Unborn
<1>3. RemovalInv /\ I!ShownIconExists
  BY DEF RemovalInv, I!ShownIconExists
<1>4. KeptInv
  BY DEF KeptInv, Kept
<1>5. QED
  BY <1>1, <1>2, <1>3, <1>4 DEF IconInv

LEMMA IconShapeStep ==
  ASSUME IconInv, [I!Next]_iconVars
  PROVE  IconShape'
<1> USE IconAssumption DEF IconInv, IconShape, I!Icons, I!Goto, I!iconVars, I!requestVars, I!histories, Saves
<1>1. ASSUME NEW r \in Requests, NEW k \in I!Kinds, NEW c \in IconCategories, I!Begin(r, k, c)
      PROVE  IconShape'
  BY <1>1 DEF I!Begin, I!Kinds
<1>2. ASSUME NEW r \in Requests, I!SaveFile(r) \/ I!InsertRow(r) PROVE IconShape'
  BY <1>2 DEF I!SaveFile, I!InsertRow
<1>3. ASSUME NEW r \in Requests, I!PointAtIcon(r) PROVE IconShape'
  BY <1>3 DEF I!PointAtIcon, I!Undo, I!NewIcon
<1>4. ASSUME NEW r \in Requests, I!WriteRest(r) \/ I!FinishIcon(r) \/ I!ReadFinal(r) PROVE IconShape'
  BY <1>4 DEF I!WriteRest, I!FinishIcon, I!ReadFinal, I!AfterRemoval, I!Undo, I!NewIcon
<1>5. ASSUME NEW r \in Requests, I!RemoveRow(r) \/ I!RemoveFile(r) PROVE IconShape'
  BY <1>5 DEF I!RemoveRow, I!RemoveFile, I!AfterRemoval
<1>6. CASE I!Crash
  BY <1>6 DEF I!Crash, I!Working
<1>7. CASE UNCHANGED iconVars
  BY <1>7 DEF iconVars
<1>8. QED
  BY <1>1, <1>2, <1>3, <1>4, <1>5, <1>6, <1>7 DEF I!Next

\* An icon becomes one that categories show by the request that saved it.
LEMMA IconPointed ==
  ASSUME IconInv, [I!Next]_iconVars, NEW c \in IconCategories, iconOf'[c] # iconOf[c]
  PROVE  \/ iconOf'[c] = None
         \/ \E r \in Requests : /\ iconPc[r] = "point" /\ Saves(r) /\ iconPc'[r] = "rest"
                               /\ iconOf'[c] = r
<1> USE DEF IconInv, IconShape, I!Icons, I!iconVars
<1>1. ASSUME NEW r \in Requests, I!PointAtIcon(r)
      PROVE  \/ iconOf'[c] = None
             \/ iconPc[r] = "point" /\ Saves(r) /\ iconPc'[r] = "rest" /\ iconOf'[c] = r
  BY <1>1 DEF I!PointAtIcon, I!NewIcon, I!Goto, Saves
<1>2. ASSUME NEW r \in Requests, I!RemoveRow(r) PROVE iconOf'[c] = None
  BY <1>2 DEF I!RemoveRow
<1>3. \E r \in Requests : I!PointAtIcon(r) \/ I!RemoveRow(r)
  BY DEF I!Next, I!Begin, I!SaveFile, I!InsertRow, I!WriteRest, I!FinishIcon, I!RemoveFile,
         I!ReadFinal, I!Crash, iconVars
<1>4. QED
  BY <1>1, <1>2, <1>3

\* What a request knows of the icon it replaces was shown when it began.
LEMMA CurrentShown ==
  ASSUME IconInv, [I!Next]_iconVars, NEW r \in Requests, current'[r] # current[r]
  PROVE  /\ iconPc[r] = "idle" /\ UNCHANGED <<iconOf, iconRows, files>>
         /\ current'[r] = None \/ \E c \in IconCategories : current'[r] = iconOf[c]
<1> USE DEF IconInv, IconShape, I!iconVars, I!requestVars
<1>1. ASSUME NEW q \in Requests, NEW k \in I!Kinds, NEW c \in IconCategories, I!Begin(q, k, c)
      PROVE  /\ iconPc[r] = "idle" /\ UNCHANGED <<iconOf, iconRows, files>>
             /\ current'[r] = iconOf[c]
  BY <1>1 DEF I!Begin
<1>2. \E q \in Requests, k \in I!Kinds, c \in IconCategories : I!Begin(q, k, c)
  BY DEF I!Next, I!SaveFile, I!InsertRow, I!PointAtIcon, I!WriteRest, I!FinishIcon, I!RemoveRow,
         I!RemoveFile, I!ReadFinal, I!Crash, iconVars
<1>3. QED
  BY <1>1, <1>2

\* Nobody else touches the row and the file of an icon until it is shown.
LEMMA UnbornAlone ==
  ASSUME IconInv, [I!Next]_iconVars, NEW r \in Requests, Unborn(r)'
  PROVE  /\ Unborn(r)
         /\ \/ /\ iconPc'[r] = iconPc[r] /\ (Saves(r)' <=> Saves(r))
               /\ (r \in iconRows' <=> r \in iconRows) /\ (r \in files' <=> r \in files)
            \/ iconPc[r] = "idle" /\ UNCHANGED <<iconRows, files>>
                 /\ iconPc'[r] = IF Saves(r)' THEN "save" ELSE "point"
            \/ iconPc[r] = "save" /\ iconPc'[r] = "insert" /\ r \in files' /\ UNCHANGED iconRows
            \/ iconPc[r] = "insert" /\ iconPc'[r] = "point" /\ r \in iconRows' /\ UNCHANGED files
<1> DEFINE Stays == iconPc'[r] = iconPc[r] /\ kind'[r] = kind[r]
           Keeps == (r \in iconRows' <=> r \in iconRows) /\ (r \in files' <=> r \in files)
<1> USE DEF IconInv, IconShape, Unborn, Saves, I!Goto, I!iconVars, I!requestVars
<1>1. ASSUME NEW q \in Requests, NEW k \in I!Kinds, NEW c \in IconCategories, I!Begin(q, k, c)
      PROVE  /\ UNCHANGED <<iconRows, files>>
             /\ q # r => Stays
             /\ q = r => iconPc[r] = "idle" /\ iconPc'[r] = IF Saves(r)' THEN "save" ELSE "point"
  BY <1>1 DEF I!Begin
<1>2. ASSUME NEW q \in Requests, I!SaveFile(q)
      PROVE  /\ q # r => Stays /\ Keeps
             /\ q = r => iconPc[r] = "save" /\ iconPc'[r] = "insert" /\ r \in files' /\ UNCHANGED iconRows
  BY <1>2 DEF I!SaveFile
<1>3. ASSUME NEW q \in Requests, I!InsertRow(q)
      PROVE  /\ q # r => Stays /\ Keeps
             /\ q = r => iconPc[r] = "insert" /\ iconPc'[r] = "point" /\ r \in iconRows' /\ UNCHANGED files
  BY <1>3 DEF I!InsertRow
<1>4. ASSUME NEW q \in Requests,
             I!PointAtIcon(q) \/ I!WriteRest(q) \/ I!FinishIcon(q) \/ I!ReadFinal(q)
      PROVE  Stays /\ Keeps
  <2>1. q # r
    BY <1>4 DEF I!PointAtIcon, I!WriteRest, I!FinishIcon, I!ReadFinal, I!AfterRemoval, I!Undo, I!NewIcon
  <2>2. QED
    BY <1>4, <2>1 DEF I!PointAtIcon, I!WriteRest, I!FinishIcon, I!ReadFinal, I!Undo
<1>5. ASSUME NEW q \in Requests, I!RemoveRow(q) \/ I!RemoveFile(q)
      PROVE  Stays /\ Keeps
  <2>1. q # r
    BY <1>5 DEF I!RemoveRow, I!RemoveFile, I!AfterRemoval
  <2>2. Stays
    BY <1>5, <2>1 DEF I!RemoveRow, I!RemoveFile
  <2>3. Unborn(r)
    BY <2>2
  <2>4. I!Victim(q) # r
    BY <1>5, <2>1, <2>3, IconAssumption DEF I!Victim, I!NewIcon, UnbornInv
  <2>5. Keeps
    BY <1>5, <2>4 DEF I!RemoveRow, I!RemoveFile
  <2>6. QED
    BY <2>2, <2>5
<1>6. CASE I!Crash
  BY <1>6 DEF I!Crash, I!Working
<1>7. CASE UNCHANGED iconVars
  BY <1>7 DEF iconVars
<1>8. QED
  BY <1>1, <1>2, <1>3, <1>4, <1>5, <1>6, <1>7 DEF I!Next

LEMMA UnbornStep ==
  ASSUME IconInv, [I!Next]_iconVars
  PROVE  UnbornInv'
<1> SUFFICES ASSUME NEW r \in Requests, Unborn(r)'
             PROVE  /\ \A c \in IconCategories : iconOf'[c] # r
                    /\ \A q \in Requests : current'[q] # r
                    /\ iconPc'[r] \in {"idle", "save"} => r \notin iconRows' \cup files'
                    /\ iconPc'[r] = "insert" => r \notin iconRows' /\ r \in files'
                    /\ iconPc'[r] = "point" /\ Saves(r)' => r \in iconRows' \cap files'
  BY DEF UnbornInv
<1>1. Unborn(r) /\ UnbornInv
  BY UnbornAlone DEF IconInv
<1>2. \A c \in IconCategories : iconOf'[c] # r
  BY <1>1, IconPointed, IconAssumption DEF UnbornInv, Unborn
<1>3. \A q \in Requests : current'[q] # r
  BY <1>1, CurrentShown, IconAssumption DEF UnbornInv
<1>4. /\ iconPc'[r] \in {"idle", "save"} => r \notin iconRows' \cup files'
      /\ iconPc'[r] = "insert" => r \notin iconRows' /\ r \in files'
      /\ iconPc'[r] = "point" /\ Saves(r)' => r \in iconRows' \cap files'
  BY <1>1, UnbornAlone DEF UnbornInv
<1>5. QED
  BY <1>2, <1>3, <1>4

LEMMA RemovalStep ==
  ASSUME IconInv, [I!Next]_iconVars
  PROVE  RemovalInv'
<1> SUFFICES ASSUME NEW r \in Requests, iconPc'[r] \in {"undoFile", "cleanupFile"}
             PROVE  I!Victim(r)' \notin iconRows' \/ I!Victim(r)' \in undeleted'
  BY DEF RemovalInv
<1> DEFINE Stays == /\ iconPc'[r] = iconPc[r] /\ I!Victim(r)' = I!Victim(r)
                    /\ undeleted \subseteq undeleted'
<1> USE DEF IconInv, IconShape, I!Victim, I!NewIcon, I!Goto, I!iconVars, I!requestVars, I!histories
<1>1. ASSUME NEW q \in Requests, I!RemoveRow(q), q = r
      PROVE  I!Victim(r)' \notin iconRows' \/ I!Victim(r)' \in undeleted'
  BY <1>1 DEF I!RemoveRow
<1>2. ASSUME NEW q \in Requests, I!RemoveRow(q), q # r
      PROVE  Stays /\ iconRows' \subseteq iconRows
  BY <1>2 DEF I!RemoveRow
<1>3. ASSUME NEW q \in Requests, I!InsertRow(q)
      PROVE  Stays /\ iconRows' \subseteq iconRows \cup {q} /\ q # r /\ current[r] # q
  BY <1>3 DEF I!InsertRow, UnbornInv, Unborn
<1>4. ASSUME NEW q \in Requests,
             \/ \E k \in I!Kinds, c \in IconCategories : I!Begin(q, k, c)
             \/ I!SaveFile(q) \/ I!PointAtIcon(q) \/ I!WriteRest(q)
             \/ I!FinishIcon(q) \/ I!RemoveFile(q) \/ I!ReadFinal(q)
      PROVE  Stays /\ iconRows' = iconRows
  <2>1. q # r
    BY <1>4 DEF I!Begin, I!SaveFile, I!PointAtIcon, I!WriteRest, I!FinishIcon, I!RemoveFile,
                I!ReadFinal, I!AfterRemoval, I!Undo
  <2>2. QED
    BY <1>4, <2>1
      DEF I!Begin, I!SaveFile, I!PointAtIcon, I!WriteRest, I!FinishIcon, I!RemoveFile,
          I!ReadFinal, I!Undo
<1>5. CASE I!Crash
  BY <1>5 DEF I!Crash, I!Working, RemovalInv
<1>6. ASSUME Stays, iconRows' \subseteq iconRows
      PROVE  I!Victim(r)' \notin iconRows' \/ I!Victim(r)' \in undeleted'
  BY <1>6 DEF RemovalInv
<1>7. ASSUME NEW q \in Requests, Stays, iconRows' \subseteq iconRows \cup {q}, q # r, current[r] # q
      PROVE  I!Victim(r)' \notin iconRows' \/ I!Victim(r)' \in undeleted'
  <2>1. I!Victim(r) # q
    BY <1>7, IconAssumption
  <2>2. QED
    BY <1>7, <2>1 DEF RemovalInv
<1>8. CASE UNCHANGED iconVars
  BY <1>6, <1>8 DEF iconVars
<1> HIDE DEF Stays, I!Victim
<1>9. QED
  BY <1>1, <1>2, <1>3, <1>4, <1>5, <1>6, <1>7, <1>8 DEF I!Next

LEMMA ShownStep ==
  ASSUME IconInv, [I!Next]_iconVars
  PROVE  I!ShownIconExists'
<1> USE DEF IconInv, IconShape, I!ShownIconExists, I!Goto, I!iconVars, I!requestVars, I!histories
<1>1. ASSUME UNCHANGED <<iconOf, iconRows>>, files \subseteq files', undeleted \subseteq undeleted'
      PROVE  I!ShownIconExists'
  BY <1>1
<1>2. ASSUME NEW r \in Requests, I!InsertRow(r) PROVE I!ShownIconExists'
  <2>1. \A c \in IconCategories : iconOf[c] # r
    BY <1>2 DEF I!InsertRow, UnbornInv, Unborn
  <2>2. QED
    BY <1>2, <2>1 DEF I!InsertRow
<1>3. ASSUME NEW r \in Requests, I!PointAtIcon(r) PROVE I!ShownIconExists'
  <2>1. Saves(r) => r \in iconRows \cap files
    BY <1>3 DEF I!PointAtIcon, UnbornInv, Unborn
  <2>2. QED
    BY <1>3, <2>1 DEF I!PointAtIcon, I!NewIcon, Saves
<1>4. ASSUME NEW r \in Requests, I!RemoveRow(r) PROVE I!ShownIconExists'
  BY <1>4 DEF I!RemoveRow
<1>5. ASSUME NEW r \in Requests, I!RemoveFile(r) PROVE I!ShownIconExists'
  <2>1. I!Victim(r) \notin iconRows \/ I!Victim(r) \in undeleted
    BY <1>5 DEF I!RemoveFile, RemovalInv
  <2>2. QED
    BY <1>5, <2>1 DEF I!RemoveFile
<1>6. QED
  BY <1>1, <1>2, <1>3, <1>4, <1>5
     DEF I!Next, I!Begin, I!SaveFile, I!WriteRest, I!FinishIcon, I!ReadFinal, I!Crash, iconVars

\* No icon is forgotten.
LEMMA KeptStep ==
  ASSUME IconInv, [I!Next]_iconVars
  PROVE  KeptInv'
<1> USE DEF IconInv, IconShape, KeptInv, WillRemove, Saves, I!Icons, I!Goto, I!NewIcon,
            I!iconVars, I!requestVars, I!histories
<1>2. ASSUME NEW r \in Requests, NEW k \in I!Kinds, NEW c \in IconCategories, I!Begin(r, k, c)
      PROVE  KeptInv'
  <2>1. \A q \in Requests, i \in I!Icons : WillRemove(q, i) => WillRemove(q, i)'
    BY <1>2 DEF I!Begin
  <2>2. QED
    BY <1>2, <2>1 DEF I!Begin, Kept
<1>3. ASSUME NEW r \in Requests, I!SaveFile(r) PROVE KeptInv'
  <2>1. \A q \in Requests, i \in I!Icons : WillRemove(q, i) => WillRemove(q, i)'
    BY <1>3 DEF I!SaveFile
  <2>2. r \in files' => WillRemove(r, r)' \/ r \in files
    BY <1>3 DEF I!SaveFile
  <2>3. QED
    BY <1>3, <2>1, <2>2 DEF I!SaveFile, Kept
<1>4. ASSUME NEW r \in Requests, I!InsertRow(r) PROVE KeptInv'
  <2>1. \A q \in Requests, i \in I!Icons : WillRemove(q, i) => WillRemove(q, i)' \/ i \notin iconRows' \cup files'
    BY <1>4 DEF I!InsertRow, UnbornInv, Unborn
  <2>2. \A i \in iconRows' \cup files' : i \in iconRows \cup files
    BY <1>4 DEF I!InsertRow, UnbornInv, Unborn
  <2>3. QED
    BY <1>4, <2>1, <2>2 DEF I!InsertRow, Kept
<1>5. ASSUME NEW r \in Requests, I!PointAtIcon(r) PROVE KeptInv'
  <2>1. iconPc[r] = "point" /\ iconCategory[r] \in IconCategories
    BY <1>5 DEF I!PointAtIcon
  <2>2. ASSUME NEW q \in Requests, NEW i \in I!Icons, WillRemove(q, i), q # r
        PROVE  WillRemove(q, i)'
    BY <1>5, <2>2 DEF I!PointAtIcon, I!Undo
  <2>3. ASSUME NEW i \in I!Icons, WillRemove(r, i)
        PROVE  WillRemove(r, i)' \/ \E c \in IconCategories : iconOf'[c] = i
    <3>1. i = r /\ Saves(r)
      BY <2>1, <2>3
    <3>2. \/ iconOf' = [iconOf EXCEPT ![iconCategory[r]] = r]
          \/ iconPc' = [iconPc EXCEPT ![r] = "undo"] /\ UNCHANGED kind
      BY <1>5, <3>1, IconAssumption DEF I!PointAtIcon, I!Undo
    <3>3. QED
      BY <2>1, <3>1, <3>2
  <2>4. ASSUME NEW i \in I!Icons, NEW c \in IconCategories, iconOf[c] = i
        PROVE  iconOf'[c] = i \/ i \in leaked' \/ WillRemove(r, i)'
    BY <1>5, <2>1, <2>4, IconAssumption DEF I!PointAtIcon
  <2>5. QED
    BY <1>5, <2>2, <2>3, <2>4 DEF I!PointAtIcon, Kept
<1>6. ASSUME NEW r \in Requests, I!WriteRest(r) \/ I!FinishIcon(r) \/ I!ReadFinal(r) PROVE KeptInv'
  <2>1. ASSUME NEW q \in Requests, NEW i \in I!Icons, WillRemove(q, i)
        PROVE  WillRemove(q, i)' \/ i \in leaked'
    BY <1>6, <2>1, IconAssumption DEF I!WriteRest, I!FinishIcon, I!ReadFinal, I!Undo
  <2>2. QED
    BY <1>6, <2>1 DEF I!WriteRest, I!FinishIcon, I!ReadFinal, Kept
<1>7. ASSUME NEW r \in Requests, I!RemoveRow(r) PROVE KeptInv'
  <2>1. ASSUME NEW q \in Requests, NEW i \in I!Icons, WillRemove(q, i)
        PROVE  WillRemove(q, i)'
    BY <1>7, <2>1 DEF I!RemoveRow
  <2>2. ASSUME NEW i \in I!Icons, i = I!Victim(r) PROVE WillRemove(r, i)'
    BY <1>7, <2>2 DEF I!RemoveRow, I!Victim
  <2>3. ASSUME NEW i \in I!Icons, NEW c \in IconCategories, iconOf[c] = i
        PROVE  iconOf'[c] = i \/ i = I!Victim(r)
    BY <1>7, <2>3 DEF I!RemoveRow
  <2>4. /\ leaked \cup undeleted \subseteq leaked' \cup undeleted'
        /\ iconRows' \cup files' \subseteq iconRows \cup files
    BY <1>7 DEF I!RemoveRow
  <2> HIDE DEF WillRemove
  <2>5. ASSUME NEW i \in iconRows' \cup files' PROVE Kept(i)'
    <3>1. i \in I!Icons /\ Kept(i)
      BY <2>4
    <3>2. ASSUME NEW q \in Requests, WillRemove(q, i) PROVE Kept(i)'
      BY <2>1, <3>1, <3>2 DEF Kept
    <3>3. ASSUME NEW c \in IconCategories, iconOf[c] = i PROVE Kept(i)'
      BY <2>2, <2>3, <3>1, <3>3 DEF Kept
    <3>4. QED
      BY <2>4, <3>1, <3>2, <3>3 DEF Kept
  <2>6. QED
    BY <2>5
<1>8. ASSUME NEW r \in Requests, I!RemoveFile(r) PROVE KeptInv'
  <2>1. ASSUME NEW q \in Requests, NEW i \in iconRows' \cup files', WillRemove(q, i)
        PROVE  WillRemove(q, i)' \/ i \in leaked' \cup undeleted'
    <3>1. CASE q # r
      BY <1>8, <2>1, <3>1 DEF I!RemoveFile
    <3>2. CASE q = r
      <4>1. i = I!Victim(r)
        BY <1>8, <2>1, <3>2 DEF I!RemoveFile, I!Victim
      <4>2. QED
        BY <1>8, <4>1 DEF I!RemoveFile, RemovalInv
    <3>3. QED
      BY <3>1, <3>2
  <2>2. QED
    BY <1>8, <2>1 DEF I!RemoveFile, Kept
<1>9. CASE I!Crash
  <2>1. ASSUME NEW q \in Requests, NEW i \in I!Icons, WillRemove(q, i)
        PROVE  i \in leaked'
    <3>1. i \in I!Handles(q) /\ I!Working(q)
      BY <2>1, IconAssumption DEF I!Handles, I!Working
    <3>2. QED
      BY <1>9, <3>1 DEF I!Crash
  <2>2. QED
    BY <1>9, <2>1 DEF I!Crash, Kept
<1>10. CASE UNCHANGED iconVars
  BY <1>10 DEF iconVars, Kept
<1>11. QED
  BY <1>2, <1>3, <1>4, <1>5, <1>6, <1>7, <1>8, <1>9, <1>10 DEF I!Next

LEMMA IconStep ==
  ASSUME IconInv, [I!Next]_iconVars
  PROVE  IconInv'
BY IconShapeStep, UnbornStep, RemovalStep, ShownStep, KeptStep DEF IconInv

-----------------------------------------------------------------------------
(***************************************************************************)
(* The options of a category.                                              *)
(***************************************************************************)
LEMMA SameCardinality == \A X : O!Cardinality(X) = Cardinality(X)
BY DEF O!Cardinality, Cardinality

\* What an option or a copy can have as its value.
SomeValues == O!Actions \cup {None}
CopyRow == [product : Products, option : Options \cup {None}, value : SomeValues, live : BOOLEAN]

\* The inserted rows are one for each pair, in some order.
IsInserted(seq, pairs, valueOf) ==
  /\ seq \in [1 .. Cardinality(pairs) -> CopyRow]
  /\ \A i \in DOMAIN seq :
       /\ <<seq[i].product, seq[i].option>> \in pairs /\ seq[i].live
       /\ seq[i].value = valueOf[<<seq[i].product, seq[i].option>>]
  /\ \A i, j \in DOMAIN seq :
       seq[i].product = seq[j].product /\ seq[i].option = seq[j].option => i = j

LEMMA InsertedRows ==
  ASSUME NEW pairs \in SUBSET (Products \X Options), NEW valueOf \in [pairs -> SomeValues]
  PROVE  IsInserted(O!Inserted(pairs, valueOf), pairs, valueOf)
<1> DEFINE n == Cardinality(pairs)
           made(pair) == [product |-> pair[1], option |-> pair[2], value |-> valueOf[pair],
                         live |-> TRUE]
           seqs == [1 .. n -> {made(pair) : pair \in pairs}]
           Covers(seq) == \A pair \in pairs : \E i \in DOMAIN seq :
                            seq[i].product = pair[1] /\ seq[i].option = pair[2]
           ins == O!Inserted(pairs, valueOf)
<1>1. IsFiniteSet(pairs) /\ n \in Nat /\ ExistsBijection(1 .. n, pairs)
  <2>1. IsFiniteSet(Products \X Options)
    BY OptionAssumption, FS_Product
  <2>2. IsFiniteSet(pairs)
    BY <2>1, FS_Subset
  <2>3. QED
    BY <2>2, FS_CardinalityType
<1>2. PICK bij \in [1 .. n -> pairs] : \A pair \in pairs : \E i \in 1 .. n : bij[i] = pair
  BY <1>1 DEF ExistsBijection, Bijection, Surjection
<1>3. \E seq \in seqs : Covers(seq)
  <2> DEFINE seq == [i \in 1 .. n |-> made(bij[i])]
  <2>1. seq \in seqs
    OBVIOUS
  <2>2. Covers(seq)
    BY <1>2
  <2> HIDE DEF seqs, Covers
  <2>3. QED
    BY <2>1, <2>2
<1>4. ins \in seqs /\ Covers(ins)
  <2>1. ins = CHOOSE seq \in [1 .. Cardinality(pairs) ->
                  {[product |-> pair[1], option |-> pair[2], value |-> valueOf[pair],
                    live |-> TRUE] : pair \in pairs}] :
                \A pair \in pairs : \E i \in DOMAIN seq :
                  seq[i].product = pair[1] /\ seq[i].option = pair[2]
    BY SameCardinality DEF O!Inserted
  <2>2. QED
    BY <1>3, <2>1
<1> HIDE DEF ins
<1>5. \A i \in 1 .. n : \E pair \in pairs : ins[i] = made(pair)
  <2>1. ins \in [1 .. n -> {made(pair) : pair \in pairs}]
    BY <1>4
  <2> HIDE DEF made, n, Covers, seqs
  <2>2. QED
    BY <2>1
<1>6. ASSUME NEW pair \in pairs
      PROVE  /\ pair[1] \in Products /\ pair[2] \in Options /\ pair = <<pair[1], pair[2]>>
             /\ made(pair).product = pair[1] /\ made(pair).option = pair[2] /\ made(pair).live
             /\ made(pair).value = valueOf[pair] /\ made(pair) \in CopyRow
  BY DEF CopyRow
<1> DEFINE g == [i \in 1 .. n |-> <<ins[i].product, ins[i].option>>]
<1> HIDE DEF made
<1>7. \A i \in 1 .. n : g[i] \in pairs /\ ins[i] = made(g[i])
  BY <1>5, <1>6
<1>8. g \in Surjection(1 .. n, pairs)
  <2>1. g \in [1 .. n -> pairs]
    BY <1>7
  <2>2. ASSUME NEW pair \in pairs PROVE \E i \in 1 .. n : g[i] = pair
    <3>1. PICK i \in 1 .. n : ins[i].product = pair[1] /\ ins[i].option = pair[2]
      BY <1>4
    <3>2. QED
      BY <1>6, <3>1
  <2>3. QED
    BY <2>1, <2>2 DEF Surjection
<1>9. g \in Injection(1 .. n, pairs)
  <2>1. IsFiniteSet(1 .. n) /\ Cardinality(1 .. n) = n
    BY <1>1, FS_Interval
  <2>2. QED
    BY <1>8, <2>1, FS_SurjSameCardinalityImpliesInj
<1>10. \A i, j \in 1 .. n : g[i] = g[j] => i = j
  BY <1>9 DEF Injection, IsInjective
<1>11. DOMAIN ins = 1 .. n /\ ins \in [1 .. n -> CopyRow]
  BY <1>4, <1>6, <1>7
<1>12. ASSUME NEW i \in 1 .. n
       PROVE  /\ <<ins[i].product, ins[i].option>> \in pairs /\ ins[i].live
              /\ ins[i].value = valueOf[<<ins[i].product, ins[i].option>>]
  BY <1>6, <1>7
<1>13. QED
  BY <1>10, <1>11, <1>12 DEF IsInserted, ins

-----------------------------------------------------------------------------
(* The inductive invariant *)

ReadSet == [options : SUBSET Nat, products : SUBSET Products,
            holders : [Options -> SUBSET Products], values : [Options -> SomeValues],
            copied : SUBSET Nat, behind : SUBSET Requests]

OptionShape ==
  /\ place \in [Products -> {"absent", "inside", "outside", "removed"}]
  /\ options \in [Options -> SomeValues] /\ nextId \in Nat
  /\ rows \in Seq(CopyRow)
  /\ DOMAIN optionPc = Requests /\ DOMAIN payload = Requests
  /\ read \in [Requests -> ReadSet]

\* Ids were given out in order, and rows are of products that were created.
RowsInv ==
  /\ \A o \in Options : options[o] # None => o < nextId
  /\ \A i \in O!Ids : /\ rows[i].option # None => rows[i].option < nextId
                      /\ place[rows[i].product] # "absent"

\* What a request may rely on: the options it read exist already, and so do the
\* products; between its lock and its commit nobody else makes copies of the
\* options it writes; and the copies it updates are of options it updates.
RequestInv(r) ==
  /\ optionPc[r] \in {"sync", "locked", "copied"} =>
       /\ payload[r] \in O!Payloads
       /\ read[r].options \subseteq Options /\ \A o \in read[r].options : o < nextId
       /\ \A p \in read[r].products : place[p] # "absent"
  /\ optionPc[r] = "edit" => payload[r].product \in Products /\ payload[r].value \in Values
  /\ optionPc[r] \in {"locked", "copied"} =>
       \A o \in (O!Ensured(r) \cap O!Written(r)) \ doubled :
         read[r].products \cap O!Holders(o) \subseteq read[r].holders[o]
  /\ optionPc[r] = "copied" =>
       \A i \in read[r].copied : i \in O!Ids /\ rows[i].option \in O!Updated(r)

\* Requests between their lock and their commit write different options.
LocksDiffer ==
  \A r, q \in Requests :
    r # q /\ optionPc[r] \in {"locked", "copied"} /\ optionPc[q] \in {"locked", "copied"} =>
      O!Written(r) \cap O!Written(q) = {}

OptionsInv ==
  OptionShape /\ RowsInv /\ LocksDiffer /\ O!CopiesMatch /\ \A r \in Requests : RequestInv(r)

LEMMA OptionIds ==
  /\ Options \subseteq Nat \ {0} /\ None \notin Options
  /\ \A o \in 1 .. Seeded : o \in Options
  /\ Seeded \in Nat
<1>1. Cardinality(Options) \in Nat /\ Options = 1 .. Cardinality(Options)
  BY OptionAssumption, FS_CardinalityType
<1>2. QED
  BY <1>1, OptionAssumption, BannerAssumption

LEMMA InsertedIsSeq ==
  ASSUME NEW seq, NEW pairs \in SUBSET (Products \X Options), NEW valueOf, IsInserted(seq, pairs, valueOf)
  PROVE  seq \in Seq(CopyRow) /\ DOMAIN seq = 1 .. Len(seq)
<1>1. IsFiniteSet(Products \X Options)
  BY OptionAssumption, FS_Product
<1>2. Cardinality(pairs) \in Nat
  BY <1>1, FS_Subset, FS_CardinalityType
<1>3. QED
  BY <1>2 DEF IsInserted

LEMMA OptionsInit == O!Init => OptionsInv
<1> SUFFICES ASSUME O!Init PROVE OptionsInv
  OBVIOUS
<1> DEFINE v == CHOOSE v \in Values : TRUE
           copies(inside) == inside \X (1 .. Seeded)
<1>1. PICK inside \in SUBSET Products :
        /\ place = [p \in Products |-> IF p \in inside THEN "inside" ELSE "absent"]
        /\ options = [o \in Options |-> IF o <= Seeded THEN v ELSE None]
        /\ nextId = Seeded + 1
        /\ rows = O!Inserted(copies(inside), [pair \in copies(inside) |-> v])
        /\ optionPc = [r \in Requests |-> "idle"]
        /\ payload = [r \in Requests |-> O!NoPayload]
        /\ read = [r \in Requests |-> O!NothingRead]
        /\ loose = {} /\ doubled = {}
  BY Zenon DEF O!Init
<1>2. v \in Values /\ v \in SomeValues
  BY OptionAssumption DEF SomeValues, O!Actions
<1> HIDE DEF v
<1> DEFINE all == copies(inside)
           valueOf == [pair \in all |-> v]
<1>3. all \in SUBSET (Products \X Options) /\ valueOf \in [all -> SomeValues]
  BY <1>2, OptionIds
<1>4. IsInserted(rows, all, valueOf) /\ rows \in Seq(CopyRow) /\ DOMAIN rows = O!Ids
  BY <1>1, <1>3, InsertedRows, InsertedIsSeq DEF O!Ids
<1>5. ASSUME NEW i \in O!Ids
      PROVE  /\ rows[i].product \in inside /\ rows[i].option \in 1 .. Seeded
             /\ rows[i].value = v
  <2>1. i \in DOMAIN rows
    BY <1>4
  <2> HIDE DEF all, valueOf
  <2>2. /\ <<rows[i].product, rows[i].option>> \in all
        /\ rows[i].value = valueOf[<<rows[i].product, rows[i].option>>]
    BY <1>4, <2>1 DEF IsInserted
  <2>3. QED
    BY <2>2 DEF all, valueOf
<1>6. \A i, j \in O!Ids : rows[i].product = rows[j].product /\ rows[i].option = rows[j].option => i = j
  BY <1>4 DEF IsInserted
<1> HIDE DEF all, valueOf
<1>7. OptionShape
  <2>1. O!NothingRead \in ReadSet
    BY DEF O!NothingRead, ReadSet, SomeValues
  <2>2. options \in [Options -> SomeValues]
    BY <1>1, <1>2 DEF SomeValues
  <2>3. QED
    BY <1>1, <1>4, <2>1, <2>2, OptionIds DEF OptionShape
<1>8. RowsInv
  <2>1. \A o \in Options : options[o] # None => o < nextId
    BY <1>1, OptionIds
  <2>2. ASSUME NEW i \in O!Ids PROVE rows[i].option < nextId /\ place[rows[i].product] # "absent"
    <3>1. \A p \in inside : p \in Products /\ place[p] = "inside"
      BY <1>1
    <3>2. \A o \in 1 .. Seeded : o < nextId
      BY <1>1, OptionIds
    <3>3. QED
      BY <1>5, <3>1, <3>2
  <2>3. QED
    BY <2>1, <2>2 DEF RowsInv
<1>9. O!CopiesMatch
  <2>1. \A o \in 1 .. Seeded : options[o] = v
    BY <1>1, OptionIds
  <2>2. \A i \in O!Ids : rows[i].value = options[rows[i].option]
    BY <1>5, <2>1
  <2>3. QED
    BY <1>6, <2>2 DEF O!CopiesMatch, O!CopiesOf
<1>10. LocksDiffer /\ \A r \in Requests : RequestInv(r)
  BY <1>1 DEF LocksDiffer, RequestInv
<1>11. QED
  BY <1>7, <1>8, <1>9, <1>10 DEF OptionsInv

-----------------------------------------------------------------------------
(* Steps that write no option *)

LEMMA PayloadTypes ==
  ASSUME NEW r \in Requests, payload[r] \in O!Payloads
  PROVE  /\ \A o \in Options : payload[r].acts[o] \in SomeValues
         /\ payload[r].new \in SomeValues
BY DEF O!Payloads, SomeValues, O!Actions

\* What a request writes are options it read.
LEMMA SyncSets ==
  ASSUME NEW r \in Requests
  PROVE  /\ O!Updated(r) \subseteq O!Ensured(r)
         /\ O!Handled(r) = O!Named(r) \cap read[r].options
         /\ O!Written(r) \subseteq O!Handled(r) /\ O!Deleted(r) \subseteq O!Handled(r)
         /\ O!Ensured(r) = O!Handled(r) \ O!Deleted(r)
         /\ O!Named(r) \subseteq Options
         /\ O!Stale(r) \subseteq read[r].options /\ O!Stale(r) \cap O!Named(r) = {}
         /\ O!New(r) \subseteq {nextId}
BY DEF O!Handled, O!Named, O!Written, O!Deleted, O!Ensured, O!Stale, O!New, O!Updated

LEMMA SetsStay ==
  ASSUME NEW r \in Requests, UNCHANGED <<payload[r], read[r]>>
  PROVE  /\ O!Written(r)' = O!Written(r) /\ O!Ensured(r)' = O!Ensured(r)
         /\ O!Updated(r)' = O!Updated(r)
BY DEF O!Handled, O!Named, O!Written, O!Deleted, O!Ensured, O!Updated

\* What the steps of others leave a request.
LEMMA RequestKept ==
  ASSUME NEW r \in Requests, RequestInv(r),
         UNCHANGED <<optionPc[r], payload[r], read[r]>>,
         nextId \in Nat, nextId' \in Nat, nextId <= nextId', doubled \subseteq doubled', Options \subseteq Nat,
         \A p \in Products : place[p] # "absent" => place'[p] # "absent",
         \A p \in read[r].products : p \in Products,
         \A i \in O!Ids : /\ i \in O!Ids' /\ rows'[i].option = rows[i].option
                          /\ ~rows[i].live => ~rows'[i].live,
         optionPc[r] \in {"locked", "copied"} =>
           \A o \in (O!Ensured(r) \cap O!Written(r)) \ doubled' :
             read[r].products \cap O!Holders(o)' \subseteq O!Holders(o)
  PROVE  RequestInv(r)'
<1>1. /\ O!Written(r)' = O!Written(r) /\ O!Ensured(r)' = O!Ensured(r)
      /\ O!Updated(r)' = O!Updated(r)
  BY SetsStay
<1>2. ASSUME optionPc[r] \in {"sync", "locked", "copied"}
      PROVE  /\ payload[r] \in O!Payloads
             /\ read[r].options \subseteq Options /\ \A o \in read[r].options : o < nextId'
             /\ \A p \in read[r].products : place'[p] # "absent"
  <2>1. /\ payload[r] \in O!Payloads /\ read[r].options \subseteq Options
        /\ \A o \in read[r].options : o < nextId
        /\ \A p \in read[r].products : place[p] # "absent"
    BY <1>2 DEF RequestInv
  <2>2. ASSUME NEW o \in read[r].options PROVE o < nextId'
    <3>1. o \in Nat /\ o < nextId
      BY <2>1
    <3>2. QED
      BY <3>1
  <2>3. QED
    BY <2>1, <2>2
<1>3. ASSUME optionPc[r] = "edit" PROVE RequestInv(r)'
  BY <1>3 DEF RequestInv
<1>4. ASSUME optionPc[r] \in {"locked", "copied"}
      PROVE  \A o \in (O!Ensured(r) \cap O!Written(r)) \ doubled' :
               read[r].products \cap O!Holders(o)' \subseteq read[r].holders[o]
  BY <1>4 DEF RequestInv
<1>5. O!Payloads' = O!Payloads
  BY DEF O!Payloads
<1>6. ASSUME optionPc[r] \in {"locked", "copied"}
      PROVE  (\A o \in (O!Ensured(r) \cap O!Written(r)) \ doubled :
               read[r].products \cap O!Holders(o) \subseteq read[r].holders[o])'
  BY <1>1, <1>4, <1>6 DEF O!Holders
<1>7. ASSUME optionPc[r] = "copied"
      PROVE  (\A i \in read[r].copied : i \in O!Ids /\ rows[i].option \in O!Updated(r))'
  <2>1. \A i \in read[r].copied : i \in O!Ids /\ rows[i].option \in O!Updated(r)
    BY <1>7 DEF RequestInv
  <2>2. QED
    BY <1>1, <2>1
<1>8. QED
  BY <1>2, <1>3, <1>5, <1>6, <1>7 DEF RequestInv

\* Steps that only move one request along, which is not between its lock and
\* its commit afterwards.
LEMMA DataStays ==
  ASSUME OptionsInv, UNCHANGED <<place, options, nextId, rows, loose, doubled>>,
         NEW r \in Requests, \A q \in Requests \ {r} : UNCHANGED <<optionPc[q], payload[q], read[q]>>,
         DOMAIN optionPc' = Requests, DOMAIN payload' = Requests, read' \in [Requests -> ReadSet],
         RequestInv(r)',
         optionPc'[r] \in {"locked", "copied"} => \A q \in Requests \ {r} :
           optionPc[q] \in {"locked", "copied"} => (O!Written(r) \cap O!Written(q))' = {}
  PROVE  OptionsInv'
<1> USE DEF OptionsInv
<1>1. OptionShape' /\ RowsInv'
  BY DEF OptionShape, RowsInv, O!Ids
<1>2. O!CopiesMatch'
  BY DEF O!CopiesMatch, O!CopiesOf, O!Ids, O!Live
<1>3. ASSUME NEW q \in Requests \ {r} PROVE RequestInv(q)'
  <2>1. \A o \in Options : O!Holders(o)' = O!Holders(o)
    BY DEF O!Holders, O!CopiesOf, O!Ids, O!Live
  <2>2. O!Ids' = O!Ids /\ \A p \in read[q].products : p \in Products
    BY DEF O!Ids, OptionShape, ReadSet
  <2>3. \A o \in (O!Ensured(q) \cap O!Written(q)) : o \in Options
    BY SyncSets
  <2>4. nextId \in Nat /\ Options \subseteq Nat
    BY OptionIds DEF OptionShape
  <2>5. \A o \in (O!Ensured(q) \cap O!Written(q)) \ doubled' :
          read[q].products \cap O!Holders(o)' \subseteq O!Holders(o)
    BY <2>1, <2>3
  <2>6. RequestInv(q) /\ UNCHANGED <<optionPc[q], payload[q], read[q]>>
    BY <1>3
  <2>7. nextId' \in Nat /\ nextId <= nextId' /\ doubled \subseteq doubled'
    BY <2>4
  <2>8. \A i \in O!Ids : /\ i \in O!Ids' /\ rows'[i].option = rows[i].option
                         /\ ~rows[i].live => ~rows'[i].live
    BY <2>2
  <2>9. \A p \in Products : place[p] # "absent" => place'[p] # "absent"
    OBVIOUS
  <2> HIDE DEF OptionsInv
  <2>10. QED
    BY <2>2, <2>4, <2>5, <2>6, <2>7, <2>8, <2>9, RequestKept
<1>4. LocksDiffer'
  <2> SUFFICES ASSUME NEW p \in Requests, NEW q \in Requests, p # q,
                      optionPc'[p] \in {"locked", "copied"}, optionPc'[q] \in {"locked", "copied"}
               PROVE  (O!Written(p) \cap O!Written(q))' = {}
    BY DEF LocksDiffer
  <2>1. \A t \in Requests \ {r} : O!Written(t)' = O!Written(t)
    BY SetsStay
  <2>2. QED
    BY <2>1 DEF LocksDiffer
<1>5. QED
  BY <1>1, <1>2, <1>3, <1>4

LEMMA RowTypes ==
  ASSUME OptionShape
  PROVE  /\ Len(rows) \in Nat /\ O!Ids = 1 .. Len(rows) /\ O!Ids = DOMAIN rows
         /\ \A i \in O!Ids : /\ rows[i] \in CopyRow /\ rows[i].product \in Products
                             /\ rows[i].option \in Options \cup {None} /\ rows[i].live \in BOOLEAN
<1>1. rows \in Seq(CopyRow)
  BY DEF OptionShape
<1>2. Len(rows) \in Nat /\ O!Ids = 1 .. Len(rows) /\ O!Ids = DOMAIN rows
  BY <1>1 DEF O!Ids
<1>3. \A i \in O!Ids : rows[i] \in CopyRow
  BY <1>1, <1>2
<1>4. \A copy \in CopyRow : /\ copy.product \in Products /\ copy.option \in Options \cup {None}
                           /\ copy.live \in BOOLEAN
  BY DEF CopyRow
<1>5. QED
  BY <1>2, <1>3, <1>4

LEMMA HoldersArePresent ==
  ASSUME OptionShape, RowsInv, NEW o \in Options
  PROVE  /\ O!Holders(o) \subseteq Products
         /\ \A p \in O!Holders(o) : place[p] # "absent" /\ o < nextId
BY RowTypes, OptionIds DEF RowsInv, O!Holders, O!CopiesOf

LEMMA ReadCategoryKeeps ==
  ASSUME OptionsInv, NEW r \in Requests, NEW input \in OptionPayloads, O!ReadCategory(r, input)
  PROVE  OptionsInv'
<1>1. /\ UNCHANGED <<place, options, nextId, rows, loose, doubled>>
      /\ \A q \in Requests \ {r} : UNCHANGED <<optionPc[q], payload[q], read[q]>>
      /\ optionPc' = [optionPc EXCEPT ![r] = "sync"]
      /\ payload' = [payload EXCEPT ![r] = input]
      /\ read' = [read EXCEPT ![r].options = O!Present,
                              ![r].products = IF input = O!NoPayload THEN {} ELSE O!Inside]
  BY DEF OptionsInv, OptionShape, O!ReadCategory, O!Goto, O!data, O!histories
<1>2. DOMAIN optionPc' = Requests /\ DOMAIN payload' = Requests
  BY <1>1 DEF OptionsInv, OptionShape
<1>3. /\ O!Present \subseteq Options /\ \A o \in O!Present : o < nextId
      /\ O!Inside \subseteq Products /\ \A p \in O!Inside : place[p] # "absent"
  BY DEF OptionsInv, RowsInv, O!Present, O!Inside
<1>4. /\ read'[r].options = O!Present
      /\ read'[r].products \in {{}, O!Inside}
      /\ read' \in [Requests -> ReadSet]
  <2> DEFINE ps == IF input = O!NoPayload THEN {} ELSE O!Inside
  <2>1. /\ read \in [Requests -> ReadSet] /\ O!Present \in SUBSET Nat
        /\ ps \in SUBSET Products /\ ps \in {{}, O!Inside}
    BY <1>3, OptionIds DEF OptionsInv, OptionShape
  <2> DEFINE known == [read[r] EXCEPT !.options = O!Present, !.products = ps]
  <2>2. read' = [read EXCEPT ![r] = known]
    BY <1>1, <2>1
  <2> HIDE DEF ps
  <2>3. known \in ReadSet /\ known.options = O!Present /\ known.products = ps
    <3>1. read[r] \in ReadSet /\ O!Present \in SUBSET Nat /\ ps \in SUBSET Products
      BY <2>1
    <3>2. QED
      BY ONLY <3>1 DEF ReadSet
  <2> HIDE DEF known
  <2>4. QED
    BY <2>1, <2>2, <2>3
<1>5. RequestInv(r)'
  <2>1. payload'[r] \in O!Payloads' /\ optionPc'[r] = "sync"
    BY <1>1, OptionAssumption DEF OptionsInv, OptionShape, O!Payloads
  <2>2. \A p \in read'[r].products : place'[p] # "absent"
    BY <1>1, <1>3, <1>4
  <2>3. read'[r].options \subseteq Options /\ \A o \in read'[r].options : o < nextId'
    BY <1>1, <1>3, <1>4
  <2>4. QED
    BY <2>1, <2>2, <2>3 DEF RequestInv
<1>6. optionPc'[r] \notin {"locked", "copied"}
  BY <1>1 DEF OptionsInv, OptionShape
<1>7. QED
  BY <1>1, <1>2, <1>4, <1>5, <1>6, DataStays

\* A request that ends leaves nothing to rely on.
LEMMA FinishKeeps ==
  ASSUME OptionsInv, UNCHANGED <<place, options, nextId, rows, loose, doubled>>,
         NEW r \in Requests, NEW label \in {"done", "failed"}, O!Finish(r, label)
  PROVE  OptionsInv'
<1>1. /\ optionPc' = [optionPc EXCEPT ![r] = label]
      /\ payload' = [payload EXCEPT ![r] = O!NoPayload]
      /\ read' = [read EXCEPT ![r] = O!NothingRead]
  BY DEF O!Finish, O!Goto
<1>2. O!NothingRead \in ReadSet
  BY DEF O!NothingRead, ReadSet, SomeValues
<1>3. /\ DOMAIN optionPc' = Requests /\ DOMAIN payload' = Requests /\ read' \in [Requests -> ReadSet]
      /\ \A q \in Requests \ {r} : UNCHANGED <<optionPc[q], payload[q], read[q]>>
      /\ optionPc'[r] = label
  BY <1>1, <1>2 DEF OptionsInv, OptionShape
<1>4. RequestInv(r)'
  BY <1>3 DEF RequestInv
<1>5. QED
  BY <1>3, <1>4, DataStays

LEMMA LockOptionsKeeps ==
  ASSUME OptionsInv, NEW r \in Requests, O!LockOptions(r)
  PROVE  OptionsInv'
<1>1. UNCHANGED <<place, options, nextId, rows, loose, doubled>>
  BY DEF O!LockOptions, O!data, O!histories
<1>2. CASE ~ O!Written(r) \subseteq O!Present
  BY <1>1, <1>2, FinishKeeps DEF O!LockOptions
<1>3. CASE O!Written(r) \subseteq O!Present
  <2>1. /\ optionPc[r] = "sync" /\ optionPc' = [optionPc EXCEPT ![r] = "locked"]
        /\ payload' = payload
        /\ read' = [read EXCEPT ![r].holders = [o \in Options |-> O!Holders(o)],
                                ![r].values = options]
        /\ \A q \in Requests : optionPc[q] \in {"locked", "copied"} => O!Written(q) \cap O!Written(r) = {}
    BY <1>3 DEF O!LockOptions, O!Goto, O!Writing
  <2>2. \A o \in Options : O!Holders(o) \subseteq Products
    BY HoldersArePresent DEF OptionsInv
  <2>3. /\ DOMAIN optionPc' = Requests /\ DOMAIN payload' = Requests
        /\ read' \in [Requests -> ReadSet] /\ optionPc'[r] = "locked"
        /\ \A q \in Requests \ {r} : UNCHANGED <<optionPc[q], payload[q], read[q]>>
        /\ UNCHANGED <<payload[r], read[r].options, read[r].products>>
        /\ read'[r].holders = [o \in Options |-> O!Holders(o)]
    <3> DEFINE holders == [o \in Options |-> O!Holders(o)]
               known == [read[r] EXCEPT !.holders = holders, !.values = options]
    <3>1. /\ DOMAIN optionPc = Requests /\ DOMAIN payload = Requests
          /\ read \in [Requests -> ReadSet] /\ options \in [Options -> SomeValues]
      BY DEF OptionsInv, OptionShape
    <3>2. holders \in [Options -> SUBSET Products]
      BY <2>2
    <3>3. read' = [read EXCEPT ![r] = known]
      BY <2>1, <3>1
    <3> HIDE DEF holders
    <3>4. /\ known \in ReadSet /\ known.holders = holders
          /\ known.options = read[r].options /\ known.products = read[r].products
      <4>1. read[r] \in ReadSet /\ options \in [Options -> SomeValues]
        BY <3>1
      <4>2. QED
        BY ONLY <3>2, <4>1 DEF ReadSet
    <3> HIDE DEF known
    <3>5. read' \in [Requests -> ReadSet] /\ read'[r] = known
      BY <3>1, <3>3, <3>4
    <3>6. \A q \in Requests \ {r} : UNCHANGED <<optionPc[q], payload[q], read[q]>>
      BY <2>1, <3>1, <3>3
    <3>7. QED
      BY <2>1, <3>1, <3>4, <3>5, <3>6 DEF holders
  <2>4. /\ payload[r] \in O!Payloads
        /\ read[r].options \subseteq Options /\ \A o \in read[r].options : o < nextId
        /\ \A p \in read[r].products : place[p] # "absent"
    BY <2>1 DEF OptionsInv, RequestInv
  <2>5. O!Written(r)' = O!Written(r) /\ \A q \in Requests \ {r} : O!Written(q)' = O!Written(q)
    BY <2>3 DEF O!Written, O!Handled, O!Named
  <2>6. \A o \in Options : O!Holders(o)' = O!Holders(o)
    BY <1>1 DEF O!Holders, O!CopiesOf, O!Ids, O!Live
  <2>7. RequestInv(r)'
    <3>1. (\A o \in (O!Ensured(r) \cap O!Written(r)) \ doubled :
             read[r].products \cap O!Holders(o) \subseteq read[r].holders[o])'
      <4>1. O!Written(r)' \subseteq Options
        BY DEF O!Written, O!Handled, O!Named
      <4>2. QED
        BY <2>3, <2>6, <4>1
    <3>2. O!Payloads' = O!Payloads
      BY DEF O!Payloads
    <3>3. QED
      BY <1>1, <2>3, <2>4, <3>1, <3>2 DEF RequestInv
  <2>8. \A q \in Requests \ {r} : optionPc[q] \in {"locked", "copied"} => (O!Written(r) \cap O!Written(q))' = {}
    BY <2>1, <2>5
  <2>9. QED
    BY <1>1, <2>3, <2>7, <2>8, DataStays
<1>4. QED
  BY <1>2, <1>3

LEMMA CopyOptionsKeeps ==
  ASSUME OptionsInv, NEW r \in Requests, O!CopyOptions(r)
  PROVE  OptionsInv'
<1> DEFINE copied == {i \in O!Ids : O!Live(i) /\ rows[i].option \in O!Updated(r)}
           behind == {q \in Requests : optionPc[q] = "copied" /\ read[q].copied \cap copied # {}}
<1>1. /\ UNCHANGED <<place, options, nextId, rows, loose, doubled>> /\ optionPc[r] = "locked"
      /\ \/ O!Finish(r, "failed")
         \/ /\ optionPc' = [optionPc EXCEPT ![r] = "copied"] /\ UNCHANGED payload
            /\ read' = [read EXCEPT ![r].copied = copied, ![r].behind = behind]
  BY DEF O!CopyOptions, O!Goto, O!data, O!histories
<1>2. CASE O!Finish(r, "failed")
  BY <1>1, <1>2, FinishKeeps
<1>3. copied \in SUBSET Nat /\ behind \in SUBSET Requests
      /\ \A i \in copied : i \in O!Ids /\ rows[i].option \in O!Updated(r)
  BY RowTypes DEF OptionsInv
<1> HIDE DEF copied, behind
<1>4. CASE /\ optionPc' = [optionPc EXCEPT ![r] = "copied"] /\ UNCHANGED payload
           /\ read' = [read EXCEPT ![r].copied = copied, ![r].behind = behind]
  <2> DEFINE known == [read[r] EXCEPT !.copied = copied, !.behind = behind]
  <2>1. DOMAIN optionPc = Requests /\ DOMAIN payload = Requests /\ read \in [Requests -> ReadSet]
    BY DEF OptionsInv, OptionShape
  <2>2. read' = [read EXCEPT ![r] = known]
    BY <1>4, <2>1
  <2>3. /\ known \in ReadSet /\ known.copied = copied
        /\ known.options = read[r].options /\ known.products = read[r].products
        /\ known.holders = read[r].holders /\ known.values = read[r].values
    <3>1. read[r] \in ReadSet
      BY <2>1
    <3>2. QED
      BY ONLY <1>3, <3>1 DEF ReadSet
  <2> HIDE DEF known
  <2>4. /\ read' \in [Requests -> ReadSet] /\ read'[r] = known
        /\ \A q \in Requests \ {r} : UNCHANGED <<optionPc[q], payload[q], read[q]>>
        /\ optionPc'[r] = "copied" /\ DOMAIN optionPc' = Requests /\ DOMAIN payload' = Requests
    <3>1. read' \in [Requests -> ReadSet] /\ read'[r] = known
          /\ \A q \in Requests \ {r} : read'[q] = read[q]
      BY ONLY <2>1, <2>2, <2>3
    <3>2. /\ \A q \in Requests \ {r} : UNCHANGED <<optionPc[q], payload[q]>>
          /\ optionPc'[r] = "copied" /\ DOMAIN optionPc' = Requests /\ DOMAIN payload' = Requests
      BY ONLY <1>4, <2>1
    <3>3. QED
      BY ONLY <3>1, <3>2
  <2>5. /\ O!Written(r)' = O!Written(r) /\ O!Ensured(r)' = O!Ensured(r)
        /\ O!Updated(r)' = O!Updated(r)
    <3>1. O!Named(r)' = O!Named(r) /\ O!Handled(r)' = O!Handled(r) /\ O!Deleted(r)' = O!Deleted(r)
      BY <1>4, <2>3, <2>4 DEF O!Named, O!Handled, O!Deleted
    <3>2. O!Written(r)' = O!Written(r)
      BY <1>4, <3>1 DEF O!Written
    <3>3. O!Ensured(r)' = O!Ensured(r)
      BY <1>4, <2>3, <2>4, <3>1 DEF O!Ensured
    <3>4. read'[r].products = read[r].products /\ read'[r].values = read[r].values
      BY ONLY <2>3, <2>4
    <3>5. O!Updated(r)' = O!Updated(r)
      BY ONLY <3>2, <3>3, <3>4 DEF O!Updated
    <3>6. QED
      BY ONLY <3>2, <3>3, <3>5
  <2>6. RequestInv(r)'
    <3>1. /\ payload[r] \in O!Payloads
          /\ read[r].options \subseteq Options /\ \A o \in read[r].options : o < nextId
          /\ \A p \in read[r].products : place[p] # "absent"
          /\ \A o \in (O!Ensured(r) \cap O!Written(r)) \ doubled :
               read[r].products \cap O!Holders(o) \subseteq read[r].holders[o]
      BY <1>1 DEF OptionsInv, RequestInv
    <3>2. O!Payloads' = O!Payloads
      BY DEF O!Payloads
    <3>3. (\A o \in (O!Ensured(r) \cap O!Written(r)) \ doubled :
             read[r].products \cap O!Holders(o) \subseteq read[r].holders[o])'
      <4>1. \A o \in Options : O!Holders(o)' = O!Holders(o)
        BY <1>1 DEF O!Holders, O!CopiesOf, O!Ids, O!Live
      <4>2. O!Written(r) \subseteq Options
        BY SyncSets
      <4>3. QED
        BY <1>1, <2>3, <2>4, <2>5, <3>1, <4>1, <4>2
    <3>4. (\A i \in read[r].copied : i \in O!Ids /\ rows[i].option \in O!Updated(r))'
      <4>1. O!Ids' = O!Ids
        BY <1>1 DEF O!Ids
      <4>2. QED
        BY <1>1, <1>3, <2>3, <2>4, <2>5, <4>1
    <3>5. /\ (payload[r] \in O!Payloads)'
          /\ (read[r].options \subseteq Options)' /\ (\A o \in read[r].options : o < nextId)'
          /\ (\A p \in read[r].products : place[p] # "absent")'
      BY <1>1, <1>4, <2>3, <2>4, <3>1, <3>2
    <3>6. QED
      BY <2>4, <3>3, <3>4, <3>5 DEF RequestInv
  <2>7. \A q \in Requests \ {r} : optionPc[q] \in {"locked", "copied"} =>
          (O!Written(r) \cap O!Written(q))' = {}
    <3>1. \A q \in Requests \ {r} : O!Written(q)' = O!Written(q)
      BY <2>4, SetsStay
    <3>2. QED
      BY <1>1, <2>5, <3>1 DEF OptionsInv, LocksDiffer
  <2>8. QED
    BY <1>1, <2>4, <2>6, <2>7, DataStays
<1>5. QED
  BY <1>1, <1>2, <1>4

-----------------------------------------------------------------------------
(* The commit of a category's options *)

Gone(r) == O!Deleted(r) \cup O!Stale(r)
KeptPairs(r) == {pair \in O!Pairs(r) : pair[2] \notin Gone(r)}
KeptValue(r) == [pair \in KeptPairs(r) |-> O!ValueFor(r, pair[2])]
OldRows(r) == [i \in O!Ids |->
                 CASE rows[i].option \in Gone(r) -> [rows[i] EXCEPT !.live = FALSE]
                   [] i \in read[r].copied ->
                        [rows[i] EXCEPT !.value = O!ValueFor(r, rows[i].option)]
                   [] OTHER -> rows[i]]

\* What a commit writes.
SyncWrites(r) ==
  /\ options' = [o \in Options |->
       CASE o \in Gone(r) -> None
         [] o \in (O!New(r) \cup O!Written(r)) \ Gone(r) -> O!ValueFor(r, o)
         [] OTHER -> options[o]]
  /\ rows' = OldRows(r) \o O!Inserted(KeptPairs(r), KeptValue(r))
  /\ nextId' = nextId + O!Cardinality(O!New(r))
  /\ loose' = (loose \ (O!Updated(r) \cap O!Written(r))) \cup O!Loosened(r)
  /\ doubled' = doubled \cup O!Overlapping(r)
  /\ O!Finish(r, "done")

LEMMA SyncCommits ==
  ASSUME NEW r \in Requests, O!CommitSync(r)
  PROVE  /\ optionPc[r] = "copied" /\ O!New(r) \subseteq Options /\ UNCHANGED place
         /\ SyncWrites(r)
BY DEF O!CommitSync, SyncWrites, OldRows, KeptValue, KeptPairs, Gone

\* The sets of a commit.
LEMMA SyncSorts ==
  ASSUME OptionsInv, NEW r \in Requests, optionPc[r] = "copied", O!New(r) \subseteq Options
  PROVE  /\ Gone(r) \subseteq read[r].options /\ O!Updated(r) \subseteq O!Ensured(r)
         /\ O!Ensured(r) \subseteq read[r].options /\ read[r].options \subseteq Options
         /\ Gone(r) \cap O!Ensured(r) = {} /\ O!Written(r) \subseteq Gone(r) \cup O!Ensured(r)
         /\ \A o \in read[r].options : o # None /\ o \in Nat /\ o < nextId
         /\ O!New(r) \subseteq {nextId} /\ nextId \in Nat /\ nextId \notin read[r].options
         /\ read[r].products \subseteq Products
         /\ \A p \in read[r].products : place[p] # "absent"
         /\ O!New(r) # {} => payload[r].new # None
         /\ \A i \in read[r].copied : rows[i].option \in O!Updated(r)
<1>1. /\ payload[r] \in O!Payloads /\ read[r].options \subseteq Options
      /\ \A o \in read[r].options : o < nextId
      /\ \A p \in read[r].products : place[p] # "absent"
  BY DEF OptionsInv, RequestInv
<1>2. nextId \in Nat /\ read[r].products \subseteq Products
  BY DEF OptionsInv, OptionShape, ReadSet
<1>3. \A o \in read[r].options : o # None /\ o \in Nat /\ o < nextId
  BY <1>1, OptionIds
<1>4. nextId \notin read[r].options
  BY <1>2, <1>3
<1>5. O!New(r) # {} => payload[r].new # None
  BY DEF O!New
<1>6. \A i \in read[r].copied : rows[i].option \in O!Updated(r)
  BY DEF OptionsInv, RequestInv
<1>7. QED
  BY <1>1, <1>2, <1>3, <1>4, <1>5, <1>6, SyncSets DEF Gone

LEMMA PairsAre ==
  ASSUME OptionsInv, NEW r \in Requests, optionPc[r] = "copied", O!New(r) \subseteq Options
  PROVE  /\ KeptPairs(r) \in SUBSET (Products \X Options)
         /\ \A p, o : <<p, o>> \in KeptPairs(r) =>
              /\ p \in read[r].products /\ o \notin Gone(r)
              /\ \/ o \in O!New(r)
                 \/ o \in O!Ensured(r) /\ <<p, o>> \in O!Missing(r)
         /\ \A p, o : <<p, o>> \in O!Missing(r) =>
              p \notin read[r].holders[o] /\ o \in O!Updated(r)
<1>1. \A p, o : <<p, o>> \in O!Missing(r) =>
        p \in read[r].products /\ o \in O!Updated(r) /\ p \notin read[r].holders[o]
  BY DEF O!Missing
<1>2. \A pair \in O!Missing(r) : pair = <<pair[1], pair[2]>>
  BY DEF O!Missing
<1>3. QED
  BY <1>1, <1>2, SyncSorts DEF KeptPairs, O!Pairs

LEMMA SyncValues ==
  ASSUME OptionsInv, NEW r \in Requests, optionPc[r] = "copied", O!New(r) \subseteq Options
  PROVE  /\ \A o \in O!Ensured(r) \cup O!New(r) \cup (O!Written(r) \ Gone(r)) :
              O!ValueFor(r, o) \in SomeValues
         /\ \A o \in O!Ensured(r) \ O!Written(r) : O!ValueFor(r, o) = read[r].values[o]
         /\ KeptValue(r) \in [KeptPairs(r) -> SomeValues]
<1>1. payload[r] \in O!Payloads
  BY DEF OptionsInv, RequestInv
<1>2. \A o \in Options : payload[r].acts[o] \in SomeValues /\ read[r].values[o] \in SomeValues
  BY <1>1, PayloadTypes DEF OptionsInv, OptionShape, ReadSet
<1>3. payload[r].new \in SomeValues
  BY <1>1, PayloadTypes
<1>4. /\ O!New(r) \cap O!Ensured(r) = {} /\ O!New(r) \cap O!Written(r) = {}
      /\ O!Ensured(r) \subseteq Options /\ O!Written(r) \subseteq Options
  BY SyncSorts
<1>5. ASSUME NEW o \in O!New(r) PROVE O!ValueFor(r, o) = payload[r].new
  BY <1>4 DEF O!ValueFor
<1>6. ASSUME NEW o \in O!Written(r) PROVE O!ValueFor(r, o) = payload[r].acts[o]
  BY <1>4 DEF O!ValueFor
<1>7. ASSUME NEW o \in O!Ensured(r) \ O!Written(r) PROVE O!ValueFor(r, o) = read[r].values[o]
  BY <1>4 DEF O!ValueFor
<1>8. \A o \in O!Ensured(r) \cup O!New(r) \cup (O!Written(r) \ Gone(r)) :
        O!ValueFor(r, o) \in SomeValues
  BY <1>2, <1>3, <1>4, <1>5, <1>6, <1>7
<1>9. \A pair \in KeptPairs(r) : pair[2] \in O!Ensured(r) \cup O!New(r)
  BY PairsAre
<1>10. QED
  BY <1>7, <1>8, <1>9 DEF KeptValue

LEMMA OptionsAfter ==
  ASSUME OptionsInv, NEW r \in Requests, optionPc[r] = "copied", O!New(r) \subseteq Options,
         SyncWrites(r)
  PROVE  /\ options' \in [Options -> SomeValues]
         /\ \A o \in Options :
              /\ o \in Gone(r) => options'[o] = None
              /\ o \in (O!New(r) \cup O!Written(r)) \ Gone(r) => options'[o] = O!ValueFor(r, o)
              /\ o \notin Gone(r) \cup O!New(r) \cup O!Written(r) => options'[o] = options[o]
<1>1. options' = [o \in Options |->
       CASE o \in Gone(r) -> None
         [] o \in (O!New(r) \cup O!Written(r)) \ Gone(r) -> O!ValueFor(r, o)
         [] OTHER -> options[o]]
  BY DEF SyncWrites
<1>2. \A o \in Options :
        /\ o \in Gone(r) => options'[o] = None
        /\ o \in (O!New(r) \cup O!Written(r)) \ Gone(r) => options'[o] = O!ValueFor(r, o)
        /\ o \notin Gone(r) \cup O!New(r) \cup O!Written(r) => options'[o] = options[o]
  BY <1>1
<1>3. None \in SomeValues
  BY DEF SomeValues
<1>4. \A o \in Options : options'[o] \in SomeValues
  BY <1>2, <1>3, SyncValues DEF OptionsInv, OptionShape
<1>5. DOMAIN options' = Options /\ options' = [o \in Options |-> options'[o]]
  BY <1>1
<1>6. QED
  BY <1>2, <1>4, <1>5

\* A row that was there keeps its product and its option; it goes with its
\* option, and otherwise has the value written to it, if any.
LEMMA OldRowsAre ==
  ASSUME OptionsInv, NEW r \in Requests, optionPc[r] = "copied", O!New(r) \subseteq Options,
         NEW i \in O!Ids
  PROVE  /\ OldRows(r)[i] \in CopyRow
         /\ OldRows(r)[i].product = rows[i].product /\ OldRows(r)[i].option = rows[i].option
         /\ OldRows(r)[i].live => rows[i].live /\ rows[i].option \notin Gone(r)
         /\ i \in read[r].copied => OldRows(r)[i].value = O!ValueFor(r, rows[i].option)
         /\ i \notin read[r].copied => OldRows(r)[i].value = rows[i].value
<1> DEFINE o == rows[i].option
<1>1. rows[i] \in CopyRow /\ (i \in read[r].copied => o \in O!Updated(r) /\ o \notin Gone(r))
  BY RowTypes, SyncSorts DEF OptionsInv
<1>2. CASE o \in Gone(r)
  <2>1. OldRows(r)[i] = [rows[i] EXCEPT !.live = FALSE] /\ i \notin read[r].copied
    BY <1>1, <1>2 DEF OldRows
  <2>2. QED
    BY <1>1, <1>2, <2>1 DEF CopyRow
<1>3. CASE i \in read[r].copied
  <2>1. OldRows(r)[i] = [rows[i] EXCEPT !.value = O!ValueFor(r, o)] /\ o \notin Gone(r)
    BY <1>1, <1>3 DEF OldRows
  <2>2. O!ValueFor(r, o) \in SomeValues
    BY <1>1, <1>3, SyncSorts, SyncValues
  <2> HIDE DEF o
  <2>3. QED
    BY <1>1, <1>3, <2>1, <2>2 DEF CopyRow, o
<1>4. CASE o \notin Gone(r) /\ i \notin read[r].copied
  <2>1. OldRows(r)[i] = rows[i]
    BY <1>4 DEF OldRows
  <2>2. QED
    BY <1>1, <1>4, <2>1
<1>5. QED
  BY <1>2, <1>3, <1>4

LEMMA Joined ==
  ASSUME NEW old \in Seq(CopyRow), NEW added \in Seq(CopyRow)
  PROVE  /\ old \o added \in Seq(CopyRow) /\ Len(old \o added) = Len(old) + Len(added)
         /\ Len(old) \in Nat /\ Len(added) \in Nat
         /\ \A i \in 1 .. Len(old) : (old \o added)[i] = old[i]
         /\ \A i \in (1 .. Len(old) + Len(added)) \ (1 .. Len(old)) :
              /\ i \in Nat /\ i - Len(old) \in 1 .. Len(added)
              /\ (old \o added)[i] = added[i - Len(old)]
OBVIOUS

LEMMA RowsAfter ==
  ASSUME OptionsInv, NEW r \in Requests, optionPc[r] = "copied", O!New(r) \subseteq Options,
         SyncWrites(r)
  PROVE  /\ rows' \in Seq(CopyRow) /\ O!Ids \subseteq O!Ids'
         /\ \A i \in O!Ids : rows'[i] = OldRows(r)[i]
         /\ \A i \in O!Ids' \ O!Ids :
              /\ <<rows'[i].product, rows'[i].option>> \in KeptPairs(r)
              /\ rows'[i].value = KeptValue(r)[<<rows'[i].product, rows'[i].option>>]
         /\ \A i, j \in O!Ids' \ O!Ids :
              rows'[i].product = rows'[j].product /\ rows'[i].option = rows'[j].option => i = j
<1> DEFINE added == O!Inserted(KeptPairs(r), KeptValue(r))
           old == OldRows(r)
<1>1. rows' = old \o added
  BY DEF SyncWrites
<1>2. IsInserted(added, KeptPairs(r), KeptValue(r)) /\ added \in Seq(CopyRow)
      /\ DOMAIN added = 1 .. Len(added)
  BY PairsAre, SyncValues, InsertedRows, InsertedIsSeq
<1>3. old \in Seq(CopyRow) /\ Len(old) = Len(rows) /\ Len(rows) \in Nat
  <2>1. O!Ids = 1 .. Len(rows) /\ Len(rows) \in Nat
    BY RowTypes DEF OptionsInv
  <2>2. \A i \in O!Ids : old[i] \in CopyRow
    BY OldRowsAre
  <2>3. old = [i \in 1 .. Len(rows) |-> old[i]]
    BY <2>1 DEF OldRows
  <2> HIDE DEF old
  <2>4. old \in [1 .. Len(rows) -> CopyRow]
    BY <2>1, <2>2, <2>3
  <2>5. QED
    BY <2>1, <2>4
<1> HIDE DEF old, added
<1>4. /\ rows' \in Seq(CopyRow) /\ Len(rows') = Len(rows) + Len(added) /\ Len(added) \in Nat
      /\ \A i \in 1 .. Len(rows) : rows'[i] = old[i]
      /\ \A i \in (1 .. Len(rows) + Len(added)) \ (1 .. Len(rows)) :
           /\ i \in Nat /\ i - Len(rows) \in 1 .. Len(added)
           /\ rows'[i] = added[i - Len(rows)]
  <2>1. /\ old \o added \in Seq(CopyRow) /\ Len(old \o added) = Len(old) + Len(added)
        /\ Len(added) \in Nat
        /\ \A i \in 1 .. Len(old) : (old \o added)[i] = old[i]
        /\ \A i \in (1 .. Len(old) + Len(added)) \ (1 .. Len(old)) :
             /\ i \in Nat /\ i - Len(old) \in 1 .. Len(added)
             /\ (old \o added)[i] = added[i - Len(old)]
    <3>1. old \in Seq(CopyRow) /\ added \in Seq(CopyRow)
      BY <1>2, <1>3
    <3>2. QED
      BY ONLY <3>1, Joined
  <2>2. QED
    BY <1>1, <1>3, <2>1
<1>5. O!Ids = 1 .. Len(rows) /\ O!Ids' = 1 .. (Len(rows) + Len(added)) /\ O!Ids \subseteq O!Ids'
  BY <1>3, <1>4 DEF O!Ids
<1>6. ASSUME NEW i \in O!Ids' \ O!Ids
      PROVE  /\ <<rows'[i].product, rows'[i].option>> \in KeptPairs(r)
             /\ rows'[i].value = KeptValue(r)[<<rows'[i].product, rows'[i].option>>]
  <2>1. i - Len(rows) \in DOMAIN added /\ rows'[i] = added[i - Len(rows)]
    BY <1>2, <1>4, <1>5
  <2>2. QED
    BY <1>2, <2>1 DEF IsInserted
<1>7. ASSUME NEW i \in O!Ids' \ O!Ids, NEW j \in O!Ids' \ O!Ids,
             rows'[i].product = rows'[j].product, rows'[i].option = rows'[j].option
      PROVE  i = j
  <2>1. i \in Nat /\ j \in Nat /\ i - Len(rows) \in DOMAIN added /\ j - Len(rows) \in DOMAIN added
        /\ rows'[i] = added[i - Len(rows)] /\ rows'[j] = added[j - Len(rows)]
    BY <1>2, <1>4, <1>5
  <2>2. i - Len(rows) = j - Len(rows)
    BY <1>2, <1>7, <2>1 DEF IsInserted
  <2>3. QED
    BY <1>3, <2>1, <2>2
<1>8. \A i \in O!Ids : rows'[i] = OldRows(r)[i]
  BY <1>4, <1>5 DEF old
<1>9. QED
  BY <1>4, <1>5, <1>6, <1>7, <1>8

\* Every option a commit leaves, and every copy of it, has been given its id.
LEMMA SyncShape ==
  ASSUME OptionsInv, NEW r \in Requests, optionPc[r] = "copied", O!New(r) \subseteq Options,
         SyncWrites(r), UNCHANGED place
  PROVE  /\ OptionShape' /\ RowsInv'
         /\ nextId <= nextId' /\ optionPc'[r] = "done"
         /\ \A q \in Requests \ {r} : UNCHANGED <<optionPc[q], payload[q], read[q]>>
<1>1. nextId' \in Nat /\ nextId <= nextId' /\ (O!New(r) # {} => nextId < nextId')
  <2>1. nextId' = nextId + Cardinality(O!New(r)) /\ nextId \in Nat
    BY SameCardinality DEF SyncWrites, OptionsInv, OptionShape
  <2>2. CASE O!New(r) = {}
    BY <2>1, <2>2, FS_EmptySet
  <2>3. CASE O!New(r) = {nextId}
    <3>1. Cardinality({nextId}) = 1
      BY FS_Singleton
    <3>2. nextId' = nextId + 1
      BY <2>1, <2>3, <3>1
    <3>3. QED
      BY <2>1, <3>2
  <2>4. O!New(r) \in {{}, {nextId}}
    BY DEF O!New
  <2>5. QED
    BY <2>2, <2>3, <2>4
<1>2. /\ optionPc' = [optionPc EXCEPT ![r] = "done"]
      /\ payload' = [payload EXCEPT ![r] = O!NoPayload]
      /\ read' = [read EXCEPT ![r] = O!NothingRead]
  BY DEF SyncWrites, O!Finish, O!Goto
<1>3. OptionShape'
  <2>1. O!NothingRead \in ReadSet
    BY DEF O!NothingRead, ReadSet, SomeValues
  <2>2. rows' \in Seq(CopyRow) /\ options' \in [Options -> SomeValues]
    BY RowsAfter, OptionsAfter
  <2>3. /\ place' \in [Products -> {"absent", "inside", "outside", "removed"}]
        /\ DOMAIN optionPc' = Requests /\ DOMAIN payload' = Requests
        /\ read' \in [Requests -> ReadSet]
    BY <1>2, <2>1 DEF OptionsInv, OptionShape
  <2>4. QED
    BY <1>1, <2>2, <2>3 DEF OptionShape
<1>4. ASSUME NEW o \in O!New(r) \cup read[r].options PROVE o < nextId'
  BY <1>1, SyncSorts
<1>5. \A o \in Options : options'[o] # None => o < nextId'
  <2> SUFFICES ASSUME NEW o \in Options, options'[o] # None PROVE o < nextId'
    OBVIOUS
  <2>1. o \notin Gone(r)
    BY OptionsAfter
  <2>2. CASE o \in O!New(r) \cup O!Written(r)
    BY <1>4, <2>1, <2>2, SyncSorts
  <2>3. CASE o \notin O!New(r) \cup O!Written(r)
    <3>1. options[o] # None
      BY <2>1, <2>3, OptionsAfter
    <3>2. o < nextId /\ o \in Nat /\ nextId \in Nat
      BY <3>1, OptionIds DEF OptionsInv, RowsInv, OptionShape
    <3>3. QED
      BY <1>1, <3>2
  <2>4. QED
    BY <2>2, <2>3
<1>6. ASSUME NEW i \in O!Ids'
      PROVE  /\ rows'[i].option # None => rows'[i].option < nextId'
             /\ place'[rows'[i].product] # "absent"
  <2>1. CASE i \in O!Ids
    <3>1. rows'[i].option = rows[i].option /\ rows'[i].product = rows[i].product
      BY <2>1, RowsAfter, OldRowsAre
    <3>2. place[rows[i].product] # "absent"
      BY <2>1 DEF OptionsInv, RowsInv
    <3>3. ASSUME rows[i].option # None PROVE rows[i].option < nextId'
      <4>1. rows[i].option < nextId /\ rows[i].option \in Nat /\ nextId \in Nat
        BY <2>1, <3>3, RowTypes, OptionIds DEF OptionsInv, RowsInv, OptionShape
      <4>2. QED
        BY <1>1, <4>1
    <3>4. QED
      BY <3>1, <3>2, <3>3
  <2>2. CASE i \notin O!Ids
    <3>1. <<rows'[i].product, rows'[i].option>> \in KeptPairs(r)
      BY <2>2, RowsAfter
    <3>2. /\ rows'[i].product \in read[r].products
          /\ rows'[i].option \in O!New(r) \cup O!Ensured(r)
      BY <3>1, PairsAre
    <3>3. QED
      BY <1>4, <3>2, SyncSorts
  <2>3. QED
    BY <2>1, <2>2
<1>7. QED
  BY <1>1, <1>2, <1>3, <1>5, <1>6 DEF RowsInv, OptionsInv, OptionShape

\* A new copy is of an option somebody else may hold only if both overlap.
LEMMA NewCopies ==
  ASSUME OptionsInv, NEW r \in Requests, optionPc[r] = "copied", O!New(r) \subseteq Options,
         SyncWrites(r), NEW p, NEW o \in O!Ensured(r), <<p, o>> \in O!Missing(r),
         o \notin doubled'
  PROVE  p \notin O!Holders(o)
<1>1. p \notin read[r].holders[o] /\ p \in read[r].products
  BY PairsAre DEF O!Missing
<1>2. doubled' = doubled \cup O!Overlapping(r)
  BY DEF SyncWrites
<1>3. CASE o \in O!Written(r)
  BY <1>1, <1>2, <1>3 DEF OptionsInv, RequestInv
<1>4. CASE o \notin O!Written(r)
  BY <1>2, <1>4 DEF O!Overlapping
<1>5. QED
  BY <1>3, <1>4

\* The copies of an option after a commit have its value, but for the loose.
LEMMA ValuesAfter ==
  ASSUME OptionsInv, NEW r \in Requests, optionPc[r] = "copied", O!New(r) \subseteq Options,
         SyncWrites(r), NEW i \in O!Ids', rows'[i].live,
         rows'[i].option \notin loose' \cup {None}
  PROVE  rows'[i].value = options'[rows'[i].option]
<1> DEFINE o == rows'[i].option
<1>1. loose' = (loose \ (O!Updated(r) \cap O!Written(r))) \cup O!Loosened(r)
  BY DEF SyncWrites
<1>2. ASSUME o \in O!Updated(r)
      PROVE  O!ValueFor(r, o) = options'[o]
  <2>1. /\ o \in O!Ensured(r) /\ o \in Options /\ o \notin Gone(r) /\ o \notin O!New(r)
    BY <1>2, SyncSorts
  <2>2. CASE o \in O!Written(r)
    BY <2>1, <2>2, OptionsAfter
  <2>3. CASE o \notin O!Written(r)
    <3>1. O!ValueFor(r, o) = read[r].values[o] /\ options'[o] = options[o]
      BY <2>1, <2>3, SyncValues, OptionsAfter
    <3>2. options[o] = read[r].values[o]
      BY <1>1, <2>1, <2>3 DEF O!Loosened
    <3>3. QED
      BY <2>1, <3>1, <3>2
  <2>4. QED
    BY <2>2, <2>3
<1>3. CASE i \in O!Ids
  <2>1. /\ o = rows[i].option /\ rows[i].live /\ o \notin Gone(r) /\ o \in Options
        /\ (i \in read[r].copied => rows'[i].value = O!ValueFor(r, o))
        /\ (i \notin read[r].copied => rows'[i].value = rows[i].value)
    BY <1>3, RowsAfter, OldRowsAre, RowTypes DEF OptionsInv
  <2>2. CASE i \in read[r].copied
    <3>1. o \in O!Updated(r)
      BY <2>1, <2>2, SyncSorts
    <3>2. QED
      BY <1>2, <2>1, <2>2, <3>1
  <2>3. CASE i \notin read[r].copied
    <3>1. o \notin O!Written(r)
      <4>1. i \in O!CopiesOf(o)
        BY <1>3, <2>1 DEF O!CopiesOf, O!Live
      <4>2. QED
        BY <1>1, <2>3, <4>1 DEF O!Loosened
    <3>2. o \notin O!New(r)
      <4>1. o < nextId /\ o \in Nat /\ nextId \in Nat
        BY <1>3, <2>1, OptionIds DEF OptionsInv, RowsInv, OptionShape
      <4>2. o # nextId
        BY <4>1
      <4>3. QED
        BY <4>2, SyncSorts
    <3>3. options'[o] = options[o]
      BY <2>1, <3>1, <3>2, OptionsAfter
    <3>4. o \notin loose
      BY <1>1, <3>1
    <3>5. rows[i].value = options[o]
      BY <1>3, <2>1, <3>4 DEF OptionsInv, O!CopiesMatch, O!Live
    <3>6. QED
      BY <2>1, <2>3, <3>3, <3>5
  <2>4. QED
    BY <2>2, <2>3
<1>4. CASE i \notin O!Ids
  <2> DEFINE p == rows'[i].product
  <2>1. <<p, o>> \in KeptPairs(r) /\ rows'[i].value = KeptValue(r)[<<p, o>>]
    BY <1>4, RowsAfter
  <2>2. rows'[i].value = O!ValueFor(r, o) /\ o \notin Gone(r)
    BY <2>1, PairsAre DEF KeptValue
  <2>3. CASE o \in O!New(r)
    BY <2>2, <2>3, OptionsAfter
  <2>4. CASE o \in O!Updated(r)
    BY <1>2, <2>2, <2>4
  <2>5. QED
    BY <2>1, <2>3, <2>4, PairsAre
<1>5. QED
  BY <1>3, <1>4

\* No product has two copies of an option after a commit, but for the doubled.
LEMMA CopiesAfter ==
  ASSUME OptionsInv, NEW r \in Requests, optionPc[r] = "copied", O!New(r) \subseteq Options,
         SyncWrites(r), NEW o \in Options \ doubled', NEW i \in O!Ids', NEW j \in O!Ids',
         rows'[i].live, rows'[j].live, rows'[i].option = o, rows'[j].option = o,
         rows'[i].product = rows'[j].product
  PROVE  i = j
<1>1. \A k \in O!Ids : rows'[k].live /\ rows'[k].option = o =>
        /\ rows[k].live /\ rows[k].option = o /\ rows[k].product = rows'[k].product
        /\ rows[k].product \in O!Holders(o) /\ o < nextId
  <2> SUFFICES ASSUME NEW k \in O!Ids, rows'[k].live, rows'[k].option = o
               PROVE  /\ rows[k].live /\ rows[k].option = o /\ rows[k].product = rows'[k].product
                      /\ rows[k].product \in O!Holders(o) /\ o < nextId
    OBVIOUS
  <2>1. rows[k].live /\ rows[k].option = o /\ rows[k].product = rows'[k].product
    BY RowsAfter, OldRowsAre
  <2>2. QED
    BY <2>1, OptionIds DEF OptionsInv, RowsInv, O!Holders, O!CopiesOf, O!Live
<1>2. ASSUME NEW k \in O!Ids, NEW l \in O!Ids' \ O!Ids, rows'[k].live, rows'[k].option = o,
             rows'[l].option = o, rows'[k].product = rows'[l].product
      PROVE  FALSE
  <2> DEFINE p == rows'[l].product
  <2>1. <<p, o>> \in KeptPairs(r) /\ p \in O!Holders(o) /\ o < nextId
    BY <1>1, <1>2, RowsAfter
  <2>2. o \notin O!New(r)
    <3>1. o \in Nat /\ nextId \in Nat
      BY OptionIds DEF OptionsInv, OptionShape
    <3>2. o # nextId
      BY <2>1, <3>1
    <3>3. QED
      BY <3>2, SyncSorts
  <2>3. o \in O!Ensured(r) /\ <<p, o>> \in O!Missing(r)
    BY <2>1, <2>2, PairsAre
  <2>4. QED
    BY <2>1, <2>3, NewCopies
<1>3. CASE i \in O!Ids /\ j \in O!Ids
  <2>1. i \in O!CopiesOf(o) /\ j \in O!CopiesOf(o) /\ rows[i].product = rows[j].product
    BY <1>1, <1>3 DEF O!CopiesOf, O!Live
  <2>2. o \in Options \ doubled
    BY DEF SyncWrites
  <2>3. QED
    BY <2>1, <2>2 DEF OptionsInv, O!CopiesMatch
<1>4. CASE i \notin O!Ids /\ j \notin O!Ids
  BY <1>4, RowsAfter
<1>5. QED
  BY <1>2, <1>3, <1>4

\* Who else is between its lock and its commit finds no new copies of what it
\* writes.
LEMMA HoldersAfter ==
  ASSUME OptionsInv, NEW r \in Requests, optionPc[r] = "copied", O!New(r) \subseteq Options,
         SyncWrites(r), NEW q \in Requests \ {r}, optionPc[q] \in {"locked", "copied"},
         NEW o \in (O!Ensured(q) \cap O!Written(q)) \ doubled'
  PROVE  O!Holders(o)' \subseteq O!Holders(o)
<1> SUFFICES ASSUME NEW i \in O!Ids', rows'[i].live, rows'[i].option = o
             PROVE  rows'[i].product \in O!Holders(o)
  BY DEF O!Holders, O!CopiesOf, O!Live
<1>1. o \in read[q].options /\ o \in Nat /\ o < nextId /\ nextId \in Nat
  BY OptionIds, SyncSets DEF OptionsInv, RequestInv, OptionShape
<1>2. CASE i \in O!Ids
  <2>1. rows[i].live /\ rows[i].option = o /\ rows[i].product = rows'[i].product
    BY <1>2, RowsAfter, OldRowsAre
  <2>2. QED
    BY <1>2, <2>1 DEF O!Holders, O!CopiesOf, O!Live
<1>3. CASE i \notin O!Ids
  <2>1. <<rows'[i].product, o>> \in KeptPairs(r)
    BY <1>3, RowsAfter
  <2>2. o \notin O!New(r)
    <3>1. o # nextId
      BY <1>1
    <3>2. QED
      BY <3>1, SyncSorts
  <2>3. o \in O!Ensured(r)
    BY <2>1, <2>2, PairsAre
  <2>4. o \notin O!Written(r)
    BY DEF OptionsInv, LocksDiffer
  <2>5. o \in O!Overlapping(r)
    BY <2>3, <2>4 DEF O!Overlapping, O!Writing
  <2>6. QED
    BY <2>5 DEF SyncWrites
<1>4. QED
  BY <1>2, <1>3

LEMMA CommitSyncKeeps ==
  ASSUME OptionsInv, NEW r \in Requests, O!CommitSync(r)
  PROVE  OptionsInv'
<1>1. optionPc[r] = "copied" /\ O!New(r) \subseteq Options /\ UNCHANGED place
  BY SyncCommits
<1>2. SyncWrites(r)
  BY SyncCommits
<1>3. QED
  <2>1. /\ OptionShape' /\ RowsInv' /\ nextId <= nextId' /\ optionPc'[r] = "done"
        /\ \A q \in Requests \ {r} : UNCHANGED <<optionPc[q], payload[q], read[q]>>
    BY <1>1, <1>2, SyncShape
  <2>2. O!CopiesMatch'
    <3>1. ASSUME NEW i \in O!Ids', rows'[i].live, rows'[i].option \notin loose' \cup {None}
          PROVE  rows'[i].value = options'[rows'[i].option]
      BY <1>1, <1>2, <3>1, ValuesAfter
    <3>2. ASSUME NEW o \in Options \ doubled', NEW i \in O!CopiesOf(o)', NEW j \in O!CopiesOf(o)',
                 rows'[i].product = rows'[j].product
          PROVE  i = j
      <4>1. /\ i \in O!Ids' /\ rows'[i].live /\ rows'[i].option = o
            /\ j \in O!Ids' /\ rows'[j].live /\ rows'[j].option = o
        BY DEF O!CopiesOf, O!Live
      <4>2. QED
        BY <1>1, <1>2, <3>2, <4>1, CopiesAfter
    <3>3. QED
      BY <3>1, <3>2 DEF O!CopiesMatch, O!Live
  <2>3. LocksDiffer'
    <3>1. \A q \in Requests \ {r} : O!Written(q)' = O!Written(q)
      BY <2>1, SetsStay
    <3>2. QED
      BY <2>1, <3>1 DEF OptionsInv, LocksDiffer
  <2>4. RequestInv(r)'
    BY <2>1 DEF RequestInv
  <2>5. ASSUME NEW q \in Requests \ {r} PROVE RequestInv(q)'
    <3>1. RequestInv(q) /\ UNCHANGED <<optionPc[q], payload[q], read[q]>>
      BY <2>1 DEF OptionsInv
    <3>2. nextId \in Nat /\ nextId' \in Nat /\ Options \subseteq Nat /\ doubled \subseteq doubled'
      BY <1>2, <2>1, OptionIds DEF OptionsInv, OptionShape, SyncWrites
    <3>3. \A i \in O!Ids : /\ i \in O!Ids' /\ rows'[i].option = rows[i].option
                           /\ ~rows[i].live => ~rows'[i].live
      BY <1>1, <1>2, RowsAfter, OldRowsAre
    <3>4. optionPc[q] \in {"locked", "copied"} =>
            \A o \in (O!Ensured(q) \cap O!Written(q)) \ doubled' :
              read[q].products \cap O!Holders(o)' \subseteq O!Holders(o)
      BY <1>1, <1>2, HoldersAfter
    <3>5. \A p \in read[q].products : p \in Products
      BY DEF OptionsInv, OptionShape, ReadSet
    <3>6. \A p \in Products : place[p] # "absent" => place'[p] # "absent"
      BY <1>1
    <3>7. nextId <= nextId'
      BY <2>1
    <3>8. QED
      BY <3>1, <3>2, <3>3, <3>4, <3>5, <3>6, <3>7, RequestKept
  <2>6. QED
    BY <2>1, <2>2, <2>3, <2>4, <2>5 DEF OptionsInv

-----------------------------------------------------------------------------
(* Products and their own options *)

\* Steps that end a request or move none, and give copies only to new products.
LEMMA ProductsMove ==
  ASSUME OptionsInv, OptionShape', RowsInv', O!CopiesMatch', UNCHANGED nextId, doubled \subseteq doubled',
         \A q \in Requests : \/ UNCHANGED <<optionPc[q], payload[q], read[q]>>
                             \/ optionPc'[q] \in {"done", "failed"},
         \A p \in Products : place[p] # "absent" => place'[p] # "absent",
         \A i \in O!Ids : /\ i \in O!Ids' /\ rows'[i].option = rows[i].option
                          /\ ~rows[i].live => ~rows'[i].live,
         \A o \in Options : \A p \in O!Holders(o)' : p \in O!Holders(o) \/ place[p] = "absent"
  PROVE  OptionsInv'
<1>1. ASSUME NEW q \in Requests PROVE RequestInv(q)'
  <2>1. CASE optionPc'[q] \in {"done", "failed"}
    BY <2>1 DEF RequestInv
  <2>2. CASE UNCHANGED <<optionPc[q], payload[q], read[q]>>
    <3>1. RequestInv(q) /\ nextId \in Nat /\ Options \subseteq Nat
      BY OptionIds DEF OptionsInv, OptionShape
    <3>2. optionPc[q] \in {"locked", "copied"} =>
            \A o \in (O!Ensured(q) \cap O!Written(q)) \ doubled' :
              read[q].products \cap O!Holders(o)' \subseteq O!Holders(o)
      <4>1. O!Written(q) \subseteq Options
        BY SyncSets
      <4>2. optionPc[q] \in {"locked", "copied"} => \A p \in read[q].products : place[p] # "absent"
        BY <3>1 DEF RequestInv
      <4>3. QED
        BY <4>1, <4>2
    <3>3. \A p \in read[q].products : p \in Products
      BY DEF OptionsInv, OptionShape, ReadSet
    <3>4. nextId' \in Nat /\ nextId <= nextId' /\ doubled \subseteq doubled'
      BY <3>1
    <3>5. QED
      BY <2>2, <3>1, <3>2, <3>3, <3>4, RequestKept
  <2>3. QED
    BY <2>1, <2>2
<1>2. LocksDiffer'
  <2> SUFFICES ASSUME NEW p \in Requests, NEW q \in Requests, p # q,
                      optionPc'[p] \in {"locked", "copied"}, optionPc'[q] \in {"locked", "copied"}
               PROVE  (O!Written(p) \cap O!Written(q))' = {}
    BY DEF LocksDiffer
  <2>1. /\ UNCHANGED <<optionPc[p], payload[p], read[p]>>
        /\ UNCHANGED <<optionPc[q], payload[q], read[q]>>
    OBVIOUS
  <2>2. O!Written(p)' = O!Written(p) /\ O!Written(q)' = O!Written(q)
    BY <2>1, SetsStay
  <2>3. QED
    BY <2>1, <2>2 DEF OptionsInv, LocksDiffer
<1>3. QED
  BY <1>1, <1>2 DEF OptionsInv

LEMMA ReadProductKeeps ==
  ASSUME OptionsInv, NEW r \in Requests, NEW p \in Products, NEW input \in O!ProductPayloads(p),
         O!ReadProduct(r, input)
  PROVE  OptionsInv'
<1> DEFINE copies == {i \in O!Ids : O!Live(i) /\ rows[i].product = input.product
                                   /\ rows[i].option # None}
<1>1. /\ UNCHANGED <<place, options, nextId, rows, loose, doubled>>
      /\ optionPc' = [optionPc EXCEPT ![r] = "edit"]
      /\ payload' = [payload EXCEPT ![r] = input]
      /\ read' = [read EXCEPT ![r].options = copies]
  BY DEF O!ReadProduct, O!Goto, O!data, O!histories
<1>2. copies \in SUBSET Nat
  BY RowTypes DEF OptionsInv
<1>3. input.product = p /\ input.value \in Values
  BY DEF O!ProductPayloads
<1> HIDE DEF copies
<1>4. /\ DOMAIN optionPc' = Requests /\ DOMAIN payload' = Requests
      /\ read' \in [Requests -> ReadSet] /\ optionPc'[r] = "edit"
      /\ payload'[r] = input /\ read'[r].options = copies
      /\ \A q \in Requests \ {r} : UNCHANGED <<optionPc[q], payload[q], read[q]>>
  <2>1. DOMAIN optionPc = Requests /\ DOMAIN payload = Requests /\ read \in [Requests -> ReadSet]
    BY DEF OptionsInv, OptionShape
  <2>2. [read[r] EXCEPT !.options = copies] \in ReadSet
    BY <1>2, <2>1 DEF ReadSet
  <2>3. read' = [read EXCEPT ![r] = [read[r] EXCEPT !.options = copies]]
    BY <1>1
  <2>4. [read[r] EXCEPT !.options = copies].options = copies
    BY <2>1 DEF ReadSet
  <2>5. read' \in [Requests -> ReadSet] /\ read'[r].options = copies
    BY <2>1, <2>2, <2>3, <2>4
  <2>6. QED
    BY <1>1, <2>1, <2>5
<1>5. RequestInv(r)'
  BY <1>3, <1>4 DEF RequestInv
<1>6. QED
  BY <1>1, <1>4, <1>5, DataStays

LEMMA CommitProductKeeps ==
  ASSUME OptionsInv, NEW r \in Requests, O!CommitProduct(r)
  PROVE  OptionsInv'
<1> DEFINE p == payload[r].product
           v == payload[r].value
           updated == O!UpdatedRows(r)
           old == [i \in O!Ids |->
                     IF rows[i].product = p /\ rows[i].option = None /\ i # payload[r].keep
                       THEN [rows[i] EXCEPT !.live = FALSE]
                     ELSE IF i \in updated THEN [rows[i] EXCEPT !.value = v]
                     ELSE rows[i]]
           own == [product |-> p, option |-> None, value |-> v, live |-> TRUE]
           added == IF payload[r].insert THEN <<own>> ELSE <<>>
<1>1. /\ optionPc[r] = "edit" /\ UNCHANGED <<place, options, nextId, doubled>>
      /\ \/ /\ rows' = old \o added /\ place[p] \in {"inside", "outside"}
            /\ loose' = loose \cup {o \in Options :
                                      options[o] # v /\ O!CopiesOf(o) \cap updated # {}}
            /\ O!Finish(r, "done")
         \/ UNCHANGED <<rows, loose>> /\ O!Finish(r, "failed")
  BY DEF O!CommitProduct, O!Exists
<1>2. CASE UNCHANGED <<rows, loose>> /\ O!Finish(r, "failed")
  BY <1>1, <1>2, FinishKeeps
<1>3. CASE /\ rows' = old \o added /\ place[p] \in {"inside", "outside"} /\ O!Finish(r, "done")
           /\ loose' = loose \cup {o \in Options :
                                     options[o] # v /\ O!CopiesOf(o) \cap updated # {}}
  <2>1. p \in Products /\ v \in SomeValues
    <3>1. p \in Products /\ v \in Values
      BY <1>1 DEF OptionsInv, RequestInv
    <3>2. QED
      BY <3>1 DEF SomeValues, O!Actions
  <2>2. ASSUME NEW i \in O!Ids
        PROVE  /\ old[i] \in CopyRow /\ old[i].product = rows[i].product
               /\ old[i].option = rows[i].option /\ (~rows[i].live => ~old[i].live)
               /\ i \notin updated => old[i].value = rows[i].value
               /\ i \in updated /\ rows[i].option # None => old[i].value = v
    <3>1. rows[i] \in CopyRow
      BY RowTypes DEF OptionsInv
    <3> DEFINE dead == rows[i].product = p /\ rows[i].option = None /\ i # payload[r].keep
    <3>2. CASE dead
      <4>1. old[i] = [rows[i] EXCEPT !.live = FALSE]
        BY <3>2
      <4>2. QED
        BY <3>1, <3>2, <4>1 DEF CopyRow
    <3>3. CASE ~dead /\ i \in updated
      <4>1. old[i] = [rows[i] EXCEPT !.value = v]
        BY <3>3
      <4> HIDE DEF v, updated
      <4>2. QED
        BY <2>1, <3>1, <3>3, <4>1 DEF CopyRow
    <3>4. CASE ~dead /\ i \notin updated
      <4>1. old[i] = rows[i]
        BY <3>4
      <4>2. QED
        BY <3>1, <4>1
    <3>5. QED
      BY <3>2, <3>3, <3>4
  <2>3. /\ old \in Seq(CopyRow) /\ Len(old) = Len(rows)
    <3>1. O!Ids = 1 .. Len(rows) /\ Len(rows) \in Nat
      BY RowTypes DEF OptionsInv
    <3>2. old = [i \in 1 .. Len(rows) |-> old[i]]
      BY <3>1
    <3> HIDE DEF old
    <3>3. old \in [1 .. Len(rows) -> CopyRow]
      BY <2>2, <3>1, <3>2
    <3>4. QED
      BY <3>1, <3>3
  <2>4. /\ added \in Seq(CopyRow)
        /\ \A i \in 1 .. Len(added) : added[i] = own
    <3>1. own \in CopyRow
      BY <2>1 DEF CopyRow
    <3> HIDE DEF own
    <3>2. QED
      BY <3>1
  <2>5. own.option = None /\ own.product = p
    OBVIOUS
  <2> HIDE DEF old, added, own
  <2>6. /\ rows' \in Seq(CopyRow) /\ O!Ids \subseteq O!Ids'
        /\ \A i \in O!Ids : rows'[i] = old[i]
        /\ \A i \in O!Ids' \ O!Ids : rows'[i].option = None /\ rows'[i].product = p
    <3>1. /\ old \o added \in Seq(CopyRow) /\ Len(old \o added) = Len(old) + Len(added)
          /\ Len(old) \in Nat /\ Len(added) \in Nat
          /\ \A i \in 1 .. Len(old) : (old \o added)[i] = old[i]
          /\ \A i \in (1 .. Len(old) + Len(added)) \ (1 .. Len(old)) :
               /\ i \in Nat /\ i - Len(old) \in 1 .. Len(added)
               /\ (old \o added)[i] = added[i - Len(old)]
      BY ONLY <2>3, <2>4, Joined
    <3>2. /\ O!Ids = 1 .. Len(old) /\ O!Ids' = 1 .. (Len(old) + Len(added))
          /\ O!Ids \subseteq O!Ids'
      BY <1>3, <2>3, <3>1 DEF O!Ids
    <3>3. QED
      BY <1>3, <2>4, <2>5, <3>1, <3>2
  <2>7. OptionShape' /\ \A q \in Requests : \/ UNCHANGED <<optionPc[q], payload[q], read[q]>>
                                            \/ optionPc'[q] \in {"done", "failed"}
    <3>1. O!NothingRead \in ReadSet
      BY DEF O!NothingRead, ReadSet, SomeValues
    <3>2. QED
      BY <1>1, <1>3, <2>6, <3>1 DEF OptionsInv, OptionShape, O!Finish, O!Goto
  <2>8. RowsInv'
    <3>1. ASSUME NEW i \in O!Ids'
          PROVE  /\ rows'[i].option # None => rows'[i].option < nextId
                 /\ place[rows'[i].product] # "absent"
      <4>1. CASE i \in O!Ids
        BY <2>2, <2>6, <4>1 DEF OptionsInv, RowsInv
      <4>2. CASE i \notin O!Ids
        BY <1>3, <2>6, <4>2
      <4>3. QED
        BY <4>1, <4>2
    <3>2. QED
      BY <1>1, <3>1 DEF OptionsInv, RowsInv
  <2>9. \A i \in O!Ids' : rows'[i].live /\ rows'[i].option # None =>
          /\ i \in O!Ids /\ rows[i].live /\ rows[i].option = rows'[i].option
          /\ rows[i].product = rows'[i].product
          /\ rows'[i].value = IF i \in updated THEN v ELSE rows[i].value
    BY <2>2, <2>6, RowTypes DEF OptionsInv
  <2>10. O!CopiesMatch'
    <3>1. ASSUME NEW i \in O!Ids', rows'[i].live, rows'[i].option \notin loose' \cup {None}
          PROVE  rows'[i].value = options[rows'[i].option]
      <4> DEFINE o == rows'[i].option
      <4>1. /\ i \in O!Ids /\ rows[i].live /\ rows[i].option = o /\ o \in Options /\ o \notin loose
            /\ rows'[i].value = IF i \in updated THEN v ELSE rows[i].value
        BY <1>3, <2>9, <3>1, RowTypes DEF OptionsInv
      <4>2. CASE i \in updated
        <5>1. i \in O!CopiesOf(o)
          BY <4>1 DEF O!CopiesOf, O!Live
        <5>2. options[o] = v
          BY <1>3, <3>1, <4>1, <4>2, <5>1
        <5>3. QED
          BY <4>1, <4>2, <5>2
      <4>3. CASE i \notin updated
        <5>1. rows[i].value = options[o]
          BY <3>1, <4>1 DEF OptionsInv, O!CopiesMatch, O!Live
        <5>2. QED
          BY <4>1, <4>3, <5>1
      <4>4. QED
        BY <4>2, <4>3
    <3>2. ASSUME NEW o \in Options \ doubled, NEW i \in O!CopiesOf(o)', NEW j \in O!CopiesOf(o)',
                 rows'[i].product = rows'[j].product
          PROVE  i = j
      <4>1. i \in O!CopiesOf(o) /\ j \in O!CopiesOf(o) /\ rows[i].product = rows[j].product
        BY <2>9, <3>2, OptionIds DEF O!CopiesOf, O!Live
      <4>2. QED
        BY <4>1 DEF OptionsInv, O!CopiesMatch
    <3>3. QED
      BY <1>1, <3>1, <3>2 DEF O!CopiesMatch, O!Live
  <2>11. \A o \in Options : \A t \in O!Holders(o)' : t \in O!Holders(o) \/ place[t] = "absent"
    BY <2>9, OptionIds DEF O!Holders, O!CopiesOf, O!Live
  <2>12. \A i \in O!Ids : /\ i \in O!Ids' /\ rows'[i].option = rows[i].option
                          /\ ~rows[i].live => ~rows'[i].live
    BY <2>2, <2>6
  <2>13. QED
    BY <1>1, <2>7, <2>8, <2>10, <2>11, <2>12, ProductsMove
<1>4. QED
  BY <1>1, <1>2, <1>3

LEMMA CreateProductKeeps ==
  ASSUME OptionsInv, NEW p \in Products, NEW where \in {"inside", "outside"}, NEW form \in Forms,
         O!CreateProduct(p, where, form)
  PROVE  OptionsInv'
<1> DEFINE made == [l \in DOMAIN form |-> [product |-> p, option |-> form[l].option,
                                           value |-> form[l].value, live |-> TRUE]]
           Made(k) == \E l \in DOMAIN form :
                        /\ rows'[k].product = p /\ rows'[k].option = form[l].option
                        /\ rows'[k].value = form[l].value /\ l = k - Len(rows)
<1>1. /\ place[p] = "absent" /\ place' = [place EXCEPT ![p] = where]
      /\ UNCHANGED <<options, nextId, optionPc, payload, read>>
      /\ \A l \in DOMAIN form : form[l].option # None => form[l].option \in O!Present
      /\ rows' = rows \o made
      /\ loose' = loose \cup {o \in Options : \E l \in DOMAIN form :
                                form[l].option = o /\ form[l].value # options[o]}
      /\ doubled' = doubled \cup {o \in Options : \E k, l \in DOMAIN form :
                                    k # l /\ form[k].option = o /\ form[l].option = o}
  BY DEF O!CreateProduct
<1>2. /\ DOMAIN form = 1 .. Len(form) /\ Len(form) \in Nat
      /\ \A l \in DOMAIN form : form[l] \in [option : Options \cup {None}, value : Values]
  <2> DEFINE Lines == [option : Options \cup {None}, value : Values]
  <2>1. form \in Seq(Lines)
    BY OptionAssumption
  <2> HIDE DEF Lines
  <2>2. /\ DOMAIN form = 1 .. Len(form) /\ Len(form) \in Nat
        /\ \A l \in DOMAIN form : form[l] \in Lines
    BY ONLY <2>1
  <2>3. QED
    BY <2>2 DEF Lines
<1>3. ASSUME NEW l \in DOMAIN form
      PROVE  /\ made[l] \in CopyRow /\ made[l].product = p /\ made[l].option = form[l].option
             /\ made[l].value = form[l].value
  <2>1. form[l] \in [option : Options \cup {None}, value : Values]
    BY <1>2
  <2>2. form[l].option \in Options \cup {None} /\ form[l].value \in SomeValues
    BY <2>1 DEF SomeValues, O!Actions
  <2>3. made[l] = [product |-> p, option |-> form[l].option, value |-> form[l].value, live |-> TRUE]
    OBVIOUS
  <2> HIDE DEF made
  <2>4. QED
    BY ONLY <2>2, <2>3, p \in Products DEF CopyRow
<1>4. made \in Seq(CopyRow) /\ Len(made) = Len(form) /\ rows \in Seq(CopyRow)
  <2>1. made = [l \in 1 .. Len(form) |-> made[l]]
    BY <1>2
  <2> HIDE DEF made
  <2>2. made \in [1 .. Len(form) -> CopyRow]
    BY <1>2, <1>3, <2>1
  <2>3. made \in Seq(CopyRow) /\ Len(made) = Len(form)
    BY <1>2, <2>2
  <2>4. rows \in Seq(CopyRow)
    BY DEF OptionsInv, OptionShape
  <2>5. QED
    BY <2>3, <2>4
<1> HIDE DEF made
<1>5. /\ rows' \in Seq(CopyRow) /\ O!Ids \subseteq O!Ids' /\ O!Ids' \subseteq Nat /\ Len(rows) \in Nat
      /\ \A i \in O!Ids : rows'[i] = rows[i]
      /\ \A i \in O!Ids' \ O!Ids : Made(i)
  <2>1. /\ rows \o made \in Seq(CopyRow) /\ Len(rows \o made) = Len(rows) + Len(made)
        /\ Len(rows) \in Nat /\ Len(made) \in Nat
        /\ \A i \in 1 .. Len(rows) : (rows \o made)[i] = rows[i]
        /\ \A i \in (1 .. Len(rows) + Len(made)) \ (1 .. Len(rows)) :
             /\ i \in Nat /\ i - Len(rows) \in 1 .. Len(made)
             /\ (rows \o made)[i] = made[i - Len(rows)]
    BY ONLY <1>4, Joined
  <2>2. /\ O!Ids = 1 .. Len(rows) /\ O!Ids' = 1 .. (Len(rows) + Len(made))
        /\ O!Ids \subseteq O!Ids' /\ O!Ids' \subseteq Nat
    BY <1>1, <2>1 DEF O!Ids
  <2>3. ASSUME NEW i \in O!Ids' \ O!Ids PROVE Made(i)
    <3>1. i - Len(rows) \in DOMAIN form /\ rows'[i] = made[i - Len(rows)]
      BY <1>1, <1>2, <1>4, <2>1, <2>2
    <3>2. QED
      BY <1>3, <3>1
  <2>4. QED
    BY <1>1, <2>1, <2>2, <2>3
<1>6. place \in [Products -> {"absent", "inside", "outside", "removed"}]
  BY DEF OptionsInv, OptionShape
<1>7. \A t \in Products : place[t] # "absent" => place'[t] # "absent"
  BY <1>1, <1>6
<1>8. \A i \in O!Ids : /\ rows[i].product # p /\ place[rows[i].product] # "absent"
                       /\ rows[i].product \in Products
  BY <1>1, RowTypes DEF OptionsInv, RowsInv
<1>9. OptionShape'
  BY <1>1, <1>5, <1>6 DEF OptionsInv, OptionShape
<1>10. RowsInv'
  <2>1. ASSUME NEW i \in O!Ids'
        PROVE  /\ rows'[i].option # None => rows'[i].option < nextId
               /\ place'[rows'[i].product] # "absent"
    <3>1. CASE i \in O!Ids
      BY <1>5, <1>7, <1>8, <3>1 DEF OptionsInv, RowsInv
    <3>2. CASE i \notin O!Ids
      <4>1. PICK l \in DOMAIN form : rows'[i].product = p /\ rows'[i].option = form[l].option
        BY <1>5, <3>2
      <4>2. rows'[i].option # None => rows'[i].option \in O!Present
        BY <1>1, <4>1
      <4>3. QED
        BY <1>1, <1>6, <4>1, <4>2 DEF OptionsInv, RowsInv, O!Present
    <3>3. QED
      BY <3>1, <3>2
  <2>2. QED
    BY <1>1, <2>1 DEF OptionsInv, RowsInv
<1>11. O!CopiesMatch'
  <2>1. ASSUME NEW i \in O!Ids', rows'[i].live, rows'[i].option \notin loose' \cup {None}
        PROVE  rows'[i].value = options[rows'[i].option]
    <3>1. CASE i \in O!Ids
      <4>1. rows'[i] = rows[i] /\ rows'[i].option \notin loose \cup {None}
        BY <1>1, <1>5, <2>1, <3>1
      <4> HIDE DEF Made
      <4>2. QED
        BY <2>1, <3>1, <4>1 DEF OptionsInv, O!CopiesMatch, O!Live
    <3>2. CASE i \notin O!Ids
      <4>1. PICK l \in DOMAIN form : rows'[i].option = form[l].option /\ rows'[i].value = form[l].value
        BY <1>5, <3>2
      <4>2. rows'[i].option \in Options
        BY <1>1, <2>1, <4>1 DEF O!Present
      <4>3. QED
        BY <1>1, <2>1, <4>1, <4>2
    <3>3. QED
      BY <3>1, <3>2
  <2>2. ASSUME NEW c \in Options \ doubled', NEW i \in O!CopiesOf(c)', NEW j \in O!CopiesOf(c)',
               rows'[i].product = rows'[j].product
        PROVE  i = j
    <3>1. i \in O!Ids' /\ j \in O!Ids' /\ rows'[i].option = c /\ rows'[j].option = c
      BY DEF O!CopiesOf
    <3>2. CASE i \in O!Ids /\ j \in O!Ids
      <4>1. i \in O!CopiesOf(c) /\ j \in O!CopiesOf(c) /\ rows[i].product = rows[j].product
        BY <1>5, <2>2, <3>2 DEF O!CopiesOf, O!Live
      <4>2. QED
        BY <1>1, <4>1 DEF OptionsInv, O!CopiesMatch
    <3>3. CASE i \notin O!Ids /\ j \notin O!Ids
      <4>1. PICK k \in DOMAIN form : rows'[i].option = form[k].option /\ k = i - Len(rows)
        BY <1>5, <3>1, <3>3
      <4>2. PICK l \in DOMAIN form : rows'[j].option = form[l].option /\ l = j - Len(rows)
        BY <1>5, <3>1, <3>3
      <4>3. k = l
        BY <1>1, <2>2, <3>1, <4>1, <4>2
      <4>4. QED
        BY <1>5, <3>1, <4>1, <4>2, <4>3
    <3>4. CASE (i \in O!Ids) # (j \in O!Ids)
      BY <1>5, <1>8, <2>2, <3>1, <3>4
    <3>5. QED
      BY <3>2, <3>3, <3>4
  <2>3. QED
    BY <1>1, <2>1, <2>2 DEF O!CopiesMatch, O!Live
<1>12. \A c \in Options : \A t \in O!Holders(c)' : t \in O!Holders(c) \/ place[t] = "absent"
  <2> SUFFICES ASSUME NEW c \in Options, NEW i \in O!CopiesOf(c)'
               PROVE  rows'[i].product \in O!Holders(c) \/ place[rows'[i].product] = "absent"
    BY DEF O!Holders
  <2>1. CASE i \in O!Ids
    BY <1>5, <2>1 DEF O!Holders, O!CopiesOf, O!Live
  <2>2. CASE i \notin O!Ids
    BY <1>1, <1>5, <2>2 DEF O!CopiesOf
  <2>3. QED
    BY <2>1, <2>2
<1>13. \A i \in O!Ids : /\ i \in O!Ids' /\ rows'[i].option = rows[i].option
                        /\ ~rows[i].live => ~rows'[i].live
  BY <1>5
<1>14. QED
  BY <1>1, <1>7, <1>9, <1>10, <1>11, <1>12, <1>13, ProductsMove

LEMMA MoveProductKeeps ==
  ASSUME OptionsInv, NEW p \in Products, O!MoveProduct(p)
  PROVE  OptionsInv'
<1>1. /\ place[p] \in {"inside", "outside"}
      /\ place' = [place EXCEPT ![p] = IF @ = "inside" THEN "outside" ELSE "inside"]
      /\ UNCHANGED <<options, nextId, rows, optionPc, payload, read, loose, doubled>>
  BY DEF O!MoveProduct, O!Exists, O!histories
<1>2. OptionShape' /\ \A t \in Products : place[t] # "absent" => place'[t] # "absent"
  BY <1>1 DEF OptionsInv, OptionShape
<1>3. RowsInv'
  BY <1>1, <1>2, RowTypes DEF OptionsInv, RowsInv, O!Ids
<1>4. O!CopiesMatch'
  BY <1>1 DEF OptionsInv, O!CopiesMatch, O!CopiesOf, O!Ids, O!Live
<1>5. \A c \in Options : \A t \in O!Holders(c)' : t \in O!Holders(c) \/ place[t] = "absent"
  BY <1>1 DEF O!Holders, O!CopiesOf, O!Ids, O!Live
<1>6. \A i \in O!Ids : /\ i \in O!Ids' /\ rows'[i].option = rows[i].option
                       /\ ~rows[i].live => ~rows'[i].live
  BY <1>1 DEF O!Ids
<1>7. QED
  BY <1>1, <1>2, <1>3, <1>4, <1>5, <1>6, ProductsMove

LEMMA RemoveProductKeeps ==
  ASSUME OptionsInv, NEW p \in Products, O!RemoveProduct(p)
  PROVE  OptionsInv'
<1>1. /\ place' = [place EXCEPT ![p] = "removed"]
      /\ rows' = [i \in O!Ids |-> IF rows[i].product = p THEN [rows[i] EXCEPT !.live = FALSE]
                                 ELSE rows[i]]
      /\ UNCHANGED <<options, nextId, optionPc, payload, read, loose, doubled>>
  BY DEF O!RemoveProduct, O!histories
<1>2. place' \in [Products -> {"absent", "inside", "outside", "removed"}]
      /\ \A t \in Products : place[t] # "absent" => place'[t] # "absent"
  BY <1>1 DEF OptionsInv, OptionShape
<1>3. O!Ids = 1 .. Len(rows) /\ Len(rows) \in Nat
  BY RowTypes DEF OptionsInv
<1>4. ASSUME NEW i \in O!Ids
      PROVE  /\ rows'[i] \in CopyRow /\ rows'[i].product = rows[i].product
             /\ rows'[i].option = rows[i].option /\ rows'[i].value = rows[i].value
             /\ rows'[i].live => rows[i].live
  <2>1. rows[i] \in CopyRow
    BY RowTypes DEF OptionsInv
  <2>2. rows'[i] = rows[i] \/ rows'[i] = [rows[i] EXCEPT !.live = FALSE]
    BY <1>1
  <2>3. QED
    BY <2>1, <2>2 DEF CopyRow
<1>5. rows' \in Seq(CopyRow) /\ O!Ids' = O!Ids
  <2>1. rows' = [i \in 1 .. Len(rows) |-> rows'[i]]
    BY <1>1, <1>3
  <2>2. rows' \in [1 .. Len(rows) -> CopyRow]
    BY <1>3, <1>4, <2>1
  <2>3. rows' \in Seq(CopyRow) /\ Len(rows') = Len(rows)
    BY <1>3, <2>2
  <2>4. QED
    BY <2>3 DEF O!Ids
<1>6. OptionShape'
  BY <1>1, <1>2, <1>5 DEF OptionsInv, OptionShape
<1>7. RowsInv'
  <2>1. \A i \in O!Ids : rows[i].product \in Products
    BY RowTypes DEF OptionsInv
  <2>2. QED
    BY <1>1, <1>2, <1>4, <1>5, <2>1 DEF OptionsInv, RowsInv
<1>8. O!CopiesMatch'
  <2>1. ASSUME NEW i \in O!Ids, rows'[i].live, rows'[i].option \notin loose \cup {None}
        PROVE  rows'[i].value = options[rows'[i].option]
    BY <1>4, <2>1 DEF OptionsInv, O!CopiesMatch, O!Live
  <2>2. ASSUME NEW c \in Options \ doubled, NEW i \in O!CopiesOf(c)', NEW j \in O!CopiesOf(c)',
               rows'[i].product = rows'[j].product
        PROVE  i = j
    <3>1. i \in O!CopiesOf(c) /\ j \in O!CopiesOf(c) /\ rows[i].product = rows[j].product
      BY <1>4, <1>5, <2>2 DEF O!CopiesOf, O!Live
    <3>2. QED
      BY <3>1 DEF OptionsInv, O!CopiesMatch
  <2>3. QED
    BY <1>1, <1>5, <2>1, <2>2 DEF O!CopiesMatch, O!Live
<1>9. \A c \in Options : \A t \in O!Holders(c)' : t \in O!Holders(c) \/ place[t] = "absent"
  BY <1>4, <1>5 DEF O!Holders, O!CopiesOf, O!Live
<1>10. \A i \in O!Ids : /\ i \in O!Ids' /\ rows'[i].option = rows[i].option
                        /\ ~rows[i].live => ~rows'[i].live
  BY <1>4, <1>5
<1>11. QED
  BY <1>1, <1>2, <1>6, <1>7, <1>8, <1>9, <1>10, ProductsMove

LEMMA OptionsStep ==
  ASSUME OptionsInv, [O!Next]_optionVars
  PROVE  OptionsInv'
<1>1. CASE UNCHANGED optionVars
  <2>1. UNCHANGED <<place, options, nextId, rows, optionPc, payload, read, loose, doubled>>
    BY <1>1 DEF optionVars
  <2>2. OptionShape' /\ O!Ids' = O!Ids
    BY <2>1 DEF OptionsInv, OptionShape, O!Ids
  <2>3. RowsInv'
    BY <2>1, <2>2 DEF OptionsInv, RowsInv
  <2>4. O!CopiesMatch'
    BY <2>1, <2>2 DEF OptionsInv, O!CopiesMatch, O!CopiesOf, O!Live
  <2>5. \A c \in Options : \A t \in O!Holders(c)' : t \in O!Holders(c) \/ place[t] = "absent"
    BY <2>1, <2>2 DEF O!Holders, O!CopiesOf, O!Live
  <2>6. QED
    BY <2>1, <2>2, <2>3, <2>4, <2>5, ProductsMove
<1>2. ASSUME NEW r \in Requests, NEW input \in OptionPayloads, O!ReadCategory(r, input)
      PROVE  OptionsInv'
  BY <1>2, ReadCategoryKeeps
<1>3. ASSUME NEW r \in Requests, O!LockOptions(r) PROVE OptionsInv'
  BY <1>3, LockOptionsKeeps
<1>4. ASSUME NEW r \in Requests, O!CommitSync(r) PROVE OptionsInv'
  BY <1>4, CommitSyncKeeps
<1>5. ASSUME NEW r \in Requests, NEW p \in Products, NEW input \in O!ProductPayloads(p),
             O!ReadProduct(r, input)
      PROVE  OptionsInv'
  BY <1>5, ReadProductKeeps
<1>6. ASSUME NEW r \in Requests, O!CommitProduct(r) PROVE OptionsInv'
  BY <1>6, CommitProductKeeps
<1>7. ASSUME NEW p \in Products, NEW where \in {"inside", "outside"}, NEW form \in Forms,
             O!CreateProduct(p, where, form)
      PROVE  OptionsInv'
  BY <1>7, CreateProductKeeps
<1>8. ASSUME NEW p \in Products, O!MoveProduct(p) PROVE OptionsInv'
  BY <1>8, MoveProductKeeps
<1>9. ASSUME NEW p \in Products, O!RemoveProduct(p) PROVE OptionsInv'
  BY <1>9, RemoveProductKeeps
<1>10. ASSUME NEW r \in Requests, O!CopyOptions(r) PROVE OptionsInv'
  BY <1>10, CopyOptionsKeeps
<1>11. ASSUME NEW r \in Requests, O!Fail(r) PROVE OptionsInv'
  <2>1. O!Finish(r, "failed") /\ UNCHANGED <<place, options, nextId, rows, loose, doubled>>
    BY <1>11 DEF O!Fail, O!data, O!histories
  <2>2. QED
    BY <2>1, FinishKeeps
<1>12. QED
  BY <1>1, <1>2, <1>3, <1>4, <1>5, <1>6, <1>7, <1>8, <1>9, <1>10, <1>11 DEF O!Next

\* Only its own commit makes a request that is past its lock done.
LEMMA OnlyCommitEnds ==
  ASSUME OptionsInv, [O!Next]_optionVars, NEW r \in Requests,
         optionPc[r] = "copied", optionPc'[r] = "done"
  PROVE  O!CommitSync(r)
<1>1. \A label : \A q \in Requests \ {r} :
        optionPc' = [optionPc EXCEPT ![q] = label] => optionPc'[r] = optionPc[r]
  OBVIOUS
<1>2. optionPc' # optionPc
  OBVIOUS
<1>3. O!Next
  BY <1>2 DEF optionVars
<1>4. ASSUME NEW q \in Requests, NEW input \in OptionPayloads, O!ReadCategory(q, input) PROVE FALSE
  BY <1>1, <1>4 DEF O!ReadCategory, O!Goto
<1>5. ASSUME NEW q \in Requests, O!LockOptions(q) PROVE FALSE
  BY <1>1, <1>5 DEF O!LockOptions, O!Goto, O!Finish
<1>6. ASSUME NEW q \in Requests \ {r}, O!CommitSync(q) PROVE FALSE
  <2>1. \E label : optionPc' = [optionPc EXCEPT ![q] = label]
    BY <1>6, SyncCommits DEF SyncWrites, O!Goto, O!Finish
  <2>2. QED
    BY <1>1, <2>1
<1>7. ASSUME NEW q \in Requests, NEW p \in Products, NEW input \in O!ProductPayloads(p),
             O!ReadProduct(q, input)
      PROVE  FALSE
  BY <1>1, <1>7 DEF O!ReadProduct, O!Goto
<1>8. ASSUME NEW q \in Requests, O!CommitProduct(q) PROVE FALSE
  <2>1. optionPc[q] = "edit" /\ (O!Finish(q, "done") \/ O!Finish(q, "failed"))
    BY <1>8 DEF O!CommitProduct
  <2>2. QED
    BY <1>1, <2>1 DEF O!Goto, O!Finish
<1>9. ASSUME NEW p \in Products, NEW where \in {"inside", "outside"}, NEW form \in Forms,
             O!CreateProduct(p, where, form)
      PROVE  FALSE
  BY <1>2, <1>9 DEF O!CreateProduct
<1>10. ASSUME NEW p \in Products, O!MoveProduct(p) \/ O!RemoveProduct(p) PROVE FALSE
  BY <1>2, <1>10 DEF O!MoveProduct, O!RemoveProduct
<1>11. ASSUME NEW q \in Requests, O!CopyOptions(q) PROVE FALSE
  <2>1. /\ optionPc[q] = "locked"
        /\ \E label \in {"copied", "failed"} : optionPc' = [optionPc EXCEPT ![q] = label]
    BY <1>11 DEF O!CopyOptions, O!Goto, O!Finish
  <2>2. QED
    BY <1>1, <2>1
<1>12. ASSUME NEW q \in Requests, O!Fail(q) PROVE FALSE
  <2>1. optionPc' = [optionPc EXCEPT ![q] = "failed"] /\ r \in DOMAIN optionPc
    BY <1>12 DEF O!Fail, O!Goto, O!Finish, OptionsInv, OptionShape
  <2>2. QED
    BY <1>1, <2>1
<1>13. QED
  BY <1>3, <1>4, <1>5, <1>6, <1>7, <1>8, <1>9, <1>10, <1>11, <1>12 DEF O!Next

\* If a payload names some of the options that were read and no other ids, it
\* names fewer, so that the rest is stale.
LEMMA ReplacesStep ==
  ASSUME OptionsInv, [O!Next]_optionVars, NEW r \in Requests,
         optionPc[r] = "copied", optionPc'[r] = "done", O!Named(r) \subseteq read[r].options,
         NEW o \in read[r].options, options'[o] # None
  PROVE  o \in O!Ensured(r)
<1>1. O!CommitSync(r)
  BY OnlyCommitEnds
<1>2. O!New(r) \subseteq Options /\ SyncWrites(r)
  BY <1>1, SyncCommits
<1>3. o \in Options /\ o \notin Gone(r)
  BY <1>2, SyncSorts, OptionsAfter
<1>4. o \in O!Named(r)
  <2> SUFFICES ASSUME o \notin O!Named(r) PROVE FALSE
    OBVIOUS
  <2>1. IsFiniteSet(read[r].options)
    BY <1>2, SyncSorts, OptionAssumption, FS_Subset
  <2>2. /\ Cardinality(O!Named(r)) \in Nat /\ Cardinality(read[r].options) \in Nat
        /\ Cardinality(O!Named(r)) < Cardinality(read[r].options)
    <3>1. IsFiniteSet(O!Named(r)) /\ O!Named(r) # read[r].options
      BY <2>1, FS_Subset
    <3>2. QED
      BY <2>1, <3>1, FS_Subset, FS_CardinalityType
  <2>3. o \in O!Stale(r)
    BY <2>2, SameCardinality DEF O!Stale
  <2>4. QED
    BY <1>3, <2>3 DEF Gone
<1>5. QED
  BY <1>3, <1>4, SyncSets DEF Gone

-----------------------------------------------------------------------------
(* The theorems of the parts of the run *)

\* Comments shown in public are those with a reply (comments.service), whatever
\* admins do at once, unless an update of a retracted reply was past its check.
THEOREM CatalogPublicHaveReplies == MCSpec => []PublicHaveReplies
<1> DEFINE Inv == part = "comments" => CommentInv
<1>1. MCInit => Inv
  BY CommentInit DEF MCInit
<1>2. Inv /\ [MCNext]_<<part, vars, optionVars, iconVars, bannerVars, commentVars>> => Inv'
  <2> SUFFICES ASSUME part' = "comments", Inv,
                      [MCNext]_<<part, vars, optionVars, iconVars, bannerVars, commentVars>>
               PROVE  CommentInv'
    OBVIOUS
  <2>1. part = "comments" /\ [M!Next]_commentVars
    BY DEF MCNext
  <2>2. QED
    BY <2>1, CommentStep
<1>3. Inv => PublicHaveReplies
  BY DEF PublicHaveReplies, CommentInv
<1>4. QED
  BY <1>1, <1>2, <1>3, PTL DEF MCSpec

\* Banners have orders that differ (create, swapOrders and reorder of
\* banners.repository), unless transactions overtook each other.
THEOREM CatalogOrdersDiffer == MCSpec => []OrdersDiffer
<1> DEFINE Inv == part = "banners" => BannerInv
<1>1. MCInit => Inv
  BY BannerInit DEF MCInit
<1>2. Inv /\ [MCNext]_<<part, vars, optionVars, iconVars, bannerVars, commentVars>> => Inv'
  <2> SUFFICES ASSUME part' = "banners", Inv,
                      [MCNext]_<<part, vars, optionVars, iconVars, bannerVars, commentVars>>
               PROVE  BannerInv'
    OBVIOUS
  <2>1. part = "banners" /\ [N!Next]_bannerVars
    BY DEF MCNext
  <2>2. QED
    BY <2>1, BannerStep
<1>3. Inv => OrdersDiffer
  BY DEF OrdersDiffer, BannerInv
<1>4. QED
  BY <1>1, <1>2, <1>3, PTL DEF MCSpec

\* The icon a category shows has its row and its file (updateCategory of
\* categories.service), in the middle of any updates, errors and crashes.
THEOREM CatalogShownIconExists == MCSpec => []ShownIconExists
<1> DEFINE Inv == part = "icons" => IconInv
<1>1. MCInit => Inv
  BY IconInit DEF MCInit
<1>2. Inv /\ [MCNext]_<<part, vars, optionVars, iconVars, bannerVars, commentVars>> => Inv'
  <2> SUFFICES ASSUME part' = "icons", Inv,
                      [MCNext]_<<part, vars, optionVars, iconVars, bannerVars, commentVars>>
               PROVE  IconInv'
    OBVIOUS
  <2>1. part = "icons" /\ [I!Next]_iconVars
    BY DEF MCNext
  <2>2. QED
    BY <2>1, IconStep
<1>3. Inv => ShownIconExists
  BY DEF ShownIconExists, IconInv
<1>4. QED
  BY <1>1, <1>2, <1>3, PTL DEF MCSpec

\* Whoever is certain to remove an icon is working with it.
LEMMA WillRemoveHandles ==
  ASSUME IconInv, NEW r \in Requests, NEW i \in I!Icons, WillRemove(r, i)
  PROVE  I!Working(r) /\ i \in I!Handles(r)
BY IconAssumption DEF WillRemove, I!Working, I!Handles, I!NewIcon, I!Icons, Saves

\* An icon no category shows is about to be removed (removeIconAsset of
\* categories.service), unless an error, a crash or a race left it behind.
THEOREM CatalogUnusedIsRemoved == MCSpec => []UnusedIsRemoved
<1> DEFINE Inv == part = "icons" => IconInv
<1>1. MCInit => Inv
  BY IconInit DEF MCInit
<1>2. Inv /\ [MCNext]_<<part, vars, optionVars, iconVars, bannerVars, commentVars>> => Inv'
  <2> SUFFICES ASSUME part' = "icons", Inv,
                      [MCNext]_<<part, vars, optionVars, iconVars, bannerVars, commentVars>>
               PROVE  IconInv'
    OBVIOUS
  <2>1. part = "icons" /\ [I!Next]_iconVars
    BY DEF MCNext
  <2>2. QED
    BY <2>1, IconStep
<1>3. Inv => UnusedIsRemoved
  BY WillRemoveHandles DEF UnusedIsRemoved, I!UnusedIsRemoved, IconInv, IconShape, KeptInv, Kept
<1>4. QED
  BY <1>1, <1>2, <1>3, PTL DEF MCSpec

\* Copies of a category option have its value (syncCategoryOptions, syncOptions),
\* but for options that were loosened: by a copy committed between the update of
\* the copies and the commit, by copies of an older value, by a form or through
\* another product's row.  And no product has two copies of one, but for options
\* that requests copied at once without writing them, or a form named twice.
THEOREM CatalogCopiesMatch == MCSpec => []CopiesMatch
<1> DEFINE Inv == part = "options" => OptionsInv
<1>1. MCInit => Inv
  BY OptionsInit DEF MCInit
<1>2. Inv /\ [MCNext]_<<part, vars, optionVars, iconVars, bannerVars, commentVars>> => Inv'
  <2> SUFFICES ASSUME part' = "options", Inv,
                      [MCNext]_<<part, vars, optionVars, iconVars, bannerVars, commentVars>>
               PROVE  OptionsInv'
    OBVIOUS
  <2>1. part = "options" /\ [O!Next]_optionVars
    BY DEF MCNext
  <2>2. QED
    BY <2>1, OptionsStep
<1>3. Inv => CopiesMatch
  BY DEF CopiesMatch, OptionsInv
<1>4. QED
  BY <1>1, <1>2, <1>3, PTL DEF MCSpec

\* A payload that names only options of its category replaces all of them
\* (syncCategoryOptions): what it does not ensure is gone.
THEOREM CatalogReplacesAll == MCSpec => ReplacesAll
<1> DEFINE Inv == part = "options" => OptionsInv
           Replaces == \A r \in Requests :
             optionPc[r] = "copied" /\ optionPc'[r] = "done"
               /\ O!Named(r) \subseteq read[r].options =>
             \A o \in read[r].options : options'[o] # None => o \in O!Ensured(r)
<1>1. MCInit => Inv
  BY OptionsInit DEF MCInit
<1>2. Inv /\ [MCNext]_<<part, vars, optionVars, iconVars, bannerVars, commentVars>> => Inv'
  <2> SUFFICES ASSUME part' = "options", Inv,
                      [MCNext]_<<part, vars, optionVars, iconVars, bannerVars, commentVars>>
               PROVE  OptionsInv'
    OBVIOUS
  <2>1. part = "options" /\ [O!Next]_optionVars
    BY DEF MCNext
  <2>2. QED
    BY <2>1, OptionsStep
<1>3. ASSUME Inv, [MCNext]_<<part, vars, optionVars, iconVars, bannerVars, commentVars>>
      PROVE  [Replaces]_(O!optionVars)
  <2>1. CASE part = "options" /\ [O!Next]_optionVars
    BY <1>3, <2>1, ReplacesStep
  <2>2. CASE UNCHANGED optionVars
    BY <2>2 DEF optionVars, O!optionVars, O!data, O!histories
  <2>3. QED
    BY <1>3, <2>1, <2>2 DEF MCNext
<1>4. QED
  BY <1>1, <1>2, <1>3, PTL DEF MCSpec, ReplacesAll, O!ReplacesAll

=============================================================================
