------------------------------- MODULE Catalog -------------------------------
(***************************************************************************)
(* Categories, products and prices: updateCategory and deleteCategory of   *)
(* categories.service.ts against create, updateWithFiles and remove of     *)
(* products.service.ts and products.repository.ts, on one database.  A     *)
(* category discount is forced on its products by reading them and then    *)
(* writing all their prices in one transaction; an edit of a product reads *)
(* its row and writes all of it back.  Names, images, options, icons and   *)
(* isActive are left out: no property here depends on them.                *)
(***************************************************************************)
EXTENDS Integers

CONSTANTS
  Products, Categories,   \* ids, each used for one row at most
  Uncategorized,          \* the category 'uncategorized', in no list of them
  Requests,               \* requests of admins
  Prices, Discounts,      \* original prices and discounts admins enter
  Edits,                  \* what edits of a product carry
  None                    \* a field an edit leaves out

ASSUME IdAssumption == Uncategorized \notin Categories
ASSUME PriceAssumption == Prices \subseteq Nat /\ Discounts \subseteq Nat
ASSUME NoneAssumption == None \notin Nat \cup Categories \cup Products
ASSUME EditAssumption ==
  Edits \subseteq [originalPrice : Prices \cup {None}, discountPercent : Discounts \cup {None},
                  categoryId : Categories \cup {None}]

VARIABLES
  fresh,      \* ids that were never used
  categories, \* the Category rows
  products,   \* the Product rows
  row,        \* their contents
  ordered,    \* the products named by an order item
  pc,         \* progress of each request
  product,    \* the product it edits or removes
  category,   \* the category it updates or deletes
  dto,        \* the fields its edit carries
  existing,   \* the row it read before its edit
  discount,   \* the discount it forces on its category
  listed,     \* the products it read from its category
  newPrice    \* the prices it computed for them

tables == <<fresh, categories, products, row, ordered>>
editVars == <<product, dto, existing>>
batchVars == <<category, discount, listed, newPrice>>
vars == <<tables, pc, editVars, batchVars>>

AllCategories == Categories \cup {Uncategorized}
Rows == [originalPrice : Nat, discountPercent : Nat, price : Nat, categoryId : AllCategories]
Blank == [originalPrice |-> 0, discountPercent |-> 0, price |-> 0, categoryId |-> Uncategorized]

\* For each field of the edit a value or, left out, None.
NoEdit == [originalPrice |-> None, discountPercent |-> None, categoryId |-> None]

InFlight == {"edit", "remove", "read", "apply", "delete"}

Init ==
  /\ fresh = Products \cup Categories
  /\ categories \in SUBSET {Uncategorized}
  /\ products = {} /\ ordered = {}
  /\ row = [p \in Products |-> Blank]
  /\ pc = [r \in Requests |-> "idle"]
  /\ product = [r \in Requests |-> None]
  /\ category = [r \in Requests |-> Uncategorized]
  /\ dto = [r \in Requests |-> NoEdit]
  /\ existing = [r \in Requests |-> Blank]
  /\ discount = [r \in Requests |-> 0]
  /\ listed = [r \in Requests |-> {}]
  /\ newPrice = [r \in Requests |-> [p \in Products |-> 0]]

Goto(r, label) == pc' = [pc EXCEPT ![r] = label]
InCategory(c) == {p \in products : row[p].categoryId = c}

\* Mutant: the discount is not clamped to 100.
UnclampedPrice(original, percent) == (original * (100 - percent)) \div 100

\* The price after a discount, which may be stored as more than 100 percent
\* but counts as 100.  Rounded down here, to two decimals in the code.
PriceOf(original, percent) ==
  (original * (100 - IF percent > 100 THEN 100 ELSE percent)) \div 100

NewRow(original, percent, c) ==
  [originalPrice |-> original, discountPercent |-> percent,
   price |-> PriceOf(original, percent), categoryId |-> c]

-----------------------------------------------------------------------------
(* Creation, and orders *)

CreateCategory(c) ==
  /\ c \in fresh
  /\ fresh' = fresh \ {c}
  /\ categories' = categories \cup {c}
  /\ UNCHANGED <<products, row, ordered, pc, editVars, batchVars>>

\* The insert computes the price; its foreign key wants the category.
CreateProduct(p, original, percent, c) ==
  /\ p \in fresh /\ c \in categories
  /\ fresh' = fresh \ {p}
  /\ products' = products \cup {p}
  /\ row' = [row EXCEPT ![p] = NewRow(original, percent, c)]
  /\ UNCHANGED <<categories, ordered, pc, editVars, batchVars>>

\* An order is inserted with an item of the product.
OrderProduct(p) ==
  /\ p \in products
  /\ ordered' = ordered \cup {p}
  /\ UNCHANGED <<fresh, categories, products, row, pc, editVars, batchVars>>

-----------------------------------------------------------------------------
(* PATCH /products/:id *)

Given(value, old) == IF value = None THEN old ELSE value

\* The given fields over the existing row, with the price that goes with them.
Merged(old, edit) == NewRow(Given(edit.originalPrice, old.originalPrice),
                            Given(edit.discountPercent, old.discountPercent),
                            Given(edit.categoryId, old.categoryId))

\* Mutant: the price is recomputed only when the original price is given.
EditKeepingPrice(old, edit) ==
  [Merged(old, edit) EXCEPT !.price = IF edit.originalPrice = None THEN old.price ELSE @]

\* The price is recomputed when one of its two fields is given.
Edited(old, edit) ==
  [Merged(old, edit) EXCEPT
     !.price = IF edit.originalPrice = None /\ edit.discountPercent = None THEN old.price ELSE @]

\* The row is read; then the images are uploaded.
ReadForEdit(r, p, edit) ==
  /\ pc[r] = "idle" /\ p \in products
  /\ product' = [product EXCEPT ![r] = p]
  /\ dto' = [dto EXCEPT ![r] = edit]
  /\ existing' = [existing EXCEPT ![r] = row[p]]
  /\ Goto(r, "edit")
  /\ UNCHANGED <<tables, batchVars>>

\* All fields are written, whatever the row holds by now.
StoreEdit(r) ==
  LET edited == Edited(existing[r], dto[r])
  IN /\ pc[r] = "edit" /\ product[r] \in products /\ edited.categoryId \in categories
     /\ row' = [row EXCEPT ![product[r]] = edited]
     /\ Goto(r, "done")
     /\ UNCHANGED <<fresh, categories, products, ordered, editVars, batchVars>>

-----------------------------------------------------------------------------
(* DELETE /products/:id *)

\* Order items are counted first: with some, the product is only hidden.
CountOrderItems(r, p) ==
  /\ pc[r] = "idle" /\ p \in products
  /\ product' = [product EXCEPT ![r] = p]
  /\ Goto(r, IF p \in ordered THEN "done" ELSE "remove")
  /\ UNCHANGED <<tables, dto, existing, batchVars>>

\* The foreign key of order items restricts the delete.
RemoveProduct(r) ==
  /\ pc[r] = "remove" /\ product[r] \in products \ ordered
  /\ products' = products \ {product[r]}
  /\ Goto(r, "done")
  /\ UNCHANGED <<fresh, categories, row, ordered, editVars, batchVars>>

-----------------------------------------------------------------------------
(* PATCH /categories/:id with a discountPercent *)

\* The category's own row is updated first.
UpdateCategory(r, c, percent) ==
  /\ pc[r] = "idle" /\ c \in categories
  /\ category' = [category EXCEPT ![r] = c]
  /\ discount' = [discount EXCEPT ![r] = percent]
  /\ Goto(r, "read")
  /\ UNCHANGED <<tables, editVars, listed, newPrice>>

\* The products of the category are read and their prices computed.
ReadProducts(r) ==
  /\ pc[r] = "read"
  /\ listed' = [listed EXCEPT ![r] = InCategory(category[r])]
  /\ newPrice' = [newPrice EXCEPT ![r] = [p \in Products |->
       IF p \in InCategory(category[r]) THEN PriceOf(row[p].originalPrice, discount[r]) ELSE 0]]
  /\ Goto(r, "apply")
  /\ UNCHANGED <<tables, editVars, category, discount>>

\* One transaction writes discount and price of every product that was read,
\* by id, wherever it is now; a missing one rolls all of it back.
ApplyDiscount(r) ==
  /\ pc[r] = "apply" /\ listed[r] \subseteq products
  /\ row' = [p \in Products |->
       IF p \in listed[r]
         THEN [row[p] EXCEPT !.discountPercent = discount[r], !.price = newPrice[r][p]]
         ELSE row[p]]
  /\ Goto(r, "done")
  /\ UNCHANGED <<fresh, categories, products, ordered, editVars, batchVars>>

-----------------------------------------------------------------------------
(* DELETE /categories/:id *)

\* Its transaction begins, and reads the products of the category.
ListCategory(r, c) ==
  /\ pc[r] = "idle" /\ c \in categories
  /\ category' = [category EXCEPT ![r] = c]
  /\ listed' = [listed EXCEPT ![r] = InCategory(c)]
  /\ Goto(r, "delete")
  /\ UNCHANGED <<tables, editVars, discount, newPrice>>

\* Mutant: products with order items are deleted like the others.
DropCategory(r) ==
  /\ pc[r] = "delete"
  /\ products' = products \ listed[r]
  /\ categories' = categories \ {category[r]}
  /\ Goto(r, "done")
  /\ UNCHANGED <<fresh, row, ordered, editVars, batchVars>>

\* The listed products that were ordered move to 'uncategorized', which is
\* made if missing, the others are deleted, and so is the category.  It
\* commits when all of them exist and no other product is in the category.
DeleteCategory(r) ==
  LET c == category[r]
      kept == listed[r] \cap ordered
  IN /\ pc[r] = "delete" /\ c \in categories
     /\ listed[r] \subseteq products /\ InCategory(c) \subseteq listed[r]
     /\ products' = products \ (listed[r] \ ordered)
     /\ row' = [p \in Products |->
          IF p \in kept THEN [row[p] EXCEPT !.categoryId = Uncategorized] ELSE row[p]]
     /\ categories' = (categories \cup {Uncategorized}) \ {c}
     /\ Goto(r, "done")
     /\ UNCHANGED <<fresh, ordered, editVars, batchVars>>

-----------------------------------------------------------------------------
\* A missing row, a foreign key, a database error or the death of the process
\* ends a request between any two of its steps; transactions roll back.
Fail(r) ==
  /\ pc[r] \in InFlight
  /\ Goto(r, "failed")
  /\ UNCHANGED <<tables, editVars, batchVars>>

RequestStep(r) ==
  \/ StoreEdit(r) \/ RemoveProduct(r) \/ ReadProducts(r) \/ ApplyDiscount(r)
  \/ DeleteCategory(r) \/ Fail(r)

Next ==
  \/ \E c \in Categories : CreateCategory(c)
  \/ \E p \in Products, o \in Prices, d \in Discounts, c \in Categories :
       CreateProduct(p, o, d, c)
  \/ \E p \in Products : OrderProduct(p)
  \/ \E r \in Requests, p \in Products, edit \in Edits : ReadForEdit(r, p, edit)
  \/ \E r \in Requests, p \in Products : CountOrderItems(r, p)
  \/ \E r \in Requests, c \in Categories, d \in Discounts : UpdateCategory(r, c, d)
  \/ \E r \in Requests, c \in Categories : ListCategory(r, c)
  \/ \E r \in Requests : RequestStep(r)

Spec == Init /\ [][Next]_vars

-----------------------------------------------------------------------------
(* Properties *)

TypeOK ==
  /\ fresh \subseteq Products \cup Categories
  /\ categories \subseteq AllCategories
  /\ products \subseteq Products /\ ordered \subseteq Products
  /\ row \in [Products -> Rows]
  /\ pc \in [Requests -> InFlight \cup {"idle", "done", "failed"}]
  /\ product \in [Requests -> Products \cup {None}]
  /\ category \in [Requests -> AllCategories]
  /\ dto \in [Requests -> Edits \cup {NoEdit}]
  /\ existing \in [Requests -> Rows]
  /\ discount \in [Requests -> Nat]
  /\ listed \in [Requests -> SUBSET Products]
  /\ newPrice \in [Requests -> [Products -> Nat]]

Matches(contents) ==
  contents.price = PriceOf(contents.originalPrice, contents.discountPercent)

\* Some edit of the product carries a new original price.
OriginalEdited(p) == \E r \in Requests : product[r] = p /\ dto[r].originalPrice # None

\* "recomputes the product price from originalPrice": a product is sold at
\* its original price less its discount, however category discounts, edits
\* of its discount, moves and removals interleave; only an edit of its
\* original price can be undone by a category discount that read the old one.
PriceMatches == \A p \in products : OriginalEdited(p) \/ Matches(row[p])

\* "Products with historical order items are preserved": however removals,
\* category deletions, moves and orders race, an ordered product stays, and
\* every product is in a category that exists.
OrderedIsKept ==
  /\ ordered \subseteq products
  /\ \A p \in products : row[p].categoryId \in categories
=============================================================================
