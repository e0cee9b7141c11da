------------------------------- MODULE Pricing -------------------------------
(***************************************************************************)
(* The price of an order (orders/utils/pricing.util.ts with                *)
(* common/utils/tax.util.ts), computed from the customer's items and two   *)
(* footer settings that an admin may change meanwhile.                     *)
(*                                                                         *)
(* Amounts are integers: cents, the tax setting and its multiplier in ten  *)
(* thousandths, the unit price as sent in tenths of a cent.  toFixed rounds*)
(* the double nearest to a value, the model the value itself.              *)
(***************************************************************************)
EXTENDS Integers, Sequences

CONSTANTS
  Requests,    \* orders being created
  Carts,       \* sequences of items: quantity and unitPrice
  TaxTitles,   \* titles given to the tax setting, in ten thousandths
  FeeTitles,   \* titles given to the fee setting, in cents
  Words,       \* a title without any digit, point or minus
  Dashes,      \* a blank title, or one whose digits, points and minuses are no number
  None,        \* no setting, or not read yet
  MaxChanges   \* bound on the changes of settings

VARIABLES
  tax,         \* title of the FooterSetting row 'tax'
  fee,         \* title of the row 'fee'
  pc,
  cart,
  multiplier,  \* of each request, once read
  serviceFee,
  price,       \* what computeOrderPricing returned
  changes,     \* changes of settings so far
  began,       \* history: changes when each request came
  inForce      \* history: rates there have been since each request came

settings == <<tax, fee>>
vars == <<settings, pc, cart, multiplier, serviceFee, price, changes, began, inForce>>

SumOf(seq) == LET sum[i \in 0..Len(seq)] == IF i = 0 THEN 0 ELSE sum[i - 1] + seq[i]
              IN sum[Len(seq)]
Column(items, f) == [i \in DOMAIN items |-> items[i][f]]
Magnitude(n) == IF n < 0 THEN -n ELSE n

\* toMoney: n / d rounded to a whole number, ties away from zero.
Money(n, d) == LET rounded == (2 * Magnitude(n) + d) \div (2 * d)
               IN IF n < 0 THEN -rounded ELSE rounded

\* coerceToNumber: all but digits, points and minuses is dropped from a title.
\* Of words that leaves the empty string, which Number() takes for 0.  None is
\* NaN.
Coerced(title) ==
  CASE title = Words -> 0
    [] title \in {None, Dashes} -> None
    [] OTHER -> title
\* What is no number, or a negative one, counts as the fallback.
Numeric(title, fallback) ==
  LET numeric == Coerced(title)
  IN IF numeric = None \/ numeric < 0 THEN fallback ELSE numeric
Full == 10000
Rates(t, f) == <<Numeric(t, Full), Numeric(f, 0)>>

-----------------------------------------------------------------------------
(* The computation *)

\* Mutant: the unit price is rounded after the multiplication.
RoundedLate(item) ==
  [quantity |-> item.quantity, unitPrice |-> Money(item.unitPrice, 10),
   totalPrice |-> Money(item.unitPrice * item.quantity, 10)]

Normalized(item) ==
  LET unit == Money(item.unitPrice, 10) IN
  [quantity |-> item.quantity, unitPrice |-> unit, totalPrice |-> unit * item.quantity]

\* The item's share of the tax; none is shared of an empty subtotal.
ItemTax(item, subtotal, taxAmount, m) ==
  IF subtotal <= 0 \/ m = Full THEN 0 ELSE Money(taxAmount * item.totalPrice, subtotal)

Finished(item, itemTax, untaxed) ==
  LET final == item.totalPrice + itemTax IN
  [quantity |-> item.quantity, unitPrice |-> item.unitPrice, totalPrice |-> item.totalPrice,
   taxAmount |-> itemTax, totalPriceFinal |-> final,
   unitPriceFinal |-> IF untaxed THEN item.unitPrice ELSE Money(final, item.quantity)]

PriceOf(items, m, f) ==
  LET normalized == [i \in DOMAIN items |-> Normalized(items[i])]
      subtotal == SumOf(Column(normalized, "totalPrice"))
      taxAmount == Money(subtotal * (m - Full), Full)
  IN [subtotal |-> subtotal, taxAmount |-> taxAmount, totalAmount |-> subtotal + taxAmount + f,
      items |-> [i \in DOMAIN items |->
        Finished(normalized[i], ItemTax(normalized[i], subtotal, taxAmount, m),
                 subtotal <= 0 \/ m = Full)]]

-----------------------------------------------------------------------------
Init ==
  /\ tax = None /\ fee = None
  /\ pc = [r \in Requests |-> "idle"]
  /\ cart = [r \in Requests |-> <<>>]
  /\ multiplier = [r \in Requests |-> None]
  /\ serviceFee = [r \in Requests |-> None]
  /\ price = [r \in Requests |-> None]
  /\ changes = 0
  /\ began = [r \in Requests |-> 0]
  /\ inForce = [r \in Requests |-> {}]

Begin(r, items) ==
  /\ pc[r] = "idle"
  /\ pc' = [pc EXCEPT ![r] = "reading"]
  /\ cart' = [cart EXCEPT ![r] = items]
  /\ began' = [began EXCEPT ![r] = changes]
  /\ inForce' = [inForce EXCEPT ![r] = {Rates(tax, fee)}]
  /\ UNCHANGED <<settings, multiplier, serviceFee, price, changes>>

\* The upsert creates the row, with title '100', if an admin removed it.
ReadTax(r) ==
  /\ pc[r] = "reading" /\ multiplier[r] = None
  /\ tax' = IF tax = None THEN Full ELSE tax
  /\ multiplier' = [multiplier EXCEPT ![r] = Numeric(tax', Full)]
  /\ UNCHANGED <<fee, pc, cart, serviceFee, price, changes, began, inForce>>

\* Mutant: the fee an earlier request read is used again.
ReadFeeOnce(r) ==
  /\ pc[r] = "reading" /\ serviceFee[r] = None
  /\ \E f \in {serviceFee[q] : q \in Requests} :
       /\ (\E q \in Requests : serviceFee[q] # None) => f # None
       /\ serviceFee' = [serviceFee EXCEPT ![r] = IF f = None THEN Numeric(fee, 0) ELSE f]
  /\ UNCHANGED <<settings, pc, cart, multiplier, price, changes, began, inForce>>

ReadFee(r) ==
  /\ pc[r] = "reading" /\ serviceFee[r] = None
  /\ serviceFee' = [serviceFee EXCEPT ![r] = Numeric(fee, 0)]
  /\ UNCHANGED <<settings, pc, cart, multiplier, price, changes, began, inForce>>

Compute(r) ==
  /\ pc[r] = "reading" /\ multiplier[r] # None /\ serviceFee[r] # None
  /\ price' = [price EXCEPT ![r] = PriceOf(cart[r], multiplier[r], serviceFee[r])]
  /\ pc' = [pc EXCEPT ![r] = "priced"]
  /\ UNCHANGED <<settings, cart, multiplier, serviceFee, changes, began, inForce>>

\* An admin creates, edits or removes one of the two rows.
ChangeSetting(newTax, newFee) ==
  /\ changes < MaxChanges
  /\ \/ newTax # tax /\ newFee = fee
     \/ newTax = tax /\ newFee # fee
  /\ tax' = newTax /\ fee' = newFee
  /\ changes' = changes + 1
  /\ inForce' = [r \in Requests |->
       IF pc[r] = "reading" THEN inForce[r] \cup {Rates(newTax, newFee)} ELSE inForce[r]]
  /\ UNCHANGED <<pc, cart, multiplier, serviceFee, price, began>>

Next ==
  \/ \E r \in Requests :
       \/ \E items \in Carts : Begin(r, items)
       \/ ReadTax(r) \/ ReadFee(r) \/ Compute(r)
  \/ \E t \in TaxTitles \cup {None, Words, Dashes, tax}, f \in FeeTitles \cup {None, Words, Dashes, fee} :
       ChangeSetting(t, f)

Spec == Init /\ [][Next]_vars

-----------------------------------------------------------------------------
(* Properties *)

\* Two settings are read by two queries: if at most one change was made while
\* the request ran, the price is of a tax and a fee that were set together.
PricedAsSet ==
  \A r \in Requests :
    pc[r] = "reading" /\ multiplier[r] # None /\ serviceFee[r] # None /\ changes <= began[r] + 1
      => <<multiplier[r], serviceFee[r]>> \in inForce[r]

\* The rounded items of a price add up to its totals: each line is its unit
\* price times its quantity, exactly before tax and within half a cent per
\* piece after it, and the shares of the tax are within half a cent per item
\* of the whole.  No title of a setting makes the order or one of its lines
\* negative: a tax below 100 percent takes off at most the price.
ItemsAddUp ==
  \A r \in Requests :
    LET p == price[r] IN
    p # None =>
      /\ \A i \in DOMAIN p.items :
           LET item == p.items[i] IN
           /\ item.totalPrice = item.unitPrice * item.quantity
           /\ 2 * Magnitude(item.totalPriceFinal - item.unitPriceFinal * item.quantity)
                <= item.quantity
           /\ item.totalPriceFinal >= 0
      /\ 2 * Magnitude(SumOf(Column(p.items, "taxAmount")) - p.taxAmount) <= Len(p.items)
      /\ p.totalAmount >= 0
=============================================================================
