---------------------------- MODULE MCOrderHistory ----------------------------
(***************************************************************************)
(* One run for orders and products, for the status board, for the sales    *)
(* reports over it, and for prices.  The run checks each on its own: part  *)
(* says which one moves, the rest keeps its initial value.  The sets of    *)
(* the parts share their model values, so that one symmetry serves all.    *)
(***************************************************************************)
EXTENDS OrderHistory, Sequences, TLC

CONSTANTS Orders, BoardRequests, BoardReaders, Clients, Reports,
          MaxTime, MonthLength, Words, Dashes, MaxChanges

ASSUME StatusAssumption == None \notin {"CONFIRMED", "DELIVERED", "PAID", "CANCELLED"}

VARIABLES
  part,
  status, boardPc, order, wanted, connected, view, subscribed, boardCrashes, unsent, raced,
  time, createdAt, reportPc, period, first, second, shifted,
  tax, fee, pricePc, cart, multiplier, serviceFee, price, changes, began, inForce

boardVars == <<status, boardPc, order, wanted, connected, view, subscribed, boardCrashes,
               unsent, raced>>
reportVars == <<time, createdAt, reportPc, period, first, second, shifted>>
priceVars == <<tax, fee, pricePc, cart, multiplier, serviceFee, price, changes, began, inForce>>

AllFaults == {"dbError", "crash"}
BoardFaults == {"publishError", "crash"}
SomeStatuses == {"PAID", "CANCELLED"}

\* One product for two of the orders and another for none.
OneProduct == [o \in Orders |-> "coffee"]
Days(from, to) == [from |-> from, to |-> to]
SomeRanges == {Days(None, 0), Days(1, None), Days(0, 1)}

Item(quantity, unitPrice) == [quantity |-> quantity, unitPrice |-> unitPrice]
SomeCarts == {<<>>, <<Item(1, 0)>>, <<Item(2, 25), Item(7, 3335)>>,
              <<Item(3, 3337), Item(1, 15), Item(2, 9994)>>}
Negative == 0 - 1
SomeTaxes == {Negative, 0, 9050, 11000}
SomeFees == {Negative, 150}

ASSUME MonthAssumption == MonthLength \in Nat \ {0}

\* What the Number() of a title can be, or that there is none.
Titles == Int \cup {None, Words, Dashes}
ASSUME TitleAssumption ==
  None \notin Int /\ Words \notin Int \cup {None, Dashes} /\ Dashes \notin Int \cup {None}

B == INSTANCE OrderBoard WITH
       Requests <- BoardRequests, Wanted <- SomeStatuses, Faults <- BoardFaults,
       pc <- boardPc, crashes <- boardCrashes

S == INSTANCE Sales WITH
       Requests <- BoardReaders, Clients <- {}, Wanted <- SomeStatuses, Faults <- {},
       MaxCrashes <- 0, ProductOf <- OneProduct, Ranges <- SomeRanges,
       pc <- boardPc, crashes <- boardCrashes

C == INSTANCE Pricing WITH
       Carts <- SomeCarts, TaxTitles <- SomeTaxes, FeeTitles <- SomeFees, pc <- pricePc

Symmetry == Permutations(Products) \cup Permutations(Requests) \cup Permutations(Admins)

MCInit ==
  /\ C!Init
  /\ \/ part = "history" /\ Init /\ S!SalesInit
     \/ part = "board" /\ Init /\ products = {} /\ B!Init /\ S!ReportInit
     \/ part = "sales" /\ Init /\ products = {} /\ S!SalesInit
     \/ part = "prices" /\ Init /\ products = {} /\ S!SalesInit

MCNext ==
  \/ part = "history" /\ Next /\ UNCHANGED <<part, boardVars, reportVars, priceVars>>
  \/ part = "board" /\ B!Next /\ UNCHANGED <<part, vars, reportVars, priceVars>>
  \/ part = "sales" /\ S!SalesNext /\ UNCHANGED <<part, vars, priceVars>>
  \/ part = "prices" /\ C!Next /\ UNCHANGED <<part, vars, boardVars, reportVars>>

MCSpec == MCInit /\ [][MCNext]_<<part, vars, boardVars, reportVars, priceVars>>

-----------------------------------------------------------------------------
(* The properties of the parts, where they are stated and explained *)

\* What a connected client shows is the order's status.
ViewsAgree == part = "board" => B!ViewsAgree

\* The queries of the reports agree.
ReportsAgree == part = "sales" => S!ReportsAgree

\* A price is of settings that were in force together.
PricedAsSet == part = "prices" => C!PricedAsSet

\* The rounded items of a price add up to its totals, and none is negative.
ItemsAddUp == part = "prices" => C!ItemsAddUp

===============================================================================
