-------------------------------- MODULE Sales --------------------------------
(***************************************************************************)
(* The sales reports of admin/sales over the orders of OrderBoard.  A      *)
(* report is made of several queries outside a transaction: the summary    *)
(* sums the items of paid orders and then reads their options, the monthly *)
(* metrics count the orders of two months and then sum their amounts.      *)
(* A report is modelled by the sets of orders its queries cover.           *)
(***************************************************************************)
EXTENDS OrderBoard

CONSTANTS
  Reports,      \* requests to /admin/sales-* and /admin/metrics-monthly
  ProductOf,    \* the product each order is for
  Ranges,       \* the [from, to] that summaries ask for, None for an absent one
  MaxTime,      \* bound on the clock, in days
  MonthLength   \* days of a month

VARIABLES
  time,
  createdAt,    \* of each order
  reportPc,     \* progress of each report
  period,       \* from and to of a summary, now of the metrics
  first,        \* orders the first queries of a report covered
  second,       \* orders the later queries covered
  shifted       \* history: reports with an order paid or cancelled meanwhile

reportVars == <<reportPc, period, first, second>>
salesVars == <<boardVars, time, createdAt, reportVars, shifted>>

Times == 0..MaxTime
Months == {"current", "previous"}
NoOrders == [m \in Months |-> {}]

Always == [from |-> None, to |-> None]

ReportInit ==
  /\ time = 0
  /\ createdAt = [o \in Orders |-> None]
  /\ reportPc = [s \in Reports |-> "idle"]
  /\ period = [s \in Reports |-> Always]
  /\ first = [s \in Reports |-> NoOrders]
  /\ second = [s \in Reports |-> NoOrders]
  /\ shifted = {}

SalesInit == Init /\ ReportInit

Continue(s, label) == reportPc' = [reportPc EXCEPT ![s] = label]

-----------------------------------------------------------------------------
(* GET /admin/sales-summary.  There is never a snapshot to start from, see *)
(* ResetSales: without from and to it covers all times.                    *)

\* Whole days, from the first millisecond of from to the last of to.
Within(o, p) ==
  /\ createdAt[o] # None
  /\ p.from # None => p.from <= createdAt[o]
  /\ p.to # None => createdAt[o] <= p.to

PaidIn(p) == {o \in Orders : status[o] = "PAID" /\ Within(o, p)}

RequestSummary(s, range) ==
  /\ reportPc[s] = "idle"
  /\ period' = [period EXCEPT ![s] = range]
  /\ Continue(s, "group")
  /\ UNCHANGED <<boardVars, time, createdAt, first, second, shifted>>

\* groupBy: the items of paid orders, summed by product.
GroupItems(s) ==
  /\ reportPc[s] = "group"
  /\ first' = [first EXCEPT ![s].current = PaidIn(period[s])]
  /\ Continue(s, "options")
  /\ UNCHANGED <<boardVars, time, createdAt, period, second, shifted>>

\* The options are counted in a second query under the same filter, and kept
\* for the products that were summed.
ReadOptions(s) ==
  /\ reportPc[s] = "options"
  /\ second' = [second EXCEPT ![s].current =
       {o \in PaidIn(period[s]) : \E q \in first[s].current : ProductOf[o] = ProductOf[q]}]
  /\ Continue(s, "summary")
  /\ UNCHANGED <<boardVars, time, createdAt, period, first, shifted>>

-----------------------------------------------------------------------------
(* POST /admin/sales-reset and /admin/sales-reset/clear *)

\* The admin's id is read from a field the request's user does not have, and
\* a snapshot cannot be stored without it.
ResetSales(s) ==
  /\ reportPc[s] = "idle"
  /\ Continue(s, "error")
  /\ UNCHANGED <<boardVars, time, createdAt, period, first, second, shifted>>

\* All snapshots are deleted (there are none) and the summary of all times
\* is answered.
ClearResets(s) == RequestSummary(s, Always)

-----------------------------------------------------------------------------
(* GET /admin/metrics-monthly *)

\* Mutant: a month ends with the first day of the next one.
MonthInclusive(s, m) ==
  LET start == (period[s].to \div MonthLength - IF m = "current" THEN 0 ELSE 1) * MonthLength
  IN {o \in Orders : /\ createdAt[o] # None
                     /\ start <= createdAt[o] /\ createdAt[o] <= start + MonthLength}

\* The orders of the month of now, or of the one before, whatever their status.
Month(s, m) ==
  LET start == (period[s].to \div MonthLength - IF m = "current" THEN 0 ELSE 1) * MonthLength
  IN {o \in Orders : /\ createdAt[o] # None
                     /\ start <= createdAt[o] /\ createdAt[o] < start + MonthLength}

RequestMetrics(s) ==
  /\ reportPc[s] = "idle"
  /\ period' = [period EXCEPT ![s] = [from |-> None, to |-> time]]
  /\ Continue(s, "count")
  /\ UNCHANGED <<boardVars, time, createdAt, first, second, shifted>>

\* Promise.all of both counts, then of both sums: the current month's query
\* of each pair may see orders the previous month's did not, and these are
\* not in the previous month, so each pair is one step.
CountOrders(s) ==
  /\ reportPc[s] = "count"
  /\ first' = [first EXCEPT ![s] = [m \in Months |-> Month(s, m)]]
  /\ Continue(s, "sum")
  /\ UNCHANGED <<boardVars, time, createdAt, period, second, shifted>>

SumAmounts(s) ==
  /\ reportPc[s] = "sum"
  /\ second' = [second EXCEPT ![s] = [m \in Months |-> Month(s, m)]]
  /\ Continue(s, "metrics")
  /\ UNCHANGED <<boardVars, time, createdAt, period, first, shifted>>

-----------------------------------------------------------------------------
Tick ==
  /\ time < MaxTime
  /\ time' = time + 1
  /\ UNCHANGED <<boardVars, createdAt, reportVars, shifted>>

\* Reports between their two queries when an order's status changes.
Disturbed == {s \in Reports : reportPc[s] = "options"}

\* A step of the orders; the insert dates the order.
OrderStep ==
  /\ Next
  /\ createdAt' = [o \in Orders |-> IF status[o] = None /\ status'[o] # None THEN time
                                    ELSE createdAt[o]]
  /\ shifted' = IF \E o \in Orders : status[o] # status'[o] THEN shifted \cup Disturbed ELSE shifted
  /\ UNCHANGED <<time, reportVars>>

ReportStep(s) ==
  \/ GroupItems(s) \/ ReadOptions(s) \/ CountOrders(s) \/ SumAmounts(s)

SalesNext ==
  \/ OrderStep \/ Tick
  \/ \E s \in Reports :
       \/ \E range \in Ranges : RequestSummary(s, range)
       \/ ResetSales(s) \/ ClearResets(s) \/ RequestMetrics(s) \/ ReportStep(s)

SalesSpec == SalesInit /\ [][SalesNext]_salesVars

-----------------------------------------------------------------------------
(* Properties *)

SalesTypeOK ==
  /\ TypeOK
  /\ time \in Times
  /\ createdAt \in [Orders -> Times \cup {None}]
  /\ reportPc \in [Reports -> {"idle", "group", "options", "summary", "count", "sum",
                               "metrics", "error"}]
  /\ period \in [Reports -> [from : Times \cup {None}, to : Times \cup {None}]]
  /\ first \in [Reports -> [Months -> SUBSET Orders]]
  /\ second \in [Reports -> [Months -> SUBSET Orders]]
  /\ shifted \subseteq Reports

\* The options a summary lists are options of the items it sums, although it
\* reads them later, unless the status of an order changed in between.
OptionsAreSold ==
  \A s \in Reports \ shifted :
    reportPc[s] = "summary" => second[s].current = first[s].current

\* Orders are counted in one month and stay there: a report never counts one
\* twice, sums at least what it counts, and has as previous month all that an
\* earlier report had as that current month.
MonthsAgree ==
  \A s, u \in Reports :
    reportPc[s] = "metrics" /\ reportPc[u] = "metrics" =>
      /\ first[s].current \cap first[s].previous = {}
      /\ \A m \in Months : first[s][m] \subseteq second[s][m]
      /\ period[u].to \div MonthLength = 1 + period[s].to \div MonthLength =>
           second[s].current \subseteq first[u].previous

\* The queries of a report agree with each other, and reports with later ones.
ReportsAgree == OptionsAreSold /\ MonthsAgree
=============================================================================
