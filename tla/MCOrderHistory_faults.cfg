SPECIFICATION MCSpec
CONSTANTS
  Products = {k1, k2}
  Requests = {r1, r2}
  Admins = {a1, a2}
  Orders = {k1, k2}
  BoardRequests = {r1, r2, r3}
  BoardReaders = {r3}
  Clients = {c1}
  Reports = {a1, a2}
  None = None
  Words = Words
  Dashes = Dashes
  MaxCrashes = 1
  MaxTime = 2
  MonthLength = 2
  MaxChanges = 2
CONSTANT Faults <- AllFaults
INVARIANTS
  HistoryIntact SoldCountAgrees ViewsAgree ReportsAgree PricedAsSet ItemsAddUp
SYMMETRY Symmetry
CHECK_DEADLOCK FALSE
