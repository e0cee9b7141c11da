SPECIFICATION MCSpec
CONSTANTS
  Tables = {t1}
  Requests = {r1, r2}
  Ttl = 2
  MaxTime = 5
  Addresses = {guest, other}
  SessionTtl = 2
  Second = 2
  Limit = 2
  HitsTtl = 2
  Block = 10
  Forever = Forever
  Categories = {c1}
  ListTtl = 2
  MaxChanges = 3
  None = None
INVARIANTS DeadIsRefused CounterExpires
PROPERTIES AnswerIsFresh Readmitted ListsCatchUp
