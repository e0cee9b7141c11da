SPECIFICATION Spec
CONSTANTS
  Requests = {r1, r2, r3}
  None = None
  Faults = {}
  MaxSecond = 2
INVARIANT RevokedFamilyIsDead
CHECK_DEADLOCK FALSE
