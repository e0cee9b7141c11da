SPECIFICATION ServerSpec
CONSTANTS
  Checkouts = {c1, c2}
  Slots = {s1, s2}
  None = None
  MaxCrashes = 1
CONSTANT Faults <- AllFaults
INVARIANTS TypeOK AtMostOneOrder OrderIsBacked
PROPERTIES ImplementsContract CallbackAnswered
CHECK_DEADLOCK FALSE
