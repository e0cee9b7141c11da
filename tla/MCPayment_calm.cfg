SPECIFICATION CalmSpec
CONSTANTS
  Checkouts = {c1, c2}
  Slots = {s1, s2}
  None = None
  MaxCrashes = 2
CONSTANT Faults <- CalmFaults
INVARIANTS CapturedIsKept FailedCreateLeavesNoRow
PROPERTIES PaidIsOrdered
CHECK_DEADLOCK FALSE
