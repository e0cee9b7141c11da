SPECIFICATION Spec
CONSTANTS
  Checkouts = {c1}
  Slots = {s1, s2}
  None = None
  MaxCrashes = 0
CONSTANT Faults <- LossFaults
INVARIANT CapturedIsKept
CHECK_DEADLOCK FALSE
