SPECIFICATION MCSpec
CONSTANTS
  Requests = {r1, r2, r3}
  Seeded = {"s1", "s2"}
  Names = {n1, n2}
  Passwords = {p1, p2}
  None = None
  NewRoles = {"USER"}
  TokenRequests = {q1, q2, q3, q4}
  MaxSecond = 2
CONSTANT Edits <- SomeEdits
CONSTANT SeedRole <- Seeds
CONSTANT Faults <- AllFaults
SYMMETRY Symmetry
PROPERTY RightPasswordIsAccepted
CHECK_DEADLOCK FALSE
