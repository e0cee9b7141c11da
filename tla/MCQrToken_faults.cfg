SPECIFICATION Spec
CONSTANTS
  Tokens = {t1, t2}
  Guests = {g1, g2, g3}
  Addresses = {a1, a2}
  None = None
  BindToIp = TRUE
  Faults <- AllFaults
SYMMETRY Symmetry
INVARIANTS TypeOK SingleUseByScript SessionOnIssuingAddress SessionWasLogged
PROPERTY ImplementsOneShotToken
CHECK_DEADLOCK FALSE
