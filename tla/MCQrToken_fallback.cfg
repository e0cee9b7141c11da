SPECIFICATION Spec
CONSTANTS
  Tokens = {t1}
  Guests = {g1, g2}
  Addresses = {a1}
  None = None
  BindToIp = FALSE
  Faults <- ScriptErrors
INVARIANT SingleUse
CHECK_DEADLOCK FALSE
