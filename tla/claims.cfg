SPECIFICATION Spec
CONSTANTS
  k1 = k1
  k2 = k2
  Call = {k1, k2}
  MaxRetries = 2
  MaxClients = 2
  None = None
INVARIANTS
  ClaimsWholeResponse
  OneConnectionInUse
SYMMETRY Calls
CHECK_DEADLOCK FALSE
