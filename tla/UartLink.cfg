SPECIFICATION Spec
CONSTANTS
  Ports = {u0, u1}
  Data = {0, 1}
  Capacity = 1
  Accesses <- WireAccesses
  Controls <- NoTxReset
  bank1 = u0
  bank2 = u1
  TurnEndsInAccess = TRUE
PROPERTIES LinkIsFifo
