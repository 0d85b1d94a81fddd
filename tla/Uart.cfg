SPECIFICATION Spec
CONSTANTS
  Ports = {u0}
  Data = {0}
  Capacity = 2
  Accesses <- PortAccesses
  Controls <- NoTxReset
  bank1 = none
  bank2 = none
  TurnEndsInAccess = TRUE
INVARIANTS TypeOK NoSpuriousMeip
PROPERTIES FifoSafe PortsAreFifos
