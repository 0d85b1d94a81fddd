SPECIFICATION Spec
CONSTANTS
  Ports = {u0}
  Data = {0, 1}
  Capacity = 1
  Accesses <- DriverAccesses
  Controls <- AllControls
  bank1 = none
  bank2 = none
  TurnEndsInAccess = TRUE
PROPERTIES TxResetEmpties
