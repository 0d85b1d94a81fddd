SPECIFICATION DriverSpec
CONSTANTS
  Ports = {u0}
  Data = {0}
  Capacity = 2
  Accesses <- DriverAccesses
  Controls <- DriverControls
  bank1 = none
  bank2 = none
  port = u0
  TurnEndsInAccess = TRUE
  MaxReadsPerTick = 2
PROPERTIES RxIsAlwaysServed
