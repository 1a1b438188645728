SPECIFICATION Spec
CONSTANTS
  Customer <- MCCustomer
  Kinds <- MCKinds
  N = 2
  Readings = {TRUE, FALSE}
INVARIANTS
  SeatsTypeOK
  AwakeForEachCustomer
  ServesTakenSeat
PROPERTIES
  EverybodyServed
CHECK_DEADLOCK FALSE
