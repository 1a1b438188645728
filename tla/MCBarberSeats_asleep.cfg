SPECIFICATION Spec
CONSTANTS
  Customer <- MCCustomer
  Kinds <- MCKinds
  N = 2
  Readings = {FALSE}
INVARIANTS
  AwakeIfNeeded
CHECK_DEADLOCK FALSE
