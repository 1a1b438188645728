SPECIFICATION FairSpec
CONSTANTS
  MAPPER_COUNT = 3
  REDUCER_COUNT = 3
  Inputs <- MCInputs
  MayFail = FALSE
PROPERTIES
  ChildrenExit
\* the processes end, or wait for ever
CHECK_DEADLOCK FALSE
