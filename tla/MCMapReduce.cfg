SPECIFICATION FairSpec
CONSTANTS
  MAPPER_COUNT = 3
  REDUCER_COUNT = 3
  Inputs <- MCInputs
  MayFail = TRUE
INVARIANTS
  TypeOK
  HangsOnlyForWantOfLines
PROPERTIES
  ImplementsReport
  EverybodyExits
\* the processes end, or wait for ever
CHECK_DEADLOCK FALSE
