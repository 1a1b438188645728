SPECIFICATION ThreadsFairSpec
CONSTANTS
  MaxCarbon = 2
  MaxHydrogen = 5
  Carbon <- MCCarbon
  Hydrogen <- MCHydrogen
  Valence = 2
  ATOM_COUNT = 5
  CreateMayFail = TRUE
INVARIANTS
  NoUseAfterDestroy
  HangsOnSurplusOnly
PROPERTIES
  MainReturns
\* the process ends, or hangs on a surplus hydrogen
CHECK_DEADLOCK FALSE
