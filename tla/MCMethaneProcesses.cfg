SPECIFICATION ProcFairSpec
CONSTANTS
  MaxCarbon = 2
  MaxHydrogen = 4
  Carbon <- MCCarbon
  Hydrogen <- MCHydrogen
  Valence = 2
  ATOM_COUNT = 4
  ForkMayFail = TRUE
  MaxExecFailures = 2
INVARIANTS
  SoundWhileSemaphoresExist
  RemovedOnlyWhenBonded
  StuckOnlyByFailure
PROPERTIES
  EverybodyEnds
\* all processes end
CHECK_DEADLOCK FALSE
