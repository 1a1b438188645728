SPECIFICATION FairSpec
CONSTANTS
  Carbon = {c1, c2}
  Hydrogen = {h1, h2, h3, h4, h5}
  Valence = 2
INVARIANTS
  TypeOK
  MutualExclusion
  TokensMatchWaiters
  NoMissedMolecule
  WholeMolecules
PROPERTIES
  ImplementsMethane
  AllBonded
\* surplus atoms sleep for good
CHECK_DEADLOCK FALSE
