SPECIFICATION ServerSpec
CONSTANTS
  Id = {1, 2, 3}
  Message = {m1, m2}
  MSG_LIMIT = 4
  MAX_CLIENTS = 3
INVARIANTS
  ServerTypeOK
  OneSlotEach
  NothingSkipped
PROPERTIES
  ImplementsBoard
