SPECIFICATION DisplayFairSpec
CONSTANTS
  Client = {c1, c2}
  Id = {1, 2}
  HostIds <- SharedOrNot
  Message <- MCMessage
  NUM_PUTS = 2
  NUM_GETS = 2
  MSG_LIMIT = 4
  MAX_CLIENTS = 3
  MaxResends = 1
  MayLose = TRUE
  FortuneMayFail = TRUE
INVARIANTS
  AcknowledgedAreStored
  FirstCopiesInOrder
  RoomTakenByCopies
  ToldOfEachMessage
  EveryGetSucceeds
PROPERTIES
  EverybodyStops
CHECK_DEADLOCK FALSE
