SPECIFICATION DisplaySpec
CONSTANTS
  Client = {c1, c2, c3}
  Id = {0, 1, 2}
  HostIds <- NoCollision
  Message <- MCMessage
  NUM_PUTS = 1
  NUM_GETS = 2
  MSG_LIMIT = 3
  MAX_CLIENTS = 3
  MaxResends = 0
  MayLose = FALSE
  FortuneMayFail = FALSE
INVARIANTS
  OwnCursor
CHECK_DEADLOCK FALSE
