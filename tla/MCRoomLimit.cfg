SPECIFICATION MCSpec
CONSTANTS
  Clients <- Tabs
  Browser <- BrowserOf
  Server = 0
  JoinTimes <- Clocks
  Limit = 2
  MaxDrops = 1
INVARIANTS YieldedWereOutranked YieldLeavesRoomFull
PROPERTY RoomSettlesWithinLimit
ACTION_CONSTRAINT FailureBound
CHECK_DEADLOCK FALSE
