SPECIFICATION Spec
CONSTANTS
  Users = {u1}
  Rooms = {r1, r2}
  Conns = {c1}
  TokenTTL = 1
  RequestTime = 1
  ConnTimeout = 1
  CloseGrace = 1
  MaxTime = 5
  MaxChanges = 1
SYMMETRY RoomSymmetry
INVARIANTS RevocationReachesRooms SwitchReachesConnections
CHECK_DEADLOCK FALSE
