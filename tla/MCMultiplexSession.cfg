SPECIFICATION Spec
CONSTANTS
  Rooms = {r1, r2}
  Grants = {"valid", "foreign", "unverifiable"}
  MaxBacklog = 1
  MaxQueue = 2
INVARIANTS
  TypeOK
  GaugeCountsRooms
  NoLeakedDocument
  AcknowledgedRoomsAreKnown
  StrikesEndTheConnection
  NoDataAfterRoomClosed
PROPERTIES
  RoomsLeaveForACause
  ImplementsRoomService
CHECK_DEADLOCK FALSE
