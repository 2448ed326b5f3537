SPECIFICATION Spec
CONSTANTS
  Rooms = {r1, r2}
  Grants = {"valid"}
  Reopens = {"none", "valid"}
  MaxBacklog = 2
  MaxQueue = 2
  MaxRoomNameBytes = 2
  MaxGrantBytes = 3
  NameBytes <- MCNameBytes
  GrantBytes <- MCGrantBytes
  PayloadBytes <- MCPayloadBytes
INVARIANTS
  RegisteredRoomsHaveTransport
  UnusedTransportIsClosing
  NoDataAfterUnsubscribe
  MessagesSurviveTheWire
PROPERTIES
  RoomsCloseAlone
  ClosingReachesEveryRoom
