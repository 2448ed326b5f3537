SPECIFICATION MultiplexSpec
CONSTANTS
  Rooms = {r1, r2}
  Grants = {"valid", "unverifiable"}
  Reopens = {"none"}
  MaxBacklog = 1
  MaxQueue = 1
INVARIANTS
  HonestClientIsNotExpelled
  OpenRoomIsServed
  NoForgottenSubscription
PROPERTY
  ConnectingRoomIsAnswered
