------------------------- MODULE MultiplexProtocol -------------------------
(***************************************************************************)
(* The vocabulary the two ends of a multiplex connection share: the five   *)
(* message types of vip-rtc-multiplex-v1, the WebSocket close frame that   *)
(* travels in the same byte stream, and the close codes the code uses.     *)
(* Payloads and grants are data: a payload carries nothing the properties  *)
(* tell apart, and a grant is known only by what the server's checks can   *)
(* find out about it.                                                      *)
(***************************************************************************)
EXTENDS Integers, Sequences, FiniteSets

CONSTANTS
  Rooms,      \* room names: the routing key of every message
  Grants,     \* kinds of grant the peer presents, a subset of GrantKinds
  MaxBacklog, \* bound on the messages in flight to the server
  MaxQueue    \* bound on the messages in flight to the client

(***************************************************************************)
(* valid: signed, of this room and of the identity that opened the         *)
(* connection.  foreign: signed, but of another room, user, blog or        *)
(* client.  unverifiable: not a grant the server's key can verify.         *)
(***************************************************************************)
GrantKinds == {"valid", "foreign", "unverifiable"}

ASSUME RoomsAssumption == IsFiniteSet(Rooms)
ASSUME GrantsAssumption == Grants \subseteq GrantKinds

RoomRejected     == 4004   \* ROOM_REJECTED_CLOSE_CODE
RoomInterrupted  == 4005   \* ROOM_INTERRUPTED_CLOSE_CODE
TimedOut         == 4001   \* CONNECTION_TIMEOUT_CLOSE.code
ConnectionLimit  == 4002
CollaboratorLimit == 4003
ProtocolFailure  == 4006   \* MULTIPLEX_PROTOCOL_FAILURE_CLOSE_CODE
ProtocolError    == 1002
PolicyViolation  == 1008
SendFailure      == 1011
NormalClosure    == 1000

Subscribe(r, g)     == [type |-> "subscribe", room |-> r, grant |-> g]
Unsubscribe(r)      == [type |-> "unsubscribe", room |-> r]
Data(r)             == [type |-> "data", room |-> r]
Subscribed(r)       == [type |-> "subscribed", room |-> r]
RoomClosed(r, code) == [type |-> "room_closed", room |-> r, code |-> code]
Close(code)         == [type |-> "close", code |-> code]

\* Bytes decodeMessage refuses, or a text frame.
Malformed == [type |-> "malformed"]

ClientMessages ==
  {Subscribe(r, g) : r \in Rooms, g \in Grants}
    \cup {Unsubscribe(r) : r \in Rooms} \cup {Data(r) : r \in Rooms}

ServerMessages ==
  {Subscribed(r) : r \in Rooms} \cup {Data(r) : r \in Rooms}
    \cup {RoomClosed(r, code) : r \in Rooms, code \in {RoomRejected, RoomInterrupted}}

CloseCodes ==
  {TimedOut, ConnectionLimit, CollaboratorLimit, ProtocolFailure, ProtocolError,
   PolicyViolation, SendFailure, NormalClosure}

CloseFrames == {Close(code) : code \in CloseCodes}
=============================================================================
