---------------------------- MODULE ProtocolCodec ----------------------------
(***************************************************************************)
(* The bytes of vip-rtc-multiplex-v1: what encodeMessage writes for each   *)
(* of the five messages, and what decodeMessage reads out of any bytes.    *)
(* A string is the sequence of its bytes; beyond ASCII, UTF-8 is left out. *)
(* What is refused is refused alike: the reasons are only logged.          *)
(***************************************************************************)
EXTENDS Integers, Sequences, Functions

CONSTANTS
  MaxRoomNameBytes,
  MaxGrantBytes

\* What a digit of a varint is worth; the lengths there are take three digits.
Weight == <<1, 128, 16384, 2097152, 268435456>>

ASSUME LengthsAssumption ==
  /\ MaxRoomNameBytes \in Nat /\ MaxRoomNameBytes < Weight[4]
  /\ MaxGrantBytes \in Nat /\ MaxGrantBytes < Weight[4]

\* Bytes, and those that are a string.
Byte == 0 .. 255
Bytes == Seq(Byte)
Text == Seq(0 .. 127)

\* What encodeMessage takes and decodeMessage returns.
ProtocolMessage ==
  [type : {"subscribe"}, room : Text, grant : Text]
    \cup [type : {"subscribed", "unsubscribe"}, room : Text]
    \cup [type : {"data"}, room : Text, payload : Bytes]
    \cup [type : {"room_closed"}, room : Text, code : Nat]

ProtocolVersion == 1
MinRoomCloseCode == 4000
MaxRoomCloseCode == 4999

WireId == [subscribe |-> 0, subscribed |-> 1, data |-> 2, unsubscribe |-> 3, room_closed |-> 4]
TypeOfWireId(id) == CHOOSE type \in DOMAIN WireId : WireId[type] = id

-----------------------------------------------------------------------------
\* encoding.writeVarUint: seven bits a byte, the lowest first; every byte but
\* the last has its top bit set.
VarUintLength(n) ==
  CHOOSE k \in 1 .. 5 : (k = 5 \/ n < Weight[k + 1]) /\ (k = 1 \/ n >= Weight[k])

VarUint(n) ==
  [i \in 1 .. VarUintLength(n) |->
     ((n \div Weight[i]) % 128) + (IF i < VarUintLength(n) THEN 128 ELSE 0)]

String(s) == VarUint(Len(s)) \o s

\* encodeMessage throws on anything else.
Encodable(m) ==
  /\ Len(m.room) \in 1 .. MaxRoomNameBytes
  /\ m.type = "subscribe" => Len(m.grant) \in 1 .. MaxGrantBytes
  /\ m.type = "data" => m.payload # <<>>
  /\ m.type = "room_closed" => m.code \in MinRoomCloseCode .. MaxRoomCloseCode

\* The fields after the room.
EncodeFields(m) ==
  CASE m.type = "subscribe"   -> String(m.grant)
    [] m.type = "data"        -> m.payload
    [] m.type = "room_closed" -> VarUint(m.code)
    [] OTHER                  -> <<>>

Encode(m) ==
  VarUint(ProtocolVersion) \o VarUint(WireId[m.type]) \o String(m.room) \o EncodeFields(m)

-----------------------------------------------------------------------------
\* What a read of the Reader returns: it throws, or a value and the bytes left.
Refused == [ok |-> FALSE]
Read(value, rest) == [ok |-> TRUE, value |-> value, rest |-> rest]

\* The next read, if this one did not throw.
Then(read, Continue(_, _)) == IF read.ok THEN Continue(read.value, read.rest) ELSE Refused

Drop(b, n) == SubSeq(b, n + 1, Len(b))

\* Where a number may end: its first byte without the top bit, among the first
\* five, the fifth of which has room for four bits.
VarUintEnds(b) ==
  {k \in 1 .. 5 : /\ k <= Len(b) /\ b[k] < 128
                  /\ \A j \in 1 .. k - 1 : b[j] >= 128
                  /\ k = 5 => b[k] <= 15}

\* What the j-th byte adds to a number that ends at the byte `last'.
Digit(b, j, last) == IF j <= last THEN (b[j] % 128) * Weight[j] ELSE 0

VarUintValue(b, last) ==
  Digit(b, 1, last) + Digit(b, 2, last) + Digit(b, 3, last) + Digit(b, 4, last) + Digit(b, 5, last)

\* readVarUint
ReadVarUint(b) ==
  IF VarUintEnds(b) = {} THEN Refused
  ELSE LET last == CHOOSE k \in VarUintEnds(b) : TRUE
       IN Read(VarUintValue(b, last), Drop(b, last))

\* readString
ReadString(b, maxBytes) ==
  Then(ReadVarUint(b), LAMBDA length, rest :
    IF length > maxBytes \/ length > Len(rest) \/ \E i \in 1 .. length : rest[i] >= 128
    THEN Refused
    ELSE Read(SubSeq(rest, 1, length), Drop(rest, length)))

\* Mutant: nobody looks at what follows the last field.
DoneUnchecked(m, rest) == [ok |-> TRUE, message |-> m]

\* assertDone, and the message.
Done(m, rest) == IF rest = <<>> THEN [ok |-> TRUE, message |-> m] ELSE Refused

\* The fields after the room.
DecodeFields(type, room, rest) ==
  CASE type = "subscribe" ->
         Then(ReadString(rest, MaxGrantBytes), LAMBDA grant, tail :
           IF grant = <<>> THEN Refused
           ELSE Done([type |-> type, room |-> room, grant |-> grant], tail))
    [] type = "data" ->
         IF rest = <<>> THEN Refused
         ELSE Done([type |-> type, room |-> room, payload |-> rest], <<>>)
    [] type = "room_closed" ->
         Then(ReadVarUint(rest), LAMBDA code, tail :
           IF code \notin MinRoomCloseCode .. MaxRoomCloseCode THEN Refused
           ELSE Done([type |-> type, room |-> room, code |-> code], tail))
    [] OTHER -> Done([type |-> type, room |-> room], rest)

\* decodeMessage: the version, then a type it knows, then the room.
Decode(b) ==
  Then(ReadVarUint(b), LAMBDA version, afterVersion :
    IF version # ProtocolVersion THEN Refused
    ELSE Then(ReadVarUint(afterVersion), LAMBDA id, afterType :
      IF id \notin Range(WireId) THEN Refused
      ELSE Then(ReadString(afterType, MaxRoomNameBytes), LAMBDA room, rest :
        IF room = <<>> THEN Refused ELSE DecodeFields(TypeOfWireId(id), room, rest))))

-----------------------------------------------------------------------------
\* The receiver reads what the sender wrote.
RoundTrips(m) == Encodable(m) /\ Decode(Encode(m)) = [ok |-> TRUE, message |-> m]

\* A message cut short is no message, and neither is one with a byte more:
\* only a payload, which ends where the frame does, is longer or shorter.
FramesItself(m) ==
  LET bytes == Encode(m)
      frames == {SubSeq(bytes, 1, n) : n \in 0 .. Len(bytes) - 1}
                  \cup {Append(bytes, b) : b \in Byte}
  IN \A frame \in frames :
       Decode(frame).ok => m.type = "data" /\ Decode(frame).message.room = m.room
=============================================================================
