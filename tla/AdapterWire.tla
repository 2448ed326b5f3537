---------------------------- MODULE AdapterWire -----------------------------
(***************************************************************************)
(* The adapter's queues as the bytes they travel as: what encodeMessage is *)
(* given for each message of SharedSocket, and what the other end reads.   *)
(***************************************************************************)
EXTENDS SharedSocket, ProtocolCodec

CONSTANTS
  NameBytes,     \* NameBytes[r]: the name of room r
  GrantBytes,    \* GrantBytes[g]: a grant of kind g
  PayloadBytes   \* one payload for all

\* encodeMessage throws on a name or a grant that is empty or too long, and on
\* an empty payload.
ASSUME BytesAssumption ==
  /\ \A r \in Rooms : NameBytes[r] \in Text /\ Len(NameBytes[r]) \in 1 .. MaxRoomNameBytes
  /\ \A g \in GrantKinds : GrantBytes[g] \in Text /\ Len(GrantBytes[g]) \in 1 .. MaxGrantBytes
  /\ PayloadBytes \in Bytes /\ PayloadBytes # <<>>

Fields(m) ==
  CASE m.type = "subscribe" ->
         [type |-> m.type, room |-> NameBytes[m.room], grant |-> GrantBytes[m.grant]]
    [] m.type = "data" ->
         [type |-> m.type, room |-> NameBytes[m.room], payload |-> PayloadBytes]
    [] m.type = "room_closed" ->
         [type |-> m.type, room |-> NameBytes[m.room], code |-> m.code]
    [] OTHER -> [type |-> m.type, room |-> NameBytes[m.room]]

Messages == ClientMessages \cup (AnyServerMessage \ ({Malformed} \cup CloseFrames))

\* The messages whose bytes decode to themselves and to nothing else.
Readable == {m \in Messages : RoundTrips(Fields(m)) /\ FramesItself(Fields(m))}

\* Every message on its way, in either direction, survives the wire: the other
\* end decodes exactly it, and nothing else can be cut from or added to its
\* frame that decodes, but for the length of a payload.  A close frame is no
\* message, and what is malformed was not written by encodeMessage.
MessagesSurviveTheWire ==
  /\ Range(toServer) \subseteq Readable \cup CloseFrames
  /\ Range(toClient) \subseteq Readable \cup CloseFrames \cup {Malformed}
=============================================================================
