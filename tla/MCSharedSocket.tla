-------------------------- MODULE MCSharedSocket ---------------------------
(***************************************************************************)
(* One client adapter against a server that may send any message, and the  *)
(* messages between them as the bytes they travel as.  The limits on the   *)
(* lengths are made small, so that a room name and a grant are as long as  *)
(* they may be.                                                            *)
(***************************************************************************)
EXTENDS AdapterWire

\* The first room has a name of one byte, the others of two.
MCNameBytes == [r \in Rooms |-> IF r = CHOOSE q \in Rooms : TRUE THEN <<97>> ELSE <<97, 1>>]

MCGrantBytes == [g \in GrantKinds |-> <<1, 0, 98>>]

\* A payload that could be read as a message.
MCPayloadBytes == <<1, 3, 1, 97>>

\* Numbers at the ends of what a byte more can say.
Boundaries == {0, 1, 127, 128, 16383, 16384, 2097151, 2097152, 268435455, 268435456}

ASSUME VarUintsRoundTrip ==
  \A n \in Boundaries : ReadVarUint(VarUint(n)) = Read(n, <<>>)

\* Every frame of up to six of these bytes is refused or is, up to how its
\* numbers are written, what encodeMessage writes for what it decodes to.
ShortFrames == UNION {[1 .. n -> {0, 1, 2, 3, 4, 31, 160}] : n \in 0 .. 6}

ASSUME FramesDecodeToEncodable ==
  \A frame \in ShortFrames :
    Decode(frame).ok => RoundTrips(Decode(frame).message)
=============================================================================
