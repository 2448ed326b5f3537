---------------------- MODULE MultiplexSessionProofs -----------------------
(***************************************************************************)
(* What MultiplexSession guarantees for every finite set of rooms, every   *)
(* kind of grant and every bound on the queues.                            *)
(***************************************************************************)
EXTENDS MultiplexSession, FiniteSetTheorems, TLAPS

-----------------------------------------------------------------------------
(***************************************************************************)
(* Messages and queues.                                                    *)
(***************************************************************************)
ClientBound == ServerMessages \cup CloseFrames

\* What may be in flight to the server: in Multiplex the close frame of an
\* adapter that answers one of the server's.
Incoming == PeerMessages \cup CloseFrames

\* The routing key of what the peer may send is a room name.
LEMMA RoomOfMessage ==
  ASSUME NEW m \in Incoming, m.type \in {"subscribe", "unsubscribe", "data"}
  PROVE  m.room \in Rooms
BY DEF Incoming, CloseFrames, PeerMessages, ClientMessages, ServerMessages, Malformed, Close,
       Subscribe, Unsubscribe, Data, Subscribed, RoomClosed

\* The session's own messages are of the kinds the wire carries.
LEMMA MessagesToClient ==
  ASSUME NEW r \in Rooms
  PROVE  /\ Subscribed(r) \in ClientBound
         /\ Data(r) \in ClientBound
         /\ RoomClosed(r, RoomRejected) \in ClientBound
         /\ RoomClosed(r, RoomInterrupted) \in ClientBound
BY DEF ClientBound, ServerMessages

\* The close codes the session uses are among the protocol's.
LEMMA CloseFramesUsed ==
  /\ Close(TimedOut) \in CloseFrames
  /\ Close(ProtocolError) \in CloseFrames
  /\ Close(PolicyViolation) \in CloseFrames
  /\ Close(SendFailure) \in CloseFrames
  /\ Close(NormalClosure) \in CloseFrames
BY DEF CloseFrames, CloseCodes

\* The peer's close frame carries a code of CloseCodes.
LEMMA CodeOfClose ==
  ASSUME NEW m \in Incoming, m.type = "close"
  PROVE  Close(m.code) \in CloseFrames
BY CloseFramesUsed
   DEF Incoming, CloseFrames, PeerMessages, ClientMessages, ServerMessages, Malformed, Close,
       Subscribe, Unsubscribe, Data, Subscribed, RoomClosed

\* Taking a message from a queue keeps the queue well-typed.
LEMMA HeadAndTail ==
  ASSUME NEW S, NEW q \in Seq(S), q # <<>>
  PROVE  /\ Head(q) \in S
         /\ Tail(q) \in Seq(S)
OBVIOUS

\* So does adding one.
LEMMA Appended ==
  ASSUME NEW S, NEW q \in Seq(S), NEW m \in S
  PROVE  /\ Append(q, m) \in Seq(S)
         /\ q \o <<m>> \in Seq(S)
OBVIOUS

-----------------------------------------------------------------------------
(***************************************************************************)
(* What a step may do to the rooms: nothing, empty the map, let one room   *)
(* join, let one room leave, or let one join in a send that fails.         *)
(***************************************************************************)
Joins(r) ==
  /\ rooms' = rooms \cup {r}
  /\ attached' = attached \cup {r}
  /\ closedRooms' = closedRooms \ {r}
  /\ activeRooms' = activeRooms + 1

FailsToJoin(r) == CleanupRooms(rooms \cup {r}, closedRooms \ {r}, activeRooms + 1)

RoomStep ==
  \/ UNCHANGED roomVars /\ peakRooms' = peakRooms
  \/ CleanupRooms(rooms, closedRooms, activeRooms) /\ peakRooms' = peakRooms
  \/ \E r \in Rooms \ rooms :
       /\ phys = "open"
       /\ peakRooms' = IF Cardinality(rooms) + 1 > peakRooms
                         THEN Cardinality(rooms) + 1 ELSE peakRooms
       /\ Joins(r) \/ FailsToJoin(r)
  \/ \E r \in rooms : LeaveRoom(r) /\ peakRooms' = peakRooms

QueuesOK == toServer \in Seq(Incoming) /\ toClient \in Seq(ClientBound)

\* A reply leaves the rooms alone, or its send fails and empties the map.
LEMMA ReplyRooms ==
  ASSUME NEW m, Reply(m)
  PROVE  UNCHANGED roomVars \/ CleanupRooms(rooms, closedRooms, activeRooms)
BY DEF Reply, SendFails

\* So does the rejection of an authorization bypass.
LEMMA BypassRooms ==
  ASSUME NEW r, RejectAuthorizationBypass(r)
  PROVE  UNCHANGED roomVars \/ CleanupRooms(rooms, closedRooms, activeRooms)
BY ReplyRooms DEF RejectAuthorizationBypass, ClosePhysical, SendFails

\* Every step is one of the room steps.
LEMMA NextRoomStep ==
  ASSUME QueuesOK, rooms \subseteq Rooms, attached = rooms, [Next]_vars
  PROVE  RoomStep
<1>1. CASE ReceiveWhenNotOpen
  BY <1>1 DEF ReceiveWhenNotOpen, RoomStep
<1>2. CASE ReceiveInvalid
  BY <1>2 DEF ReceiveInvalid, ClosePhysical, RoomStep
<1>3. CASE ReceiveSubscribe
  <2> DEFINE r == Head(toServer).room
             grant == Head(toServer).grant
  <2>1. r \in Rooms
    BY <1>3, HeadAndTail, RoomOfMessage DEF ReceiveSubscribe, Receive, QueuesOK
  <2>2. CASE Reply(Subscribed(r)) /\ peakRooms' = peakRooms
    BY <2>2, ReplyRooms DEF RoomStep
  <2>3. CASE Reply(RoomClosed(r, RoomRejected)) /\ peakRooms' = peakRooms
    BY <2>3, ReplyRooms DEF RoomStep
  <2>4. CASE RejectAuthorizationBypass(r) /\ peakRooms' = peakRooms
    BY <2>4, BypassRooms DEF RoomStep
  <2>5. CASE Reply(RoomClosed(r, RoomInterrupted)) /\ peakRooms' = peakRooms
    BY <2>5, ReplyRooms DEF RoomStep
  <2>6. CASE r \notin rooms /\ AddRoom(r)
    BY <2>1, <2>6, <1>3 DEF AddRoom, Joins, FailsToJoin, SendFails, Send, RoomStep, ReceiveSubscribe
  <2> QED
    BY <1>3, <2>2, <2>3, <2>4, <2>5, <2>6 DEF ReceiveSubscribe, SubscribeRoom
<1>4. CASE ReceiveData
  BY <1>4, BypassRooms DEF ReceiveData, RoomStep, roomVars
<1>5. CASE ReceiveUnsubscribe
  BY <1>5 DEF ReceiveUnsubscribe, RoomStep
<1>6. CASE ReceiveClose
  BY <1>6 DEF ReceiveClose, RoomStep
<1>7. ASSUME NEW r \in Rooms, RoomSendsData(r)
      PROVE  RoomStep
  BY <1>7 DEF RoomSendsData, SendFails, RoomStep
<1>8. ASSUME NEW r \in Rooms, RoomClosesItself(r)
      PROVE  RoomStep
  BY <1>8 DEF RoomClosesItself, SendFails, RoomStep
<1>9. CASE SendsSettle
  BY <1>9 DEF SendsSettle, RoomStep
<1>10. CASE SendFailsLater
  BY <1>10 DEF SendFailsLater, RoomStep
<1>11. CASE ConnectionTimeout
  BY <1>11 DEF ConnectionTimeout, RoomStep
<1>12. CASE PhysicalClosed
  BY <1>12 DEF PhysicalClosed, RoomStep
<1>13. CASE HeartbeatTick
  BY <1>13 DEF HeartbeatTick, TickNotOpen, TickEmpty, TickUnanswered, TickPing, Terminate,
               ClosePhysical, RoomStep
<1>14. CASE Pong
  BY <1>14 DEF Pong, RoomStep
<1>15. CASE Peer
  BY <1>15 DEF Peer, PeerSends, PeerReceives, PeerVanishes, serverVars, RoomStep
<1>16. CASE UNCHANGED vars
  BY <1>16 DEF vars, serverVars, RoomStep
<1> QED
  BY <1>1, <1>2, <1>3, <1>4, <1>5, <1>6, <1>7, <1>8, <1>9, <1>10, <1>11, <1>12, <1>13, <1>14,
     <1>15, <1>16 DEF Next, ServerNext, ReceiveMessage

-----------------------------------------------------------------------------
(***************************************************************************)
(* The rooms: RoomInv is inductive, because every RoomStep moves the map,  *)
(* the attached documents and the gauge together.                          *)
(***************************************************************************)
RoomInv ==
  /\ rooms \subseteq Rooms
  /\ closedRooms \subseteq Rooms
  /\ attached = rooms
  /\ rooms \cap closedRooms = {}
  /\ activeRooms = Cardinality(rooms)
  /\ peakRooms \in Nat
  /\ Cardinality(rooms) <= peakRooms

\* Sets of rooms are finite, and counting them behaves as expected.
LEMMA RoomCount ==
  ASSUME NEW S \in SUBSET Rooms
  PROVE  /\ IsFiniteSet(S)
         /\ Cardinality(S) \in Nat
         /\ \A r \in Rooms \ S : Cardinality(S \cup {r}) = Cardinality(S) + 1
         /\ \A r \in S : Cardinality(S \ {r}) = Cardinality(S) - 1
<1>1. IsFiniteSet(S)
  BY RoomsAssumption, FS_Subset
<1>2. Cardinality(S) \in Nat
  BY <1>1, FS_CardinalityType
<1>3. \A r \in Rooms \ S : Cardinality(S \cup {r}) = Cardinality(S) + 1
  BY <1>1, FS_AddElement
<1>4. \A r \in S : Cardinality(S \ {r}) = Cardinality(S) - 1
  BY <1>1, FS_RemoveElement
<1> QED
  BY <1>1, <1>2, <1>3, <1>4

\* A room step keeps map, documents and gauge in agreement, and forgets no
\* room it knew.
LEMMA RoomStepPreserves ==
  ASSUME RoomInv, RoomStep
  PROVE  RoomInv' /\ rooms \cup closedRooms \subseteq rooms' \cup closedRooms'
<1> USE DEF RoomInv
<1>0. Cardinality({}) = 0
  BY FS_EmptySet
<1>1. Cardinality(rooms) \in Nat
  BY RoomCount
<1>2. CASE UNCHANGED roomVars /\ peakRooms' = peakRooms
  BY <1>2 DEF roomVars
<1>3. CASE CleanupRooms(rooms, closedRooms, activeRooms) /\ peakRooms' = peakRooms
  BY <1>0, <1>1, <1>3 DEF CleanupRooms
<1>4. ASSUME NEW r \in Rooms \ rooms,
             peakRooms' = IF Cardinality(rooms) + 1 > peakRooms
                            THEN Cardinality(rooms) + 1 ELSE peakRooms,
             Joins(r) \/ FailsToJoin(r)
      PROVE  RoomInv' /\ rooms \cup closedRooms \subseteq rooms' \cup closedRooms'
  <2>1. Cardinality(rooms \cup {r}) = Cardinality(rooms) + 1
    BY RoomCount
  <2>2. peakRooms' \in Nat /\ Cardinality(rooms) + 1 <= peakRooms'
    BY <1>1, <1>4
  <2>3. CASE Joins(r)
    BY <1>1, <2>1, <2>2, <2>3 DEF Joins
  <2>4. CASE FailsToJoin(r)
    BY <1>0, <1>1, <2>1, <2>2, <2>4 DEF FailsToJoin, CleanupRooms
  <2> QED
    BY <1>4, <2>3, <2>4
<1>5. ASSUME NEW r \in rooms, LeaveRoom(r), peakRooms' = peakRooms
      PROVE  RoomInv' /\ rooms \cup closedRooms \subseteq rooms' \cup closedRooms'
  <2>1. Cardinality(rooms \ {r}) = Cardinality(rooms) - 1
    BY RoomCount
  <2> QED
    BY <1>1, <1>5, <2>1 DEF LeaveRoom
<1> QED
  BY <1>2, <1>3, <1>4, <1>5 DEF RoomStep

-----------------------------------------------------------------------------
(***************************************************************************)
(* The queue to the client: what a step may append to it.                  *)
(***************************************************************************)
\* Messages to the client of a session that knows the rooms R: a room it
\* acknowledges or sends data of is one of them.
Known(R) == {m \in ClientBound : m.type \in {"subscribed", "data"} => m.room \in R}

KnownMessages == Known(rooms \cup closedRooms)

QueueStep ==
  \/ toClient' = toClient
  \/ toClient' = <<>>
  \/ toClient # <<>> /\ toClient' = Tail(toClient)
  \/ \E m \in KnownMessages' : toClient' = Append(toClient, m)
  \/ \E m, n \in KnownMessages' : toClient' = Append(Append(toClient, m), n)

\* A queue step leaves only known messages in flight.
LEMMA QueueStepPreserves ==
  ASSUME toClient \in Seq(KnownMessages), QueueStep,
         rooms \cup closedRooms \subseteq rooms' \cup closedRooms'
  PROVE  toClient' \in Seq(KnownMessages')
<1>1. KnownMessages \subseteq KnownMessages'
  BY DEF KnownMessages, Known
<1>2. toClient \in Seq(KnownMessages')
  BY <1>1
<1>3. CASE toClient' = <<>>
  BY <1>3
<1>4. CASE toClient # <<>> /\ toClient' = Tail(toClient)
  BY <1>2, <1>4, HeadAndTail
<1>5. ASSUME NEW m \in KnownMessages', toClient' = Append(toClient, m)
      PROVE  toClient' \in Seq(KnownMessages')
  BY <1>2, <1>5, Appended
<1>6. ASSUME NEW m \in KnownMessages', NEW n \in KnownMessages',
             toClient' = Append(Append(toClient, m), n)
      PROVE  toClient' \in Seq(KnownMessages')
  <2>1. Append(toClient, m) \in Seq(KnownMessages')
    BY <1>2, Appended
  <2> QED
    BY <1>6, <2>1, Appended
<1> QED
  BY <1>2, <1>3, <1>4, <1>5, <1>6 DEF QueueStep

\* A close frame and a room_closed may always be sent, ...
LEMMA AlwaysKnown ==
  ASSUME NEW R
  PROVE  /\ \A m \in CloseFrames : m \in Known(R)
         /\ \A r \in Rooms : /\ RoomClosed(r, RoomRejected) \in Known(R)
                             /\ RoomClosed(r, RoomInterrupted) \in Known(R)
BY MessagesToClient DEF Known, ClientBound, CloseFrames, Close, RoomClosed

\* ... the messages of a known room too.
LEMMA KnownRoomMessages ==
  ASSUME NEW R, NEW r \in Rooms, r \in R
  PROVE  Subscribed(r) \in Known(R) /\ Data(r) \in Known(R)
BY MessagesToClient DEF Known, Subscribed, Data

\* closePhysical's frame, and what may leave before it.
LEMMA CloseQueueStep ==
  ASSUME NEW code, Close(code) \in CloseFrames, ClosePhysicalSocket(toClient, code)
  PROVE  QueueStep
<1>1. Close(code) \in KnownMessages'
  BY AlwaysKnown DEF KnownMessages
<1>2. toClient' = toClient \/ toClient' = toClient \o <<Close(code)>>
  BY DEF ClosePhysicalSocket
<1> QED
  BY <1>1, <1>2 DEF QueueStep

\* A close whose frame follows one message more.
LEMMA CloseQueueStepAfter ==
  ASSUME NEW code, Close(code) \in CloseFrames, NEW m \in KnownMessages',
         ClosePhysicalSocket(Append(toClient, m), code)
  PROVE  QueueStep
<1>1. Close(code) \in KnownMessages'
  BY AlwaysKnown DEF KnownMessages
<1>2. \/ toClient' = Append(toClient, m)
      \/ toClient' = Append(toClient, m) \o <<Close(code)>>
  BY DEF ClosePhysicalSocket
<1>3. toClient' = Append(toClient, m) \o <<Close(code)>>
        => toClient' = Append(Append(toClient, m), Close(code))
  OBVIOUS
<1> QED
  BY <1>1, <1>2, <1>3 DEF QueueStep

\* A failing send that nothing left before.
LEMMA SendFailsQueueStep ==
  ASSUME NEW open, NEW closed, NEW active, SendFails(toClient, open, closed, active)
  PROVE  QueueStep
BY CloseQueueStep, CloseFramesUsed DEF SendFails

\* A reply is appended, or its send fails.
LEMMA ReplyQueueStep ==
  ASSUME NEW m, m \in KnownMessages', Reply(m)
  PROVE  QueueStep
<1>1. CASE Send(<<m>>)
  <2>1. toClient' = Append(toClient, m)
    BY <1>1 DEF Send
  <2> QED
    BY <2>1 DEF QueueStep
<1> QED
  BY <1>1, SendFailsQueueStep DEF Reply

\* The rejection of a bypass: room_closed, and with the last strike the close.
LEMMA BypassQueueStep ==
  ASSUME NEW r \in Rooms, RejectAuthorizationBypass(r)
  PROVE  QueueStep
<1>1. RoomClosed(r, RoomRejected) \in KnownMessages'
  BY AlwaysKnown DEF KnownMessages
<1>2. CASE Reply(RoomClosed(r, RoomRejected))
  BY <1>1, <1>2, ReplyQueueStep
<1>3. CASE ClosePhysical(Append(toClient, RoomClosed(r, RoomRejected)), PolicyViolation)
  BY <1>1, <1>3, CloseQueueStepAfter, CloseFramesUsed DEF ClosePhysical
<1> QED
  BY <1>2, <1>3, SendFailsQueueStep DEF RejectAuthorizationBypass

\* A join: the acknowledgement and the sync step, or what left before a failure.
LEMMA AddRoomQueueStep ==
  ASSUME NEW r \in Rooms, AddRoom(r)
  PROVE  QueueStep
<1>1. CASE /\ rooms' = rooms \cup {r}
           /\ Send(<<Subscribed(r), Data(r)>>)
  <2>1. Subscribed(r) \in KnownMessages' /\ Data(r) \in KnownMessages'
    BY <1>1, KnownRoomMessages DEF KnownMessages
  <2>2. toClient' = Append(Append(toClient, Subscribed(r)), Data(r))
    BY <1>1 DEF Send
  <2> QED
    BY <2>1, <2>2 DEF QueueStep
<1>2. ASSUME NEW sent \in {toClient, Append(toClient, Subscribed(r))},
             SendFails(sent, rooms \cup {r}, closedRooms \ {r}, activeRooms + 1)
      PROVE  QueueStep
  <2>1. closedRooms' = (closedRooms \ {r}) \cup (rooms \cup {r})
    BY <1>2 DEF SendFails, CleanupRooms
  <2>2. Subscribed(r) \in KnownMessages'
    BY <2>1, KnownRoomMessages DEF KnownMessages
  <2> QED
    BY <1>2, <2>2, CloseQueueStep, CloseQueueStepAfter, CloseFramesUsed DEF SendFails
<1> QED
  BY <1>1, <1>2 DEF AddRoom

\* Every step is one of the queue steps.
LEMMA NextQueueStep ==
  ASSUME QueuesOK, RoomInv, [Next]_vars
  PROVE  QueueStep
<1>1. CASE ReceiveWhenNotOpen
  BY <1>1 DEF ReceiveWhenNotOpen, QueueStep
<1>2. CASE ReceiveInvalid
  BY <1>2, CloseQueueStep, CloseFramesUsed DEF ReceiveInvalid, ClosePhysical
<1>3. CASE ReceiveSubscribe
  <2> DEFINE r == Head(toServer).room
  <2>1. r \in Rooms
    BY <1>3, HeadAndTail, RoomOfMessage DEF ReceiveSubscribe, Receive, QueuesOK
  <2>2. CASE r \in rooms /\ Reply(Subscribed(r))
    <3>1. r \in rooms' \cup closedRooms'
      BY <2>2, ReplyRooms DEF roomVars, CleanupRooms
    <3>2. Subscribed(r) \in KnownMessages'
      BY <2>1, <3>1, KnownRoomMessages DEF KnownMessages
    <3> QED
      BY <2>2, <3>2, ReplyQueueStep
  <2>3. CASE \E code \in {RoomRejected, RoomInterrupted} : Reply(RoomClosed(r, code))
    <3>1. \A code \in {RoomRejected, RoomInterrupted} : RoomClosed(r, code) \in KnownMessages'
      BY <2>1, AlwaysKnown DEF KnownMessages
    <3> QED
      BY <2>3, <3>1, ReplyQueueStep
  <2>4. CASE RejectAuthorizationBypass(r)
    BY <2>1, <2>4, BypassQueueStep
  <2>5. CASE AddRoom(r)
    BY <2>1, <2>5, AddRoomQueueStep
  <2> QED
    BY <1>3, <2>2, <2>3, <2>4, <2>5 DEF ReceiveSubscribe, SubscribeRoom
<1>4. CASE ReceiveData
  <2>1. Head(toServer).room \in Rooms
    BY <1>4, HeadAndTail, RoomOfMessage DEF ReceiveData, Receive, QueuesOK
  <2> QED
    BY <1>4, <2>1, BypassQueueStep DEF ReceiveData, QueueStep
<1>5. CASE ReceiveUnsubscribe
  BY <1>5 DEF ReceiveUnsubscribe, QueueStep
<1>6. CASE ReceiveClose
  <2>1. Close(Head(toServer).code) \in CloseFrames
    BY <1>6, HeadAndTail, CodeOfClose DEF ReceiveClose, Receive, QueuesOK
  <2> QED
    BY <1>6, <2>1, CloseQueueStep DEF ReceiveClose
<1>7. ASSUME NEW r \in Rooms, RoomSendsData(r)
      PROVE  QueueStep
  <2>1. CASE Send(<<Data(r)>>) /\ UNCHANGED roomVars
    <3>1. r \in rooms'
      BY <1>7, <2>1 DEF RoomSendsData, RoomInv, roomVars
    <3>2. Data(r) \in KnownMessages'
      BY <3>1, KnownRoomMessages DEF KnownMessages
    <3>3. toClient' = Append(toClient, Data(r))
      BY <2>1 DEF Send
    <3> QED
      BY <3>2, <3>3 DEF QueueStep
  <2> QED
    BY <1>7, <2>1, SendFailsQueueStep DEF RoomSendsData, QueueStep
<1>8. ASSUME NEW r \in Rooms, RoomClosesItself(r)
      PROVE  QueueStep
  <2>1. CASE Send(<<RoomClosed(r, RoomInterrupted)>>)
    <3>1. RoomClosed(r, RoomInterrupted) \in KnownMessages'
      BY AlwaysKnown DEF KnownMessages
    <3>2. toClient' = Append(toClient, RoomClosed(r, RoomInterrupted))
      BY <2>1 DEF Send
    <3> QED
      BY <3>1, <3>2 DEF QueueStep
  <2> QED
    BY <1>8, <2>1, SendFailsQueueStep DEF RoomClosesItself, QueueStep
<1>9. CASE SendsSettle
  BY <1>9 DEF SendsSettle, QueueStep
<1>10. CASE SendFailsLater
  BY <1>10, CloseQueueStep, CloseFramesUsed DEF SendFailsLater
<1>11. CASE ConnectionTimeout
  BY <1>11, CloseQueueStep, CloseFramesUsed DEF ConnectionTimeout
<1>12. CASE PhysicalClosed
  BY <1>12 DEF PhysicalClosed, QueueStep
<1>13. CASE HeartbeatTick
  <2>1. CASE TickEmpty
    BY <2>1, CloseQueueStep, CloseFramesUsed DEF TickEmpty, ClosePhysical
  <2> QED
    BY <1>13, <2>1 DEF HeartbeatTick, TickNotOpen, TickUnanswered, TickPing, Terminate, QueueStep
<1>14. CASE Pong
  BY <1>14 DEF Pong, QueueStep
<1>15. CASE Peer
  BY <1>15 DEF Peer, PeerSends, PeerReceives, PeerVanishes, QueueStep
<1>16. CASE UNCHANGED vars
  BY <1>16 DEF vars, QueueStep
<1> QED
  BY <1>1, <1>2, <1>3, <1>4, <1>5, <1>6, <1>7, <1>8, <1>9, <1>10, <1>11, <1>12, <1>13, <1>14,
     <1>15, <1>16 DEF Next, ServerNext, ReceiveMessage

-----------------------------------------------------------------------------
(***************************************************************************)
(* Control: the states of the socket, the heartbeat and the strikes.       *)
(***************************************************************************)
ControlTypes ==
  /\ phys \in {"open", "closing", "closed"}
  /\ heartbeat \in {"running", "stopped"}
  /\ pongReceived \in BOOLEAN
  /\ pinged \in BOOLEAN
  /\ unsettled \in BOOLEAN
  /\ link \in {"up", "down"}
  /\ toServer \in Seq(PeerMessages)

Strikes ==
  /\ bypassAttempts \in Nat
  /\ bypassAttempts <= MaxBypassAttempts
  /\ bypassAttempts = MaxBypassAttempts => phys # "open"

ControlInv ==
  /\ ControlTypes
  /\ Strikes
  /\ phys = "closed" => rooms = {}

\* What a step does to the socket and the strikes: a socket that is not open
\* never opens again, its close leaves no room, a strike falls on an open
\* socket and the last one ends it.
ControlStep ==
  /\ phys # "open" => phys' # "open"
  /\ phys' = "closed" => phys = "closed" \/ rooms' = {}
  /\ \/ bypassAttempts' = bypassAttempts
     \/ /\ phys = "open"
        /\ bypassAttempts' = bypassAttempts + 1
        /\ bypassAttempts' >= MaxBypassAttempts => phys' # "open"

\* A send or a close changes only the socket and `unsettled', and never opens
\* or closes the socket for good.
SocketStep ==
  /\ phys' \in {"open", "closing", "closed"}
  /\ phys # "open" => phys' = phys
  /\ phys' = "closed" => phys = "closed"
  /\ unsettled' \in BOOLEAN

\* physical.close leaves a socket that is not open.
LEMMA CloseSocketStep ==
  ASSUME ControlTypes, NEW sent, NEW code, ClosePhysicalSocket(sent, code), unsettled' \in BOOLEAN
  PROVE  SocketStep /\ phys' # "open"
BY DEF ControlTypes, ClosePhysicalSocket, SocketStep

\* handlePhysicalSendError closes the socket.
LEMMA SendFailsSocketStep ==
  ASSUME ControlTypes, NEW sent, NEW open, NEW closed, NEW active,
         SendFails(sent, open, closed, active)
  PROVE  SocketStep /\ phys' # "open"
<1>1. unsettled' \in BOOLEAN
  BY DEF SendFails
<1> QED
  BY <1>1, CloseSocketStep DEF SendFails

\* A reply never opens a socket.
LEMMA ReplySocketStep ==
  ASSUME ControlTypes, NEW m, Reply(m)
  PROVE  SocketStep
<1>1. CASE Send(<<m>>)
  BY <1>1 DEF ControlTypes, Send, SocketStep
<1> QED
  BY <1>1, SendFailsSocketStep DEF Reply

\* A rejected bypass is one strike, and the second ends the connection.
LEMMA BypassStep ==
  ASSUME ControlTypes, bypassAttempts \in Nat, NEW r, RejectAuthorizationBypass(r)
  PROVE  /\ SocketStep
         /\ bypassAttempts' = bypassAttempts + 1
         /\ bypassAttempts' >= MaxBypassAttempts => phys' # "open"
<1>1. CASE /\ bypassAttempts' < MaxBypassAttempts
           /\ Reply(RoomClosed(r, RoomRejected))
  BY <1>1, ReplySocketStep DEF RejectAuthorizationBypass, MaxBypassAttempts
<1>2. CASE /\ ClosePhysical(Append(toClient, RoomClosed(r, RoomRejected)), PolicyViolation)
           /\ unsettled' = TRUE
  BY <1>2, CloseSocketStep DEF RejectAuthorizationBypass, ClosePhysical
<1>3. CASE SendFails(toClient, rooms, closedRooms, activeRooms)
  BY <1>3, SendFailsSocketStep DEF RejectAuthorizationBypass
<1> QED
  BY <1>1, <1>2, <1>3 DEF RejectAuthorizationBypass

\* Every step is a control step and keeps the control state in its types.
LEMMA NextControlStep ==
  ASSUME ControlInv, RoomInv, [Next]_vars
  PROVE  ControlStep /\ ControlTypes'
<1> USE DEF ControlInv
<1> DEFINE Goal == ControlStep /\ ControlTypes'
<1>0. ASSUME SocketStep, UNCHANGED <<bypassAttempts, beatVars, link>>,
             toServer' \in Seq(PeerMessages)
      PROVE  Goal
  BY <1>0 DEF SocketStep, ControlStep, ControlTypes, beatVars
<1>q. ASSUME NEW type, Receive(type)
      PROVE  /\ toServer' \in Seq(PeerMessages)
             /\ Head(toServer) \in PeerMessages
             /\ UNCHANGED <<beatVars, link>>
  BY <1>q, HeadAndTail DEF Receive, ControlTypes
<1>1. CASE ReceiveWhenNotOpen
  BY <1>1, <1>0, <1>q DEF ReceiveWhenNotOpen, SocketStep, ControlTypes
<1>2. CASE ReceiveInvalid
  BY <1>2, <1>0, <1>q, CloseSocketStep DEF ReceiveInvalid, ClosePhysical, ControlTypes
<1>3. CASE ReceiveSubscribe
  <2> DEFINE r == Head(toServer).room
  <2>1. toServer' \in Seq(PeerMessages) /\ UNCHANGED <<beatVars, link>>
    BY <1>3, <1>q DEF ReceiveSubscribe
  <2>2. ASSUME NEW m, Reply(m), bypassAttempts' = bypassAttempts
        PROVE  Goal
    BY <2>1, <2>2, <1>0, ReplySocketStep
  <2>3. CASE RejectAuthorizationBypass(r)
    BY <1>3, <2>1, <2>3, BypassStep
       DEF ReceiveSubscribe, Strikes, SocketStep, ControlStep, ControlTypes, beatVars
  <2>4. CASE AddRoom(r) /\ bypassAttempts' = bypassAttempts
    <3>1. CASE Send(<<Subscribed(r), Data(r)>>)
      BY <3>1, <2>1, <2>4, <1>0 DEF Send, SocketStep, ControlTypes
    <3> QED
      BY <3>1, <2>1, <2>4, <1>0, SendFailsSocketStep DEF AddRoom
  <2> QED
    BY <1>3, <2>2, <2>3, <2>4 DEF ReceiveSubscribe, SubscribeRoom
<1>4. CASE ReceiveData
  <2>1. toServer' \in Seq(PeerMessages) /\ UNCHANGED <<beatVars, link>>
    BY <1>4, <1>q DEF ReceiveData
  <2>2. CASE RejectAuthorizationBypass(Head(toServer).room)
    BY <1>4, <2>1, <2>2, BypassStep
       DEF ReceiveData, Strikes, SocketStep, ControlStep, ControlTypes, beatVars
  <2> QED
    BY <1>4, <2>1, <2>2, <1>0 DEF ReceiveData, SocketStep, ControlTypes
<1>5. CASE ReceiveUnsubscribe
  BY <1>5, <1>0, <1>q DEF ReceiveUnsubscribe, SocketStep, ControlTypes
<1>6. CASE ReceiveClose
  BY <1>6, <1>0, <1>q, CloseSocketStep DEF ReceiveClose, ControlTypes
<1>7. ASSUME NEW r \in Rooms, RoomSendsData(r)
      PROVE  Goal
  <2>1. UNCHANGED <<bypassAttempts, beatVars, toServer, link>>
    BY <1>7 DEF RoomSendsData
  <2>2. CASE SendFails(toClient, rooms, closedRooms, activeRooms)
    BY <2>1, <2>2, <1>0, SendFailsSocketStep DEF ControlTypes
  <2> QED
    BY <1>7, <2>1, <2>2, <1>0 DEF RoomSendsData, Send, SocketStep, ControlTypes
<1>8. ASSUME NEW r \in Rooms, RoomClosesItself(r)
      PROVE  Goal
  <2>1. UNCHANGED <<bypassAttempts, beatVars, toServer, link>>
    BY <1>8 DEF RoomClosesItself
  <2>2. CASE SendFails(toClient, rooms, closedRooms, activeRooms)
    BY <2>1, <2>2, <1>0, SendFailsSocketStep DEF ControlTypes
  <2> QED
    BY <1>8, <2>1, <2>2, <1>0 DEF RoomClosesItself, Send, SocketStep, ControlTypes
<1>9. CASE SendsSettle
  BY <1>9, <1>0 DEF SendsSettle, SocketStep, ControlTypes
<1>10. CASE SendFailsLater
  BY <1>10, <1>0, CloseSocketStep DEF SendFailsLater, ControlTypes
<1>11. CASE ConnectionTimeout
  BY <1>11, <1>0, CloseSocketStep DEF ConnectionTimeout, ControlTypes
<1>12. CASE PhysicalClosed
  <2>1. <<>> \in Seq(PeerMessages)
    OBVIOUS
  <2> QED
    BY <1>12, <2>1 DEF PhysicalClosed, CleanupRooms, ControlStep, ControlTypes
<1>13. CASE HeartbeatTick
  <2>1. CASE TickEmpty
    BY <1>13, <2>1, CloseSocketStep
       DEF HeartbeatTick, TickEmpty, ClosePhysical, SocketStep, ControlStep, ControlTypes
  <2> QED
    BY <1>13, <2>1
       DEF HeartbeatTick, TickNotOpen, TickUnanswered, TickPing, Terminate, ControlStep,
           ControlTypes
<1>14. CASE Pong
  BY <1>14 DEF Pong, ControlStep, ControlTypes
<1>15. CASE Peer
  BY <1>15, HeadAndTail, Appended
     DEF Peer, PeerSends, PeerReceives, PeerVanishes, serverVars, beatVars, ControlStep,
         ControlTypes
<1>16. CASE UNCHANGED vars
  BY <1>16 DEF vars, serverVars, beatVars, ControlStep, ControlTypes
<1> QED
  BY <1>1, <1>2, <1>3, <1>4, <1>5, <1>6, <1>7, <1>8, <1>9, <1>10, <1>11, <1>12, <1>13, <1>14,
     <1>15, <1>16 DEF Next, ServerNext, ReceiveMessage

-----------------------------------------------------------------------------
(***************************************************************************)
(* The inductive invariant and what follows from it.                       *)
(***************************************************************************)
IInv == ControlInv /\ RoomInv /\ toClient \in Seq(KnownMessages)

\* The queues of IInv are those the room and queue lemmas ask for.
LEMMA QueuesOfIInv ==
  ASSUME IInv
  PROVE  QueuesOK
<1>1. KnownMessages \subseteq ClientBound
  BY DEF KnownMessages, Known
<1>2. PeerMessages \subseteq Incoming
  BY DEF Incoming
<1> QED
  BY <1>1, <1>2 DEF IInv, ControlInv, ControlTypes, QueuesOK

\* A session starts in IInv.
LEMMA InitIInv == Init => IInv
<1> SUFFICES ASSUME Init PROVE IInv
  OBVIOUS
<1> USE DEF Init
<1>1. ControlInv
  <2>1. ControlTypes
    <3>1. toServer \in Seq(PeerMessages)
      OBVIOUS
    <3>2. phys \in {"open", "closing", "closed"} /\ heartbeat \in {"running", "stopped"}
      OBVIOUS
    <3>3. pongReceived \in BOOLEAN /\ pinged \in BOOLEAN /\ unsettled \in BOOLEAN
      OBVIOUS
    <3> QED
      BY <3>1, <3>2, <3>3 DEF ControlTypes
  <2>2. Strikes
    BY DEF Strikes, MaxBypassAttempts
  <2> QED
    BY <2>1, <2>2 DEF ControlInv
<1>2. RoomInv
  BY FS_EmptySet DEF RoomInv
<1> QED
  BY <1>1, <1>2 DEF IInv

\* Every step of the session, its peer and the network preserves IInv.
LEMMA NextIInv ==
  ASSUME IInv, [Next]_vars
  PROVE  IInv'
<1> USE DEF IInv
<1>1. RoomStep
  BY QueuesOfIInv, NextRoomStep DEF RoomInv
<1>2. RoomInv' /\ rooms \cup closedRooms \subseteq rooms' \cup closedRooms'
  BY <1>1, RoomStepPreserves
<1>3. toClient' \in Seq(KnownMessages')
  BY <1>2, QueuesOfIInv, NextQueueStep, QueueStepPreserves
<1>4. ControlStep /\ ControlTypes'
  BY NextControlStep
<1>5. Strikes'
  BY <1>4 DEF ControlStep, ControlInv, Strikes, MaxBypassAttempts
<1>6. (phys = "closed" => rooms = {})'
  <2>1. phys = "closed" => rooms' = {}
    BY <1>1 DEF ControlInv, RoomStep, roomVars, CleanupRooms, FailsToJoin, LeaveRoom
  <2> QED
    BY <1>4, <2>1 DEF ControlStep
<1> QED
  BY <1>2, <1>3, <1>4, <1>5, <1>6 DEF ControlInv

\* IInv holds in every reachable state.
THEOREM Invariance == Spec => []IInv
<1>1. IInv /\ [Next]_vars => IInv'
  BY NextIInv
<1> QED
  BY <1>1, InitIInv, PTL DEF Spec

\* Every variable keeps its type, whatever the peer, the timers and failing
\* sends do: in particular the gauge's share of a session is never negative.
THEOREM TypeCorrect == Spec => []TypeOK
<1>1. IInv => TypeOK
  <2> SUFFICES ASSUME IInv PROVE TypeOK
    OBVIOUS
  <2>1. activeRooms \in Nat
    BY RoomCount DEF IInv, RoomInv
  <2>2. toClient \in Seq(ServerMessages \cup CloseFrames)
    BY QueuesOfIInv DEF QueuesOK, ClientBound
  <2> QED
    BY <2>1, <2>2 DEF IInv, ControlInv, ControlTypes, Strikes, RoomInv, TypeOK
<1> QED
  BY <1>1, Invariance, PTL

\* recordRoomOpen and recordRoomClose stay paired, through every failing send
\* and every order of closes.
THEOREM GaugeIsExact == Spec => []GaugeCountsRooms
<1>1. IInv => GaugeCountsRooms
  BY DEF IInv, RoomInv, GaugeCountsRooms
<1> QED
  BY <1>1, Invariance, PTL

\* No y-websocket connection outlives its room, and none is missing.
THEOREM DocumentsFollowRooms == Spec => []NoLeakedDocument
<1>1. IInv => NoLeakedDocument
  BY DEF IInv, RoomInv, NoLeakedDocument
<1> QED
  BY <1>1, Invariance, PTL

\* What the client has been told about, however late it reads it, is a room
\* whose data the server accepts or quietly drops.
THEOREM AcknowledgementsAreSafe == Spec => []AcknowledgedRoomsAreKnown
<1>1. IInv => AcknowledgedRoomsAreKnown
  BY DEF IInv, RoomInv, KnownMessages, Known, AcknowledgedRoomsAreKnown
<1> QED
  BY <1>1, Invariance, PTL

\* The bypass budget is spent exactly once, and spending it ends the connection.
THEOREM StrikesAreFinal == Spec => []StrikesEndTheConnection
<1>1. IInv => StrikesEndTheConnection
  BY DEF IInv, ControlInv, Strikes, StrikesEndTheConnection
<1> QED
  BY <1>1, Invariance, PTL

-----------------------------------------------------------------------------
(***************************************************************************)
(* The refinement: every step of a session is a step of RoomService, or    *)
(* leaves what RoomService sees alone.  The fairness part of               *)
(* ImplementsRoomService is left to the model checker.                     *)
(***************************************************************************)
ServiceStep == [Service!ServiceNext]_(Service!serviceVars)

ServiceState ==
  /\ phys \in {"open", "closing", "closed"}
  /\ rooms \subseteq Rooms
  /\ phys = "closed" => rooms = {}

\* What closing the socket does to its state.
Closes == phys' = IF phys = "open" THEN "closing" ELSE phys

\* A step that neither closes the socket nor touches the map is a stutter, ...
LEMMA KeepsService ==
  ASSUME UNCHANGED <<phys, rooms, link>>
  PROVE  ServiceStep
BY DEF ServiceStep, Service!serviceVars

\* ... one that starts a close and leaves the map alone starts the ending, ...
LEMMA ClosesService ==
  ASSUME ServiceState, Closes, UNCHANGED <<rooms, link>>
  PROVE  ServiceStep
BY DEF ServiceState, Closes, ServiceStep, Service!serviceVars, Service!ServiceNext,
       Service!StartEnding

\* ... one that empties the map as well ends or clears, ...
LEMMA ClearsService ==
  ASSUME ServiceState, Closes, rooms' = {}, UNCHANGED link
  PROVE  ServiceStep
BY DEF ServiceState, Closes, ServiceStep, Service!serviceVars, Service!ServiceNext,
       Service!StartEnding, Service!Clear

\* ... and one room may leave at any time.
LEMMA LeavesService ==
  ASSUME ServiceState, NEW r \in rooms, LeaveRoom(r), UNCHANGED <<phys, link>>
  PROVE  ServiceStep
BY DEF ServiceState, LeaveRoom, ServiceStep, Service!ServiceNext, Service!LeaveOne

\* A send that fails clears the map and closes the socket, ...
LEMMA SendFailsService ==
  ASSUME ServiceState, UNCHANGED link,
         NEW sent, NEW open, NEW closed, NEW active, SendFails(sent, open, closed, active)
  PROVE  ServiceStep
BY ClearsService DEF SendFails, CleanupRooms, ClosePhysicalSocket, Closes

\* ... and so may any reply, ...
LEMMA ReplyService ==
  ASSUME ServiceState, UNCHANGED link, NEW m, Reply(m)
  PROVE  ServiceStep
BY SendFailsService, KeepsService DEF Reply, Send, roomVars

\* ... in the rejection of a bypass too.
LEMMA BypassService ==
  ASSUME ServiceState, UNCHANGED link, NEW r, RejectAuthorizationBypass(r)
  PROVE  ServiceStep
BY ReplyService, SendFailsService, ClearsService
   DEF RejectAuthorizationBypass, ClosePhysical, CleanupRooms, ClosePhysicalSocket, Closes

\* Every step of the session is a step of the service, or none.
LEMMA NextService ==
  ASSUME IInv, [Next]_vars
  PROVE  ServiceStep
<1>0. ServiceState
  BY DEF IInv, ControlInv, ControlTypes, RoomInv, ServiceState
<1>1. CASE ReceiveWhenNotOpen
  BY <1>0, <1>1, ClearsService DEF ReceiveWhenNotOpen, Receive, CleanupRooms, Closes
<1>2. CASE ReceiveInvalid
  BY <1>0, <1>2, ClearsService
     DEF ReceiveInvalid, Receive, ClosePhysical, CleanupRooms, ClosePhysicalSocket, Closes
<1>3. CASE ReceiveSubscribe
  <2> DEFINE r == Head(toServer).room
             grant == Head(toServer).grant
  <2>1. UNCHANGED link /\ phys = "open"
    BY <1>3 DEF ReceiveSubscribe, Receive
  <2>2. r \in Rooms
    BY <1>3, HeadAndTail, RoomOfMessage, QueuesOfIInv DEF ReceiveSubscribe, Receive, QueuesOK
  <2>3. ASSUME NEW m, Reply(m)
        PROVE  ServiceStep
    BY <1>0, <2>1, <2>3, ReplyService
  <2>4. CASE RejectAuthorizationBypass(r)
    BY <1>0, <2>1, <2>4, BypassService
  <2>5. CASE r \notin rooms /\ AddRoom(r)
    <3>1. CASE rooms' = rooms \cup {r} /\ UNCHANGED phys
      BY <2>1, <2>2, <2>5, <3>1 DEF ServiceStep, Service!ServiceNext, Service!Join
    <3>2. CASE \E sent : SendFails(sent, rooms \cup {r}, closedRooms \ {r}, activeRooms + 1)
      BY <1>0, <2>1, <3>2, SendFailsService
    <3> QED
      BY <2>5, <3>1, <3>2 DEF AddRoom, Send
  <2> QED
    BY <1>3, <2>3, <2>4, <2>5 DEF ReceiveSubscribe, SubscribeRoom
<1>4. CASE ReceiveData
  BY <1>0, <1>4, BypassService, KeepsService DEF ReceiveData, Receive, roomVars
<1>5. CASE ReceiveUnsubscribe
  BY <1>0, <1>5, LeavesService, KeepsService DEF ReceiveUnsubscribe, Receive, roomVars
<1>6. CASE ReceiveClose
  BY <1>0, <1>6, ClosesService DEF ReceiveClose, Receive, ClosePhysicalSocket, Closes, roomVars
<1>7. ASSUME NEW r \in Rooms, RoomSendsData(r)
      PROVE  ServiceStep
  BY <1>0, <1>7, SendFailsService, KeepsService DEF RoomSendsData, Send, roomVars
<1>8. ASSUME NEW r \in Rooms, RoomClosesItself(r)
      PROVE  ServiceStep
  <2>1. r \in rooms /\ UNCHANGED link
    BY <1>8 DEF RoomClosesItself, IInv, RoomInv
  <2>2. CASE LeaveRoom(r) /\ UNCHANGED phys
    BY <1>0, <2>1, <2>2, LeavesService
  <2>3. CASE SendFails(toClient, rooms, closedRooms, activeRooms)
    BY <1>0, <2>1, <2>3, SendFailsService
  <2> QED
    BY <1>8, <2>2, <2>3 DEF RoomClosesItself, Send
<1>9. CASE SendsSettle
  BY <1>9, KeepsService DEF SendsSettle, roomVars
<1>10. CASE SendFailsLater
  BY <1>0, <1>10, ClearsService DEF SendFailsLater, CleanupRooms, ClosePhysicalSocket, Closes
<1>11. CASE ConnectionTimeout
  BY <1>0, <1>11, ClosesService DEF ConnectionTimeout, ClosePhysicalSocket, Closes, roomVars
<1>12. CASE PhysicalClosed
  BY <1>12 DEF PhysicalClosed, CleanupRooms, ServiceStep, Service!ServiceNext, Service!End
<1>13. CASE HeartbeatTick
  <2>1. CASE TickEmpty
    BY <1>0, <2>1, ClearsService
       DEF TickEmpty, ClosePhysical, CleanupRooms, ClosePhysicalSocket, Closes
  <2>2. CASE Terminate /\ phys = "open"
    <3>1. link' \in {link, "down"} /\ rooms' \in {rooms, {}} /\ phys' = "closing"
      BY <2>2 DEF Terminate, CleanupRooms
    <3> QED
      BY <2>2, <3>1 DEF ServiceStep, Service!ServiceNext, Service!StartEnding
  <2>3. CASE UNCHANGED <<phys, rooms, link>>
    BY <2>3, KeepsService
  <2> QED
    BY <1>13, <2>1, <2>2, <2>3 DEF HeartbeatTick, TickNotOpen, TickUnanswered, TickPing, roomVars
<1>14. CASE Pong
  BY <1>14, KeepsService DEF Pong, roomVars
<1>15. CASE Peer
  <2>1. CASE UNCHANGED <<phys, rooms, link>>
    BY <2>1, KeepsService
  <2>2. CASE PeerVanishes
    BY <2>2 DEF PeerVanishes, serverVars, roomVars, ServiceStep, Service!ServiceNext,
                Service!LosePeer
  <2> QED
    BY <1>15, <2>1, <2>2 DEF Peer, PeerSends, PeerReceives, serverVars, roomVars
<1>16. CASE UNCHANGED vars
  BY <1>16, KeepsService DEF vars, serverVars, roomVars
<1> QED
  BY <1>1, <1>2, <1>3, <1>4, <1>5, <1>6, <1>7, <1>8, <1>9, <1>10, <1>11, <1>12, <1>13, <1>14,
     <1>15, <1>16 DEF Next, ServerNext, ReceiveMessage

\* The session starts as the service does and every step of it is one of the
\* service's: rooms join only an open connection, go one by one while it is
\* open, and a closed one holds none.  This is ImplementsRoomService without
\* its fairness.
THEOREM StepsAreRoomService == Spec => Service!ServiceSteps
<1>1. Init => Service!ServiceInit
  BY DEF Init, Service!ServiceInit
<1>2. IInv /\ [Next]_vars => [Service!ServiceNext]_(Service!serviceVars)
  BY NextService DEF ServiceStep
<1> QED
  BY <1>1, <1>2, Invariance, PTL DEF Spec, Service!ServiceSteps

-----------------------------------------------------------------------------
(***************************************************************************)
(* Why a room leaves the map while the socket stays open.                  *)
(***************************************************************************)
Cause(r) ==
  \/ phys' # "open"
  \/ toServer # <<>> /\ Head(toServer) = Unsubscribe(r) /\ toServer' = Tail(toServer)
  \/ toClient' = Append(toClient, RoomClosed(r, RoomInterrupted))

LeavesForACause == \A r \in rooms \ rooms' : Cause(r)

\* A step that closes the socket has said why.
LEMMA ClosedSocketIsACause ==
  ASSUME phys' # "open"
  PROVE  LeavesForACause
BY DEF LeavesForACause, Cause

\* So has a step that takes no room off the map.
LEMMA NoLeaveNoCause ==
  ASSUME rooms \subseteq rooms'
  PROVE  LeavesForACause
BY DEF LeavesForACause

\* A reply takes no room off, or its send fails and the socket closes.
LEMMA ReplyCause ==
  ASSUME NEW m, Reply(m)
  PROVE  LeavesForACause
BY ClosedSocketIsACause, NoLeaveNoCause
   DEF Reply, SendFails, ClosePhysicalSocket, roomVars

\* So does the rejection of a bypass.
LEMMA BypassCause ==
  ASSUME NEW r, RejectAuthorizationBypass(r)
  PROVE  LeavesForACause
BY ReplyCause, ClosedSocketIsACause
   DEF RejectAuthorizationBypass, ClosePhysical, SendFails, ClosePhysicalSocket

\* Every step that takes a room off the map has one of the causes.
LEMMA NextCause ==
  ASSUME QueuesOK, [Next]_vars
  PROVE  LeavesForACause
<1>1. CASE ReceiveWhenNotOpen
  BY <1>1, ClosedSocketIsACause DEF ReceiveWhenNotOpen
<1>2. CASE ReceiveInvalid
  BY <1>2, ClosedSocketIsACause DEF ReceiveInvalid, ClosePhysical, ClosePhysicalSocket
<1>3. CASE ReceiveSubscribe
  <2> DEFINE r == Head(toServer).room
  <2>1. CASE AddRoom(r)
    BY <2>1, ClosedSocketIsACause, NoLeaveNoCause DEF AddRoom, SendFails, ClosePhysicalSocket
  <2> QED
    BY <1>3, <2>1, ReplyCause, BypassCause DEF ReceiveSubscribe, SubscribeRoom
<1>4. CASE ReceiveData
  BY <1>4, BypassCause, NoLeaveNoCause DEF ReceiveData, roomVars
<1>5. CASE ReceiveUnsubscribe
  <2> DEFINE m == Head(toServer)
  <2>1. m \in Incoming /\ m.type = "unsubscribe" /\ toServer # <<>> /\ toServer' = Tail(toServer)
    BY <1>5, HeadAndTail DEF ReceiveUnsubscribe, Receive, QueuesOK
  <2>2. m = Unsubscribe(m.room)
    BY <2>1 DEF Incoming, CloseFrames, PeerMessages, ClientMessages, ServerMessages, Malformed,
                Close, Subscribe, Unsubscribe, Data, Subscribed, RoomClosed
  <2>3. rooms \ rooms' \subseteq {m.room}
    BY <1>5 DEF ReceiveUnsubscribe, LeaveRoom, roomVars
  <2> QED
    BY <2>1, <2>2, <2>3 DEF LeavesForACause, Cause
<1>6. CASE ReceiveClose
  BY <1>6, NoLeaveNoCause DEF ReceiveClose, roomVars
<1>7. ASSUME NEW r \in Rooms, RoomSendsData(r)
      PROVE  LeavesForACause
  BY <1>7, ClosedSocketIsACause, NoLeaveNoCause
     DEF RoomSendsData, SendFails, ClosePhysicalSocket, roomVars
<1>8. ASSUME NEW r \in Rooms, RoomClosesItself(r)
      PROVE  LeavesForACause
  <2>1. CASE LeaveRoom(r) /\ Send(<<RoomClosed(r, RoomInterrupted)>>)
    <3>1. rooms \ rooms' \subseteq {r}
      BY <2>1 DEF LeaveRoom
    <3>2. toClient' = Append(toClient, RoomClosed(r, RoomInterrupted))
      BY <2>1 DEF Send
    <3> QED
      BY <3>1, <3>2 DEF LeavesForACause, Cause
  <2> QED
    BY <1>8, <2>1, ClosedSocketIsACause DEF RoomClosesItself, SendFails, ClosePhysicalSocket
<1>9. CASE SendsSettle \/ ConnectionTimeout \/ Pong
  BY <1>9, NoLeaveNoCause DEF SendsSettle, ConnectionTimeout, Pong, roomVars
<1>10. CASE SendFailsLater
  BY <1>10, ClosedSocketIsACause DEF SendFailsLater, ClosePhysicalSocket
<1>11. CASE PhysicalClosed
  BY <1>11, ClosedSocketIsACause DEF PhysicalClosed
<1>12. CASE HeartbeatTick
  BY <1>12, ClosedSocketIsACause, NoLeaveNoCause
     DEF HeartbeatTick, TickNotOpen, TickEmpty, TickUnanswered, TickPing, Terminate,
         ClosePhysical, ClosePhysicalSocket, roomVars
<1>13. CASE Peer
  BY <1>13, NoLeaveNoCause DEF Peer, PeerSends, PeerReceives, PeerVanishes, serverVars, roomVars
<1>14. CASE UNCHANGED vars
  BY <1>14, NoLeaveNoCause DEF vars, serverVars, roomVars
<1> QED
  BY <1>1, <1>2, <1>3, <1>4, <1>5, <1>6, <1>7, <1>8, <1>9, <1>10, <1>11, <1>12, <1>13, <1>14
     DEF Next, ServerNext, ReceiveMessage

\* No client of an open connection is left believing in a room the server
\* forgot, and the failure of one room takes no other with it.
THEOREM LeavesAreAnnounced == Spec => RoomsLeaveForACause
<1> DEFINE Announced ==
      \A r \in rooms \ rooms' :
        \/ phys' # "open"
        \/ toServer # <<>> /\ Head(toServer) = Unsubscribe(r) /\ toServer' = Tail(toServer)
        \/ toClient' = Append(toClient, RoomClosed(r, RoomInterrupted))
<1>1. IInv /\ [Next]_vars => [Announced]_vars
  BY QueuesOfIInv, NextCause DEF LeavesForACause, Cause
<1> QED
  BY <1>1, Invariance, PTL DEF Spec, RoomsLeaveForACause

-----------------------------------------------------------------------------
(***************************************************************************)
(* The order of the messages of a room.  NoDataAfterRoomClosed is not      *)
(* inductive: what is sent next depends on the rooms that are served, and  *)
(* so the invariant says of them that no room_closed is the last word      *)
(* about a room that is served.                                            *)
(***************************************************************************)
Reacknowledged(q, i, last) == \E k \in i .. last : q[k] = Subscribed(q[i].room)

Orderly(q) ==
  \A i, j \in DOMAIN q :
    (/\ i < j
     /\ q[i].type = "room_closed"
     /\ q[j].type = "data"
     /\ q[j].room = q[i].room)
      => Reacknowledged(q, i, j)

Settled(q, R) ==
  \A i \in DOMAIN q :
    q[i].type = "room_closed" /\ q[i].room \in R => Reacknowledged(q, i, Len(q))

OrderInv == Orderly(toClient) /\ Settled(toClient, rooms)

\* Message m may be sent while the rooms R are served and R2 are after it: data
\* of a served room, room_closed of one that is served no longer; only an
\* acknowledgement begins to serve a room.
Legal(m, R, R2) ==
  /\ m.type = "data" => m.room \in R
  /\ m.type = "room_closed" => m.room \notin R2
  /\ R2 \subseteq R \/ (\E r \in Rooms : m = Subscribed(r) /\ R2 \subseteq R \cup {r})

\* Fewer rooms may be served at any time.
LEMMA FewerServed ==
  ASSUME NEW q, NEW R, NEW R2 \in SUBSET R, Settled(q, R)
  PROVE  Settled(q, R2)
BY DEF Settled

\* What has been read no longer matters.
LEMMA TailIsOrderly ==
  ASSUME NEW q \in Seq(ClientBound), q # <<>>, NEW R, Orderly(q), Settled(q, R)
  PROVE  Orderly(Tail(q)) /\ Settled(Tail(q), R)
<1> DEFINE t == Tail(q)
<1>1. /\ Len(q) \in Nat /\ Len(t) = Len(q) - 1
      /\ DOMAIN q = 1 .. Len(q) /\ DOMAIN t = 1 .. Len(q) - 1
      /\ \A i \in 1 .. Len(q) - 1 : t[i] = q[i + 1]
  OBVIOUS
<1> HIDE DEF t
<1>2. ASSUME NEW i \in DOMAIN t, NEW last \in i .. Len(q) - 1,
             Reacknowledged(q, i + 1, last + 1)
      PROVE  Reacknowledged(t, i, last)
  <2>1. PICK k \in i + 1 .. last + 1 : q[k] = Subscribed(q[i + 1].room)
    BY <1>2 DEF Reacknowledged
  <2>2. k - 1 \in i .. last /\ k - 1 \in 1 .. Len(q) - 1 /\ (k - 1) + 1 = k
    BY <1>1, <1>2
  <2>3. t[k - 1] = Subscribed(t[i].room)
    BY <1>1, <2>1, <2>2
  <2> QED
    BY <2>2, <2>3 DEF Reacknowledged
<1>3. Orderly(t)
  <2> SUFFICES ASSUME NEW i \in DOMAIN t, NEW j \in DOMAIN t, i < j,
                      t[i].type = "room_closed", t[j].type = "data", t[j].room = t[i].room
               PROVE  Reacknowledged(t, i, j)
    BY DEF Orderly
  <2>1. i + 1 \in DOMAIN q /\ j + 1 \in DOMAIN q /\ i + 1 < j + 1 /\ j \in i .. Len(q) - 1
    BY <1>1
  <2>2. Reacknowledged(q, i + 1, j + 1)
    BY <1>1, <2>1 DEF Orderly
  <2> QED
    BY <1>2, <2>1, <2>2
<1>4. Settled(t, R)
  <2> SUFFICES ASSUME NEW i \in DOMAIN t, t[i].type = "room_closed", t[i].room \in R
               PROVE  Reacknowledged(t, i, Len(t))
    BY DEF Settled
  <2>1. i + 1 \in DOMAIN q /\ Len(t) \in i .. Len(q) - 1 /\ Len(t) + 1 = Len(q)
    BY <1>1
  <2>2. Reacknowledged(q, i + 1, Len(q))
    BY <1>1, <2>1 DEF Settled
  <2> QED
    BY <1>2, <2>1, <2>2
<1> QED
  BY <1>3, <1>4 DEF t

\* A legal message keeps the order.
LEMMA LegalIsOrderly ==
  ASSUME NEW q \in Seq(ClientBound), NEW R, NEW R2, NEW m \in ClientBound,
         Orderly(q), Settled(q, R), Legal(m, R, R2)
  PROVE  Orderly(Append(q, m)) /\ Settled(Append(q, m), R2)
<1> DEFINE a == Append(q, m)
           n == Len(q)
<1>1. /\ n \in Nat /\ Len(a) = n + 1 /\ DOMAIN q = 1 .. n /\ DOMAIN a = 1 .. n + 1
      /\ \A i \in 1 .. n : a[i] = q[i]
      /\ a[n + 1] = m
  OBVIOUS
<1> HIDE DEF a, n
<1>2. ASSUME NEW i \in 1 .. n, NEW last \in i .. n + 1, Reacknowledged(q, i, IF last = n + 1 THEN n ELSE last)
      PROVE  Reacknowledged(a, i, last)
  <2>1. PICK k \in i .. (IF last = n + 1 THEN n ELSE last) : q[k] = Subscribed(q[i].room)
    BY <1>2 DEF Reacknowledged
  <2>2. k \in i .. last /\ k \in 1 .. n
    BY <1>1, <1>2
  <2> QED
    BY <1>1, <2>1, <2>2 DEF Reacknowledged
<1>3. Orderly(a)
  <2> SUFFICES ASSUME NEW i \in DOMAIN a, NEW j \in DOMAIN a, i < j,
                      a[i].type = "room_closed", a[j].type = "data", a[j].room = a[i].room
               PROVE  Reacknowledged(a, i, j)
    BY DEF Orderly
  <2>1. i \in 1 .. n /\ j \in i .. n + 1 /\ a[i] = q[i]
    BY <1>1
  <2>2. CASE j = n + 1
    <3>1. q[i].room \in R
      BY <1>1, <2>1, <2>2 DEF Legal
    <3>2. Reacknowledged(q, i, n)
      BY <1>1, <2>1, <3>1 DEF Settled, n
    <3> QED
      BY <1>2, <2>1, <2>2, <3>2
  <2>3. CASE j # n + 1
    <3>1. j \in 1 .. n /\ a[j] = q[j]
      BY <1>1, <2>3
    <3>2. Reacknowledged(q, i, j)
      BY <1>1, <2>1, <3>1 DEF Orderly
    <3> QED
      BY <1>2, <2>1, <2>3, <3>2
  <2> QED
    BY <2>2, <2>3
<1>4. Settled(a, R2)
  <2> SUFFICES ASSUME NEW i \in DOMAIN a, a[i].type = "room_closed", a[i].room \in R2
               PROVE  Reacknowledged(a, i, n + 1)
    BY <1>1 DEF Settled
  <2>1. i \in 1 .. n /\ a[i] = q[i] /\ n + 1 \in i .. n + 1
    BY <1>1 DEF Legal
  <2>2. CASE q[i].room \in R
    <3>1. Reacknowledged(q, i, n)
      BY <1>1, <2>1, <2>2 DEF Settled, n
    <3> QED
      BY <1>2, <2>1, <3>1
  <2>3. CASE m = Subscribed(q[i].room)
    <3>1. n + 1 \in i .. n + 1 /\ a[n + 1] = Subscribed(a[i].room)
      BY <1>1, <2>1, <2>3
    <3> QED
      BY <3>1 DEF Reacknowledged
  <2> QED
    BY <2>1, <2>2, <2>3 DEF Legal
<1> QED
  BY <1>3, <1>4, <1>1 DEF a

\* What a step may send, and serve afterwards.
OrderStep ==
  \/ /\ rooms' \subseteq rooms
     /\ \/ toClient' \in {toClient, <<>>}
        \/ toClient # <<>> /\ toClient' = Tail(toClient)
  \/ \E m \in ClientBound : Legal(m, rooms, rooms') /\ toClient' = Append(toClient, m)
  \/ \E m, n \in ClientBound, R \in SUBSET Rooms :
       /\ Legal(m, rooms, R) /\ Legal(n, R, rooms')
       /\ toClient' = Append(Append(toClient, m), n)

\* Such a step keeps the order.
LEMMA OrderStepPreserves ==
  ASSUME toClient \in Seq(ClientBound), OrderInv, OrderStep
  PROVE  OrderInv'
<1> USE DEF OrderInv
<1>1. CASE rooms' \subseteq rooms /\ toClient' = toClient
  BY <1>1, FewerServed
<1>2. CASE toClient' = <<>>
  BY <1>2 DEF Orderly, Settled
<1>3. CASE rooms' \subseteq rooms /\ toClient # <<>> /\ toClient' = Tail(toClient)
  <2>1. Orderly(Tail(toClient)) /\ Settled(Tail(toClient), rooms)
    BY <1>3, TailIsOrderly
  <2>2. Settled(Tail(toClient), rooms')
    BY <1>3, <2>1, FewerServed
  <2> QED
    BY <1>3, <2>1, <2>2
<1>4. ASSUME NEW m \in ClientBound, Legal(m, rooms, rooms'), toClient' = Append(toClient, m)
      PROVE  OrderInv'
  BY <1>4, LegalIsOrderly
<1>5. ASSUME NEW m \in ClientBound, NEW n \in ClientBound, NEW R \in SUBSET Rooms,
             Legal(m, rooms, R), Legal(n, R, rooms'),
             toClient' = Append(Append(toClient, m), n)
      PROVE  OrderInv'
  <2>1. Append(toClient, m) \in Seq(ClientBound)
    BY Appended
  <2>2. Orderly(Append(toClient, m)) /\ Settled(Append(toClient, m), R)
    BY <1>5, LegalIsOrderly
  <2> QED
    BY <1>5, <2>1, <2>2, LegalIsOrderly
<1> QED
  BY <1>1, <1>2, <1>3, <1>4, <1>5 DEF OrderStep

\* The messages that are legal: a close frame, a room_closed of a room that is
\* not served afterwards, the acknowledgement, data of a served room.
LEMMA LegalMessages ==
  ASSUME NEW R, NEW R2 \in SUBSET R
  PROVE  /\ \A code : Legal(Close(code), R, R2)
         /\ \A r, code : r \notin R2 => Legal(RoomClosed(r, code), R, R2)
         /\ \A r \in Rooms : Legal(Subscribed(r), R, R2) /\ Legal(Subscribed(r), R, R \cup {r})
         /\ \A r \in R : Legal(Data(r), R, R2)
BY DEF Legal, Close, RoomClosed, Subscribed, Data

\* A close, after nothing or after one legal message more.
LEMMA CloseOrderStep ==
  ASSUME NEW code, Close(code) \in CloseFrames, rooms' \subseteq rooms,
         ClosePhysicalSocket(toClient, code)
  PROVE  OrderStep
<1>1. Legal(Close(code), rooms, rooms') /\ Close(code) \in ClientBound
  BY LegalMessages DEF ClientBound
<1>2. toClient' = toClient \/ toClient' = Append(toClient, Close(code))
  BY DEF ClosePhysicalSocket
<1> QED
  BY <1>1, <1>2 DEF OrderStep

LEMMA CloseOrderStepAfter ==
  ASSUME RoomInv, NEW code, Close(code) \in CloseFrames, rooms' = {},
         NEW m \in ClientBound, Legal(m, rooms, {}),
         ClosePhysicalSocket(Append(toClient, m), code)
  PROVE  OrderStep
<1>1. Legal(Close(code), {}, {}) /\ Close(code) \in ClientBound
  BY LegalMessages DEF ClientBound
<1>2. \/ toClient' = Append(toClient, m)
      \/ toClient' = Append(Append(toClient, m), Close(code))
  BY DEF ClosePhysicalSocket
<1>3. {} \in SUBSET Rooms
  OBVIOUS
<1> QED
  BY <1>1, <1>2, <1>3 DEF OrderStep

\* A failing send that nothing left before.
LEMMA SendFailsOrderStep ==
  ASSUME NEW open, NEW closed, NEW active, SendFails(toClient, open, closed, active)
  PROVE  OrderStep
<1>1. rooms' \subseteq rooms /\ ClosePhysicalSocket(toClient, SendFailure)
  BY DEF SendFails, CleanupRooms
<1> QED
  BY <1>1, CloseOrderStep, CloseFramesUsed

\* A reply that is legal while the rooms stay as they are.
LEMMA ReplyOrderStep ==
  ASSUME NEW m \in ClientBound, Legal(m, rooms, rooms), Reply(m)
  PROVE  OrderStep
<1>1. CASE Send(<<m>>) /\ UNCHANGED roomVars
  <2>1. toClient' = Append(toClient, m) /\ rooms' = rooms
    BY <1>1 DEF Send, roomVars
  <2>2. Legal(m, rooms, rooms')
    BY <2>1
  <2> QED
    BY <2>1, <2>2 DEF OrderStep
<1> QED
  BY <1>1, SendFailsOrderStep DEF Reply

\* The rejection of a bypass, in a room that is not served.
LEMMA BypassOrderStep ==
  ASSUME RoomInv, NEW r \in Rooms \ rooms, RejectAuthorizationBypass(r)
  PROVE  OrderStep
<1> DEFINE m == RoomClosed(r, RoomRejected)
<1>1. m \in ClientBound /\ Legal(m, rooms, rooms) /\ Legal(m, rooms, {})
  BY MessagesToClient, LegalMessages
<1>2. CASE Reply(m)
  BY <1>1, <1>2, ReplyOrderStep
<1>3. CASE ClosePhysical(Append(toClient, m), PolicyViolation)
  <2>1. rooms' = {} /\ ClosePhysicalSocket(Append(toClient, m), PolicyViolation)
    BY <1>3 DEF ClosePhysical, CleanupRooms
  <2> QED
    BY <1>1, <2>1, CloseOrderStepAfter, CloseFramesUsed
<1> QED
  BY <1>2, <1>3, SendFailsOrderStep DEF RejectAuthorizationBypass

\* A join.
LEMMA AddRoomOrderStep ==
  ASSUME RoomInv, NEW r \in Rooms, AddRoom(r)
  PROVE  OrderStep
<1>1. Subscribed(r) \in ClientBound /\ Data(r) \in ClientBound
  BY MessagesToClient
<1>2. CASE rooms' = rooms \cup {r} /\ Send(<<Subscribed(r), Data(r)>>)
  <2>1. toClient' = Append(Append(toClient, Subscribed(r)), Data(r))
    BY <1>2 DEF Send
  <2>2. rooms' \in SUBSET Rooms /\ r \in rooms'
    BY <1>2 DEF RoomInv
  <2>3. Legal(Subscribed(r), rooms, rooms') /\ Legal(Data(r), rooms', rooms')
    BY <1>2, <2>2, LegalMessages
  <2> QED
    BY <1>1, <2>1, <2>2, <2>3 DEF OrderStep
<1>3. ASSUME NEW sent \in {toClient, Append(toClient, Subscribed(r))},
             SendFails(sent, rooms \cup {r}, closedRooms \ {r}, activeRooms + 1)
      PROVE  OrderStep
  <2>1. rooms' = {} /\ ClosePhysicalSocket(sent, SendFailure)
    BY <1>3 DEF SendFails, CleanupRooms
  <2>2. Legal(Subscribed(r), rooms, {})
    BY LegalMessages
  <2> QED
    BY <1>1, <2>1, <2>2, CloseOrderStep, CloseOrderStepAfter, CloseFramesUsed
<1> QED
  BY <1>2, <1>3 DEF AddRoom

\* Every step sends what is legal.
LEMMA NextOrderStep ==
  ASSUME IInv, [Next]_vars
  PROVE  OrderStep
<1>0. RoomInv /\ QueuesOK
  BY QueuesOfIInv DEF IInv
<1>1. CASE ReceiveWhenNotOpen
  BY <1>1 DEF ReceiveWhenNotOpen, CleanupRooms, OrderStep
<1>2. CASE ReceiveInvalid
  BY <1>2, CloseOrderStep, CloseFramesUsed DEF ReceiveInvalid, ClosePhysical, CleanupRooms
<1>3. CASE ReceiveSubscribe
  <2> DEFINE r == Head(toServer).room
  <2>1. r \in Rooms
    BY <1>0, <1>3, HeadAndTail, RoomOfMessage DEF ReceiveSubscribe, Receive, QueuesOK
  <2>2. CASE r \in rooms /\ Reply(Subscribed(r))
    BY <2>1, <2>2, MessagesToClient, LegalMessages, ReplyOrderStep
  <2>3. CASE r \notin rooms /\ \E code \in {RoomRejected, RoomInterrupted} : Reply(RoomClosed(r, code))
    BY <2>1, <2>3, MessagesToClient, LegalMessages, ReplyOrderStep
  <2>4. CASE r \notin rooms /\ RejectAuthorizationBypass(r)
    BY <1>0, <2>1, <2>4, BypassOrderStep
  <2>5. CASE AddRoom(r)
    BY <1>0, <2>1, <2>5, AddRoomOrderStep
  <2> QED
    BY <1>3, <2>2, <2>3, <2>4, <2>5 DEF ReceiveSubscribe, SubscribeRoom
<1>4. CASE ReceiveData
  <2>1. Head(toServer).room \in Rooms
    BY <1>0, <1>4, HeadAndTail, RoomOfMessage DEF ReceiveData, Receive, QueuesOK
  <2> QED
    BY <1>0, <1>4, <2>1, BypassOrderStep DEF ReceiveData, roomVars, OrderStep
<1>5. CASE ReceiveUnsubscribe
  BY <1>5 DEF ReceiveUnsubscribe, LeaveRoom, roomVars, OrderStep
<1>6. CASE ReceiveClose
  <2>1. Close(Head(toServer).code) \in CloseFrames
    BY <1>0, <1>6, HeadAndTail, CodeOfClose DEF ReceiveClose, Receive, QueuesOK
  <2> QED
    BY <1>6, <2>1, CloseOrderStep DEF ReceiveClose, roomVars
<1>7. ASSUME NEW r \in Rooms, RoomSendsData(r)
      PROVE  OrderStep
  <2>1. r \in rooms /\ Data(r) \in ClientBound
    BY <1>0, <1>7, MessagesToClient DEF RoomSendsData, RoomInv
  <2>2. CASE Send(<<Data(r)>>) /\ UNCHANGED roomVars
    <3>1. Legal(Data(r), rooms, rooms')
      BY <2>1, <2>2, LegalMessages DEF roomVars
    <3>2. toClient' = Append(toClient, Data(r))
      BY <2>2 DEF Send
    <3> QED
      BY <2>1, <3>1, <3>2 DEF OrderStep
  <2> QED
    BY <1>7, <2>2, SendFailsOrderStep DEF RoomSendsData, roomVars, OrderStep
<1>8. ASSUME NEW r \in Rooms, RoomClosesItself(r)
      PROVE  OrderStep
  <2>1. CASE LeaveRoom(r) /\ Send(<<RoomClosed(r, RoomInterrupted)>>)
    <3>1. rooms' \subseteq rooms /\ r \notin rooms'
      BY <2>1 DEF LeaveRoom
    <3>2. Legal(RoomClosed(r, RoomInterrupted), rooms, rooms')
      BY <3>1, LegalMessages
    <3>3. toClient' = Append(toClient, RoomClosed(r, RoomInterrupted))
      BY <2>1 DEF Send
    <3> QED
      BY <3>2, <3>3, MessagesToClient DEF OrderStep
  <2> QED
    BY <1>8, <2>1, SendFailsOrderStep DEF RoomClosesItself, LeaveRoom, OrderStep
<1>9. CASE SendsSettle \/ Pong
  BY <1>9 DEF SendsSettle, Pong, roomVars, OrderStep
<1>10. CASE SendFailsLater
  BY <1>10, CloseOrderStep, CloseFramesUsed DEF SendFailsLater, CleanupRooms
<1>11. CASE ConnectionTimeout
  BY <1>11, CloseOrderStep, CloseFramesUsed DEF ConnectionTimeout, roomVars
<1>12. CASE PhysicalClosed
  BY <1>12 DEF PhysicalClosed, CleanupRooms, OrderStep
<1>13. CASE HeartbeatTick
  <2>1. CASE TickEmpty
    BY <2>1, CloseOrderStep, CloseFramesUsed DEF TickEmpty, ClosePhysical, CleanupRooms
  <2> QED
    BY <1>13, <2>1
       DEF HeartbeatTick, TickNotOpen, TickUnanswered, TickPing, Terminate, CleanupRooms,
           roomVars, OrderStep
<1>14. CASE Peer
  BY <1>14 DEF Peer, PeerSends, PeerReceives, PeerVanishes, serverVars, roomVars, OrderStep
<1>15. CASE UNCHANGED vars
  BY <1>15 DEF vars, serverVars, roomVars, OrderStep
<1> QED
  BY <1>1, <1>2, <1>3, <1>4, <1>5, <1>6, <1>7, <1>8, <1>9, <1>10, <1>11, <1>12, <1>13, <1>14,
     <1>15 DEF Next, ServerNext, ReceiveMessage

\* The client may treat room_closed as final: nothing more of the room follows
\* on the wire, unless the room was acknowledged anew.
THEOREM RoomClosedIsFinal == Spec => []NoDataAfterRoomClosed
<1>1. Init => OrderInv
  BY DEF Init, OrderInv, Orderly, Settled
<1>2. ASSUME IInv, OrderInv, [Next]_vars
      PROVE  OrderInv'
  <2>1. toClient \in Seq(ClientBound)
    BY <1>2, QueuesOfIInv DEF QueuesOK
  <2> QED
    BY <1>2, <2>1, NextOrderStep, OrderStepPreserves
<1>3. OrderInv => NoDataAfterRoomClosed
  BY DEF OrderInv, Orderly, Reacknowledged, NoDataAfterRoomClosed
<1>4. IInv /\ OrderInv /\ [Next]_vars => OrderInv'
  BY <1>2
<1> QED
  BY <1>1, <1>3, <1>4, Invariance, PTL DEF Spec
=============================================================================
