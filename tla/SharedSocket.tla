--------------------------- MODULE SharedSocket ----------------------------
(***************************************************************************)
(* The client's end of a multiplex connection: the closure state of        *)
(* createSharedWebSocketAdapter, one physical WebSocket and one virtual    *)
(* socket per registered room.  A virtual socket that has closed is no     *)
(* longer in the map and is gone from the model: no handler can reach it.  *)
(*                                                                         *)
(* The consumer of a virtual socket (y-websocket) constructs, closes and   *)
(* sends when it likes, and its onclose callback may construct the room's  *)
(* next socket before the adapter's handler has returned.                  *)
(*                                                                         *)
(* The browser's WebSocket is external: it delivers no message once close  *)
(* has started, and always ends with one close event.                      *)
(***************************************************************************)
EXTENDS MultiplexProtocol, SequencesExt

CONSTANT Reopens   \* grants an onclose callback constructs its room's next
                   \* socket with; "none": it constructs none

ASSUME ReopensAssumption == Reopens \subseteq Grants \cup {"none"}

VARIABLES
  socket,    \* physicalSocket: "none", or its readyState
  virtual,   \* virtual[r]: readyState of the socket registered for r, or "none"
  grant,     \* grant[r]: the grant it was constructed with, or "none"
  toServer,
  toClient,
  link       \* "down", "dialing" (upgrade requested) or "up"

clientVars == <<socket, virtual, grant>>
vars == <<clientVars, toServer, toClient, link>>

Init ==
  /\ socket = "none"
  /\ virtual = [r \in Rooms |-> "none"]
  /\ grant = [r \in Rooms |-> "none"]
  /\ toServer = <<>> /\ toClient = <<>>
  /\ link = "down"

Registered == {r \in Rooms : virtual[r] # "none"}
Connecting == {r \in Rooms : virtual[r] = "connecting"}

-----------------------------------------------------------------------------
\* The bounds within which the consumer may act.
WithinBounds == Len(toServer) < MaxBacklog /\ Len(toClient) <= MaxQueue

\* sendPhysicalMessage: nothing leaves a socket that is not open, and what
\* leaves one whose network is gone arrives nowhere.
Wire(messages) == IF socket = "open" /\ link = "up" THEN messages ELSE <<>>

\* closePhysicalSocketNormally, or socket.close(code), after `sent' has left.
\* Closing a socket that is still connecting abandons the upgrade.
ClosePhysicalSocket(sent, code) ==
  /\ socket' = IF socket = "none" THEN "none" ELSE "closing"
  /\ toServer' = toServer \o sent \o Wire(<<Close(code)>>)
  /\ link' = IF socket = "connecting" THEN "down" ELSE link

\* Mutant: leaves the subscribe of every room to onopen.
ConstructDeferred(r, g) ==
  /\ virtual[r] = "none"
  /\ socket = "none" \/ WithinBounds
  /\ socket' = IF socket = "none" THEN "connecting" ELSE socket
  /\ link' = IF socket = "none" THEN "dialing" ELSE link
  /\ toServer' = IF socket = "none" THEN <<>> ELSE toServer
  /\ virtual' = [virtual EXCEPT ![r] = "connecting"]
  /\ grant' = [grant EXCEPT ![r] = g]
  /\ toClient' = IF socket = "none" THEN <<>> ELSE toClient

\* new SharedWebSocket(room): the first room dials, a later one subscribes at
\* once if the socket is open and otherwise waits for onopen.  A room that is
\* registered already throws and changes nothing.
Construct(r, g) ==
  /\ virtual[r] = "none"
  /\ socket = "none" \/ WithinBounds
  /\ socket' = IF socket = "none" THEN "connecting" ELSE socket
  /\ link' = IF socket = "none" THEN "dialing" ELSE link
  /\ toServer' = (IF socket = "none" THEN <<>> ELSE toServer) \o Wire(<<Subscribe(r, g)>>)
  /\ virtual' = [virtual EXCEPT ![r] = "connecting"]
  /\ grant' = [grant EXCEPT ![r] = g]
  /\ toClient' = IF socket = "none" THEN <<>> ELSE toClient

\* Mutant: does not look whether it closed the last room.
CloseVirtualSocketOnly(r, leaving, failed, again) ==
  /\ virtual' = [virtual EXCEPT ![r] = IF again = "none" THEN "none" ELSE "connecting"]
  /\ grant' = [grant EXCEPT ![r] = again]
  /\ IF failed THEN ClosePhysicalSocket(leaving, NormalClosure)
               ELSE toServer' = toServer \o leaving /\ UNCHANGED <<socket, link>>

(***************************************************************************)
(* closeVirtualSocket.  `leaving' is what it puts on the wire, and `again' *)
(* the grant with which onclose constructs the room anew, or "none".  The  *)
(* map is looked at after onclose has returned.                            *)
(***************************************************************************)
CloseVirtualSocket(r, leaving, failed, again) ==
  LET left == [virtual EXCEPT ![r] = IF again = "none" THEN "none" ELSE "connecting"]
      sent == leaving \o (IF again = "none" THEN <<>> ELSE Wire(<<Subscribe(r, again)>>))
  IN /\ virtual' = left
     /\ grant' = [grant EXCEPT ![r] = again]
     /\ IF failed \/ \A q \in Rooms : left[q] = "none"
          THEN ClosePhysicalSocket(sent, NormalClosure)
          ELSE /\ toServer' = toServer \o sent
               /\ UNCHANGED <<socket, link>>

\* SharedWebSocket.close().  physicalSocket.send of the unsubscribe may throw.
CloseRoom(r) ==
  /\ r \in Registered
  /\ WithinBounds
  /\ \E again \in Reopens :
       \/ CloseVirtualSocket(r, Wire(<<Unsubscribe(r)>>), FALSE, again)
       \/ socket = "open" /\ CloseVirtualSocket(r, <<>>, TRUE, again)
  /\ UNCHANGED toClient

\* SharedWebSocket.send(): silently nothing if the physical socket is closing;
\* if its send throws, the physical socket is closed.
SendData(r) ==
  /\ virtual[r] = "open"
  /\ WithinBounds
  /\ \/ /\ toServer' = toServer \o Wire(<<Data(r)>>)
        /\ UNCHANGED <<socket, link>>
     \/ /\ socket = "open"
        /\ ClosePhysicalSocket(<<>>, NormalClosure)
  /\ UNCHANGED <<virtual, grant, toClient>>

-----------------------------------------------------------------------------
\* socket.onopen: subscribe every waiting room, one after the other; a send
\* that throws ends the loop and the connection.
PhysicalOpens ==
  /\ socket = "connecting" /\ link = "up"
  /\ \E order \in SetToSeqs(Connecting) :
       LET asks == [i \in DOMAIN order |-> Subscribe(order[i], grant[order[i]])]
       IN \/ /\ socket' = "open"
             /\ toServer' = toServer \o asks
          \/ \E n \in 0 .. Len(order) - 1 :
               /\ socket' = "closing"
               /\ toServer' = toServer \o SubSeq(asks, 1, n) \o <<Close(NormalClosure)>>
  /\ UNCHANGED <<virtual, grant, toClient, link>>

Deliver(type) ==
  /\ socket = "open"
  /\ toClient # <<>>
  /\ Head(toClient).type = type
  /\ toClient' = Tail(toClient)

\* The room's socket opens if it is still waiting for it.
ReceiveSubscribed ==
  /\ Deliver("subscribed")
  /\ LET r == Head(toClient).room
     IN virtual' = IF virtual[r] = "connecting" THEN [virtual EXCEPT ![r] = "open"] ELSE virtual
  /\ UNCHANGED <<socket, grant, toServer, link>>

\* Handed to an open socket, otherwise dropped; either way nothing changes here.
ReceiveData ==
  /\ Deliver("data")
  /\ UNCHANGED <<clientVars, toServer, link>>

\* Mutant: treats the end of a room as the end of the connection.
ReceiveRoomClosedForAll ==
  /\ Deliver("room_closed")
  /\ virtual' = [r \in Rooms |-> "none"]
  /\ grant' = [r \in Rooms |-> "none"]
  /\ ClosePhysicalSocket(<<>>, NormalClosure)

ReceiveRoomClosed ==
  /\ Deliver("room_closed")
  /\ LET r == Head(toClient).room
     IN \/ /\ r \notin Registered
           /\ UNCHANGED <<clientVars, toServer, link>>
        \/ /\ r \in Registered
           /\ \E again \in Reopens : CloseVirtualSocket(r, <<>>, FALSE, again)

\* Undecodable bytes, or a message only a client may send.
ReceiveInvalid ==
  /\ \E type \in {"malformed", "subscribe", "unsubscribe"} : Deliver(type)
  /\ ClosePhysicalSocket(<<>>, ProtocolFailure)
  /\ UNCHANGED <<virtual, grant>>

\* The browser answers the server's close frame.
ReceiveClose ==
  /\ Deliver("close")
  /\ ClosePhysicalSocket(<<>>, Head(toClient).code)
  /\ UNCHANGED <<virtual, grant>>

\* Mutant: forgets the socket, not its rooms.
PhysicalClosesAlone ==
  /\ socket = "closing" \/ (socket # "none" /\ link = "down")
  /\ socket' = "none"
  /\ link' = "down"
  /\ toClient' = <<>>
  /\ UNCHANGED <<virtual, grant, toServer>>

\* Mutant: tells only the rooms that were open.
PhysicalClosesOpenRooms ==
  /\ socket = "closing" \/ (socket # "none" /\ link = "down")
  /\ socket' = "none"
  /\ link' = "down"
  /\ virtual' = [r \in Rooms |-> IF virtual[r] = "open" THEN "none" ELSE virtual[r]]
  /\ grant' = [r \in Rooms |-> IF virtual[r] = "open" THEN "none" ELSE grant[r]]
  /\ toClient' = <<>>
  /\ UNCHANGED toServer

\* socket.onclose: forget the socket and close every virtual socket.  The map
\* is empty before the first onclose runs, so a room it constructs is a
\* Construct of the next step.
PhysicalCloses ==
  /\ socket = "closing" \/ (socket # "none" /\ link = "down")
  /\ socket' = "none"
  /\ link' = "down"
  /\ virtual' = [r \in Rooms |-> "none"]
  /\ grant' = [r \in Rooms |-> "none"]
  /\ toClient' = <<>>
  /\ UNCHANGED toServer

ReceiveMessage ==
  \/ ReceiveSubscribed
  \/ ReceiveData
  \/ ReceiveRoomClosed
  \/ ReceiveInvalid
  \/ ReceiveClose

Consumer ==
  \/ \E r \in Rooms, g \in Grants : Construct(r, g)
  \/ \E r \in Rooms : CloseRoom(r)
  \/ \E r \in Rooms : SendData(r)

ClientNext ==
  \/ Consumer
  \/ PhysicalOpens
  \/ ReceiveMessage
  \/ PhysicalCloses

-----------------------------------------------------------------------------
(***************************************************************************)
(* The network, and a server that may send anything.                       *)
(***************************************************************************)
\* What was sent may still be read, up to the moment each end gives up.
ConnectionBreaks ==
  /\ link # "down"
  /\ link' = "down"
  /\ UNCHANGED <<clientVars, toServer, toClient>>

ServerAccepts ==
  /\ link = "dialing"
  /\ link' = "up"
  /\ UNCHANGED <<clientVars, toServer, toClient>>

AnyServerMessage ==
  ServerMessages \cup {Subscribe(r, "valid") : r \in Rooms} \cup {Unsubscribe(r) : r \in Rooms}
    \cup {Malformed, Close(TimedOut)}

ServerSends(m) ==
  /\ link = "up"
  /\ Len(toClient) < MaxQueue /\ Len(toServer) <= MaxBacklog
  /\ toClient' = Append(toClient, m)
  /\ UNCHANGED <<clientVars, toServer, link>>

ServerReceives ==
  /\ toServer # <<>>
  /\ toServer' = Tail(toServer)
  /\ UNCHANGED <<clientVars, toClient, link>>

Server ==
  \/ ServerAccepts
  \/ \E m \in AnyServerMessage : ServerSends(m)
  \/ ServerReceives

Next == ClientNext \/ Server \/ ConnectionBreaks

\* The browser opens, delivers and closes; it asks nothing of the server.
Fairness ==
  /\ WF_vars(PhysicalOpens)
  /\ WF_vars(ReceiveMessage)
  /\ WF_vars(PhysicalCloses)

Spec == Init /\ [][Next]_vars /\ Fairness

-----------------------------------------------------------------------------
\* The adapter's state has its type, and a socket in the map has the grant it
\* was constructed with: no acknowledgement brings a closed room back.
TypeOK ==
  /\ socket \in {"none", "connecting", "open", "closing"}
  /\ virtual \in [Rooms -> {"none", "connecting", "open"}]
  /\ grant \in [Rooms -> Grants \cup {"none"}]
  /\ \A r \in Rooms : virtual[r] = "none" <=> grant[r] = "none"
  /\ toServer \in Seq(ClientMessages \cup CloseFrames)
  /\ toClient \in Seq(AnyServerMessage \cup CloseFrames)
  /\ link \in {"down", "dialing", "up"}

\* A registered room always has a physical socket whose open or close event is
\* still to come: none is left connecting for ever because the socket it
\* waited for is gone.
RegisteredRoomsHaveTransport == Registered # {} => socket # "none"

\* A physical socket that no room uses is being closed: after the last room,
\* whoever closed it and whatever its onclose did, the connection does not stay
\* behind (closeVirtualSocket's finally block).
UnusedTransportIsClosing == Registered = {} => socket \in {"none", "closing"}

\* Per room, what the server reads is well-formed: no data follows an
\* unsubscribe unless a subscribe comes between, even when a late
\* acknowledgement opens the room's next socket.
NoDataAfterUnsubscribe ==
  \A i, j \in DOMAIN toServer :
    (/\ i < j
     /\ toServer[i].type = "unsubscribe"
     /\ toServer[j].type = "data"
     /\ toServer[j].room = toServer[i].room)
      => \E k \in i .. j :
           /\ toServer[k].type = "subscribe"
           /\ toServer[k].room = toServer[i].room

\* Two rooms close in one step only when their physical socket closes: the end
\* of one room, by either side, closes no other.
RoomsCloseAlone ==
  [][\A r, q \in Rooms :
       (r # q /\ r \in Registered \ Registered' /\ q \in Registered \ Registered')
         => socket' = "none"]_vars

\* A room does not wait for ever on a physical socket that has started to
\* close or lost its network: its onclose will run, so that it can be retried.
ClosingReachesEveryRoom ==
  \A r \in Rooms :
    (virtual[r] # "none" /\ (socket = "closing" \/ link = "down")) ~> virtual[r] = "none"
=============================================================================
