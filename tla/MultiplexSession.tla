------------------------- MODULE MultiplexSession --------------------------
(***************************************************************************)
(* The server's end of one multiplex connection: class MultiplexSession    *)
(* with its heartbeat (physical-heartbeat.ts), the connection timer of     *)
(* server.ts and the y-websocket connections it sets up per room.          *)
(*                                                                         *)
(* Handlers of the Node event loop run to completion, so each is one       *)
(* action.  What can come between two of them is anything the peer, the    *)
(* timers, the Yjs documents or a failing socket do, and that is what the  *)
(* next-state relation interleaves.                                        *)
(***************************************************************************)
EXTENDS MultiplexProtocol

VARIABLES
  phys,            \* physical.readyState, as this end sees it
  rooms,           \* keys of the rooms map
  attached,        \* rooms whose y-websocket connection is set up (external)
  closedRooms,     \* the closedRooms set
  bypassAttempts,  \* authorizationBypassAttempts
  peakRooms,       \* peakRoomCount
  activeRooms,     \* this session's part of the activeRoomConnections gauge
  heartbeat,       \* whether the heartbeat interval runs
  pongReceived,    \* its flag
  pinged,          \* a ping is out and unanswered
  unsettled,       \* a send whose callback has not run is outstanding
  toServer,        \* bytes on their way here, oldest first
  toClient,        \* bytes on their way to the peer
  link             \* whether the network still carries bytes

roomVars == <<rooms, attached, closedRooms, activeRooms>>
beatVars == <<heartbeat, pongReceived, pinged>>
serverVars == <<phys, roomVars, bypassAttempts, peakRooms, beatVars, unsettled>>
vars == <<serverVars, toServer, toClient, link>>

MaxBypassAttempts == 2

Init ==
  /\ phys = "open"
  /\ rooms = {} /\ attached = {} /\ closedRooms = {} /\ activeRooms = 0
  /\ bypassAttempts = 0
  /\ peakRooms = 0
  /\ heartbeat = "running" /\ pongReceived = TRUE /\ pinged = FALSE
  /\ unsettled = FALSE
  /\ toServer = <<>> /\ toClient = <<>>
  /\ link = "up"

-----------------------------------------------------------------------------
(***************************************************************************)
(* cleanupRooms, with the close listener addRoom registers, applied to the *)
(* rooms map `open': every room leaves the map for closedRooms, its Yjs    *)
(* connection is closed and the gauge is told.  The close reason is an     *)
(* expected one, so nothing is sent.                                       *)
(***************************************************************************)
\* Mutant: clears the map without closing the room sockets.
CleanupRoomsUnclosed(open, closed, active) ==
  /\ rooms' = {}
  /\ closedRooms' = closed \cup open
  /\ activeRooms' = active - Cardinality(open)
  /\ UNCHANGED attached

\* Mutant: records one close, however many rooms go.
CleanupRoomsRecordedOnce(open, closed, active) ==
  /\ rooms' = {}
  /\ attached' = {}
  /\ closedRooms' = closed \cup open
  /\ activeRooms' = IF open = {} THEN active ELSE active - 1

CleanupRooms(open, closed, active) ==
  /\ rooms' = {}
  /\ attached' = {}
  /\ closedRooms' = closed \cup open
  /\ activeRooms' = active - Cardinality(open)

\* physical.close(code): only an open socket sends the frame.
ClosePhysicalSocket(sent, code) ==
  /\ phys' = IF phys = "open" THEN "closing" ELSE phys
  /\ toClient' = IF phys = "open" THEN sent \o <<Close(code)>> ELSE sent

\* sendPhysicalMessage on an open socket, the callback still to come.
Send(messages) ==
  /\ toClient' = toClient \o messages
  /\ unsettled' = TRUE
  /\ UNCHANGED phys

\* handlePhysicalSendError, run from inside the failing send; `sent' is what
\* left before it.
SendFails(sent, open, closed, active) ==
  /\ CleanupRooms(open, closed, active)
  /\ ClosePhysicalSocket(sent, SendFailure)
  /\ unsettled' = (unsettled \/ sent # toClient)

\* A reply that changes no room: it is sent, or the send fails and takes
\* every room with it.
Reply(message) ==
  \/ Send(<<message>>) /\ UNCHANGED roomVars
  \/ SendFails(toClient, rooms, closedRooms, activeRooms)

\* closePhysical: clean up, then close.
ClosePhysical(sent, code) ==
  /\ CleanupRooms(rooms, closedRooms, activeRooms)
  /\ ClosePhysicalSocket(sent, code)

\* Mutant: closes only after one attempt too many.
RejectAuthorizationBypassLate(r) ==
  /\ bypassAttempts' = bypassAttempts + 1
  /\ \/ /\ bypassAttempts' <= MaxBypassAttempts
        /\ Reply(RoomClosed(r, RoomRejected))
     \/ /\ bypassAttempts' > MaxBypassAttempts
        /\ ClosePhysical(Append(toClient, RoomClosed(r, RoomRejected)), PolicyViolation)
        /\ unsettled' = TRUE

\* rejectAuthorizationBypass, with rejectRoom.
RejectAuthorizationBypass(r) ==
  /\ bypassAttempts' = bypassAttempts + 1
  /\ \/ /\ bypassAttempts' < MaxBypassAttempts
        /\ Reply(RoomClosed(r, RoomRejected))
     \/ /\ bypassAttempts' >= MaxBypassAttempts
        /\ ClosePhysical(Append(toClient, RoomClosed(r, RoomRejected)), PolicyViolation)
        /\ unsettled' = TRUE
     \/ /\ bypassAttempts' >= MaxBypassAttempts
        /\ SendFails(toClient, rooms, closedRooms, activeRooms)

\* Mutant: forgets recordRoomOpen.
AddRoomUnrecorded(r) ==
  /\ rooms' = rooms \cup {r}
  /\ attached' = attached \cup {r}
  /\ closedRooms' = closedRooms \ {r}
  /\ Send(<<Subscribed(r), Data(r)>>)
  /\ UNCHANGED <<activeRooms, peakRooms>>

\* addRoom: the acknowledgement, then the sync step y-websocket sends as soon
\* as it is set up.  Either send may fail; a failed acknowledgement means the
\* y-websocket connection is never set up.
AddRoom(r) ==
  /\ peakRooms' = IF Cardinality(rooms) + 1 > peakRooms
                    THEN Cardinality(rooms) + 1 ELSE peakRooms
  /\ \/ /\ rooms' = rooms \cup {r}
        /\ attached' = attached \cup {r}
        /\ closedRooms' = closedRooms \ {r}
        /\ activeRooms' = activeRooms + 1
        /\ Send(<<Subscribed(r), Data(r)>>)
     \/ \E sent \in {toClient, Append(toClient, Subscribed(r))} :
          SendFails(sent, rooms \cup {r}, closedRooms \ {r}, activeRooms + 1)

\* Mutant: no closedRooms entry.
LeaveRoomForgotten(r) ==
  /\ rooms' = rooms \ {r}
  /\ attached' = attached \ {r}
  /\ activeRooms' = activeRooms - 1
  /\ UNCHANGED closedRooms

\* Mutant: leaves the map, but the y-websocket connection lives on.
LeaveRoomAttached(r) ==
  /\ rooms' = rooms \ {r}
  /\ closedRooms' = closedRooms \cup {r}
  /\ activeRooms' = activeRooms - 1
  /\ UNCHANGED attached

\* Leave room r of the rooms map, as its close listener does.
LeaveRoom(r) ==
  /\ rooms' = rooms \ {r}
  /\ attached' = attached \ {r}
  /\ closedRooms' = closedRooms \cup {r}
  /\ activeRooms' = activeRooms - 1

-----------------------------------------------------------------------------
(***************************************************************************)
(* handlePhysicalMessage, one action per kind of message.                  *)
(***************************************************************************)
Receive(type) ==
  /\ phys # "closed"
  /\ toServer # <<>>
  /\ Head(toServer).type = type
  /\ toServer' = Tail(toServer)
  /\ UNCHANGED <<beatVars, link>>

\* Buffered bytes the socket delivers after a close has started.
ReceiveWhenNotOpen ==
  /\ phys = "closing"
  /\ \E type \in {"subscribe", "unsubscribe", "data", "subscribed", "room_closed", "malformed"} :
       Receive(type)
  /\ CleanupRooms(rooms, closedRooms, activeRooms)
  /\ UNCHANGED <<phys, bypassAttempts, peakRooms, unsettled, toClient>>

\* A text frame, bytes that do not decode, or a message only a server sends.
ReceiveInvalid ==
  /\ phys = "open"
  /\ \E type \in {"malformed", "subscribed", "room_closed"} : Receive(type)
  /\ ClosePhysical(toClient, ProtocolError)
  /\ UNCHANGED <<bypassAttempts, peakRooms, unsettled>>

(***************************************************************************)
(* subscribe.  A grant is checked when it arrives: one that was valid when *)
(* the client obtained it may have expired by then.                        *)
(***************************************************************************)
SubscribeRoom(r, grant) ==
  \/ /\ r \in rooms
     /\ Reply(Subscribed(r))
     /\ UNCHANGED <<bypassAttempts, peakRooms>>
  \/ /\ r \notin rooms /\ grant = "unverifiable"
     /\ Reply(RoomClosed(r, RoomRejected))
     /\ UNCHANGED <<bypassAttempts, peakRooms>>
  \/ /\ r \notin rooms /\ grant = "foreign"
     /\ RejectAuthorizationBypass(r)
     /\ UNCHANGED peakRooms
  \/ /\ r \notin rooms /\ grant = "valid"   \* but expired by now
     /\ Reply(RoomClosed(r, RoomInterrupted))
     /\ UNCHANGED <<bypassAttempts, peakRooms>>
  \/ /\ r \notin rooms /\ grant = "valid"
     /\ AddRoom(r)
     /\ UNCHANGED bypassAttempts

ReceiveSubscribe ==
  /\ phys = "open"
  /\ Receive("subscribe")
  /\ SubscribeRoom(Head(toServer).room, Head(toServer).grant)

\* Data of a joined room goes to its Yjs document, whose answer, if it has
\* one, is a RoomSendsData that follows; data of a room that was joined before
\* is dropped, and any other is an attempt to bypass authorization.
ReceiveData ==
  /\ phys = "open"
  /\ Receive("data")
  /\ LET r == Head(toServer).room
     IN \/ /\ r \in rooms \cup closedRooms
           /\ UNCHANGED <<phys, roomVars, bypassAttempts, unsettled, toClient>>
        \/ /\ r \notin rooms \cup closedRooms
           /\ RejectAuthorizationBypass(r)
  /\ UNCHANGED peakRooms

\* unsubscribe: leaving a room that is not joined is not an error.
ReceiveUnsubscribe ==
  /\ phys = "open"
  /\ Receive("unsubscribe")
  /\ LET r == Head(toServer).room
     IN IF r \in rooms THEN LeaveRoom(r) ELSE UNCHANGED roomVars
  /\ UNCHANGED <<phys, bypassAttempts, peakRooms, unsettled, toClient>>

\* The peer's close frame never reaches a handler: the ws library answers it.
ReceiveClose ==
  /\ Receive("close")
  /\ ClosePhysicalSocket(toClient, Head(toServer).code)
  /\ UNCHANGED <<roomVars, bypassAttempts, peakRooms, unsettled>>

-----------------------------------------------------------------------------
(***************************************************************************)
(* What the Yjs documents and the socket do on their own.                  *)
(***************************************************************************)

\* y-websocket sends an update of room r.  On a socket that is no longer
\* open, ws fails the send later, through its callback.
RoomSendsData(r) ==
  /\ r \in attached
  /\ Len(toClient) < MaxQueue
  /\ \/ /\ phys = "open"
        /\ Send(<<Data(r)>>)
        /\ UNCHANGED roomVars
     \/ /\ phys = "open"
        /\ SendFails(toClient, rooms, closedRooms, activeRooms)
     \/ /\ phys = "closing"
        /\ unsettled' = TRUE
        /\ UNCHANGED <<phys, roomVars, toClient>>
  /\ UNCHANGED <<bypassAttempts, peakRooms, beatVars, toServer, link>>

\* Mutant: the listener never tells the peer.
RoomClosesItselfSilently(r) ==
  /\ r \in attached
  /\ LeaveRoom(r)
  /\ UNCHANGED <<phys, bypassAttempts, peakRooms, beatVars, unsettled, toServer, toClient, link>>

\* y-websocket closes room r's connection (a failed document, a closed doc):
\* the close listener tells the peer it may retry.
RoomClosesItself(r) ==
  /\ r \in attached
  /\ \/ /\ phys = "open"
        /\ LeaveRoom(r)
        /\ Send(<<RoomClosed(r, RoomInterrupted)>>)
     \/ /\ phys = "open"
        /\ SendFails(toClient, rooms, closedRooms, activeRooms)
     \/ /\ phys # "open"
        /\ LeaveRoom(r)
        /\ UNCHANGED <<phys, unsettled, toClient>>
  /\ UNCHANGED <<bypassAttempts, peakRooms, beatVars, toServer, link>>

\* The callbacks of the outstanding sends run without an error.
SendsSettle ==
  /\ unsettled /\ unsettled' = FALSE
  /\ UNCHANGED <<phys, roomVars, bypassAttempts, peakRooms, beatVars, toServer, toClient, link>>

\* A callback reports an error, perhaps long after the send returned.
SendFailsLater ==
  /\ unsettled /\ unsettled' = FALSE
  /\ CleanupRooms(rooms, closedRooms, activeRooms)
  /\ ClosePhysicalSocket(toClient, SendFailure)
  /\ UNCHANGED <<bypassAttempts, peakRooms, beatVars, toServer, link>>

\* server.ts: the timer that bounds the life of a connection.  It closes the
\* socket without touching the session.
ConnectionTimeout ==
  /\ phys = "open"
  /\ ClosePhysicalSocket(toClient, TimedOut)
  /\ UNCHANGED <<roomVars, bypassAttempts, peakRooms, beatVars, unsettled, toServer, link>>

\* The 'close' event: the handshake ended, timed out, or the connection broke.
PhysicalClosed ==
  /\ phys = "closing" \/ (phys = "open" /\ link = "down")
  /\ phys' = "closed"
  /\ link' = "down"
  /\ heartbeat' = "stopped"
  /\ CleanupRooms(rooms, closedRooms, activeRooms)
  /\ toServer' = <<>>
  /\ UNCHANGED <<bypassAttempts, peakRooms, pongReceived, pinged, unsettled, toClient>>

-----------------------------------------------------------------------------
(***************************************************************************)
(* startPhysicalHeartbeat: one tick of the interval.                       *)
(***************************************************************************)
\* stop, onUnresponsive, terminate: the socket is destroyed, no frame is sent.
Terminate ==
  /\ heartbeat' = "stopped"
  /\ CleanupRooms(rooms, closedRooms, activeRooms)
  /\ phys' = "closing"
  /\ link' = "down"
  /\ UNCHANGED <<pongReceived, pinged, toClient>>

TickNotOpen ==
  /\ phys # "open"
  /\ heartbeat' = "stopped"
  /\ UNCHANGED <<phys, roomVars, pongReceived, pinged, toClient, link>>

\* onEmpty, after stop.
TickEmpty ==
  /\ phys = "open" /\ rooms = {}
  /\ heartbeat' = "stopped"
  /\ ClosePhysical(toClient, TimedOut)
  /\ UNCHANGED <<pongReceived, pinged, link>>

TickUnanswered ==
  /\ phys = "open" /\ rooms # {} /\ ~pongReceived
  /\ Terminate

\* Mutant: pings without taking the flag back.
TickPingUnflagged ==
  /\ phys = "open" /\ rooms # {} /\ pongReceived
  /\ pinged' = TRUE
  /\ UNCHANGED <<phys, roomVars, heartbeat, pongReceived, toClient, link>>

TickPing ==
  /\ phys = "open" /\ rooms # {} /\ pongReceived
  /\ \/ /\ pongReceived' = FALSE
        /\ pinged' = TRUE
        /\ UNCHANGED <<phys, roomVars, heartbeat, toClient, link>>
     \/ Terminate   \* ping throws (the flag is of no more use)

HeartbeatTick ==
  /\ heartbeat = "running"
  /\ TickNotOpen \/ TickEmpty \/ TickUnanswered \/ TickPing
  /\ UNCHANGED <<bypassAttempts, peakRooms, unsettled, toServer>>

\* The peer's pong; stop() has removed the listener of a stopped heartbeat.
Pong ==
  /\ pinged /\ link = "up" /\ heartbeat = "running"
  /\ pinged' = FALSE
  /\ pongReceived' = TRUE
  /\ UNCHANGED <<phys, roomVars, bypassAttempts, peakRooms, heartbeat, unsettled,
                 toServer, toClient, link>>

ReceiveMessage ==
  \/ ReceiveWhenNotOpen
  \/ ReceiveInvalid
  \/ ReceiveSubscribe
  \/ ReceiveData
  \/ ReceiveUnsubscribe
  \/ ReceiveClose

ServerNext ==
  \/ ReceiveMessage
  \/ \E r \in Rooms : RoomSendsData(r)
  \/ \E r \in Rooms : RoomClosesItself(r)
  \/ SendsSettle
  \/ SendFailsLater
  \/ ConnectionTimeout
  \/ PhysicalClosed
  \/ HeartbeatTick
  \/ Pong

-----------------------------------------------------------------------------
(***************************************************************************)
(* The peer and the network, as seen from here: any message may come at    *)
(* any time, and the peer may vanish without a word.                       *)
(***************************************************************************)
PeerSends(m) ==
  /\ link = "up" /\ phys # "closed"
  /\ Len(toServer) < MaxBacklog /\ Len(toClient) < MaxQueue
  /\ ~\E i \in DOMAIN toServer : toServer[i].type = "close"
  /\ toServer' = Append(toServer, m)
  /\ UNCHANGED <<serverVars, toClient, link>>

PeerReceives ==
  /\ toClient # <<>>
  /\ toClient' = Tail(toClient)
  /\ UNCHANGED <<serverVars, toServer, link>>

PeerVanishes ==
  /\ link = "up"
  /\ link' = "down"
  /\ toClient' = <<>>
  /\ UNCHANGED <<serverVars, toServer>>

PeerMessages == ClientMessages \cup ServerMessages \cup {Malformed, Close(NormalClosure)}

Peer ==
  \/ \E m \in PeerMessages : PeerSends(m)
  \/ PeerReceives
  \/ PeerVanishes

Next == ServerNext \/ Peer

(***************************************************************************)
(* The event loop runs timers and delivers what has arrived; ws ends every *)
(* closing handshake, by timeout if need be.  Nothing is assumed of the    *)
(* peer, nor of the optional timers, updates and failures.                 *)
(***************************************************************************)
Fairness ==
  /\ WF_vars(ReceiveMessage)
  /\ WF_vars(HeartbeatTick)
  /\ WF_vars(phys = "closing" /\ PhysicalClosed)

Spec == Init /\ [][Next]_vars /\ Fairness

-----------------------------------------------------------------------------
(***************************************************************************)
(* Properties.                                                             *)
(***************************************************************************)
\* The state variables stay in their types: the room sets are sets of room
\* names, the counters are naturals, the queues hold protocol messages.
TypeOK ==
  /\ phys \in {"open", "closing", "closed"}
  /\ rooms \subseteq Rooms /\ attached \subseteq Rooms /\ closedRooms \subseteq Rooms
  /\ activeRooms \in Nat
  /\ bypassAttempts \in Nat
  /\ peakRooms \in Nat
  /\ heartbeat \in {"running", "stopped"} /\ pongReceived \in BOOLEAN /\ pinged \in BOOLEAN
  /\ unsettled \in BOOLEAN
  /\ toServer \in Seq(PeerMessages)
  /\ toClient \in Seq(ServerMessages \cup CloseFrames)
  /\ link \in {"up", "down"}

\* However a room goes (its own close, an unsubscribe, a failing send inside
\* addRoom, a closing transport), recordRoomOpen and recordRoomClose stay
\* paired: the gauge counts the rooms map, and the peak reported at the end
\* is at least its size.
GaugeCountsRooms ==
  /\ activeRooms = Cardinality(rooms)
  /\ Cardinality(rooms) <= peakRooms

\* A y-websocket connection exists for a room exactly while the room is in
\* the map: a failing acknowledgement must not leave one behind on the Yjs
\* document (addRoom's early return), and no room is served without one.
NoLeakedDocument == attached = rooms

\* A room is open or remembered as closed, never both, and every room whose
\* acknowledgement or data is on its way to the client is one of them.  So a
\* client that sends data on the strength of an acknowledgement, however late,
\* finds its room known and is not charged with a bypass attempt.
AcknowledgedRoomsAreKnown ==
  /\ rooms \cap closedRooms = {}
  /\ \A i \in DOMAIN toClient :
       toClient[i].type \in {"subscribed", "data"}
         => toClient[i].room \in rooms \cup closedRooms

\* The second bypass attempt ends the connection; there is never a third.
StrikesEndTheConnection ==
  /\ bypassAttempts <= MaxBypassAttempts
  /\ bypassAttempts = MaxBypassAttempts => phys # "open"

\* On the wire, no data of a room follows its room_closed unless a new
\* acknowledgement comes between: the client may treat room_closed as final.
NoDataAfterRoomClosed ==
  \A i, j \in DOMAIN toClient :
    (/\ i < j
     /\ toClient[i].type = "room_closed"
     /\ toClient[j].type = "data"
     /\ toClient[j].room = toClient[i].room)
      => \E k \in i .. j : toClient[k] = Subscribed(toClient[i].room)

\* While the connection stays open a room leaves the map only because the
\* client left it, or with a room_closed for that very room on the wire: no
\* client is left believing in a room the server forgot, and the failure of
\* one room takes no other with it (SYSTEM_ARCHITECTURE 5.5).
RoomsLeaveForACause ==
  [][\A r \in rooms \ rooms' :
       \/ phys' # "open"
       \/ toServer # <<>> /\ Head(toServer) = Unsubscribe(r) /\ toServer' = Tail(toServer)
       \/ toClient' = Append(toClient, RoomClosed(r, RoomInterrupted))]_vars

\* The session implements the promise of RoomService.  No message, buffered or
\* late, joins a room once a close has started, for nobody would ever close it
\* again; a closed socket leaves no room behind, whatever came in while it was
\* closing; a peer that vanished does not hold its rooms for ever, because the
\* heartbeat misses a pong and gives them up; a connection without a room is
\* ended; and a close that has started ends.
Service == INSTANCE RoomService WITH phase <- phys, served <- rooms, reach <- link

ImplementsRoomService == Service!ServiceSpec
=============================================================================
