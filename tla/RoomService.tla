---------------------------- MODULE RoomService ----------------------------
(***************************************************************************)
(* What one connection promises about the rooms it carries, whatever its   *)
(* messages, heartbeats and sends do: rooms come one at a time and only    *)
(* while the connection is open; they go one at a time, or all at once     *)
(* when the connection is ending; and a connection that has ended, that    *)
(* has lost its peer or that carries nothing holds no room for ever.       *)
(* MultiplexSession implements it (ImplementsRoomService).                 *)
(***************************************************************************)
CONSTANT Rooms

VARIABLES
  phase,    \* of the connection: open, closing, closed
  served,   \* the rooms it carries
  reach     \* whether the peer can still be reached: up, down

serviceVars == <<phase, served, reach>>

ServiceInit == phase = "open" /\ served = {} /\ reach = "up"

Join(r) ==
  /\ phase = "open" /\ r \notin served
  /\ served' = served \cup {r}
  /\ UNCHANGED <<phase, reach>>

LeaveOne(r) ==
  /\ r \in served
  /\ served' = served \ {r}
  /\ UNCHANGED <<phase, reach>>

\* A close starts; it may take every room and the network with it.
StartEnding ==
  /\ phase = "open" /\ phase' = "closing"
  /\ served' \in {served, {}}
  /\ reach' \in {reach, "down"}

\* Rooms that survived the start of the close go together.
Clear ==
  /\ phase = "closing"
  /\ served' = {}
  /\ UNCHANGED <<phase, reach>>

\* The connection is gone: after a close, or because the peer is.
End ==
  /\ phase = "closing" \/ (phase = "open" /\ reach = "down")
  /\ phase' = "closed" /\ served' = {} /\ reach' = "down"

LosePeer ==
  /\ reach = "up" /\ reach' = "down"
  /\ UNCHANGED <<phase, served>>

ServiceNext ==
  \/ \E r \in Rooms : Join(r) \/ LeaveOne(r)
  \/ StartEnding
  \/ Clear
  \/ End
  \/ LosePeer

\* A step that gives up the last room of a peer that is gone, ...
GiveUpRooms == reach = "down" /\ served # {} /\ ServiceNext /\ served' = {}

\* ... one that ends a connection without a room.
EndIdle == served = {} /\ (StartEnding \/ (phase = "open" /\ End))

\* Every step is one of the service's.
ServiceSteps == ServiceInit /\ [][ServiceNext]_serviceVars

ServiceSpec ==
  /\ ServiceSteps
  /\ WF_serviceVars(GiveUpRooms)
  /\ WF_serviceVars(EndIdle)
  /\ WF_serviceVars(phase = "closing" /\ End)
=============================================================================
