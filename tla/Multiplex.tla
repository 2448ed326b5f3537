----------------------------- MODULE Multiplex -----------------------------
(***************************************************************************)
(* One editor and the server, end to end: a MultiplexSession, which this   *)
(* module extends, and the SharedSocket adapter it talks to, over the two  *)
(* byte streams of a WebSocket.                                            *)
(* The client may lose its connection and dial again; every connection has *)
(* a session of its own at the server.  A session the client has left for  *)
(* a new connection is no longer modelled here: it can reach the client no *)
(* more, and MultiplexSession checks by itself how it ends.                *)
(***************************************************************************)
EXTENDS MultiplexSession, SequencesExt

CONSTANT Reopens   \* see SharedSocket

ASSUME ReopensAssumption == Reopens \subseteq Grants \cup {"none"}

VARIABLES
  socket, virtual, grant   \* of SharedSocket; the others are MultiplexSession's

Client == INSTANCE SharedSocket

clientVars == <<socket, virtual, grant>>
multiplexVars == <<clientVars, vars>>

\* A session that start() has just been called on, with physical state p.
NewSession(p) ==
  /\ phys' = p
  /\ rooms' = {} /\ attached' = {} /\ closedRooms' = {} /\ activeRooms' = 0
  /\ bypassAttempts' = 0
  /\ peakRooms' = 0
  /\ heartbeat' = "running" /\ pongReceived' = TRUE /\ pinged' = FALSE
  /\ unsettled' = FALSE

MultiplexInit ==
  /\ Client!Init
  /\ phys = "closed"
  /\ rooms = {} /\ attached = {} /\ closedRooms = {} /\ activeRooms = 0
  /\ bypassAttempts = 0
  /\ peakRooms = 0
  /\ heartbeat = "stopped" /\ pongReceived = TRUE /\ pinged = FALSE
  /\ unsettled = FALSE

-----------------------------------------------------------------------------
(***************************************************************************)
(* server.ts, the 'upgrade' event.  The grant in the URL opens the         *)
(* connection: its identity is the one later grants are compared with.     *)
(***************************************************************************)
UpgradeAccepted ==
  /\ link = "dialing" /\ link' = "up"
  /\ NewSession("open")
  /\ UNCHANGED <<clientVars, toServer, toClient>>

\* 401: the socket is destroyed before it became a WebSocket.
UpgradeRejected ==
  /\ link = "dialing" /\ link' = "down"
  /\ UNCHANGED <<clientVars, serverVars, toServer, toClient>>

\* The upgrade succeeds and a limit closes the WebSocket at once, without a
\* session: no room, no heartbeat.
UpgradeOverLimit ==
  /\ link = "dialing" /\ link' = "up"
  /\ \E code \in {ConnectionLimit, CollaboratorLimit} : toClient' = <<Close(code)>>
  /\ phys' = "closing"
  /\ rooms' = {} /\ attached' = {} /\ closedRooms' = {} /\ activeRooms' = 0
  /\ bypassAttempts' = 0
  /\ peakRooms' = 0
  /\ heartbeat' = "stopped" /\ pongReceived' = TRUE /\ pinged' = FALSE
  /\ unsettled' = FALSE
  /\ UNCHANGED <<clientVars, toServer>>

Upgrade == UpgradeAccepted \/ UpgradeRejected \/ UpgradeOverLimit

ConnectionBreaks ==
  /\ link # "down"
  /\ link' = "down"
  /\ UNCHANGED <<clientVars, serverVars, toServer, toClient>>

ClientStep == Client!ClientNext /\ UNCHANGED serverVars
ServerStep == link # "dialing" /\ ServerNext /\ UNCHANGED clientVars

MultiplexNext == ClientStep \/ ServerStep \/ Upgrade \/ ConnectionBreaks

(***************************************************************************)
(* Both event loops run, an upgrade request is answered, and a WebSocket   *)
(* that is closing or has lost its network ends.  The users, the timers    *)
(* and the failures are under no obligation.                               *)
(***************************************************************************)
MultiplexFairness ==
  /\ WF_multiplexVars(Client!PhysicalOpens /\ UNCHANGED serverVars)
  /\ WF_multiplexVars(Client!ReceiveMessage /\ UNCHANGED serverVars)
  /\ WF_multiplexVars(Client!PhysicalCloses /\ UNCHANGED serverVars)
  /\ WF_multiplexVars(link # "dialing" /\ ReceiveMessage /\ UNCHANGED clientVars)
  /\ WF_multiplexVars(link # "dialing" /\ phys = "closing" /\ PhysicalClosed /\ UNCHANGED clientVars)
  /\ WF_multiplexVars(Upgrade)

MultiplexSpec == MultiplexInit /\ [][MultiplexNext]_multiplexVars /\ MultiplexFairness

-----------------------------------------------------------------------------
\* Nothing about room r is on its way in either direction.
Quiet(r) ==
  /\ \A i \in DOMAIN toServer : toServer[i].type # "close" => toServer[i].room # r
  /\ \A i \in DOMAIN toClient : toClient[i].type # "close" => toClient[i].room # r

\* Both ends consider the connection open, and no close is on its way.
Connected ==
  /\ link = "up" /\ socket = "open" /\ phys = "open"
  /\ \A q \in {toServer, toClient} : \A i \in DOMAIN q : q[i].type # "close"

\* A client that only presents its own grants, be they expired or beyond
\* verification, is never charged with an attempt to bypass authorization and
\* never cut off for it (close code 1008): however its closes, resubscriptions
\* and late acknowledgements interleave with the server's own closes, its data
\* reaches the server for a room the server knows.
HonestClientIsNotExpelled ==
  Grants \subseteq {"valid", "unverifiable"} =>
    /\ bypassAttempts = 0
    /\ \A i \in DOMAIN toClient : toClient[i] # Close(PolicyViolation)

\* When nothing about a room is in flight, a room the client uses is one the
\* server serves: the client does not edit into the void.
OpenRoomIsServed ==
  \A r \in Rooms : (Connected /\ Quiet(r) /\ virtual[r] = "open") => r \in attached

\* When nothing about a room is in flight, the client does not wait for it:
\* every subscribe it depends on has been sent and answered.
NoForgottenSubscription ==
  \A r \in Rooms : (Connected /\ Quiet(r)) => virtual[r] # "connecting"

\* A room does not stay connecting for ever: it opens, is refused, or is closed
\* with its connection and can be tried again.
ConnectingRoomIsAnswered ==
  \A r \in Rooms : (virtual[r] = "connecting") ~> (virtual[r] # "connecting")
=============================================================================
