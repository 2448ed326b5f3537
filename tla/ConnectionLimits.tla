-------------------------- MODULE ConnectionLimits --------------------------
(***************************************************************************)
(* The server's admission of sockets by its two limits, and the gauges     *)
(* that count them.  A socket is one that has completed its upgrade and    *)
(* has not yet ended, so it is in wss.clients; one that was refused stays  *)
(* there, without an identity, until its closing handshake is over.        *)
(*                                                                         *)
(* The ws library is external: it adds a socket to wss.clients before the  *)
(* upgrade's callback and removes it before the close listeners run.       *)
(***************************************************************************)
EXTENDS Integers, FiniteSets

CONSTANTS
  Sockets,             \* all the sockets there may be at once
  Clients,             \* wp_client_id: one per page load
  UserOf,              \* UserOf[c]: the user_id in the grants of client c
  MaxConnections,      \* MAX_CONNECTIONS, -1 for no limit
  BufferConnections,   \* BUFFER_CONNECTIONS
  MaxCollaborators     \* MAX_COLLABORATORS, -1 for no limit

ASSUME SocketsAssumption == IsFiniteSet(Sockets)
ASSUME ClientsAssumption == IsFiniteSet(Clients) /\ "none" \notin Clients
ASSUME UserOfAssumption == DOMAIN UserOf = Clients
ASSUME MaxConnectionsAssumption == MaxConnections \in Nat \cup {-1}
ASSUME BufferConnectionsAssumption == BufferConnections \in Nat
ASSUME MaxCollaboratorsAssumption == MaxCollaborators \in Nat \cup {-1}

VARIABLES
  verdict,   \* verdict[s]: "free", not in wss.clients; "accepted"; or
             \* refused: "overConnections" (4002) or "overCollaborators" (4003)
  client,    \* client[s]: the client that asked for s, or "none"
  activeConnectionsGauge,
  activeClientsGauge,
  activeCollaboratorsGauge

gauges == <<activeConnectionsGauge, activeClientsGauge, activeCollaboratorsGauge>>
vars == <<verdict, client, gauges>>

Init ==
  /\ verdict = [s \in Sockets |-> "free"]
  /\ client = [s \in Sockets |-> "none"]
  /\ activeConnectionsGauge = 0
  /\ activeClientsGauge = 0
  /\ activeCollaboratorsGauge = 0

-----------------------------------------------------------------------------
\* wss.clients, and those of them that were given an identity.
WssClients == {s \in Sockets : verdict[s] # "free"}
Accepted == {s \in Sockets : verdict[s] = "accepted"}
ActiveClients == {client[s] : s \in Accepted}
ActiveUsers == {UserOf[c] : c \in ActiveClients}

SoftLimit ==
  IF MaxConnections < BufferConnections * 2
  THEN MaxConnections ELSE MaxConnections - BufferConnections

\* Mutant: every tab of an active user counts as active.
IsClientOfActiveUser(c) == UserOf[c] \in ActiveUsers

IsClientActive(c) == c \in ActiveClients

\* Mutant: an active client is let in before the maximum is looked at.
ShouldAllowActiveFirst(total, c) ==
  \/ MaxConnections = -1
  \/ IsClientActive(c)
  \/ total <= MaxConnections /\ total <= SoftLimit

\* `total' is wss.clients.size with the new socket.
ShouldAllowConnection(total, c) ==
  \/ MaxConnections = -1
  \/ /\ total <= MaxConnections
     /\ total <= SoftLimit \/ IsClientActive(c)

ShouldAllowCollaborator(u) ==
  \/ MaxCollaborators = -1
  \/ u \in ActiveUsers
  \/ Cardinality(ActiveUsers) < MaxCollaborators

\* getActiveClientCount counts the sockets without identity as one client.
ActiveClientCount ==
  Cardinality(ActiveClients \cup {"none" : s \in WssClients \ Accepted})

\* The gauges that are set whenever a connection is recorded.
RecordIdentities ==
  /\ activeClientsGauge' = ActiveClientCount'
  /\ activeCollaboratorsGauge' = Cardinality(ActiveUsers')

-----------------------------------------------------------------------------
\* A socket completes its upgrade; collaborators are counted first.
Refuse(s, c, reason) ==
  /\ verdict' = [verdict EXCEPT ![s] = reason]
  /\ client' = [client EXCEPT ![s] = c]
  /\ UNCHANGED gauges

OverCollaborators(s, c) ==
  /\ verdict[s] = "free"
  /\ ~ShouldAllowCollaborator(UserOf[c])
  /\ Refuse(s, c, "overCollaborators")

OverConnections(s, c) ==
  /\ verdict[s] = "free"
  /\ ShouldAllowCollaborator(UserOf[c])
  /\ ~ShouldAllowConnection(Cardinality(WssClients) + 1, c)
  /\ Refuse(s, c, "overConnections")

Accept(s, c) ==
  /\ verdict[s] = "free"
  /\ ShouldAllowCollaborator(UserOf[c])
  /\ ShouldAllowConnection(Cardinality(WssClients) + 1, c)
  /\ verdict' = [verdict EXCEPT ![s] = "accepted"]
  /\ client' = [client EXCEPT ![s] = c]
  /\ activeConnectionsGauge' = activeConnectionsGauge + 1
  /\ RecordIdentities

Leave(s) ==
  /\ verdict' = [verdict EXCEPT ![s] = "free"]
  /\ client' = [client EXCEPT ![s] = "none"]

\* An accepted socket ends, for whatever reason.
ConnectionCloses(s) ==
  /\ verdict[s] = "accepted"
  /\ Leave(s)
  /\ activeConnectionsGauge' = activeConnectionsGauge - 1
  /\ RecordIdentities

\* A refused socket ends: nothing was recorded of it, nothing is now.
RefusedCloses(s) ==
  /\ verdict[s] \in {"overConnections", "overCollaborators"}
  /\ Leave(s)
  /\ UNCHANGED gauges

\* Mutant: clients for connections.
ReconcileClients ==
  /\ activeConnectionsGauge' = ActiveClientCount
  /\ activeClientsGauge' = ActiveClientCount
  /\ activeCollaboratorsGauge' = Cardinality(ActiveUsers)
  /\ UNCHANGED <<verdict, client>>

\* reconcileConnectedClients, every minute.
Reconcile ==
  /\ activeConnectionsGauge' = Cardinality(WssClients)
  /\ activeClientsGauge' = ActiveClientCount
  /\ activeCollaboratorsGauge' = Cardinality(ActiveUsers)
  /\ UNCHANGED <<verdict, client>>

Next ==
  \/ \E s \in Sockets, c \in Clients :
       OverCollaborators(s, c) \/ OverConnections(s, c) \/ Accept(s, c)
  \/ \E s \in Sockets : ConnectionCloses(s) \/ RefusedCloses(s)
  \/ Reconcile

Spec == Init /\ [][Next]_vars

-----------------------------------------------------------------------------
\* Variables hold values of their types; no gauge falls below zero.
TypeOK ==
  /\ verdict \in [Sockets -> {"free", "accepted", "overConnections", "overCollaborators"}]
  /\ client \in [Sockets -> Clients \cup {"none"}]
  /\ \A s \in Sockets : verdict[s] = "free" <=> client[s] = "none"
  /\ activeConnectionsGauge \in Nat
  /\ activeClientsGauge \in Nat /\ activeCollaboratorsGauge \in Nat

\* The server never serves more than its maximum, although a socket is in
\* wss.clients before the limit is looked at.
NeverExceedsMax ==
  MaxConnections # -1 => Cardinality(Accepted) <= MaxConnections

\* There are never more clients than the soft limit has places: the buffer is
\* left to further connections of those, whoever came and went.
BufferIsReserved ==
  MaxConnections # -1 => Cardinality(ActiveClients) <= SoftLimit

\* Never more users at once than the collaborator limit, counting a user with
\* several clients and connections once.
CollaboratorsWithinLimit ==
  MaxCollaborators # -1 => Cardinality(ActiveUsers) <= MaxCollaborators

\* The gauge of connections, which is both counted and set, never reports
\* fewer than are served.
GaugeNeverUnderstates == activeConnectionsGauge >= Cardinality(Accepted)

\* Neither limit is ever exceeded, in whatever order connections and clients
\* of the same users come and go.
WithinLimits == NeverExceedsMax /\ CollaboratorsWithinLimit

\* A client is served whole or not at all: no connection of its is refused for
\* lack of places while another is served.  Expected to fail.
AllOrNone ==
  \A s, t \in Sockets :
    verdict[s] = "overConnections" /\ verdict[t] = "accepted" => client[s] # client[t]
=============================================================================
