------------------------------ MODULE RoomLimit ------------------------------
(***************************************************************************)
(* The cooperative limit on the connections of one room: every client      *)
(* ranks the connections it knows of by the time each says it joined, and  *)
(* a client that finds itself past the limit yields for good.              *)
(*                                                                         *)
(* What a client knows is awareness, external code (y-protocols 1.0.7,     *)
(* y-websocket 3.1.0 and the server's document): news of each client under *)
(* that client's clock, passed on through the server and, as no option     *)
(* turns it off, among the tabs of one browser by BroadcastChannel, from   *)
(* the first connect() on and with or without an open socket.  Newer news  *)
(* replaces older; a removal is newer than the state of the same clock.    *)
(* A state without collaboratorInfo counts for nothing and is left out.    *)
(***************************************************************************)
EXTENDS Integers, FiniteSets

CONSTANTS
  Clients,    \* awareness clientIDs, one per tab
  Browser,    \* Browser[c]: where c is a tab
  Server,     \* the server's document
  JoinTimes,  \* what the clients' clocks may say, without a common time
  Limit,      \* getMaxClientsPerRoom
  MaxDrops    \* bound on the sockets that fail or are refused and the tabs that close

\* readPresences: the time of a client whose collaboratorInfo has none.
Infinity == 1000

ASSUME ClientsAssumption == Clients \subseteq Nat /\ IsFiniteSet(Clients) /\ Server \in Nat \ Clients
ASSUME JoinTimesAssumption == JoinTimes \subseteq 0 .. Infinity
ASSUME LimitAssumption == Limit \in Nat /\ MaxDrops \in Nat

Nodes == Clients \cup {Server}

\* "away": connect() has not been called; "closed": by the server or the network,
\* and connect() may be called again.
Conns == {"away", "opening", "connected", "closed", "yielded", "left"}

VARIABLES
  joinedAt,   \* collaboratorInfo.enteredAt of each client
  conn,       \* the provider's socket
  news,       \* news[n][d]: 0, 2k - 1 for d's state or 2k for its removal, under clock k
  timer,      \* settleTimer is set
  unnoticed,  \* closed sockets of a client the server has not noticed yet
  drops       \* sockets that have failed or been refused, and tabs closed

limitVars == <<joinedAt, conn, news, timer, unnoticed, drops>>

LimitInit ==
  /\ joinedAt \in [Clients -> JoinTimes]
  /\ conn = [c \in Clients |-> "away"]
  /\ news = [n \in Nodes |-> [d \in Clients |-> 0]]
  /\ timer = [c \in Clients |-> FALSE]
  /\ unnoticed = [c \in Clients |-> 0]
  /\ drops = 0

Connected == {c \in Clients : conn[c] = "connected"}
Yielded == {c \in Clients : conn[c] = "yielded"}
Gone == {c \in Clients : conn[c] \in {"yielded", "left"}}

\* bcconnected, from the first connect() to disconnect().
Sharing == {c \in Clients : conn[c] \in {"opening", "connected", "closed"}}

Siblings(c) == {d \in Clients \ {c} : Browser[d] = Browser[c]}

\* awareness.getStates(): the clients whose last news is a state.
IsState(v) == v % 2 = 1
Known(n) == {d \in Clients : IsState(news[n][d])}

-----------------------------------------------------------------------------
\* isLimitEnforced
Enforced == Limit > 0

\* Mutant: no tie-break, and a tie counts against both.
PrecedesOrTies(a, b) == a # b /\ joinedAt[a] <= joinedAt[b]

\* Mutant: no tie-break, and a tie counts against neither.
PrecedesByTime(a, b) == joinedAt[a] < joinedAt[b]

\* byJoinOrder.  The difference of two missing times is NaN, which is as false
\* as the 0 of equal times.
Precedes(a, b) ==
  \/ joinedAt[a] < joinedAt[b]
  \/ joinedAt[a] = joinedAt[b] /\ a < b

\* Mutant: counts the connections instead of ranking them.
WithinLimitByCount(c) == Enforced /\ c \in Known(c) => Cardinality(Known(c)) <= Limit

\* isLocalClientWithinLimit: a client that does not find itself stays.
WithinLimit(c) ==
  Enforced /\ c \in Known(c) => Cardinality({d \in Known(c) : Precedes(d, c)}) < Limit

\* scheduleEvaluate, on every change of the states c knows.
ScheduleEvaluate(c) == timer' = [timer EXCEPT ![c] = Enforced]

\* removeAwarenessStates: the removals carry the clocks of the states.
Removed(row, S) == [d \in Clients |-> IF d \in S /\ IsState(row[d]) THEN row[d] + 1 ELSE row[d]]

\* The open socket of c closes: y-websocket removes the other clients' states,
\* and with disconnect() the last news of c is its own removal.
ClientSocketCloses(c, next) ==
  /\ conn' = [conn EXCEPT ![c] = next]
  /\ unnoticed' = [unnoticed EXCEPT ![c] = @ + 1]
  /\ news' = [news EXCEPT ![c] = Removed(@, IF next = "yielded" THEN Clients ELSE Clients \ {c})]
  /\ timer' = [timer EXCEPT ![c] = Enforced /\ (Known(c) \ {c} # {} \/ (@ /\ next # "yielded"))]

-----------------------------------------------------------------------------
\* provider.connect(), for the first time or again.
Dial(c) ==
  /\ conn[c] \in {"away", "closed"}
  /\ conn' = [conn EXCEPT ![c] = "opening"]
  /\ UNCHANGED <<joinedAt, news, timer, unnoticed, drops>>

\* The provider's socket opens: status "connected".
Open(c) ==
  /\ conn[c] = "opening"
  /\ conn' = [conn EXCEPT ![c] = "connected"]
  /\ ScheduleEvaluate(c)
  /\ UNCHANGED <<joinedAt, news, unnoticed, drops>>

\* Gutenberg sets collaboratorInfo, before or after the provider connects.
SetCollaboratorInfo(c) ==
  /\ conn[c] = "away" \/ c \in Sharing
  /\ news[c][c] = 0
  /\ news' = [news EXCEPT ![c][c] = 1]
  /\ ScheduleEvaluate(c)
  /\ UNCHANGED <<joinedAt, conn, unnoticed, drops>>

\* Of whom m tells n: over an open socket, where a client also passes on what it
\* has from the tabs beside it; from tab to tab; and the last words of a client
\* that disconnects, on its socket and to the tabs beside it.
Told(n, m) ==
  CASE m = Server /\ n \in Connected -> Clients \ {n}
    [] n = Server /\ m \in Connected -> IF Siblings(m) = {} THEN {m} ELSE Clients
    [] n = Server /\ m \in Gone -> IF unnoticed[m] > 0 THEN {m} ELSE {}
    [] n \in Sharing /\ m \in Siblings(n) \cap Sharing -> Clients \ {n}
    [] n \in Sharing /\ m \in Siblings(n) \cap Gone -> {m}
    [] OTHER -> {}

\* applyAwarenessUpdate: newer news replaces older.
Merged(n, m) ==
  LET told == Told(n, m)
  IN  [d \in Clients |-> IF d \in told /\ news[m][d] > news[n][d] THEN news[m][d] ELSE news[n][d]]

\* The awareness updates of m that n has not had arrive.
Learn(n, m) ==
  /\ Told(n, m) # {}
  /\ LET merged == Merged(n, m) IN
     /\ merged # news[n]
     /\ news' = [news EXCEPT ![n] = merged]
     /\ IF n \in Clients /\ \E d \in Clients : IsState(news[n][d]) # IsState(merged[d])
        THEN ScheduleEvaluate(n) ELSE UNCHANGED timer
  /\ UNCHANGED <<joinedAt, conn, unnoticed, drops>>

\* A client that is told it was removed, or renews its state in time, publishes
\* it under its next clock; only being told is a change of awareness.
Renew(d) ==
  /\ d \in Sharing /\ IsState(news[d][d])
  /\ \E n \in Nodes : news[n][d] > news[d][d]
  /\ news' = [news EXCEPT ![d][d] = @ + 2]
  /\ UNCHANGED timer \/ ScheduleEvaluate(d)
  /\ UNCHANGED <<joinedAt, conn, unnoticed, drops>>

\* evaluate: nothing while disconnected; past the limit, disconnect for good.
Evaluate(c) ==
  /\ timer[c]
  /\ IF conn[c] = "connected" /\ ~WithinLimit(c)
     THEN ClientSocketCloses(c, "yielded")
     ELSE timer' = [timer EXCEPT ![c] = FALSE] /\ UNCHANGED <<conn, news, unnoticed>>
  /\ UNCHANGED <<joinedAt, drops>>

Dropping == drops < MaxDrops /\ drops' = drops + 1 /\ UNCHANGED joinedAt

\* A socket fails or is closed by the server, which the provider retries or not.
Drop(c) ==
  /\ conn[c] = "connected" /\ Dropping
  /\ ClientSocketCloses(c, "closed")

\* A socket that is still opening fails or is refused: no state is removed.
Refuse(c) ==
  /\ conn[c] = "opening" /\ Dropping
  /\ conn' = [conn EXCEPT ![c] = "closed"]
  /\ UNCHANGED <<news, timer, unnoticed>>

\* The editor is closed: destroy, with cleanupRoomClientLimit.
Leave(c) ==
  /\ c \in Sharing /\ Dropping
  /\ conn' = [conn EXCEPT ![c] = "left"]
  /\ news' = [news EXCEPT ![c] = Removed(@, Clients)]
  /\ timer' = [timer EXCEPT ![c] = FALSE]
  /\ unnoticed' = [unnoticed EXCEPT ![c] = IF c \in Connected THEN @ + 1 ELSE @]

\* The server notices a closed socket and removes the states it controlled: the
\* client's own and what it first heard on that socket of the tabs beside it.
ServerForgets(c) ==
  /\ unnoticed[c] > 0
  /\ unnoticed' = [unnoticed EXCEPT ![c] = @ - 1]
  /\ \E S \in SUBSET Siblings(c) : news' = [news EXCEPT ![Server] = Removed(@, {c} \cup S)]
  /\ UNCHANGED <<joinedAt, conn, timer, drops>>

\* What messages and timers do on their own.
Settle ==
  \/ \E c \in Clients : Renew(c) \/ Evaluate(c) \/ ServerForgets(c)
  \/ \E n, m \in Nodes : Learn(n, m)

LimitNext ==
  \/ Settle
  \/ \E c \in Clients :
       Dial(c) \/ Open(c) \/ SetCollaboratorInfo(c) \/ Drop(c) \/ Refuse(c) \/ Leave(c)

LimitSpec == LimitInit /\ [][LimitNext]_limitVars

\* Messages are delivered and timers fire; awareness comes to rest for the
\* settle delay at last, as sockets fail and editors move only so often.
LimitFairSpec == LimitSpec /\ WF_limitVars(Settle)

-----------------------------------------------------------------------------
\* The tabs a client may have heard of: they have set collaboratorInfo and
\* connected, and the server has had their state or they are in its browser.
Published == {d \in Clients : news[Server][d] > 0}
Announced(c) ==
  {d \in Published \cup Siblings(c) : conn[d] # "away" /\ news[d][d] > 0}

\* Variables hold values of their types.
LimitTypeOK ==
  /\ joinedAt \in [Clients -> 0 .. Infinity]
  /\ conn \in [Clients -> Conns]
  /\ news \in [Nodes -> [Clients -> Nat]]
  /\ timer \in [Clients -> BOOLEAN]
  /\ unnoticed \in [Clients -> Nat]
  /\ drops \in 0 .. MaxDrops

\* A connection yields only to connections that joined before it: whoever has
\* yielded is behind at least Limit others that announced themselves, to the
\* server or beside it, whatever the clocks say and however late each heard of
\* whom (setupRoomClientLimit, isLocalClientWithinLimit).
YieldedWereOutranked ==
  \A c \in Yielded : Cardinality({d \in Announced(c) : Precedes(d, c)}) >= Limit

\* The clients do not all make way for one another: while no socket has failed
\* or been refused and nobody has left, somebody has yielded only if Limit
\* clients are connected or about to be.
YieldLeavesRoomFull ==
  Yielded # {} /\ drops = 0 =>
    Cardinality({c \in Clients : conn[c] \in {"opening", "connected"}}) >= Limit

\* Simultaneous joins may exceed the limit, but once awareness has settled no
\* more connections than the limit are in the room.
RoomSettlesWithinLimit ==
  Enforced => <>[](Cardinality(Connected \cap Published) <= Limit)
=============================================================================
