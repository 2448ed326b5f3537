------------------------- MODULE SharedSocketProofs -------------------------
(***************************************************************************)
(* What SharedSocket guarantees for every finite set of rooms, every kind  *)
(* of grant and every bound on the queues; and what the bytes of its       *)
(* messages do, for every length of names, grants and payloads.            *)
(***************************************************************************)
EXTENDS AdapterWire, FiniteSetTheorems, SequenceTheorems, TLAPS

-----------------------------------------------------------------------------
(***************************************************************************)
(* The map of virtual sockets: its type, and the grant of each entry.      *)
(***************************************************************************)
SocketType == socket \in {"none", "connecting", "open", "closing"}

MapType ==
  /\ virtual \in [Rooms -> {"none", "connecting", "open"}]
  /\ grant \in [Rooms -> Grants \cup {"none"}]
  /\ \A r \in Rooms : virtual[r] = "none" <=> grant[r] = "none"

\* No grant is the absence of a grant.
LEMMA NoneIsNoGrant == "none" \notin Grants
BY GrantsAssumption DEF GrantKinds

\* closeVirtualSocket keeps the map well-formed, and takes no other room off it.
LEMMA CloseVirtualSocketMap ==
  ASSUME MapType, NEW r \in Rooms, NEW leaving, NEW failed, NEW again \in Reopens,
         CloseVirtualSocket(r, leaving, failed, again)
  PROVE  /\ MapType'
         /\ Registered' \cup {r} = Registered \cup {r}
BY NoneIsNoGrant, ReopensAssumption DEF MapType, CloseVirtualSocket, Registered

\* It closes the transport whenever it leaves the map empty.
LEMMA CloseVirtualSocketTransport ==
  ASSUME SocketType, MapType, NEW r \in Rooms, NEW leaving, NEW failed, NEW again \in Reopens,
         CloseVirtualSocket(r, leaving, failed, again), socket # "none"
  PROVE  /\ SocketType'
         /\ socket' # "none"
         /\ Registered' = {} => socket' = "closing"
BY DEF SocketType, MapType, CloseVirtualSocket, Registered, ClosePhysicalSocket

-----------------------------------------------------------------------------
(***************************************************************************)
(* Transport and map move together.                                        *)
(***************************************************************************)
TransportInv ==
  /\ SocketType
  /\ MapType
  /\ RegisteredRoomsHaveTransport
  /\ UnusedTransportIsClosing

\* The adapter starts without a socket and without rooms.
LEMMA InitTransport == Init => TransportInv
<1> SUFFICES ASSUME Init PROVE TransportInv
  OBVIOUS
<1>1. MapType
  BY NoneIsNoGrant DEF Init, MapType
<1>2. Registered = {} /\ socket = "none"
  BY DEF Init, Registered
<1> QED
  BY <1>1, <1>2
     DEF SocketType, TransportInv, RegisteredRoomsHaveTransport, UnusedTransportIsClosing

\* Every step of the adapter, the network and the server preserves the
\* agreement.
LEMMA NextTransport ==
  ASSUME TransportInv, [Next]_vars
  PROVE  TransportInv'
<1> USE DEF TransportInv, SocketType, RegisteredRoomsHaveTransport, UnusedTransportIsClosing
<1>1. ASSUME NEW r \in Rooms, NEW g \in Grants, Construct(r, g)
      PROVE  TransportInv'
  <2>1. MapType'
    BY <1>1, NoneIsNoGrant DEF Construct, MapType
  <2>2. r \in Registered'
    BY <1>1 DEF Construct, MapType, Registered
  <2> QED
    BY <1>1, <2>1, <2>2 DEF Construct
<1>2. ASSUME NEW r \in Rooms, CloseRoom(r)
      PROVE  TransportInv'
  <2>1. PICK again \in Reopens :
          \/ CloseVirtualSocket(r, Wire(<<Unsubscribe(r)>>), FALSE, again)
          \/ CloseVirtualSocket(r, <<>>, TRUE, again)
    BY <1>2 DEF CloseRoom
  <2>2. socket # "none"
    BY <1>2 DEF CloseRoom
  <2>3. MapType'
    BY <2>1, CloseVirtualSocketMap
  <2>4. SocketType' /\ socket' # "none" /\ (Registered' = {} => socket' = "closing")
    BY <2>1, <2>2, CloseVirtualSocketTransport
  <2> QED
    BY <2>3, <2>4
<1>3. ASSUME NEW r \in Rooms, SendData(r)
      PROVE  TransportInv'
  <2>1. UNCHANGED <<virtual, grant>>
    BY <1>3 DEF SendData
  <2>2. r \in Registered
    BY <1>3 DEF SendData, Registered
  <2>3. socket' \in {socket, "closing"} /\ socket # "none"
    BY <1>3, <2>2 DEF SendData, ClosePhysicalSocket
  <2> QED
    BY <2>1, <2>2, <2>3 DEF MapType, Registered
<1>4. CASE PhysicalOpens
  BY <1>4 DEF PhysicalOpens, MapType, Registered
<1>5. CASE ReceiveSubscribed
  <2> DEFINE r == Head(toClient).room
  <2>1. CASE virtual[r] = "connecting" /\ virtual' = [virtual EXCEPT ![r] = "open"]
    <3>1. MapType' /\ Registered' = Registered
      BY <1>5, <2>1 DEF ReceiveSubscribed, MapType, Registered
    <3> QED
      BY <1>5, <3>1 DEF ReceiveSubscribed
  <2>2. CASE virtual' = virtual
    BY <1>5, <2>2 DEF ReceiveSubscribed, MapType, Registered
  <2> QED
    BY <1>5, <2>1, <2>2 DEF ReceiveSubscribed
<1>6. CASE ReceiveData
  BY <1>6 DEF ReceiveData, clientVars, MapType, Registered
<1>7. CASE ReceiveRoomClosed
  <2>1. CASE UNCHANGED clientVars
    BY <2>1 DEF clientVars, MapType, Registered
  <2>2. ASSUME NEW r \in Registered, NEW again \in Reopens,
               CloseVirtualSocket(r, <<>>, FALSE, again), socket = "open"
        PROVE  TransportInv'
    BY <2>2, CloseVirtualSocketMap, CloseVirtualSocketTransport DEF Registered
  <2> QED
    BY <1>7, <2>1, <2>2 DEF ReceiveRoomClosed, Deliver
<1>8. CASE ReceiveInvalid \/ ReceiveClose
  <2>1. UNCHANGED <<virtual, grant>> /\ socket' = "closing"
    BY <1>8 DEF ReceiveInvalid, ReceiveClose, Deliver, ClosePhysicalSocket
  <2> QED
    BY <2>1 DEF MapType, Registered
<1>9. CASE PhysicalCloses
  BY <1>9, NoneIsNoGrant DEF PhysicalCloses, MapType, Registered
<1>10. CASE Server \/ ConnectionBreaks \/ UNCHANGED vars
  <2>1. UNCHANGED clientVars
    BY <1>10 DEF Server, ServerAccepts, ServerSends, ServerReceives, ConnectionBreaks, vars
  <2> QED
    BY <2>1 DEF clientVars, MapType, Registered
<1> QED
  BY <1>1, <1>2, <1>3, <1>4, <1>5, <1>6, <1>7, <1>8, <1>9, <1>10
     DEF Next, ClientNext, Consumer, ReceiveMessage

\* A registered room always has a physical socket whose open or close event is
\* still to come.
THEOREM RoomsHaveTransport == Spec => []RegisteredRoomsHaveTransport
<1>1. TransportInv /\ [Next]_vars => TransportInv'
  BY NextTransport
<1>2. TransportInv => RegisteredRoomsHaveTransport
  BY DEF TransportInv
<1> QED
  BY <1>1, <1>2, InitTransport, PTL DEF Spec

\* A physical socket that has lost its last room is being closed, whatever the
\* onclose callbacks did in between.
THEOREM NoIdleTransport == Spec => []UnusedTransportIsClosing
<1>1. TransportInv /\ [Next]_vars => TransportInv'
  BY NextTransport
<1>2. TransportInv => UnusedTransportIsClosing
  BY DEF TransportInv
<1> QED
  BY <1>1, <1>2, InitTransport, PTL DEF Spec

-----------------------------------------------------------------------------
(***************************************************************************)
(* Rooms leave the map one by one, but for the end of their transport.     *)
(***************************************************************************)
LosesAtMost(r) == Registered \subseteq Registered' \cup {r}
LosesNone == Registered \subseteq Registered'

\* Every step but the socket's onclose takes at most one room off the map.
LEMMA NextLoses ==
  ASSUME MapType, [Next]_vars
  PROVE  socket' = "none" \/ LosesNone \/ \E r \in Rooms : LosesAtMost(r)
<1> USE DEF LosesAtMost, LosesNone
<1>1. ASSUME NEW r \in Rooms, NEW g \in Grants, Construct(r, g)
      PROVE  LosesNone
  BY <1>1 DEF Construct, MapType, Registered
<1>2. ASSUME NEW r \in Rooms, CloseRoom(r)
      PROVE  LosesAtMost(r)
  BY <1>2, CloseVirtualSocketMap DEF CloseRoom
<1>3. ASSUME NEW r \in Rooms, SendData(r)
      PROVE  LosesNone
  BY <1>3 DEF SendData, Registered
<1>4. CASE ReceiveSubscribed
  BY <1>4 DEF ReceiveSubscribed, MapType, Registered
<1>5. CASE ReceiveRoomClosed
  <2>1. CASE UNCHANGED clientVars
    BY <2>1 DEF clientVars, Registered
  <2>2. ASSUME NEW r \in Registered, NEW again \in Reopens,
               CloseVirtualSocket(r, <<>>, FALSE, again)
        PROVE  r \in Rooms /\ LosesAtMost(r)
    BY <2>2, CloseVirtualSocketMap DEF Registered
  <2> QED
    BY <1>5, <2>1, <2>2 DEF ReceiveRoomClosed
<1>6. CASE PhysicalCloses
  BY <1>6 DEF PhysicalCloses
<1>7. CASE \/ PhysicalOpens \/ ReceiveData \/ ReceiveInvalid \/ ReceiveClose
           \/ Server \/ ConnectionBreaks \/ UNCHANGED vars
  <2>1. UNCHANGED virtual
    BY <1>7
       DEF PhysicalOpens, ReceiveData, ReceiveInvalid, ReceiveClose, Server, ServerAccepts,
           ServerSends, ServerReceives, ConnectionBreaks, clientVars, vars
  <2> QED
    BY <2>1 DEF Registered
<1> QED
  BY <1>1, <1>2, <1>3, <1>4, <1>5, <1>6, <1>7 DEF Next, ClientNext, Consumer, ReceiveMessage

\* The end of one room, by either side and with whatever its onclose does,
\* closes no other room; only the end of the transport does.
THEOREM RoomFailuresAreScoped == Spec => RoomsCloseAlone
<1> DEFINE Alone ==
      \A r, q \in Rooms :
        (r # q /\ r \in Registered \ Registered' /\ q \in Registered \ Registered')
          => socket' = "none"
<1>1. TransportInv /\ [Next]_vars => [Alone]_vars
  BY NextLoses DEF TransportInv, LosesAtMost, LosesNone
<1>2. TransportInv /\ [Next]_vars => TransportInv'
  BY NextTransport
<1> QED
  BY <1>1, <1>2, InitTransport, PTL DEF Spec, RoomsCloseAlone

-----------------------------------------------------------------------------
(***************************************************************************)
(* The queues, and the order of the messages of a room.                    *)
(* NoDataAfterUnsubscribe is not inductive: what a room may send next      *)
(* depends on the map, and so the invariant says that, while the           *)
(* connection carries messages, no unsubscribe is the last word about a    *)
(* registered room.                                                        *)
(***************************************************************************)
ServerBound == ClientMessages \cup CloseFrames
ClientBound == AnyServerMessage \cup CloseFrames

\* The messages that do not tell the server to leave a room, and those that do
\* not serve one.
Opening == {m \in ServerBound : m.type # "unsubscribe"}
Control == {m \in ServerBound : m.type # "data"}

Resubscribed(q, i, last) ==
  \E k \in i .. last : q[k].type = "subscribe" /\ q[k].room = q[i].room

Orderly(q) ==
  \A i, j \in DOMAIN q :
    (/\ i < j
     /\ q[i].type = "unsubscribe"
     /\ q[j].type = "data"
     /\ q[j].room = q[i].room)
      => Resubscribed(q, i, j)

Settled(q, R) ==
  \A i \in DOMAIN q :
    q[i].type = "unsubscribe" /\ q[i].room \in R => Resubscribed(q, i, Len(q))

\* Message m may be sent while the rooms R are registered and R2 are after it.
Legal(m, R, R2) ==
  /\ m.type = "data" => m.room \in R
  /\ m.type = "unsubscribe" => m.room \notin R2
  /\ R2 \subseteq R \cup (IF m.type = "subscribe" THEN {m.room} ELSE {})

\* Whether what is sent now reaches the wire.
Carries == socket = "open" /\ link = "up"

QueueTypes == toServer \in Seq(ServerBound) /\ toClient \in Seq(ClientBound)

LinkInv == link \in {"down", "dialing", "up"} /\ (link = "dialing" => socket = "connecting")

OrderInv ==
  /\ QueueTypes
  /\ LinkInv
  /\ Orderly(toServer)
  /\ Carries => Settled(toServer, Registered)
  /\ socket = "connecting" => toServer \in Seq(Opening)

\* The adapter's own messages.
LEMMA OwnMessages ==
  ASSUME NEW r \in Rooms
  PROVE  /\ \A g \in Grants : Subscribe(r, g) \in Opening \cap Control
         /\ Unsubscribe(r) \in Control
         /\ Data(r) \in Opening
<1>1. \A g \in Grants : Subscribe(r, g) \in ServerBound
  BY DEF ServerBound, ClientMessages
<1>2. Unsubscribe(r) \in ServerBound /\ Data(r) \in ServerBound
  BY DEF ServerBound, ClientMessages
<1> QED
  BY <1>1, <1>2 DEF Opening, Control, Subscribe, Unsubscribe, Data

\* Its close frame, when there is no room at all too.
LEMMA OwnClose ==
  ASSUME NEW code \in CloseCodes
  PROVE  Close(code) \in Opening \cap Control
BY DEF ServerBound, Opening, Control, CloseFrames, Close

\* Appending by \o.
LEMMA Concatenation ==
  ASSUME NEW S, NEW q \in Seq(S)
  PROVE  /\ q \o <<>> = q
         /\ \A m \in S : q \o <<m>> = Append(q, m) /\ <<m>> \in Seq(S) /\ Append(q, m) \in Seq(S)
         /\ \A t \in Seq(S) : q \o t \in Seq(S)
OBVIOUS

\* What was read no longer matters.
LEMMA TailIsOrderly ==
  ASSUME NEW q \in Seq(ServerBound), q # <<>>, NEW R, Orderly(q)
  PROVE  Orderly(Tail(q)) /\ (Settled(q, R) => Settled(Tail(q), R))
<1> DEFINE t == Tail(q)
<1>1. /\ Len(q) \in Nat /\ Len(t) = Len(q) - 1
      /\ DOMAIN q = 1 .. Len(q) /\ DOMAIN t = 1 .. Len(q) - 1
      /\ \A i \in 1 .. Len(q) - 1 : t[i] = q[i + 1]
  OBVIOUS
<1> HIDE DEF t
<1>2. ASSUME NEW i \in DOMAIN t, NEW last \in i .. Len(q) - 1,
             Resubscribed(q, i + 1, last + 1)
      PROVE  Resubscribed(t, i, last)
  <2>1. PICK k \in i + 1 .. last + 1 : q[k].type = "subscribe" /\ q[k].room = q[i + 1].room
    BY <1>2 DEF Resubscribed
  <2>2. k - 1 \in i .. last /\ k - 1 \in 1 .. Len(q) - 1 /\ (k - 1) + 1 = k
    BY <1>1, <1>2
  <2>3. t[k - 1].type = "subscribe" /\ t[k - 1].room = t[i].room
    BY <1>1, <2>1, <2>2
  <2> QED
    BY <2>2, <2>3 DEF Resubscribed
<1>3. Orderly(t)
  <2> SUFFICES ASSUME NEW i \in DOMAIN t, NEW j \in DOMAIN t, i < j,
                      t[i].type = "unsubscribe", t[j].type = "data", t[j].room = t[i].room
               PROVE  Resubscribed(t, i, j)
    BY DEF Orderly
  <2>1. i + 1 \in DOMAIN q /\ j + 1 \in DOMAIN q /\ i + 1 < j + 1 /\ j \in i .. Len(q) - 1
    BY <1>1
  <2>2. Resubscribed(q, i + 1, j + 1)
    BY <1>1, <2>1 DEF Orderly
  <2> QED
    BY <1>2, <2>1, <2>2
<1>4. ASSUME Settled(q, R) PROVE Settled(t, R)
  <2> SUFFICES ASSUME NEW i \in DOMAIN t, t[i].type = "unsubscribe", t[i].room \in R
               PROVE  Resubscribed(t, i, Len(t))
    BY DEF Settled
  <2>1. i + 1 \in DOMAIN q /\ Len(t) \in i .. Len(q) - 1 /\ Len(t) + 1 = Len(q)
    BY <1>1
  <2>2. Resubscribed(q, i + 1, Len(q))
    BY <1>1, <1>4, <2>1 DEF Settled
  <2> QED
    BY <1>2, <2>1, <2>2
<1> QED
  BY <1>3, <1>4 DEF t

\* A legal message keeps the order.
LEMMA LegalIsOrderly ==
  ASSUME NEW q \in Seq(ServerBound), NEW R, NEW R2, NEW m \in ServerBound,
         Orderly(q), Settled(q, R), Legal(m, R, R2)
  PROVE  Orderly(Append(q, m)) /\ Settled(Append(q, m), R2)
<1> DEFINE a == Append(q, m)
           n == Len(q)
<1>1. /\ n \in Nat /\ Len(a) = n + 1 /\ DOMAIN q = 1 .. n /\ DOMAIN a = 1 .. n + 1
      /\ \A i \in 1 .. n : a[i] = q[i]
      /\ a[n + 1] = m
  OBVIOUS
<1> HIDE DEF a, n
<1>2. ASSUME NEW i \in 1 .. n, NEW last \in i .. n + 1,
             Resubscribed(q, i, IF last = n + 1 THEN n ELSE last)
      PROVE  Resubscribed(a, i, last)
  <2>1. PICK k \in i .. (IF last = n + 1 THEN n ELSE last) :
          q[k].type = "subscribe" /\ q[k].room = q[i].room
    BY <1>2 DEF Resubscribed
  <2>2. k \in i .. last /\ k \in 1 .. n
    BY <1>1, <1>2
  <2> QED
    BY <1>1, <2>1, <2>2 DEF Resubscribed
<1>3. Orderly(a)
  <2> SUFFICES ASSUME NEW i \in DOMAIN a, NEW j \in DOMAIN a, i < j,
                      a[i].type = "unsubscribe", a[j].type = "data", a[j].room = a[i].room
               PROVE  Resubscribed(a, i, j)
    BY DEF Orderly
  <2>1. i \in 1 .. n /\ j \in i .. n + 1 /\ a[i] = q[i]
    BY <1>1
  <2>2. CASE j = n + 1
    <3>1. q[i].room \in R
      BY <1>1, <2>1, <2>2 DEF Legal
    <3>2. Resubscribed(q, i, n)
      BY <1>1, <2>1, <3>1 DEF Settled, n
    <3> QED
      BY <1>2, <2>1, <2>2, <3>2
  <2>3. CASE j # n + 1
    <3>1. j \in 1 .. n /\ a[j] = q[j]
      BY <1>1, <2>3
    <3>2. Resubscribed(q, i, j)
      BY <1>1, <2>1, <3>1 DEF Orderly
    <3> QED
      BY <1>2, <2>1, <2>3, <3>2
  <2> QED
    BY <2>2, <2>3
<1>4. Settled(a, R2)
  <2> SUFFICES ASSUME NEW i \in DOMAIN a, a[i].type = "unsubscribe", a[i].room \in R2
               PROVE  Resubscribed(a, i, n + 1)
    BY <1>1 DEF Settled
  <2>1. i \in 1 .. n /\ a[i] = q[i] /\ n + 1 \in i .. n + 1
    BY <1>1 DEF Legal
  <2>2. CASE q[i].room \in R
    <3>1. Resubscribed(q, i, n)
      BY <1>1, <2>1, <2>2 DEF Settled, n
    <3> QED
      BY <1>2, <2>1, <3>1
  <2>3. CASE m.type = "subscribe" /\ m.room = q[i].room
    BY <1>1, <2>1, <2>3 DEF Resubscribed
  <2> QED
    BY <2>1, <2>2, <2>3 DEF Legal
<1> QED
  BY <1>3, <1>4, <1>1 DEF a

\* Messages that serve no room disturb no order.
LEMMA ControlIsOrderly ==
  ASSUME NEW q \in Seq(ServerBound), Orderly(q), NEW s \in Seq(Control)
  PROVE  Orderly(q \o s) /\ q \o s \in Seq(ServerBound)
<1> DEFINE a == q \o s
           n == Len(q)
<1>1. /\ n \in Nat /\ DOMAIN q = 1 .. n /\ DOMAIN a = 1 .. n + Len(s) /\ Len(s) \in Nat
      /\ \A i \in 1 .. n : a[i] = q[i]
      /\ \A i \in n + 1 .. n + Len(s) : a[i] = s[i - n] /\ s[i - n] \in Control
  OBVIOUS
<1>2. a \in Seq(ServerBound)
  <2>1. s \in Seq(ServerBound)
    BY DEF Control
  <2> QED
    BY <2>1
<1> HIDE DEF a, n
<1>3. Orderly(a)
  <2> SUFFICES ASSUME NEW i \in DOMAIN a, NEW j \in DOMAIN a, i < j,
                      a[i].type = "unsubscribe", a[j].type = "data", a[j].room = a[i].room
               PROVE  Resubscribed(a, i, j)
    BY DEF Orderly
  <2>1. j \notin n + 1 .. n + Len(s)
    BY <1>1 DEF Control
  <2>2. i \in 1 .. n /\ j \in 1 .. n
    BY <1>1, <2>1
  <2>3. a[i] = q[i] /\ a[j] = q[j]
    BY <1>1, <2>2
  <2>4. Resubscribed(q, i, j)
    BY <1>1, <2>2, <2>3 DEF Orderly
  <2>5. PICK k \in i .. j : q[k].type = "subscribe" /\ q[k].room = q[i].room
    BY <2>4 DEF Resubscribed
  <2>6. a[k] = q[k]
    BY <1>1, <2>2
  <2> QED
    BY <2>3, <2>5, <2>6 DEF Resubscribed
<1> QED
  BY <1>2, <1>3 DEF a

\* A queue without an unsubscribe is in order.
LEMMA OpeningIsOrderly ==
  ASSUME NEW q \in Seq(Opening), NEW R
  PROVE  Orderly(q) /\ Settled(q, R) /\ q \in Seq(ServerBound)
<1>1. \A i \in DOMAIN q : q[i] \in Opening
  OBVIOUS
<1>2. \A i \in DOMAIN q : q[i].type # "unsubscribe"
  BY <1>1 DEF Opening
<1>3. q \in Seq(ServerBound)
  BY DEF Opening
<1> QED
  BY <1>2, <1>3 DEF Orderly, Settled

\* Closing the physical socket ends what the order is about.
LEMMA ClosingKeepsOrder ==
  ASSUME OrderInv, socket # "none", NEW sent \in Seq(Control), NEW code \in CloseCodes,
         ClosePhysicalSocket(sent, code), toClient' \in Seq(ClientBound)
  PROVE  OrderInv'
<1> USE DEF OrderInv, QueueTypes
<1> DEFINE frame == Wire(<<Close(code)>>)
<1>1. frame \in Seq(Control)
  BY OwnClose DEF Wire
<1>2. toServer' = toServer \o sent \o frame
  BY DEF ClosePhysicalSocket
<1> HIDE DEF frame
<1>3. Orderly(toServer \o sent) /\ toServer \o sent \in Seq(ServerBound)
  BY ControlIsOrderly
<1>4. Orderly(toServer') /\ toServer' \in Seq(ServerBound)
  BY <1>1, <1>2, <1>3, ControlIsOrderly
<1>5. socket' = "closing" /\ link' = IF socket = "connecting" THEN "down" ELSE link
  BY DEF ClosePhysicalSocket
<1> QED
  BY <1>4, <1>5 DEF LinkInv, Carries

\* A step that sends nothing, and neither opens the socket nor the link.
LEMMA SilenceKeepsOrder ==
  ASSUME OrderInv, toServer' = toServer, socket' = socket, link' = link,
         toClient' \in Seq(ClientBound),
         Carries => Registered' \subseteq Registered
  PROVE  OrderInv'
BY DEF OrderInv, QueueTypes, LinkInv, Carries, Settled

\* A step that sends one legal message while the connection carries it.
LEMMA SendingKeepsOrder ==
  ASSUME OrderInv, Carries, NEW m \in ServerBound, toServer' = Append(toServer, m),
         Legal(m, Registered, Registered'),
         socket' = socket, link' = link, toClient' \in Seq(ClientBound)
  PROVE  OrderInv'
<1> USE DEF OrderInv, QueueTypes
<1>1. Orderly(toServer') /\ Settled(toServer', Registered')
  BY LegalIsOrderly
<1>2. toServer' \in Seq(ServerBound)
  BY Concatenation
<1> QED
  BY <1>1, <1>2 DEF LinkInv, Carries

\* Only a connection that carries sends anything.
LEMMA WireIsSilent ==
  ASSUME ~Carries, NEW messages
  PROVE  Wire(messages) = <<>>
BY DEF Carries, Wire

\* closeVirtualSocket: what it sends is an unsubscribe, a new subscribe, both
\* or nothing, and perhaps the end.
LEMMA CloseVirtualSocketKeepsOrder ==
  ASSUME OrderInv, MapType, socket # "none", NEW r \in Rooms, NEW failed \in BOOLEAN,
         NEW again \in Reopens, NEW leaving \in {<<>>, Wire(<<Unsubscribe(r)>>)},
         CloseVirtualSocket(r, leaving, failed, again),
         toClient' \in Seq(ClientBound)
  PROVE  OrderInv'
<1> DEFINE asking == IF again = "none" THEN <<>> ELSE Wire(<<Subscribe(r, again)>>)
<1>1. leaving \in Seq(Control) /\ asking \in Seq(Control)
  <2>1. \A m \in Control : <<m>> \in Seq(Control)
    OBVIOUS
  <2>2. Unsubscribe(r) \in Control /\ (again # "none" => Subscribe(r, again) \in Control)
    BY OwnMessages, ReopensAssumption
  <2>3. <<>> \in Seq(Control)
    OBVIOUS
  <2> QED
    BY <2>1, <2>2, <2>3 DEF Wire
<1>2. leaving \o asking \in Seq(Control)
  BY <1>1
<1>3. CASE ClosePhysicalSocket(leaving \o asking, NormalClosure)
  BY <1>2, <1>3, ClosingKeepsOrder DEF CloseCodes
<1>4. CASE toServer' = toServer \o (leaving \o asking) /\ UNCHANGED <<socket, link>> /\ ~failed
  <2>1. Registered' = IF again = "none" THEN Registered \ {r} ELSE Registered \cup {r}
    BY DEF CloseVirtualSocket, MapType, Registered
  <2>2. toServer \in Seq(ServerBound)
    BY DEF OrderInv, QueueTypes
  <2>3. CASE ~Carries
    <3>1. leaving \o asking = <<>>
      BY <2>3, WireIsSilent
    <3> QED
      BY <1>4, <2>2, <2>3, <3>1, Concatenation, SilenceKeepsOrder
  <2>4. CASE Carries
    <3>1. Settled(toServer, Registered) /\ Orderly(toServer)
      BY <2>4 DEF OrderInv
    <3>2. Unsubscribe(r) \in ServerBound /\ (again # "none" => Subscribe(r, again) \in ServerBound)
      BY OwnMessages, ReopensAssumption DEF Control
    <3>3. CASE leaving = <<>> /\ again = "none"
      BY <1>4, <2>1, <2>2, <3>3, Concatenation, SilenceKeepsOrder
    <3>4. CASE leaving = <<>> /\ again # "none"
      <4>1. leaving \o asking = <<Subscribe(r, again)>>
        BY <2>4, <3>4 DEF Wire, Carries
      <4>2. toServer' = Append(toServer, Subscribe(r, again))
        BY <1>4, <2>2, <3>2, <3>4, <4>1, Concatenation
      <4>3. Legal(Subscribe(r, again), Registered, Registered')
        BY <2>1 DEF Legal, Subscribe
      <4> QED
        BY <1>4, <2>4, <3>2, <3>4, <4>2, <4>3, SendingKeepsOrder
    <3>5. CASE leaving = <<Unsubscribe(r)>> /\ again = "none"
      <4>1. leaving \o asking = <<Unsubscribe(r)>>
        BY <3>5
      <4>2. toServer' = Append(toServer, Unsubscribe(r))
        BY <1>4, <2>2, <3>2, <4>1, Concatenation
      <4>3. Legal(Unsubscribe(r), Registered, Registered')
        BY <2>1, <3>5 DEF Legal, Unsubscribe
      <4> QED
        BY <1>4, <2>4, <3>2, <4>2, <4>3, SendingKeepsOrder
    <3>6. CASE leaving = <<Unsubscribe(r)>> /\ again # "none"
      <4> DEFINE q == Append(toServer, Unsubscribe(r))
      <4>1. toServer' = Append(q, Subscribe(r, again))
        <5> DEFINE u == Unsubscribe(r)
                   s == Subscribe(r, again)
        <5>1. leaving = <<u>> /\ asking = <<s>> /\ u \in ServerBound /\ s \in ServerBound
          BY <2>4, <3>2, <3>6 DEF Wire, Carries
        <5> HIDE DEF u, s, asking
        <5>2. toServer \o (<<u>> \o <<s>>) = Append(Append(toServer, u), s)
          BY <2>2, <5>1
        <5> QED
          BY <1>4, <5>1, <5>2 DEF u, s
      <4>2. Legal(Unsubscribe(r), Registered, Registered \ {r})
        BY DEF Legal, Unsubscribe
      <4>3. q \in Seq(ServerBound) /\ Orderly(q) /\ Settled(q, Registered \ {r})
        BY <2>2, <3>1, <3>2, <4>2, LegalIsOrderly, Concatenation
      <4>4. Legal(Subscribe(r, again), Registered \ {r}, Registered')
        BY <2>1, <3>6 DEF Legal, Subscribe
      <4> HIDE DEF q
      <4>5. Orderly(toServer') /\ Settled(toServer', Registered') /\ toServer' \in Seq(ServerBound)
        BY <3>2, <3>6, <4>1, <4>3, <4>4, LegalIsOrderly, Concatenation
      <4> QED
        BY <1>4, <2>4, <4>5 DEF OrderInv, QueueTypes, LinkInv, Carries
    <3> QED
      BY <2>4, <3>3, <3>4, <3>5, <3>6 DEF Wire, Carries
  <2> QED
    BY <2>3, <2>4
<1> QED
  BY <1>3, <1>4 DEF CloseVirtualSocket

\* socket.onopen: every message it sends is a subscribe or the close.
LEMMA OpeningKeepsOrder ==
  ASSUME OrderInv, MapType, PhysicalOpens
  PROVE  OrderInv'
<1>1. PICK order \in SetToSeqs(Connecting) :
        LET asks == [i \in DOMAIN order |-> Subscribe(order[i], grant[order[i]])]
        IN \/ /\ socket' = "open"
              /\ toServer' = toServer \o asks
           \/ \E n \in 0 .. Len(order) - 1 :
                /\ socket' = "closing"
                /\ toServer' = toServer \o SubSeq(asks, 1, n) \o <<Close(NormalClosure)>>
  BY DEF PhysicalOpens
<1> DEFINE asks == [i \in DOMAIN order |-> Subscribe(order[i], grant[order[i]])]
<1>2. DOMAIN order = 1 .. Cardinality(Connecting) /\ \A i \in DOMAIN order : order[i] \in Connecting
  BY DEF SetToSeqs
<1>3. Cardinality(Connecting) \in Nat
  BY RoomsAssumption, FS_Subset, FS_CardinalityType DEF Connecting
<1>4. \A r \in Connecting : Subscribe(r, grant[r]) \in Opening
  <2>1. \A r \in Connecting : r \in Rooms /\ grant[r] \in Grants
    BY DEF Connecting, MapType
  <2> QED
    BY <2>1, OwnMessages
<1>5. asks \in Seq(Opening) /\ Len(asks) = Cardinality(Connecting)
  <2>1. asks \in [1 .. Cardinality(Connecting) -> Opening]
    BY <1>2, <1>4
  <2> QED
    BY <1>3, <2>1
<1>6. Len(order) = Cardinality(Connecting)
  <2>1. order \in Seq(Connecting)
    BY <1>3 DEF SetToSeqs
  <2> QED
    BY <1>2, <1>3, <2>1
<1> HIDE DEF asks
<1>7. toServer \in Seq(Opening) /\ <<Close(NormalClosure)>> \in Seq(Opening)
  <2>1. Close(NormalClosure) \in Opening
    BY OwnClose DEF CloseCodes
  <2> QED
    BY <2>1 DEF OrderInv, PhysicalOpens
<1>8. toServer' \in Seq(Opening)
  <2>1. \A n \in 0 .. Len(order) - 1 : SubSeq(asks, 1, n) \in Seq(Opening)
    BY <1>3, <1>5, <1>6
  <2>2. CASE toServer' = toServer \o asks
    BY <1>5, <1>7, <2>2
  <2>3. ASSUME NEW n \in 0 .. Len(order) - 1,
               toServer' = toServer \o SubSeq(asks, 1, n) \o <<Close(NormalClosure)>>
        PROVE  toServer' \in Seq(Opening)
    <3> DEFINE some == SubSeq(asks, 1, n)
    <3>1. some \in Seq(Opening)
      BY <2>1
    <3> HIDE DEF some
    <3>2. toServer \o some \in Seq(Opening)
      BY <1>7, <3>1
    <3>3. toServer \o some \o <<Close(NormalClosure)>> \in Seq(Opening)
      BY <1>7, <3>2
    <3> QED
      BY <2>3, <3>3 DEF some
  <2> QED
    BY <1>1, <2>2, <2>3 DEF asks
<1>9. socket' \in {"open", "closing"} /\ link' = "up" /\ toClient' = toClient
  BY <1>1 DEF PhysicalOpens
<1>10. Orderly(toServer') /\ Settled(toServer', Registered') /\ toServer' \in Seq(ServerBound)
  BY <1>8, OpeningIsOrderly
<1> QED
  BY <1>9, <1>10 DEF OrderInv, QueueTypes, LinkInv, Carries

\* Every step keeps the order.
LEMMA NextOrder ==
  ASSUME TransportInv, OrderInv, [Next]_vars
  PROVE  OrderInv'
<1>0. MapType /\ SocketType /\ toServer \in Seq(ServerBound) /\ toClient \in Seq(ClientBound)
  BY DEF TransportInv, OrderInv, QueueTypes
<1>t. toClient # <<>> => Head(toClient) \in ClientBound /\ Tail(toClient) \in Seq(ClientBound)
  BY <1>0
<1>1. ASSUME NEW r \in Rooms, NEW g \in Grants, Construct(r, g)
      PROVE  OrderInv'
  <2>1. CASE socket = "none"
    <3>1. toServer' = <<>> /\ toClient' = <<>> /\ socket' = "connecting" /\ link' = "dialing"
      BY <1>1, <2>1 DEF Construct, Wire
    <3> QED
      BY <3>1 DEF OrderInv, QueueTypes, LinkInv, Carries, Orderly
  <2>2. CASE socket # "none" /\ ~Carries
    <3>1. /\ toServer' = toServer /\ toClient' = toClient /\ socket' = socket /\ link' = link
      BY <1>0, <1>1, <2>2, WireIsSilent, Concatenation DEF Construct
    <3> QED
      BY <1>0, <2>2, <3>1, SilenceKeepsOrder
  <2>3. CASE Carries
    <3>1. Subscribe(r, g) \in ServerBound
      BY OwnMessages DEF Opening
    <3>2. /\ toServer' = toServer \o <<Subscribe(r, g)>>
          /\ toClient' = toClient /\ socket' = socket /\ link' = link
      BY <1>1, <2>3 DEF Construct, Carries, Wire
    <3>3. toServer' = Append(toServer, Subscribe(r, g))
      BY <1>0, <3>1, <3>2, Concatenation
    <3>4. Registered' \subseteq Registered \cup {r}
      BY <1>0, <1>1 DEF Construct, MapType, Registered
    <3>5. Legal(Subscribe(r, g), Registered, Registered')
      BY <3>4 DEF Legal, Subscribe
    <3> QED
      BY <1>0, <2>3, <3>1, <3>2, <3>3, <3>5, SendingKeepsOrder
  <2> QED
    BY <2>1, <2>2, <2>3 DEF Carries
<1>2. ASSUME NEW r \in Rooms, CloseRoom(r)
      PROVE  OrderInv'
  <2>1. socket # "none" /\ toClient' = toClient
    BY <1>2 DEF CloseRoom, TransportInv, RegisteredRoomsHaveTransport
  <2>2. PICK again \in Reopens :
          \/ CloseVirtualSocket(r, Wire(<<Unsubscribe(r)>>), FALSE, again)
          \/ CloseVirtualSocket(r, <<>>, TRUE, again)
    BY <1>2 DEF CloseRoom
  <2> QED
    BY <1>0, <2>1, <2>2, CloseVirtualSocketKeepsOrder
<1>3. ASSUME NEW r \in Rooms, SendData(r)
      PROVE  OrderInv'
  <2>1. r \in Registered /\ socket # "none" /\ UNCHANGED <<virtual, toClient>>
    BY <1>3 DEF SendData, Registered, TransportInv, RegisteredRoomsHaveTransport
  <2>2. Data(r) \in ServerBound /\ Legal(Data(r), Registered, Registered')
    BY <2>1, OwnMessages DEF Opening, Legal, Data, Registered
  <2>3. CASE ClosePhysicalSocket(<<>>, NormalClosure)
    <3>1. <<>> \in Seq(Control)
      OBVIOUS
    <3> QED
      BY <1>0, <2>1, <2>3, <3>1, ClosingKeepsOrder DEF CloseCodes
  <2>4. CASE toServer' = toServer \o Wire(<<Data(r)>>) /\ UNCHANGED <<socket, link>> /\ Carries
    <3>1. toServer' = Append(toServer, Data(r))
      BY <1>0, <2>2, <2>4, Concatenation DEF Wire, Carries
    <3> QED
      BY <1>0, <2>1, <2>2, <2>4, <3>1, SendingKeepsOrder
  <2>5. CASE toServer' = toServer \o Wire(<<Data(r)>>) /\ UNCHANGED <<socket, link>> /\ ~Carries
    <3>1. toServer' = toServer
      BY <1>0, <2>5, WireIsSilent, Concatenation
    <3> QED
      BY <1>0, <2>1, <2>5, <3>1, SilenceKeepsOrder
  <2> QED
    BY <1>3, <2>3, <2>4, <2>5 DEF SendData
<1>4. CASE PhysicalOpens
  BY <1>0, <1>4, OpeningKeepsOrder
<1>5. CASE ReceiveSubscribed
  <2>1. /\ toServer' = toServer /\ socket' = socket /\ link' = link
        /\ toClient' \in Seq(ClientBound)
    BY <1>t, <1>5 DEF ReceiveSubscribed, Deliver
  <2>2. Registered' \subseteq Registered
    BY <1>0, <1>5 DEF ReceiveSubscribed, MapType, Registered
  <2> QED
    BY <2>1, <2>2, SilenceKeepsOrder
<1>6. CASE ReceiveData
  <2>1. UNCHANGED clientVars /\ UNCHANGED <<toServer, link>> /\ toClient' \in Seq(ClientBound)
    BY <1>t, <1>6 DEF ReceiveData, Deliver
  <2> QED
    BY <2>1, SilenceKeepsOrder DEF clientVars, Registered
<1>7. CASE ReceiveRoomClosed
  <2>1. toClient' \in Seq(ClientBound) /\ socket = "open"
    BY <1>t, <1>7 DEF ReceiveRoomClosed, Deliver
  <2>2. CASE UNCHANGED <<clientVars, toServer, link>>
    BY <2>1, <2>2, SilenceKeepsOrder DEF clientVars, Registered
  <2>3. ASSUME NEW r \in Registered, NEW again \in Reopens,
               CloseVirtualSocket(r, <<>>, FALSE, again)
        PROVE  OrderInv'
    <3>1. r \in Rooms
      BY DEF Registered
    <3> QED
      BY <1>0, <2>1, <2>3, <3>1, CloseVirtualSocketKeepsOrder
  <2> QED
    BY <1>7, <2>2, <2>3 DEF ReceiveRoomClosed
<1>8. CASE ReceiveInvalid \/ ReceiveClose
  <2>1. PICK code : /\ ClosePhysicalSocket(<<>>, code) /\ socket = "open"
                    /\ code \in CloseCodes
    <3>1. CASE ReceiveInvalid
      BY <3>1 DEF ReceiveInvalid, Deliver, CloseCodes
    <3>2. CASE ReceiveClose
      <4>1. Head(toClient) \in ClientBound /\ Head(toClient).type = "close"
        BY <1>t, <3>2 DEF ReceiveClose, Deliver
      <4>2. Head(toClient).code \in CloseCodes
        BY <4>1 DEF ClientBound, AnyServerMessage, ServerMessages, CloseFrames, CloseCodes, Close,
                    Malformed, Subscribe, Unsubscribe, Data, Subscribed, RoomClosed
      <4> QED
        BY <3>2, <4>2 DEF ReceiveClose, Deliver
    <3> QED
      BY <1>8, <3>1, <3>2
  <2>2. <<>> \in Seq(Control) /\ toClient' \in Seq(ClientBound)
    BY <1>t, <1>8 DEF ReceiveInvalid, ReceiveClose, Deliver
  <2> QED
    BY <2>1, <2>2, ClosingKeepsOrder
<1>9. CASE PhysicalCloses
  BY <1>9 DEF PhysicalCloses, OrderInv, QueueTypes, LinkInv, Carries
<1>10. CASE ServerAccepts
  <2>1. socket = "connecting" /\ UNCHANGED <<clientVars, toServer, toClient>> /\ link' = "up"
    BY <1>10 DEF ServerAccepts, OrderInv, LinkInv
  <2> QED
    BY <2>1 DEF clientVars, OrderInv, QueueTypes, LinkInv, Carries
<1>11. ASSUME NEW m \in AnyServerMessage, ServerSends(m)
       PROVE  OrderInv'
  <2>1. m \in ClientBound
    BY DEF ClientBound
  <2>2. toClient' \in Seq(ClientBound)
    BY <1>0, <1>11, <2>1, Concatenation DEF ServerSends
  <2> QED
    BY <1>11, <2>2, SilenceKeepsOrder DEF ServerSends, clientVars, Registered
<1>12. CASE ServerReceives
  <2>1. /\ toServer # <<>> /\ toServer' = Tail(toServer)
        /\ UNCHANGED <<socket, virtual, toClient, link>>
    BY <1>12 DEF ServerReceives, clientVars
  <2>2. toServer' \in Seq(ServerBound) /\ (toServer \in Seq(Opening) => toServer' \in Seq(Opening))
    BY <1>0, <2>1
  <2>3. Orderly(toServer') /\ (Settled(toServer, Registered) => Settled(toServer', Registered))
    BY <1>0, <2>1, TailIsOrderly DEF OrderInv
  <2> QED
    BY <2>1, <2>2, <2>3 DEF OrderInv, QueueTypes, LinkInv, Carries, Registered
<1>13. CASE ConnectionBreaks
  BY <1>13 DEF ConnectionBreaks, clientVars, OrderInv, QueueTypes, LinkInv, Carries
<1>14. CASE UNCHANGED vars
  BY <1>0, <1>14, SilenceKeepsOrder DEF vars, clientVars, Registered
<1> QED
  BY <1>1, <1>2, <1>3, <1>4, <1>5, <1>6, <1>7, <1>8, <1>9, <1>10, <1>11, <1>12, <1>13, <1>14
     DEF Next, ClientNext, Consumer, ReceiveMessage, Server

\* The invariant of both, for the theorems.
LEMMA OrderHolds == Spec => [](TransportInv /\ OrderInv)
<1>1. Init => OrderInv
  BY DEF Init, OrderInv, QueueTypes, LinkInv, Carries, Orderly
<1>2. TransportInv /\ OrderInv /\ [Next]_vars => OrderInv'
  BY NextOrder
<1>3. TransportInv /\ [Next]_vars => TransportInv'
  BY NextTransport
<1> QED
  BY <1>1, <1>2, <1>3, InitTransport, PTL DEF Spec

\* The adapter's state keeps its type, its queues included.
THEOREM TypeCorrect == Spec => []TypeOK
<1>1. TransportInv /\ OrderInv => TypeOK
  BY DEF TransportInv, SocketType, MapType, OrderInv, QueueTypes, LinkInv, ServerBound, ClientBound,
         TypeOK
<1> QED
  BY <1>1, OrderHolds, PTL

\* What the server reads of a room is well-formed: no data follows an
\* unsubscribe unless a subscribe comes between, whatever onclose callbacks
\* construct and however late an acknowledgement comes.
THEOREM UnsubscribeIsFinal == Spec => []NoDataAfterUnsubscribe
<1>1. OrderInv => NoDataAfterUnsubscribe
  BY DEF OrderInv, Orderly, Resubscribed, NoDataAfterUnsubscribe
<1> QED
  BY <1>1, OrderHolds, PTL

-----------------------------------------------------------------------------
(***************************************************************************)
(* The bytes.  Three digits hold every length and every close code.        *)
(***************************************************************************)
\* The numbers of three digits.
Numbers == {n \in Nat : n < Weight[4]}

\* What the digits are worth.
LEMMA Weights ==
  Weight[1] = 1 /\ Weight[2] = 128 /\ Weight[3] = 16384 /\ Weight[4] = 2097152 /\ Weight[5] = 268435456
BY SMT DEF Weight

\* Their type and their bound.
LEMMA NumbersAre ==
  ASSUME NEW n \in Numbers
  PROVE  n \in Nat /\ n < 2097152
BY SMT, Weights DEF Numbers

\* A number is as long as it has to be.
LEMMA VarUintLengths ==
  ASSUME NEW n \in Numbers
  PROVE  /\ VarUintLength(n) \in 1 .. 3
         /\ n < Weight[VarUintLength(n) + 1]
         /\ VarUintLength(n) = 1 \/ n >= Weight[VarUintLength(n)]
<1> DEFINE Fits(k) == (k = 5 \/ n < Weight[k + 1]) /\ (k = 1 \/ n >= Weight[k])
<1>1. n \in Nat /\ n < Weight[4] /\ n < Weight[5]
  BY SMT, Weights, NumbersAre
<1>2. \E k \in 1 .. 5 : Fits(k)
  <2>1. CASE n < 128
    BY SMT, <2>1, Weights
  <2>2. CASE n >= 128 /\ n < 16384
    BY SMT, <2>2, Weights
  <2>3. CASE n >= 16384
    BY SMT, <1>1, <2>3, Weights
  <2> QED
    BY SMT, <1>1, <2>1, <2>2, <2>3
<1>3. VarUintLength(n) \in 1 .. 5 /\ Fits(VarUintLength(n))
  BY <1>2 DEF VarUintLength
<1>4. ASSUME NEW k \in 1 .. 5, Fits(k)
      PROVE  k \in 1 .. 3 /\ n < Weight[k + 1] /\ (k = 1 \/ n >= Weight[k])
  BY SMT, <1>1, <1>4, Weights
<1> QED
  BY <1>3, <1>4

\* What writeVarUint writes: the digits, and the top bit of all but the last.
LEMMA VarUintBytes ==
  ASSUME NEW n \in Numbers
  PROVE  /\ VarUint(n) \in Bytes
         /\ Len(VarUint(n)) = VarUintLength(n)
         /\ \A i \in 1 .. VarUintLength(n) :
              /\ VarUint(n)[i] % 128 = (n \div Weight[i]) % 128
              /\ VarUint(n)[i] < 128 <=> i = VarUintLength(n)
<1> DEFINE l == VarUintLength(n)
<1>1. l \in 1 .. 3
  BY VarUintLengths
<1>2. \A i \in 1 .. l : (n \div Weight[i]) % 128 \in 0 .. 127
  BY SMT, <1>1, Weights, NumbersAre
<1> HIDE DEF l
<1>3. VarUint(n) = [i \in 1 .. l |-> ((n \div Weight[i]) % 128) + (IF i < l THEN 128 ELSE 0)]
  BY DEF VarUint, l
<1>4. \A i \in 1 .. l : VarUint(n)[i] = ((n \div Weight[i]) % 128) + (IF i < l THEN 128 ELSE 0)
  BY <1>3
<1>5. \A i \in 1 .. l : /\ VarUint(n)[i] \in Byte
                        /\ VarUint(n)[i] % 128 = (n \div Weight[i]) % 128
                        /\ VarUint(n)[i] < 128 <=> i = l
  <2> SUFFICES ASSUME NEW i \in 1 .. l
               PROVE  /\ VarUint(n)[i] \in Byte
                      /\ VarUint(n)[i] % 128 = (n \div Weight[i]) % 128
                      /\ VarUint(n)[i] < 128 <=> i = l
    OBVIOUS
  <2> DEFINE d == (n \div Weight[i]) % 128
  <2>1. d \in 0 .. 127
    BY <1>2
  <2>2. VarUint(n)[i] = d + (IF i < l THEN 128 ELSE 0)
    BY <1>4
  <2> HIDE DEF d
  <2>3. VarUint(n)[i] \in Byte /\ VarUint(n)[i] % 128 = d /\ (VarUint(n)[i] < 128 <=> i = l)
    BY <1>1, <2>1, <2>2 DEF Byte
  <2> QED
    BY <2>3 DEF d
<1>6. VarUint(n) \in [1 .. l -> Byte]
  BY <1>3, <1>4, <1>5
<1>7. l \in Nat
  BY <1>1
<1>8. VarUint(n) \in Bytes /\ Len(VarUint(n)) = l
  BY <1>6, <1>7, SeqDef, LenProperties DEF Bytes
<1> QED
  BY <1>5, <1>8 DEF l

-----------------------------------------------------------------------------
\* The elements of a sequence of bytes.
LEMMA BytesAre ==
  ASSUME NEW b \in Bytes
  PROVE  /\ Len(b) \in Nat
         /\ \A i \in 1 .. Len(b) : b[i] \in 0 .. 255
BY ElementOfSeq, LenProperties DEF Bytes, Byte

\* The bytes of two sequences, one after the other.
LEMMA Concatenated ==
  ASSUME NEW p \in Bytes, NEW c \in Bytes
  PROVE  /\ p \o c \in Bytes
         /\ Len(p \o c) = Len(p) + Len(c)
         /\ \A i \in 1 .. Len(p) : (p \o c)[i] = p[i]
BY ConcatProperties DEF Bytes

\* Fields may be grouped as they are read.
LEMMA ConcatenatedThrice ==
  ASSUME NEW p \in Bytes, NEW c \in Bytes, NEW d \in Bytes
  PROVE  (p \o c) \o d = p \o (c \o d)
BY ConcatAssociative DEF Bytes

\* A prefix, and what is left when it is dropped.
LEMMA DropsPrefix ==
  ASSUME NEW p \in Bytes, NEW c \in Bytes
  PROVE  /\ SubSeq(p \o c, 1, Len(p)) = p
         /\ Drop(p \o c, Len(p)) = c
<1>1. Len(p) \in Nat /\ Len(c) \in Nat /\ Len(p \o c) = Len(p) + Len(c) /\ p \o c \in Bytes
  BY Concatenated, LenProperties DEF Bytes
<1>2. SubSeq(p \o c, 1, Len(p)) = p
  <2>1. CASE p = <<>>
    BY <2>1, <1>1, SubSeqEmpty, EmptySeq DEF Bytes
  <2>2. CASE p # <<>>
    <3>1. 1 \in 1 .. Len(p) /\ Len(p) \in 1 .. Len(p)
      BY <2>2, EmptySeq DEF Bytes
    <3> QED
      BY <3>1, SubSeqOfConcat1, SubSeqFull DEF Bytes
  <2> QED
    BY <2>1, <2>2
<1>3. Drop(p \o c, Len(p)) = c
  <2>1. CASE c = <<>>
    BY <2>1, <1>1, SubSeqEmpty, EmptySeq DEF Drop, Bytes
  <2>2. CASE c # <<>>
    <3>1. Len(p) + 1 \in Len(p) + 1 .. Len(p) + Len(c) /\ Len(p) + Len(c) \in Len(p) + 1 .. Len(p) + Len(c)
      BY <1>1, <2>2, EmptySeq DEF Bytes
    <3>2. SubSeq(p \o c, Len(p) + 1, Len(p) + Len(c)) = SubSeq(c, Len(p) + 1 - Len(p), Len(p) + Len(c) - Len(p))
      BY <3>1, SubSeqOfConcat2 DEF Bytes
    <3>3. Len(p) + 1 - Len(p) = 1 /\ Len(p) + Len(c) - Len(p) = Len(c)
      BY <1>1
    <3> QED
      BY <1>1, <3>2, <3>3, SubSeqFull DEF Drop, Bytes
  <2> QED
    BY <2>1, <2>2
<1> QED
  BY <1>2, <1>3

\* A sequence is what is read of it and what is left.
LEMMA Splits ==
  ASSUME NEW b \in Bytes, NEW k \in 0 .. Len(b)
  PROVE  /\ SubSeq(b, 1, k) \in Bytes
         /\ Len(SubSeq(b, 1, k)) = k
         /\ Drop(b, k) \in Bytes
         /\ b = SubSeq(b, 1, k) \o Drop(b, k)
<1>1. Len(b) \in Nat /\ \A i \in 1 .. Len(b) : b[i] \in Byte
  BY LenProperties, ElementOfSeq DEF Bytes
<1>2. SubSeq(b, 1, k) \in Bytes /\ Len(SubSeq(b, 1, k)) = k
  BY <1>1, SubSeqProperties DEF Bytes
<1>3. Drop(b, k) \in Bytes
  BY <1>1, SubSeqProperties DEF Drop, Bytes
<1>4. SubSeq(b, 1, k) \o SubSeq(b, k + 1, Len(b)) = SubSeq(b, 1, Len(b))
  <2>1. /\ 1 \in 1 .. Len(b) + 1 /\ k \in 1 - 1 .. Len(b) /\ Len(b) \in k .. Len(b)
    BY <1>1
  <2> QED
    BY <2>1, ConcatAdjacentSubSeq DEF Bytes
<1> QED
  BY <1>2, <1>3, <1>4, SubSeqFull DEF Drop, Bytes

\* What is dropped of a longer sequence is longer by as much.
LEMMA DropExtends ==
  ASSUME NEW b \in Bytes, NEW c \in Bytes, NEW k \in 0 .. Len(b)
  PROVE  /\ SubSeq(b \o c, 1, k) = SubSeq(b, 1, k)
         /\ Drop(b \o c, k) = Drop(b, k) \o c
<1> DEFINE p == SubSeq(b, 1, k)
           d == Drop(b, k)
<1>1. p \in Bytes /\ d \in Bytes /\ Len(p) = k /\ b = p \o d
  BY Splits
<1> HIDE DEF p, d
<1>2. b \o c = p \o (d \o c) /\ d \o c \in Bytes
  BY <1>1, ConcatAssociative, Concatenated DEF Bytes
<1>3. SubSeq(b \o c, 1, k) = p /\ Drop(b \o c, k) = d \o c
  <2> DEFINE e == d \o c
  <2>1. e \in Bytes
    BY <1>2
  <2> HIDE DEF e
  <2>2. SubSeq(p \o e, 1, Len(p)) = p /\ Drop(p \o e, Len(p)) = e
    BY <1>1, <2>1, DropsPrefix
  <2> QED
    BY <1>1, <1>2, <2>2 DEF e
<1> QED
  BY <1>3 DEF p, d

-----------------------------------------------------------------------------
\* A number ends once.
LEMMA NumberEndsOnce ==
  ASSUME NEW b \in Bytes, NEW k \in VarUintEnds(b)
  PROVE  /\ ReadVarUint(b) = Read(VarUintValue(b, k), Drop(b, k))
         /\ k \in 0 .. Len(b)
<1>0. \A i \in 1 .. Len(b) : b[i] \in 0 .. 255
  BY ElementOfSeq DEF Bytes, Byte
<1>1. ASSUME NEW i \in VarUintEnds(b), NEW j \in VarUintEnds(b) PROVE ~ i < j
  <2>1. i \in 1 .. 5 /\ i <= Len(b) /\ b[i] < 128 /\ j \in 1 .. 5
    BY DEF VarUintEnds
  <2>2. i < j => b[i] >= 128
    BY <2>1 DEF VarUintEnds
  <2>3. Len(b) \in Nat
    BY LenProperties DEF Bytes
  <2>4. b[i] \in 0 .. 255
    <3>1. i \in 1 .. Len(b)
      BY <2>1, <2>3
    <3> QED
      BY <1>0, <3>1, Zenon
  <2>5. ASSUME i < j PROVE FALSE
    <3> DEFINE d == b[i]
    <3>1. d < 128 /\ d >= 128 /\ d \in 0 .. 255
      BY <2>1, <2>2, <2>4, <2>5
    <3> HIDE DEF d
    <3> QED
      BY <3>1
  <2> QED
    BY <2>1, <2>5
<1>2. VarUintEnds(b) = {k}
  <2>1. \A i \in VarUintEnds(b) : i \in Int
    BY DEF VarUintEnds
  <2> QED
    BY <1>1, <2>1
<1>3. k \in 0 .. Len(b)
  BY LenProperties DEF VarUintEnds, Bytes
<1> QED
  BY <1>2, <1>3 DEF ReadVarUint

\* A number ends where it did, whatever follows it.
LEMMA NumberExtends ==
  ASSUME NEW b \in Bytes, NEW c \in Bytes, NEW k \in VarUintEnds(b)
  PROVE  /\ k \in VarUintEnds(b \o c)
         /\ VarUintValue(b \o c, k) = VarUintValue(b, k)
<1>1. k \in 1 .. 5 /\ k <= Len(b) /\ b \o c \in Bytes /\ Len(b \o c) = Len(b) + Len(c)
      /\ Len(b) \in Nat /\ Len(c) \in Nat
  BY Concatenated, LenProperties DEF VarUintEnds, Bytes
<1>2. \A i \in 1 .. k : (b \o c)[i] = b[i]
  BY <1>1, Concatenated
<1>3. k \in VarUintEnds(b \o c)
  BY <1>1, <1>2 DEF VarUintEnds
<1>4. \A j \in 1 .. 5 : Digit(b \o c, j, k) = Digit(b, j, k)
  BY <1>1, <1>2 DEF Digit
<1>5. VarUintValue(b \o c, k) = VarUintValue(b, k)
  BY <1>4 DEF VarUintValue
<1> QED
  BY <1>3, <1>5

\* The digits of a number add up to it.
LEMMA DigitsAddUp ==
  ASSUME NEW n \in Numbers
  PROVE  /\ n < 128 => n % 128 = n
         /\ n < 16384 => (n % 128) + ((n \div 128) % 128) * 128 = n
         /\ (n % 128) + ((n \div 128) % 128) * 128 + ((n \div 16384) % 128) * 16384 = n
<1>1. n \in Nat /\ n < 2097152
  BY SMT, NumbersAre
<1>2. n < 128 => n % 128 = n
  BY SMT, <1>1
<1>3. n < 16384 => (n % 128) + ((n \div 128) % 128) * 128 = n
  BY SMT, <1>1
<1>4. (n % 128) + ((n \div 128) % 128) * 128 + ((n \div 16384) % 128) * 16384 = n
  BY SMT, <1>1
<1> QED
  BY SMT, <1>2, <1>3, <1>4

\* readVarUint returns what writeVarUint wrote, and leaves what follows.
LEMMA NumberIsRead ==
  ASSUME NEW n \in Numbers, NEW c \in Bytes
  PROVE  ReadVarUint(VarUint(n) \o c) = Read(n, c)
<1> DEFINE l == VarUintLength(n)
           v == VarUint(n)
<1>1. l \in 1 .. 3 /\ n < Weight[l + 1]
  BY VarUintLengths
<1>2. /\ v \in Bytes /\ Len(v) = l
      /\ \A i \in 1 .. l : v[i] % 128 = (n \div Weight[i]) % 128
      /\ \A i \in 1 .. l : v[i] < 128 <=> i = l
  BY VarUintBytes
<1> HIDE DEF l, v
<1>3. l \in VarUintEnds(v)
  <2>1. \A i \in 1 .. l : v[i] \in 0 .. 255
    BY <1>2, ElementOfSeq DEF Bytes, Byte
  <2>2. ASSUME NEW j \in 1 .. l - 1 PROVE v[j] >= 128
    <3> DEFINE d == v[j]
    <3>1. j \in 1 .. l /\ j # l
      BY <1>1
    <3>2. d \in 0 .. 255 /\ ~(d < 128)
      BY <1>2, <2>1, <3>1, Zenon
    <3> HIDE DEF d
    <3>3. d >= 128
      BY <3>2
    <3> QED
      BY <3>3 DEF d
  <2>3. v[l] < 128 /\ l \in 1 .. 5 /\ l # 5
    BY <1>1, <1>2
  <2> QED
    BY <1>2, <2>2, <2>3 DEF VarUintEnds
<1>5. VarUintValue(v, l) = n
  <2>0. n \in Nat /\ n \div 1 = n
    BY SMT, NumbersAre
  <2>4. ASSUME NEW i \in 1 .. l PROVE Digit(v, i, l) = ((n \div Weight[i]) % 128) * Weight[i]
    <3>1. i <= l
      BY <1>1
    <3>2. Digit(v, i, l) = (v[i] % 128) * Weight[i]
      BY <3>1 DEF Digit
    <3>3. v[i] % 128 = (n \div Weight[i]) % 128
      BY <1>2, Zenon
    <3> QED
      BY <3>2, <3>3
  <2>1. CASE l = 1
    <3>1. n < 128 /\ Digit(v, 1, l) = n % 128
      BY SMT, <1>1, <1>2, <2>0, <2>1, Weights DEF Digit
    <3>2. \A j \in 2 .. 5 : Digit(v, j, l) = 0
      BY <2>1 DEF Digit
    <3> QED
      BY SMT, <2>0, <3>1, <3>2, DigitsAddUp DEF VarUintValue
  <2>2. CASE l = 2
    <3>1. n < 16384 /\ Digit(v, 1, l) = n % 128 /\ Digit(v, 2, l) = ((n \div 128) % 128) * 128
      BY SMT, <1>1, <2>0, <2>2, <2>4, Weights
    <3>2. \A j \in 3 .. 5 : Digit(v, j, l) = 0
      BY <2>2 DEF Digit
    <3> QED
      BY SMT, <2>0, <3>1, <3>2, DigitsAddUp DEF VarUintValue
  <2>3. CASE l = 3
    <3>1. /\ Digit(v, 1, l) = n % 128
          /\ Digit(v, 2, l) = ((n \div 128) % 128) * 128
          /\ Digit(v, 3, l) = ((n \div 16384) % 128) * 16384
      BY SMT, <2>0, <2>3, <2>4, Weights
    <3>2. \A j \in 4 .. 5 : Digit(v, j, l) = 0
      BY <2>3 DEF Digit
    <3> QED
      BY SMT, <2>0, <3>1, <3>2, DigitsAddUp DEF VarUintValue
  <2> QED
    BY <1>1, <2>1, <2>2, <2>3
<1>6. l \in VarUintEnds(v \o c) /\ VarUintValue(v \o c, l) = n
  BY <1>2, <1>3, <1>5, NumberExtends
<1>7. v \o c \in Bytes /\ Drop(v \o c, l) = c
  BY <1>2, Concatenated, DropsPrefix
<1> QED
  BY <1>6, <1>7, NumberEndsOnce DEF v

-----------------------------------------------------------------------------
\* A read that succeeds reads the same of a longer sequence, and leaves the
\* rest longer.
LEMMA NumberReadExtends ==
  ASSUME NEW b \in Bytes, NEW c \in Bytes, ReadVarUint(b).ok
  PROVE  \E value \in Nat, rest \in Bytes :
           /\ ReadVarUint(b) = Read(value, rest)
           /\ ReadVarUint(b \o c) = Read(value, rest \o c)
<1>1. PICK k \in VarUintEnds(b) : TRUE
  BY DEF ReadVarUint, Refused
<1>2. k \in 0 .. Len(b) /\ k \in 1 .. 5
  BY NumberEndsOnce DEF VarUintEnds
<1>3. VarUintValue(b, k) \in Nat
  <2>1. \A i \in 1 .. k : b[i] \in 0 .. 255
    <3>1. \A i \in 1 .. k : i \in 1 .. Len(b)
      BY <1>2, BytesAre
    <3> QED
      BY <3>1, BytesAre
  <2>2. ASSUME NEW j \in 1 .. 5 PROVE Digit(b, j, k) \in Nat
    <3>1. Weight[j] \in Nat
      BY SMT, Weights
    <3>2. CASE j <= k
      <4> DEFINE d == b[j]
      <4>1. d \in 0 .. 255
        <5>1. j \in 1 .. k
          BY <1>2, <3>2
        <5> QED
          BY <2>1, <5>1, Zenon
      <4> HIDE DEF d
      <4>2. d % 128 \in 0 .. 127
        BY <4>1
      <4>3. (d % 128) * Weight[j] \in Nat
        BY <3>1, <4>2
      <4> QED
        BY <3>2, <4>3 DEF Digit, d
    <3>3. CASE ~(j <= k)
      BY <3>3 DEF Digit
    <3> QED
      BY <3>2, <3>3
  <2> QED
    BY <2>2 DEF VarUintValue
<1>4. Drop(b, k) \in Bytes /\ b \o c \in Bytes /\ Drop(b \o c, k) = Drop(b, k) \o c
  BY <1>2, Splits, Concatenated, DropExtends
<1>5. /\ ReadVarUint(b) = Read(VarUintValue(b, k), Drop(b, k))
      /\ ReadVarUint(b \o c) = Read(VarUintValue(b, k), Drop(b, k) \o c)
  BY <1>4, NumberEndsOnce, NumberExtends
<1> QED
  BY <1>3, <1>4, <1>5

\* The same of a string, which is within the limit of its reader.
LEMMA StringReadExtends ==
  ASSUME NEW b \in Bytes, NEW c \in Bytes, NEW max \in Nat, ReadString(b, max).ok
  PROVE  \E value \in Text, rest \in Bytes :
           /\ Len(value) <= max
           /\ ReadString(b, max) = Read(value, rest)
           /\ ReadString(b \o c, max) = Read(value, rest \o c)
<1>1. ReadVarUint(b).ok
  BY DEF ReadString, Then, Refused
<1>2. PICK length \in Nat, rest \in Bytes :
        /\ ReadVarUint(b) = Read(length, rest)
        /\ ReadVarUint(b \o c) = Read(length, rest \o c)
  BY <1>1, NumberReadExtends
<1>0. ReadVarUint(b) = Read(length, rest)
  BY <1>2
<1>3. ReadString(b, max)
        = IF length > max \/ length > Len(rest) \/ \E i \in 1 .. length : rest[i] >= 128
          THEN Refused
          ELSE Read(SubSeq(rest, 1, length), Drop(rest, length))
  BY <1>0 DEF ReadString, Then, Read
<1>4. ~(length > max \/ length > Len(rest) \/ \E i \in 1 .. length : rest[i] >= 128)
  BY <1>3 DEF Refused
<1>5. /\ length \in 0 .. Len(rest)
      /\ Len(rest \o c) = Len(rest) + Len(c) /\ Len(rest) \in Nat /\ Len(c) \in Nat
      /\ \A i \in 1 .. Len(rest) : (rest \o c)[i] = rest[i]
  BY <1>2, <1>4, Concatenated, LenProperties DEF Bytes
<1>6. ~(length > max \/ length > Len(rest \o c) \/ \E i \in 1 .. length : (rest \o c)[i] >= 128)
  <2>1. \A i \in 1 .. length : (rest \o c)[i] = rest[i]
    BY <1>5
  <2> QED
    BY <1>4, <1>5, <2>1
<1>7. ReadString(b \o c, max) = Read(SubSeq(rest \o c, 1, length), Drop(rest \o c, length))
  BY <1>2, <1>6 DEF ReadString, Then, Read
<1>8. /\ SubSeq(rest \o c, 1, length) = SubSeq(rest, 1, length)
      /\ Drop(rest \o c, length) = Drop(rest, length) \o c
      /\ SubSeq(rest, 1, length) \in Bytes /\ Drop(rest, length) \in Bytes
  BY <1>5, DropExtends, Splits
<1>9. ReadString(b, max) = Read(SubSeq(rest, 1, length), Drop(rest, length))
  BY <1>3, <1>4
<1>10. SubSeq(rest, 1, length) \in Text /\ Len(SubSeq(rest, 1, length)) <= max
  <2>1. ASSUME NEW i \in 1 .. length PROVE rest[i] \in 0 .. 127
    <3> DEFINE d == rest[i]
    <3>1. i \in 1 .. Len(rest)
      BY <1>5
    <3>2. d \in 0 .. 255 /\ ~(d >= 128)
      BY <1>4, <3>1, BytesAre, Zenon
    <3> HIDE DEF d
    <3>3. d \in 0 .. 127
      BY <3>2
    <3> QED
      BY <3>3 DEF d
  <2>2. SubSeq(rest, 1, length) \in Text
    BY <1>5, <2>1, SubSeqProperties DEF Text
  <2>3. Len(SubSeq(rest, 1, length)) = length /\ length <= max
    BY <1>4, <1>5, Splits
  <2> QED
    BY <2>2, <2>3
<1> QED
  BY <1>7, <1>8, <1>9, <1>10

\* A string is a sequence of bytes that readString accepts.
LEMMA TextIsBytes ==
  ASSUME NEW s \in Text
  PROVE  s \in Bytes /\ Len(s) \in Nat /\ \A i \in 1 .. Len(s) : ~(s[i] >= 128)
<1>1. s \in Bytes
  <2>1. 0 .. 127 \subseteq 0 .. 255
    OBVIOUS
  <2> QED
    BY <2>1, SeqMonotonic DEF Text, Bytes, Byte
<1>2. Len(s) \in Nat /\ \A i \in 1 .. Len(s) : s[i] \in 0 .. 127
  BY ElementOfSeq, LenProperties DEF Text
<1>3. \A x \in 0 .. 127 : ~(x >= 128)
  OBVIOUS
<1> QED
  BY <1>1, <1>2, <1>3

\* readString returns what writeString wrote, and leaves what follows.
LEMMA StringIsRead ==
  ASSUME NEW s \in Text, NEW max \in Numbers, Len(s) <= max, NEW c \in Bytes
  PROVE  /\ String(s) \in Bytes
         /\ ReadString(String(s) \o c, max) = Read(s, c)
<1> DEFINE n == Len(s)
<1>1. s \in Bytes /\ n \in Nat /\ \A i \in 1 .. n : ~(s[i] >= 128)
  BY TextIsBytes
<1>2. n \in Numbers
  <2>1. max \in Nat /\ max < Weight[4]
    BY DEF Numbers
  <2>2. n < Weight[4]
    BY SMT, <1>1, <2>1, Weights
  <2> QED
    BY <1>1, <2>2 DEF Numbers
<1>3. VarUint(n) \in Bytes /\ String(s) \in Bytes
  BY <1>1, <1>2, VarUintBytes, Concatenated DEF String
<1>4. String(s) \o c = VarUint(n) \o (s \o c) /\ s \o c \in Bytes
  BY <1>1, <1>3, ConcatAssociative, Concatenated DEF String, Bytes
<1>5. ReadVarUint(String(s) \o c) = Read(n, s \o c)
  BY <1>2, <1>4, NumberIsRead
<1>6. ~(n > max \/ n > Len(s \o c) \/ \E i \in 1 .. n : (s \o c)[i] >= 128)
  <2>1. Len(s \o c) = n + Len(c) /\ Len(c) \in Nat /\ max \in Nat
    BY <1>1, Concatenated, LenProperties, NumbersAre DEF Bytes
  <2>2. \A i \in 1 .. n : (s \o c)[i] = s[i]
    BY <1>1, Concatenated
  <2> QED
    BY <1>1, <2>1, <2>2
<1>7. SubSeq(s \o c, 1, n) = s /\ Drop(s \o c, n) = c
  BY <1>1, DropsPrefix
<1> DEFINE b == String(s) \o c
           t == s \o c
<1> HIDE DEF n, b, t
<1>8. ReadVarUint(b) = Read(n, t)
  BY <1>5 DEF b, t
<1>9. ReadString(b, max)
        = IF n > max \/ n > Len(t) \/ \E i \in 1 .. n : t[i] >= 128
          THEN Refused
          ELSE Read(SubSeq(t, 1, n), Drop(t, n))
  BY <1>8 DEF ReadString, Then, Read
<1>10. ReadString(b, max) = Read(SubSeq(t, 1, n), Drop(t, n))
  BY <1>6, <1>9 DEF t
<1> QED
  BY <1>3, <1>7, <1>10 DEF b, t

-----------------------------------------------------------------------------
(***************************************************************************)
(* decodeMessage as the sequence of its reads.                             *)
(***************************************************************************)
Types == {"subscribe", "subscribed", "data", "unsubscribe", "room_closed"}

\* No two types share a wire id.
LEMMA WireIds ==
  /\ DOMAIN WireId = Types
  /\ \A type \in Types : /\ WireId[type] \in Numbers /\ WireId[type] \in Range(WireId)
                         /\ TypeOfWireId(WireId[type]) = type
  /\ \A id \in Range(WireId) : TypeOfWireId(id) \in Types /\ WireId[TypeOfWireId(id)] = id
  /\ ProtocolVersion \in Numbers
<1>1. DOMAIN WireId = Types
  BY DEF WireId, Types
<1>2. /\ WireId["subscribe"] = 0 /\ WireId["subscribed"] = 1 /\ WireId["data"] = 2
      /\ WireId["unsubscribe"] = 3 /\ WireId["room_closed"] = 4
  BY DEF WireId
<1>3. \A n \in 0 .. 4 : n \in Numbers
  BY SMT, Weights DEF Numbers
<1>4. \A type \in Types : WireId[type] \in 0 .. 4
  BY <1>2 DEF Types
<1>5. \A type, other \in Types : WireId[type] = WireId[other] => type = other
  BY <1>2 DEF Types
<1>6. \A type \in Types : WireId[type] \in Range(WireId)
  BY <1>1 DEF Range
<1>7. \A id \in Range(WireId) : \E type \in Types : WireId[type] = id
  BY <1>1 DEF Range
<1>8. \A type \in Types : TypeOfWireId(WireId[type]) = type
  BY <1>1, <1>5 DEF TypeOfWireId
<1> QED
  BY <1>1, <1>3, <1>4, <1>6, <1>7, <1>8 DEF ProtocolVersion

\* The four reads of a message that is accepted.
LEMMA DecodeReads ==
  ASSUME NEW b, NEW b1, NEW b2, NEW b3, NEW id \in Range(WireId), NEW room,
         ReadVarUint(b) = Read(ProtocolVersion, b1),
         ReadVarUint(b1) = Read(id, b2),
         ReadString(b2, MaxRoomNameBytes) = Read(room, b3), room # <<>>
  PROVE  Decode(b) = DecodeFields(TypeOfWireId(id), room, b3)
BY DEF Decode, Then, Read

\* What decodes was read so, and what is longer is read alike.
LEMMA DecodedWasRead ==
  ASSUME NEW b \in Bytes, NEW c \in Bytes, Decode(b).ok
  PROVE  \E type \in Types, room \in Text, rest \in Bytes :
           /\ Len(room) \in 1 .. MaxRoomNameBytes
           /\ Decode(b) = DecodeFields(type, room, rest)
           /\ Decode(b \o c) = DecodeFields(type, room, rest \o c)
<1>1. ReadVarUint(b).ok
  BY DEF Decode, Then, Refused
<1>2. PICK version \in Nat, b1 \in Bytes :
        ReadVarUint(b) = Read(version, b1) /\ ReadVarUint(b \o c) = Read(version, b1 \o c)
  BY <1>1, NumberReadExtends
<1>3. version = ProtocolVersion /\ ReadVarUint(b1).ok
  BY <1>2 DEF Decode, Then, Refused, Read
<1>4. PICK id \in Nat, b2 \in Bytes :
        ReadVarUint(b1) = Read(id, b2) /\ ReadVarUint(b1 \o c) = Read(id, b2 \o c)
  BY <1>3, NumberReadExtends
<1>5. id \in Range(WireId) /\ ReadString(b2, MaxRoomNameBytes).ok
  BY <1>2, <1>3, <1>4 DEF Decode, Then, Refused, Read
<1>6. PICK room \in Text, b3 \in Bytes :
        /\ Len(room) <= MaxRoomNameBytes
        /\ ReadString(b2, MaxRoomNameBytes) = Read(room, b3)
        /\ ReadString(b2 \o c, MaxRoomNameBytes) = Read(room, b3 \o c)
  BY <1>5, StringReadExtends, LengthsAssumption
<1>7. room # <<>>
  BY <1>2, <1>3, <1>4, <1>5, <1>6 DEF Decode, Then, Refused, Read
<1>8. Decode(b) = DecodeFields(TypeOfWireId(id), room, b3)
  BY <1>2, <1>3, <1>4, <1>5, <1>6, <1>7, DecodeReads
<1>9. Decode(b \o c) = DecodeFields(TypeOfWireId(id), room, b3 \o c)
  BY <1>2, <1>3, <1>4, <1>5, <1>6, <1>7, DecodeReads
<1>10. Len(room) \in 1 .. MaxRoomNameBytes
  BY <1>6, <1>7, LengthsAssumption, TextIsBytes, EmptySeq DEF Text
<1> QED
  BY <1>5, <1>8, <1>9, <1>10, WireIds

\* Nothing but a payload may be longer.
LEMMA FieldsEnd ==
  ASSUME NEW type \in Types, NEW room, NEW rest \in Bytes, NEW c \in Bytes, c # <<>>,
         DecodeFields(type, room, rest).ok
  PROVE  IF type = "data"
         THEN /\ DecodeFields(type, room, rest).message.type = "data"
              /\ DecodeFields(type, room, rest).message.room = room
              /\ DecodeFields(type, room, rest \o c).ok
              /\ DecodeFields(type, room, rest \o c).message.type = "data"
              /\ DecodeFields(type, room, rest \o c).message.room = room
         ELSE /\ DecodeFields(type, room, rest).message.type # "data"
              /\ ~DecodeFields(type, room, rest \o c).ok
<1>1. rest \o c # <<>> /\ <<>> \o c = c
  BY ConcatEqualIffEmpty, ConcatEmptySeq DEF Bytes
<1>2. CASE type = "subscribe"
  <2>1. ReadString(rest, MaxGrantBytes).ok
    BY <1>2 DEF DecodeFields, Then, Refused
  <2>2. PICK given \in Text, tail \in Bytes :
          /\ ReadString(rest, MaxGrantBytes) = Read(given, tail)
          /\ ReadString(rest \o c, MaxGrantBytes) = Read(given, tail \o c)
    BY <2>1, StringReadExtends, LengthsAssumption
  <2> DEFINE m == [type |-> type, room |-> room, grant |-> given]
  <2>3. DecodeFields(type, room, rest) = IF given = <<>> THEN Refused ELSE Done(m, tail)
    BY <1>2, <2>2 DEF DecodeFields, Then, Read
  <2>4. DecodeFields(type, room, rest \o c) = IF given = <<>> THEN Refused ELSE Done(m, tail \o c)
    BY <1>2, <2>2 DEF DecodeFields, Then, Read
  <2>5. m.type = type
    OBVIOUS
  <2> HIDE DEF m
  <2>6. given # <<>> /\ tail = <<>>
    BY <2>3 DEF Done, Refused
  <2>7. DecodeFields(type, room, rest).message = m
    BY <2>3, <2>6 DEF Done
  <2>8. ~DecodeFields(type, room, rest \o c).ok
    BY <1>1, <2>4, <2>6 DEF Done, Refused
  <2> QED
    BY <1>2, <2>5, <2>7, <2>8
<1>3. CASE type = "data"
  <2>1. rest # <<>>
    BY <1>3 DEF DecodeFields, Refused
  <2>2. /\ DecodeFields(type, room, rest) = Done([type |-> type, room |-> room, payload |-> rest], <<>>)
        /\ DecodeFields(type, room, rest \o c) = Done([type |-> type, room |-> room, payload |-> rest \o c], <<>>)
    BY <1>1, <1>3, <2>1 DEF DecodeFields
  <2> QED
    BY <1>3, <2>2 DEF Done
<1>4. CASE type = "room_closed"
  <2>1. ReadVarUint(rest).ok
    BY <1>4 DEF DecodeFields, Then, Refused
  <2>2. PICK code \in Nat, tail \in Bytes :
          /\ ReadVarUint(rest) = Read(code, tail)
          /\ ReadVarUint(rest \o c) = Read(code, tail \o c)
    BY <2>1, NumberReadExtends
  <2> DEFINE m == [type |-> type, room |-> room, code |-> code]
             Bad == code \notin MinRoomCloseCode .. MaxRoomCloseCode
  <2>3. DecodeFields(type, room, rest) = IF Bad THEN Refused ELSE Done(m, tail)
    BY <1>4, <2>2 DEF DecodeFields, Then, Read
  <2>4. DecodeFields(type, room, rest \o c) = IF Bad THEN Refused ELSE Done(m, tail \o c)
    BY <1>4, <2>2 DEF DecodeFields, Then, Read
  <2>5. m.type = type
    OBVIOUS
  <2> HIDE DEF m, Bad
  <2>6. ~Bad /\ tail = <<>>
    BY <2>3 DEF Done, Refused
  <2>7. DecodeFields(type, room, rest).message = m
    BY <2>3, <2>6 DEF Done
  <2>8. ~DecodeFields(type, room, rest \o c).ok
    BY <1>1, <2>4, <2>6 DEF Done, Refused
  <2> QED
    BY <1>4, <2>5, <2>7, <2>8
<1>5. CASE type \in {"subscribed", "unsubscribe"}
  <2> DEFINE m == [type |-> type, room |-> room]
  <2>1. /\ DecodeFields(type, room, rest) = Done(m, rest)
        /\ DecodeFields(type, room, rest \o c) = Done(m, rest \o c)
    BY <1>5 DEF DecodeFields
  <2>2. m.type = type
    OBVIOUS
  <2> HIDE DEF m
  <2>3. DecodeFields(type, room, rest).message = m
    BY <2>1 DEF Done, Refused
  <2>4. ~DecodeFields(type, room, rest \o c).ok
    BY <1>1, <2>1 DEF Done, Refused
  <2> QED
    BY <1>5, <2>2, <2>3, <2>4
<1> QED
  BY <1>2, <1>3, <1>4, <1>5 DEF Types

-----------------------------------------------------------------------------
(***************************************************************************)
(* What encodeMessage is given is what decodeMessage returns.              *)
(***************************************************************************)
\* The fields after the room, type by type.
LEMMA FieldsRoundTrip ==
  ASSUME NEW m \in ProtocolMessage, Encodable(m)
  PROVE  /\ EncodeFields(m) \in Bytes
         /\ DecodeFields(m.type, m.room, EncodeFields(m)) = [ok |-> TRUE, message |-> m]
<1>0. <<>> \in Bytes /\ \A q \in Bytes : q \o <<>> = q
  BY EmptySeq, ConcatEmptySeq DEF Bytes
<1>1. CASE m \in [type : {"subscribe"}, room : Text, grant : Text]
  <2>1. m.type = "subscribe" /\ m.grant \in Text /\ m = [type |-> m.type, room |-> m.room, grant |-> m.grant]
    BY <1>1
  <2>2. Len(m.grant) \in 1 .. MaxGrantBytes
    BY <2>1 DEF Encodable
  <2>3. MaxGrantBytes \in Numbers /\ Len(m.grant) <= MaxGrantBytes /\ m.grant # <<>>
    <3>1. MaxGrantBytes \in Numbers
      BY LengthsAssumption DEF Numbers
    <3>2. Len(m.grant) <= MaxGrantBytes /\ Len(m.grant) # 0
      BY <2>2, LengthsAssumption
    <3> QED
      BY <3>1, <3>2, EmptySeq
  <2>4. EncodeFields(m) = String(m.grant)
    BY <2>1 DEF EncodeFields
  <2>5. String(m.grant) \in Bytes /\ ReadString(String(m.grant), MaxGrantBytes) = Read(m.grant, <<>>)
    <3>1. String(m.grant) \in Bytes /\ ReadString(String(m.grant) \o <<>>, MaxGrantBytes) = Read(m.grant, <<>>)
      BY <1>0, <2>1, <2>3, StringIsRead
    <3> QED
      BY <1>0, <3>1
  <2> DEFINE b == String(m.grant)
             g == m.grant
             n == [type |-> m.type, room |-> m.room, grant |-> g]
  <2> HIDE DEF b, g, n
  <2>6. ReadString(b, MaxGrantBytes) = Read(g, <<>>) /\ g # <<>>
    BY <2>3, <2>5 DEF b, g
  <2>7. DecodeFields(m.type, m.room, b) = Done(n, <<>>)
    BY <2>1, <2>6 DEF DecodeFields, Then, Read, n
  <2>8. n = m
    BY <2>1 DEF n, g
  <2> QED
    BY <2>4, <2>5, <2>7, <2>8 DEF Done, b
<1>2. CASE m \in [type : {"subscribed", "unsubscribe"}, room : Text]
  <2>1. m.type \in {"subscribed", "unsubscribe"} /\ m = [type |-> m.type, room |-> m.room]
    BY <1>2
  <2>2. EncodeFields(m) = <<>>
    BY <2>1 DEF EncodeFields
  <2>3. DecodeFields(m.type, m.room, <<>>) = Done([type |-> m.type, room |-> m.room], <<>>)
    BY <2>1 DEF DecodeFields
  <2> QED
    BY <1>0, <2>1, <2>2, <2>3 DEF Done
<1>3. CASE m \in [type : {"data"}, room : Text, payload : Bytes]
  <2>1. m.type = "data" /\ m.payload \in Bytes /\ m = [type |-> m.type, room |-> m.room, payload |-> m.payload]
    BY <1>3
  <2>2. EncodeFields(m) = m.payload /\ m.payload # <<>>
    BY <2>1 DEF EncodeFields, Encodable
  <2>3. DecodeFields(m.type, m.room, m.payload)
          = Done([type |-> m.type, room |-> m.room, payload |-> m.payload], <<>>)
    BY <2>1, <2>2 DEF DecodeFields
  <2> QED
    BY <2>1, <2>2, <2>3 DEF Done
<1>4. CASE m \in [type : {"room_closed"}, room : Text, code : Nat]
  <2>1. m.type = "room_closed" /\ m = [type |-> m.type, room |-> m.room, code |-> m.code]
    BY <1>4
  <2>2. m.code \in MinRoomCloseCode .. MaxRoomCloseCode
    BY <2>1 DEF Encodable
  <2>3. m.code \in Numbers
    <3> DEFINE code == m.code
    <3>1. code \in MinRoomCloseCode .. MaxRoomCloseCode
      BY <2>2
    <3> HIDE DEF code
    <3>2. code \in Int /\ MinRoomCloseCode <= code /\ code <= MaxRoomCloseCode
      BY SMT, <3>1 DEF MinRoomCloseCode, MaxRoomCloseCode
    <3>3. code \in Nat /\ code < 5000
      BY SMT, <3>2 DEF MinRoomCloseCode, MaxRoomCloseCode
    <3>4. code \in Numbers
      BY SMT, <3>3, Weights DEF Numbers
    <3> QED
      BY <3>4 DEF code
  <2>4. EncodeFields(m) = VarUint(m.code)
    BY <2>1 DEF EncodeFields
  <2>5. VarUint(m.code) \in Bytes /\ ReadVarUint(VarUint(m.code)) = Read(m.code, <<>>)
    <3>1. VarUint(m.code) \in Bytes /\ ReadVarUint(VarUint(m.code) \o <<>>) = Read(m.code, <<>>)
      BY <1>0, <2>3, NumberIsRead, VarUintBytes
    <3> QED
      BY <1>0, <3>1
  <2> DEFINE b == VarUint(m.code)
             g == m.code
             n == [type |-> m.type, room |-> m.room, code |-> g]
  <2> HIDE DEF b, g, n
  <2>6. ReadVarUint(b) = Read(g, <<>>) /\ g \in MinRoomCloseCode .. MaxRoomCloseCode
    BY <2>2, <2>5 DEF b, g
  <2>7. DecodeFields(m.type, m.room, b) = Done(n, <<>>)
    BY <2>1, <2>6 DEF DecodeFields, Then, Read, n
  <2>8. n = m
    BY <2>1 DEF n, g
  <2> QED
    BY <2>4, <2>5, <2>7, <2>8 DEF Done, b
<1> QED
  BY <1>1, <1>2, <1>3, <1>4 DEF ProtocolMessage

\* decodeMessage returns what encodeMessage was given.
LEMMA EncodedIsDecoded ==
  ASSUME NEW m \in ProtocolMessage, Encodable(m)
  PROVE  Encode(m) \in Bytes /\ RoundTrips(m)
<1> DEFINE version == VarUint(ProtocolVersion)
           type == VarUint(WireId[m.type])
           room == String(m.room)
           fields == EncodeFields(m)
<1>1. m.type \in Types /\ m.room \in Text
  BY DEF ProtocolMessage, Types
<1>2. MaxRoomNameBytes \in Numbers /\ Len(m.room) <= MaxRoomNameBytes /\ m.room # <<>>
  <2>1. MaxRoomNameBytes \in Numbers
    BY LengthsAssumption DEF Numbers
  <2>2. Len(m.room) \in 1 .. MaxRoomNameBytes
    BY DEF Encodable
  <2>3. Len(m.room) <= MaxRoomNameBytes /\ Len(m.room) # 0
    BY <2>2, LengthsAssumption
  <2> QED
    BY <2>1, <2>3, EmptySeq
<1>3. version \in Bytes /\ type \in Bytes /\ fields \in Bytes
  BY <1>1, WireIds, VarUintBytes, FieldsRoundTrip
<1>4. room \in Bytes
  BY <1>1, <1>2, <1>3, StringIsRead
<1> DEFINE b3 == fields
           b2 == room \o b3
           b1 == type \o b2
           b == version \o b1
<1>5. b2 \in Bytes /\ b1 \in Bytes /\ b \in Bytes
  BY <1>3, <1>4, Concatenated
<1>6. Encode(m) = b
  <2>1. Encode(m) = ((version \o type) \o room) \o fields
    BY DEF Encode
  <2> HIDE DEF version, type, room, fields
  <2>2. version \o type \in Bytes
    BY <1>3, Concatenated
  <2>3. ((version \o type) \o room) \o fields = (version \o type) \o (room \o fields)
    BY <1>3, <1>4, <2>2, ConcatenatedThrice
  <2> DEFINE named == room \o fields
  <2>4. named \in Bytes
    BY <1>5
  <2> HIDE DEF named
  <2>5. (version \o type) \o named = version \o (type \o named)
    BY <1>3, <2>4, ConcatenatedThrice
  <2> QED
    BY <2>1, <2>3, <2>5 DEF named
<1>7. ReadVarUint(b) = Read(ProtocolVersion, b1)
  BY <1>5, WireIds, NumberIsRead
<1>8. ReadVarUint(b1) = Read(WireId[m.type], b2)
  BY <1>1, <1>5, WireIds, NumberIsRead
<1>9. ReadString(b2, MaxRoomNameBytes) = Read(m.room, b3)
  BY <1>1, <1>2, <1>3, StringIsRead
<1> HIDE DEF b, b1, b2, b3
<1>10. Decode(b) = DecodeFields(m.type, m.room, b3)
  BY <1>1, <1>2, <1>7, <1>8, <1>9, WireIds, DecodeReads
<1> QED
  BY <1>5, <1>6, <1>10, FieldsRoundTrip DEF RoundTrips, b3

\* Of two frames that decode, one the beginning of the other, both are data of
\* one room.
LEMMA DecodedEnds ==
  ASSUME NEW b \in Bytes, NEW c \in Bytes, c # <<>>, Decode(b).ok, Decode(b \o c).ok
  PROVE  /\ Decode(b).message.type = "data" /\ Decode(b \o c).message.type = "data"
         /\ Decode(b).message.room = Decode(b \o c).message.room
<1>1. PICK type \in Types, room \in Text, rest \in Bytes :
        /\ Decode(b) = DecodeFields(type, room, rest)
        /\ Decode(b \o c) = DecodeFields(type, room, rest \o c)
  BY DecodedWasRead
<1> QED
  BY <1>1, FieldsEnd

\* No frame is the beginning of another, but of one with more payload.
LEMMA EncodedFramesItself ==
  ASSUME NEW m \in ProtocolMessage, Encodable(m)
  PROVE  FramesItself(m)
<1> DEFINE bytes == Encode(m)
<1>1. bytes \in Bytes /\ Decode(bytes) = [ok |-> TRUE, message |-> m]
  BY EncodedIsDecoded DEF RoundTrips
<1> HIDE DEF bytes
<1>2. ASSUME NEW n \in 0 .. Len(bytes) - 1, Decode(SubSeq(bytes, 1, n)).ok
      PROVE  m.type = "data" /\ Decode(SubSeq(bytes, 1, n)).message.room = m.room
  <2> DEFINE f == SubSeq(bytes, 1, n)
             c == Drop(bytes, n)
  <2> SUFFICES m.type = "data" /\ Decode(f).message.room = m.room
    OBVIOUS
  <2>0. Decode(f).ok
    BY <1>2
  <2>1. n \in 0 .. Len(bytes) /\ n # Len(bytes)
    BY <1>1, BytesAre
  <2>2. f \in Bytes /\ c \in Bytes /\ bytes = f \o c /\ Len(f) = n
    BY <1>1, <2>1, Splits
  <2> HIDE DEF f, c
  <2>3. c # <<>>
    BY <2>1, <2>2, ConcatEmptySeq DEF Bytes
  <2>4. Decode(f).ok /\ Decode(f \o c).ok
    BY <1>1, <2>0, <2>2
  <2>5. Decode(f \o c).message.type = "data" /\ Decode(f).message.room = Decode(f \o c).message.room
    BY <2>2, <2>3, <2>4, DecodedEnds
  <2> QED
    BY <1>1, <2>2, <2>5
<1>3. ASSUME NEW b \in Byte, Decode(Append(bytes, b)).ok
      PROVE  m.type = "data" /\ Decode(Append(bytes, b)).message.room = m.room
  <2> DEFINE c == <<b>>
  <2>1. b \in Byte
    BY DEF Byte
  <2>2. c \in Bytes /\ c # <<>> /\ Append(bytes, b) = bytes \o c
    BY <1>1, <2>1, AppendIsConcat DEF Bytes
  <2> HIDE DEF c
  <2>3. Decode(bytes).ok /\ Decode(bytes \o c).ok
    BY <1>1, <1>3, <2>2
  <2>4. Decode(bytes).message.type = "data" /\ Decode(bytes).message.room = Decode(bytes \o c).message.room
    BY <1>1, <2>2, <2>3, DecodedEnds
  <2> QED
    BY <1>1, <2>2, <2>4
<1> DEFINE frames == {SubSeq(bytes, 1, n) : n \in 0 .. Len(bytes) - 1}
                       \cup {Append(bytes, b) : b \in Byte}
<1>4. ASSUME NEW frame \in frames, Decode(frame).ok
      PROVE  m.type = "data" /\ Decode(frame).message.room = m.room
  <2>1. CASE \E n \in 0 .. Len(bytes) - 1 : frame = SubSeq(bytes, 1, n)
    BY <1>2, <1>4, <2>1
  <2>2. CASE \E b \in Byte : frame = Append(bytes, b)
    BY <1>3, <1>4, <2>2
  <2> QED
    BY <2>1, <2>2
<1> QED
  BY <1>4 DEF FramesItself, bytes

\* Whatever is accepted is a message encodeMessage would have written.
LEMMA AcceptedIsEncodable ==
  ASSUME NEW b \in Bytes, Decode(b).ok
  PROVE  Decode(b).message \in ProtocolMessage /\ Encodable(Decode(b).message)
<1>0. <<>> \in Bytes
  BY EmptySeq DEF Bytes
<1>1. PICK type \in Types, room \in Text, rest \in Bytes :
        Len(room) \in 1 .. MaxRoomNameBytes /\ Decode(b) = DecodeFields(type, room, rest)
  BY <1>0, DecodedWasRead
<1>2. CASE type = "subscribe"
  <2>1. ReadString(rest, MaxGrantBytes).ok
    BY <1>1, <1>2 DEF DecodeFields, Then, Refused
  <2>2. PICK given \in Text, tail \in Bytes :
          Len(given) <= MaxGrantBytes /\ ReadString(rest, MaxGrantBytes) = Read(given, tail)
    BY <1>0, <2>1, StringReadExtends, LengthsAssumption
  <2> DEFINE m == [type |-> "subscribe", room |-> room, grant |-> given]
  <2>3. Decode(b) = IF given = <<>> THEN Refused ELSE Done(m, tail)
    BY <1>1, <1>2, <2>2 DEF DecodeFields, Then, Read
  <2>4. m \in ProtocolMessage /\ m.type = "subscribe" /\ m.room = room /\ m.grant = given
    BY DEF ProtocolMessage
  <2> HIDE DEF m
  <2>5. given # <<>> /\ Decode(b).message = m
    BY <1>1, <2>3 DEF Done, Refused
  <2>6. Len(given) \in 1 .. MaxGrantBytes
    BY <2>2, <2>5, LengthsAssumption, TextIsBytes, EmptySeq DEF Text
  <2> QED
    BY <1>1, <2>4, <2>5, <2>6 DEF Encodable
<1>3. CASE type = "data"
  <2> DEFINE m == [type |-> "data", room |-> room, payload |-> rest]
  <2>1. Decode(b) = IF rest = <<>> THEN Refused ELSE Done(m, <<>>)
    BY <1>1, <1>3 DEF DecodeFields
  <2>2. m \in ProtocolMessage /\ m.type = "data" /\ m.room = room /\ m.payload = rest
    BY DEF ProtocolMessage
  <2> HIDE DEF m
  <2>3. rest # <<>> /\ Decode(b).message = m
    BY <1>1, <2>1 DEF Done, Refused
  <2> QED
    BY <1>1, <2>2, <2>3 DEF Encodable
<1>4. CASE type = "room_closed"
  <2>1. ReadVarUint(rest).ok
    BY <1>1, <1>4 DEF DecodeFields, Then, Refused
  <2>2. PICK code \in Nat, tail \in Bytes : ReadVarUint(rest) = Read(code, tail)
    BY <1>0, <2>1, NumberReadExtends
  <2> DEFINE m == [type |-> "room_closed", room |-> room, code |-> code]
             Bad == code \notin MinRoomCloseCode .. MaxRoomCloseCode
  <2>3. Decode(b) = IF Bad THEN Refused ELSE Done(m, tail)
    BY <1>1, <1>4, <2>2 DEF DecodeFields, Then, Read
  <2>4. m \in ProtocolMessage /\ m.type = "room_closed" /\ m.room = room /\ m.code = code
    BY DEF ProtocolMessage
  <2> HIDE DEF m, Bad
  <2>5. ~Bad /\ Decode(b).message = m
    BY <1>1, <2>3 DEF Done, Refused
  <2> QED
    BY <1>1, <2>4, <2>5 DEF Encodable, Bad
<1>5. CASE type \in {"subscribed", "unsubscribe"}
  <2> DEFINE m == [type |-> type, room |-> room]
  <2>1. Decode(b) = Done(m, rest)
    BY <1>1, <1>5 DEF DecodeFields
  <2>2. m \in ProtocolMessage /\ m.type \in {"subscribed", "unsubscribe"} /\ m.room = room
    BY <1>5 DEF ProtocolMessage
  <2> HIDE DEF m
  <2>3. Decode(b).message = m
    BY <1>1, <2>1 DEF Done, Refused
  <2> QED
    BY <1>1, <2>2, <2>3 DEF Encodable
<1> QED
  BY <1>2, <1>3, <1>4, <1>5 DEF Types

\* Whatever bytes arrive, what they decode to is a message that is written, and
\* read, as itself: validation on the two sides is the same.
THEOREM DecodedIsEncodable ==
  \A b \in Bytes : Decode(b).ok => RoundTrips(Decode(b).message)
BY AcceptedIsEncodable, EncodedIsDecoded

-----------------------------------------------------------------------------
(***************************************************************************)
(* The messages on their way.                                              *)
(***************************************************************************)
LEMMA MessagesAreEncodable ==
  ASSUME NEW m \in Messages
  PROVE  Fields(m) \in ProtocolMessage /\ Encodable(Fields(m))
<1>1. CASE \E r \in Rooms, g \in GrantKinds : m = Subscribe(r, g)
  <2>1. PICK r \in Rooms, g \in GrantKinds : m = Subscribe(r, g)
    BY <1>1
  <2>2. m.type = "subscribe" /\ m.room = r /\ m.grant = g
    BY <2>1 DEF Subscribe
  <2> DEFINE f == [type |-> "subscribe", room |-> NameBytes[r], grant |-> GrantBytes[g]]
  <2>3. Fields(m) = f
    BY <2>2 DEF Fields
  <2>4. f \in ProtocolMessage
    BY BytesAssumption DEF ProtocolMessage
  <2>5. Encodable(f)
    BY BytesAssumption DEF Encodable
  <2> QED
    BY <2>3, <2>4, <2>5
<1>2. CASE \E r \in Rooms : m = Data(r)
  <2>1. PICK r \in Rooms : m = Data(r)
    BY <1>2
  <2>2. m.type = "data" /\ m.room = r
    BY <2>1 DEF Data
  <2> DEFINE f == [type |-> "data", room |-> NameBytes[r], payload |-> PayloadBytes]
  <2>3. Fields(m) = f
    BY <2>2 DEF Fields
  <2>4. f \in ProtocolMessage
    BY BytesAssumption DEF ProtocolMessage
  <2>5. Encodable(f)
    BY BytesAssumption DEF Encodable
  <2> QED
    BY <2>3, <2>4, <2>5
<1>3. CASE \E r \in Rooms, code \in {RoomRejected, RoomInterrupted} : m = RoomClosed(r, code)
  <2>1. PICK r \in Rooms, code \in {RoomRejected, RoomInterrupted} : m = RoomClosed(r, code)
    BY <1>3
  <2>2. m.type = "room_closed" /\ m.room = r /\ m.code = code
    BY <2>1 DEF RoomClosed
  <2>3. code \in Nat /\ code \in MinRoomCloseCode .. MaxRoomCloseCode
    BY SMT DEF RoomRejected, RoomInterrupted, MinRoomCloseCode, MaxRoomCloseCode
  <2> DEFINE f == [type |-> "room_closed", room |-> NameBytes[r], code |-> code]
  <2>4. Fields(m) = f
    BY <2>2 DEF Fields
  <2>5. f \in ProtocolMessage
    BY <2>3, BytesAssumption DEF ProtocolMessage
  <2>6. Encodable(f)
    BY <2>3, BytesAssumption DEF Encodable
  <2> QED
    BY <2>4, <2>5, <2>6
<1>4. CASE \E r \in Rooms : m = Unsubscribe(r) \/ m = Subscribed(r)
  <2>1. PICK r \in Rooms : m = Unsubscribe(r) \/ m = Subscribed(r)
    BY <1>4
  <2>2. m.type \in {"unsubscribe", "subscribed"} /\ m.room = r
    BY <2>1 DEF Unsubscribe, Subscribed
  <2> DEFINE f == [type |-> m.type, room |-> NameBytes[r]]
  <2>3. Fields(m) = f
    BY <2>2 DEF Fields
  <2>4. f \in ProtocolMessage
    BY <2>2, BytesAssumption DEF ProtocolMessage
  <2>5. Encodable(f)
    BY <2>2, BytesAssumption DEF Encodable
  <2> QED
    BY <2>3, <2>4, <2>5
<1>5. Grants \subseteq GrantKinds /\ "valid" \in GrantKinds
  BY GrantsAssumption DEF GrantKinds
<1>6. Close(TimedOut) \in CloseFrames
  BY DEF CloseFrames, CloseCodes
<1> QED
  BY <1>1, <1>2, <1>3, <1>4, <1>5, <1>6 DEF Messages, ClientMessages, AnyServerMessage, ServerMessages

\* Whatever the adapter or the session puts on the wire, of any room, with any
\* name and grant of a legal length, is read at the other end as what was
\* written, and its frame cannot be cut or extended into another message.
THEOREM MessagesAreReadable == Spec => []MessagesSurviveTheWire
<1>1. Messages \subseteq Readable
  BY MessagesAreEncodable, EncodedIsDecoded, EncodedFramesItself DEF Readable
<1>2. ASSUME TypeOK
      PROVE  MessagesSurviveTheWire
  <2>1. /\ Range(toServer) \subseteq ClientMessages \cup CloseFrames
        /\ Range(toClient) \subseteq AnyServerMessage \cup CloseFrames
    BY <1>2 DEF TypeOK, Range
  <2>2. /\ ClientMessages \subseteq Messages
        /\ AnyServerMessage \subseteq Messages \cup {Malformed} \cup CloseFrames
    BY DEF Messages
  <2> QED
    BY <1>1, <2>1, <2>2 DEF MessagesSurviveTheWire
<1> QED
  BY <1>2, TypeCorrect, PTL
=============================================================================
