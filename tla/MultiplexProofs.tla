-------------------------- MODULE MultiplexProofs ---------------------------
(***************************************************************************)
(* What one editor and the server guarantee together, for every finite set *)
(* of rooms, every kind of grant, every bound on the queues and whatever   *)
(* an onclose callback constructs.                                         *)
(*                                                                         *)
(* None of the three invariants is inductive.  HonestClientIsNotExpelled   *)
(* rests on what is in flight: data only of rooms the session knows, no    *)
(* acknowledgement of another.  OpenRoomIsServed and                       *)
(* NoForgottenSubscription say nothing of a room something is in flight    *)
(* about; Served says what they leave out, that of a registered room a     *)
(* subscribe or a room_closed is on its way, or the room is served and its *)
(* acknowledgement, if it is still awaited, is on its way.                 *)
(***************************************************************************)
EXTENDS Multiplex, MultiplexSessionProofs

-----------------------------------------------------------------------------
(***************************************************************************)
(* The invariant.                                                          *)
(***************************************************************************)
Registered == {r \in Rooms : virtual[r] # "none"}

MapTypes ==
  /\ socket \in {"none", "connecting", "open", "closing"}
  /\ virtual \in [Rooms -> {"none", "connecting", "open"}]
  /\ grant \in [Rooms -> Grants \cup {"none"}]
  /\ \A r \in Rooms : virtual[r] = "none" <=> grant[r] = "none"

\* The client presents only grants of its own.
Honest == Grants \subseteq {"valid", "unverifiable"}

\* Of the messages M, those that may travel: between the server and an honest
\* client no close for a policy violation does.
Permitted(M) == IF Honest THEN M \ {Close(PolicyViolation)} ELSE M

FromClient == Permitted(ClientMessages \cup CloseFrames)
FromServer == Permitted(ClientBound)

\* The rooms the session has joined, whether or not it still serves them.
KnownRooms == rooms \cup closedRooms

Wires ==
  /\ toServer \in Seq(FromClient)
  /\ toClient \in Seq(FromServer)
  /\ toClient \in Seq(KnownMessages)

\* A client that is still connecting has heard nothing of the new session and
\* told it nothing.
LinkInv ==
  /\ link \in {"down", "dialing", "up"}
  /\ link = "dialing" => socket = "connecting" /\ toClient = <<>>
  /\ socket = "connecting" => toServer = <<>> /\ \A r \in Rooms : virtual[r] # "open"
  /\ socket = "none" => Registered = {}

\* The client uses rooms the session knows.
KnownInv ==
  /\ \A r \in Rooms : virtual[r] = "open" => r \in KnownRooms
  /\ \A m \in Range(toServer) : m.type = "data" => m.room \in KnownRooms

\* While the connection carries messages, no unsubscribe is the last word
\* about a registered room.
Resubscribes(q, R) ==
  \A i \in DOMAIN q :
    (q[i].type = "unsubscribe" /\ q[i].room \in R) =>
      \E k \in i .. Len(q) : q[k].type = "subscribe" /\ q[k].room = q[i].room

Carries == socket = "open" /\ link = "up"

Asked(r, q) == \E m \in Range(q) : m.type = "subscribe" /\ m.room = r
Refused(r, q) == \E m \in Range(q) : m.type = "room_closed" /\ m.room = r

Served(r) ==
  \/ Asked(r, toServer)
  \/ Refused(r, toClient)
  \/ r \in rooms /\ (virtual[r] = "connecting" => Subscribed(r) \in Range(toClient))

Live == Carries /\ phys = "open"

ServedInv ==
  /\ Carries => Resubscribes(toServer, Registered)
  /\ Live => \A r \in Registered : Served(r)

HonestInv == Honest => bypassAttempts = 0

EndToEndInv ==
  /\ MapTypes /\ Wires /\ LinkInv
  /\ RoomInv
  /\ KnownInv /\ ServedInv /\ HonestInv

-----------------------------------------------------------------------------
(***************************************************************************)
(* Messages and queues.                                                    *)
(***************************************************************************)
\* The queues are those the lemmas about the session ask for.
LEMMA WiresOK ==
  ASSUME Wires
  PROVE  QueuesOK
<1>1. FromClient \subseteq Incoming
  BY DEF FromClient, Permitted, Incoming, PeerMessages
<1>2. FromServer \subseteq ClientBound
  BY DEF FromServer, Permitted
<1> QED
  BY <1>1, <1>2 DEF Wires, QueuesOK

\* The session's messages and its closes are permitted, the close for a policy
\* violation to a client that is not honest.
LEMMA PermittedMessages ==
  /\ \A r \in Rooms : /\ Subscribed(r) \in FromServer
                      /\ Data(r) \in FromServer
                      /\ RoomClosed(r, RoomRejected) \in FromServer
                      /\ RoomClosed(r, RoomInterrupted) \in FromServer
  /\ Close(TimedOut) \in FromServer
  /\ Close(ProtocolError) \in FromServer
  /\ Close(SendFailure) \in FromServer
  /\ ~Honest => Close(PolicyViolation) \in FromServer
<1>1. \A r \in Rooms :
        \A m \in {Subscribed(r), Data(r), RoomClosed(r, RoomRejected),
                  RoomClosed(r, RoomInterrupted)} :
          m \in ClientBound /\ m # Close(PolicyViolation)
  <2>1. \A r, code : /\ Subscribed(r).type # "close"
                     /\ Data(r).type # "close"
                     /\ RoomClosed(r, code).type # "close"
    BY DEF Subscribed, Data, RoomClosed
  <2>2. Close(PolicyViolation).type = "close"
    BY DEF Close
  <2> QED
    BY <2>1, <2>2, MessagesToClient
<1>2. \A code \in {TimedOut, ProtocolError, SendFailure} :
        Close(code) \in ClientBound /\ Close(code) # Close(PolicyViolation)
  BY CloseFramesUsed
     DEF ClientBound, Close, TimedOut, ProtocolError, SendFailure, PolicyViolation
<1> QED
  BY <1>1, <1>2, CloseFramesUsed DEF FromServer, Permitted, ClientBound

\* The elements of a queue, and those of its tail.
LEMMA Elements ==
  ASSUME NEW S, NEW q \in Seq(S)
  PROVE  /\ Range(q) \subseteq S
         /\ \A m \in S : Range(Append(q, m)) = Range(q) \cup {m}
         /\ q # <<>> => /\ Head(q) \in Range(q)
                        /\ Range(Tail(q)) \subseteq Range(q)
                        /\ Range(q) = Range(Tail(q)) \cup {Head(q)}
<1>1. Range(q) \subseteq S
  BY DEF Range
<1>2. ASSUME NEW m \in S
      PROVE  Range(Append(q, m)) = Range(q) \cup {m}
  <2>1. /\ Len(q) \in Nat /\ DOMAIN q = 1 .. Len(q) /\ DOMAIN Append(q, m) = 1 .. Len(q) + 1
        /\ \A i \in 1 .. Len(q) : Append(q, m)[i] = q[i]
        /\ Append(q, m)[Len(q) + 1] = m
    OBVIOUS
  <2>2. \A i \in 1 .. Len(q) + 1 : i \in 1 .. Len(q) \/ i = Len(q) + 1
    BY <2>1
  <2>3. \A i \in 1 .. Len(q) : i \in 1 .. Len(q) + 1
    BY <2>1
  <2>4. Len(q) + 1 \in 1 .. Len(q) + 1
    BY <2>1
  <2>5. Range(Append(q, m)) \subseteq Range(q) \cup {m}
    <3> SUFFICES ASSUME NEW i \in DOMAIN Append(q, m)
                 PROVE  Append(q, m)[i] \in Range(q) \cup {m}
      BY DEF Range
    <3>1. CASE i = Len(q) + 1
      BY <2>1, <3>1
    <3>2. CASE i \in 1 .. Len(q)
      <4>1. Append(q, m)[i] = q[i] /\ i \in DOMAIN q
        BY <2>1, <3>2
      <4> QED
        BY <4>1 DEF Range
    <3> QED
      BY <2>1, <2>2, <3>1, <3>2
  <2>6. Range(q) \cup {m} \subseteq Range(Append(q, m))
    BY <2>1, <2>3, <2>4 DEF Range
  <2> QED
    BY <2>5, <2>6
<1>3. ASSUME q # <<>>
      PROVE  Range(q) = Range(Tail(q)) \cup {Head(q)}
  <2> DEFINE t == Tail(q)
             h == Head(q)
             n == Len(q)
  <2>1. /\ n \in Nat /\ n >= 1 /\ DOMAIN q = 1 .. n /\ DOMAIN t = 1 .. n - 1
        /\ \A i \in 1 .. n - 1 : t[i] = q[i + 1]
        /\ h = q[1]
    BY <1>3
  <2> HIDE DEF t, h, n
  <2>2. ASSUME NEW i \in DOMAIN q
        PROVE  q[i] \in Range(t) \cup {h}
    <3>1. i = 1 \/ (i - 1 \in DOMAIN t /\ q[i] = t[i - 1])
      BY <2>1
    <3> QED
      BY <2>1, <3>1 DEF Range
  <2>3. ASSUME NEW i \in DOMAIN t
        PROVE  i + 1 \in DOMAIN q /\ t[i] = q[i + 1]
    BY <2>1
  <2>4. 1 \in DOMAIN q
    BY <2>1
  <2> QED
    BY <2>1, <2>2, <2>3, <2>4 DEF Range, t, h
<1> QED
  BY <1>1, <1>2, <1>3

\* What a queue gains by \o.
LEMMA ElementsOfConcatenation ==
  ASSUME NEW S, NEW q \in Seq(S), NEW s \in Seq(S)
  PROVE  q \o s \in Seq(S) /\ Range(q \o s) = Range(q) \cup Range(s)
<1>1. /\ Len(q) \in Nat /\ Len(s) \in Nat /\ Len(q \o s) = Len(q) + Len(s)
      /\ DOMAIN q = 1 .. Len(q) /\ DOMAIN s = 1 .. Len(s)
      /\ DOMAIN (q \o s) = 1 .. Len(q) + Len(s)
      /\ \A i \in 1 .. Len(q) : (q \o s)[i] = q[i]
      /\ \A i \in 1 .. Len(s) : (q \o s)[Len(q) + i] = s[i]
  OBVIOUS
<1>2. \A i \in 1 .. Len(q) + Len(s) :
        i \in 1 .. Len(q) \/ (i - Len(q) \in 1 .. Len(s) /\ Len(q) + (i - Len(q)) = i)
  BY <1>1
<1>3. Range(q \o s) \subseteq Range(q) \cup Range(s)
  BY <1>1, <1>2 DEF Range
<1>4. /\ \A i \in 1 .. Len(q) : i \in 1 .. Len(q) + Len(s)
      /\ \A i \in 1 .. Len(s) : Len(q) + i \in 1 .. Len(q) + Len(s)
  BY <1>1
<1>5. Range(q) \cup Range(s) \subseteq Range(q \o s)
  BY <1>1, <1>4 DEF Range
<1> QED
  BY <1>3, <1>5

\* What has been read no longer matters.
LEMMA TailResubscribes ==
  ASSUME NEW S, NEW q \in Seq(S), q # <<>>, NEW R, Resubscribes(q, R)
  PROVE  Resubscribes(Tail(q), R)
<1> DEFINE t == Tail(q)
<1>1. /\ Len(q) \in Nat /\ Len(t) = Len(q) - 1
      /\ DOMAIN q = 1 .. Len(q) /\ DOMAIN t = 1 .. Len(q) - 1
      /\ \A i \in 1 .. Len(q) - 1 : t[i] = q[i + 1]
  OBVIOUS
<1> HIDE DEF t
<1> SUFFICES ASSUME NEW i \in DOMAIN t, t[i].type = "unsubscribe", t[i].room \in R
             PROVE  \E k \in i .. Len(t) : t[k].type = "subscribe" /\ t[k].room = t[i].room
  BY DEF Resubscribes, t
<1>2. i + 1 \in DOMAIN q /\ i \in 1 .. Len(q) - 1
  BY <1>1
<1>3. PICK k \in i + 1 .. Len(q) : q[k].type = "subscribe" /\ q[k].room = q[i + 1].room
  BY <1>1, <1>2 DEF Resubscribes
<1>4. k - 1 \in i .. Len(t) /\ k - 1 \in 1 .. Len(q) - 1 /\ (k - 1) + 1 = k
  BY <1>1, <1>2
<1> QED
  BY <1>1, <1>2, <1>3, <1>4

\* Messages s may follow: every room registered then was registered before, or
\* s subscribes it.
LEMMA ConcatenationResubscribes ==
  ASSUME NEW S, NEW q \in Seq(S), NEW s \in Seq(S), NEW R, NEW R2,
         Resubscribes(q, R), Resubscribes(s, R2),
         \A r \in R2 : r \in R \/ Asked(r, s)
  PROVE  Resubscribes(q \o s, R2)
<1> DEFINE a == q \o s
<1>1. /\ Len(q) \in Nat /\ Len(s) \in Nat /\ Len(a) = Len(q) + Len(s)
      /\ DOMAIN q = 1 .. Len(q) /\ DOMAIN s = 1 .. Len(s) /\ DOMAIN a = 1 .. Len(q) + Len(s)
      /\ \A i \in 1 .. Len(q) : a[i] = q[i]
      /\ \A i \in 1 .. Len(s) : a[Len(q) + i] = s[i]
  OBVIOUS
<1> HIDE DEF a
<1> SUFFICES ASSUME NEW i \in DOMAIN a, a[i].type = "unsubscribe", a[i].room \in R2
             PROVE  \E k \in i .. Len(a) : a[k].type = "subscribe" /\ a[k].room = a[i].room
  BY DEF Resubscribes, a
<1>2. CASE i \in 1 .. Len(q) /\ q[i].room \in R
  <2>1. PICK k \in i .. Len(q) : q[k].type = "subscribe" /\ q[k].room = q[i].room
    BY <1>1, <1>2 DEF Resubscribes
  <2>2. k \in i .. Len(a) /\ k \in 1 .. Len(q)
    BY <1>1, <1>2
  <2> QED
    BY <1>1, <1>2, <2>1, <2>2
<1>3. CASE i \in 1 .. Len(q) /\ Asked(q[i].room, s)
  <2>1. PICK j \in 1 .. Len(s) : s[j].type = "subscribe" /\ s[j].room = q[i].room
    BY <1>1, <1>3 DEF Asked, Range
  <2>2. Len(q) + j \in i .. Len(a)
    BY <1>1, <1>3
  <2> QED
    BY <1>1, <1>3, <2>1, <2>2
<1>4. CASE i \notin 1 .. Len(q)
  <2> DEFINE n == i - Len(q)
  <2>1. n \in 1 .. Len(s) /\ Len(q) + n = i
    BY <1>1, <1>4
  <2>2. PICK k \in n .. Len(s) : s[k].type = "subscribe" /\ s[k].room = s[n].room
    BY <1>1, <2>1 DEF Resubscribes
  <2>3. k \in 1 .. Len(s) /\ Len(q) + k \in i .. Len(a)
    BY <1>1, <2>1
  <2> QED
    BY <1>1, <2>1, <2>2, <2>3
<1> QED
  BY <1>1, <1>2, <1>3, <1>4

-----------------------------------------------------------------------------
(***************************************************************************)
(* The session: what it sends, what it takes, and whom it leaves waiting.  *)
(***************************************************************************)
SendsOf(M) ==
  \/ toClient' = toClient
  \/ \E m \in M : toClient' = Append(toClient, m)
  \/ \E m, n \in M : toClient' = Append(Append(toClient, m), n)

\* Sending keeps the queue well-typed and takes nothing from it.
LEMMA SendsAppend ==
  ASSUME NEW M, toClient \in Seq(M), SendsOf(M)
  PROVE  toClient' \in Seq(M) /\ Range(toClient) \subseteq Range(toClient')
<1>1. ASSUME NEW q \in Seq(M), NEW m \in M
      PROVE  Append(q, m) \in Seq(M) /\ Range(q) \subseteq Range(Append(q, m))
  BY Appended, Elements
<1> QED
  BY <1>1 DEF SendsOf

\* A close, after nothing or after one message more.
LEMMA CloseSends ==
  ASSUME NEW M, NEW code, Close(code) \in M,
         \/ ClosePhysicalSocket(toClient, code)
         \/ \E m \in M : ClosePhysicalSocket(Append(toClient, m), code)
  PROVE  SendsOf(M)
<1>1. CASE ClosePhysicalSocket(toClient, code)
  BY <1>1 DEF ClosePhysicalSocket, SendsOf
<1>2. ASSUME NEW m \in M, ClosePhysicalSocket(Append(toClient, m), code)
      PROVE  SendsOf(M)
  <2> DEFINE c == Close(code)
  <2>1. \/ toClient' = Append(toClient, m)
        \/ toClient' = Append(toClient, m) \o <<c>>
    BY <1>2 DEF ClosePhysicalSocket
  <2> HIDE DEF c
  <2>2. Append(toClient, m) \o <<c>> = Append(Append(toClient, m), c)
    OBVIOUS
  <2> QED
    BY <2>1, <2>2 DEF SendsOf, c
<1> QED
  BY <1>1, <1>2

\* A reply, or its failure.
LEMMA ReplySends ==
  ASSUME NEW m \in FromServer, Reply(m)
  PROVE  SendsOf(FromServer)
BY CloseSends, PermittedMessages DEF Reply, Send, SendFails, SendsOf

\* A strike against a client that is not honest.
LEMMA BypassSends ==
  ASSUME ~Honest, NEW r \in Rooms, RejectAuthorizationBypass(r)
  PROVE  SendsOf(FromServer)
BY ReplySends, CloseSends, PermittedMessages
   DEF RejectAuthorizationBypass, ClosePhysical, SendFails

\* A join, or its failure.
LEMMA AddRoomSends ==
  ASSUME NEW r \in Rooms, AddRoom(r)
  PROVE  SendsOf(FromServer)
<1>1. Subscribed(r) \in FromServer /\ Data(r) \in FromServer /\ Close(SendFailure) \in FromServer
  BY PermittedMessages
<1>2. CASE Send(<<Subscribed(r), Data(r)>>)
  <2>1. toClient' = Append(Append(toClient, Subscribed(r)), Data(r))
    BY <1>2 DEF Send
  <2> QED
    BY <1>1, <2>1 DEF SendsOf
<1>3. ASSUME NEW sent \in {toClient, Append(toClient, Subscribed(r))},
             ClosePhysicalSocket(sent, SendFailure)
      PROVE  SendsOf(FromServer)
  BY <1>1, <1>3, CloseSends
<1> QED
  BY <1>2, <1>3 DEF AddRoom, SendFails

\* What the session reads from a client of this system.
LEMMA HeadOfWire ==
  ASSUME Wires, toServer # <<>>
  PROVE  LET m == Head(toServer)
         IN /\ m \in Range(toServer)
            /\ m.type \in {"subscribe", "unsubscribe", "data"} => m.room \in Rooms
            /\ m.type = "subscribe" => m.grant \in Grants
            /\ m.type = "unsubscribe" => m = Unsubscribe(m.room)
            /\ m.type = "close" => Close(m.code) \in FromServer
<1> DEFINE m == Head(toServer)
<1>1. m \in FromClient /\ m \in Range(toServer)
  BY HeadAndTail, Elements DEF Wires
<1>2. m \in ClientMessages \cup CloseFrames /\ (Honest => m # Close(PolicyViolation))
  BY <1>1 DEF FromClient, Permitted
<1>3. m.type = "close" => m \in CloseFrames /\ m = Close(m.code)
  BY <1>2 DEF ClientMessages, Subscribe, Unsubscribe, Data, CloseFrames, Close
<1>4. m.type = "close" => Close(m.code) \in FromServer
  BY <1>2, <1>3 DEF FromServer, Permitted, ClientBound
<1>5. /\ m.type \in {"subscribe", "unsubscribe", "data"} => m.room \in Rooms
      /\ m.type = "subscribe" => m.grant \in Grants
      /\ m.type = "unsubscribe" => m = Unsubscribe(m.room)
  BY <1>2 DEF ClientMessages, Subscribe, Unsubscribe, Data, CloseFrames, Close
<1> QED
  BY <1>1, <1>4, <1>5

\* The session sends what is permitted, and an honest client is never charged.
LEMMA ServerSends ==
  ASSUME Wires, RoomInv, KnownInv, HonestInv, ServerNext
  PROVE  SendsOf(FromServer) /\ HonestInv'
<1> DEFINE Goal == SendsOf(FromServer) /\ HonestInv'
<1>a. ASSUME bypassAttempts' = bypassAttempts
      PROVE  HonestInv'
  BY <1>a DEF HonestInv, Honest
<1>b. ASSUME toClient' = toClient
      PROVE  SendsOf(FromServer)
  BY <1>b DEF SendsOf
<1>c. ASSUME ~Honest
      PROVE  HonestInv'
  BY <1>c DEF HonestInv, Honest
<1>1. CASE ReceiveWhenNotOpen
  BY <1>1, <1>a, <1>b DEF ReceiveWhenNotOpen
<1>2. CASE ReceiveInvalid
  BY <1>2, <1>a, CloseSends, PermittedMessages DEF ReceiveInvalid, ClosePhysical
<1>3. CASE ReceiveSubscribe
  <2> DEFINE r == Head(toServer).room
             g == Head(toServer).grant
  <2>1. r \in Rooms /\ g \in Grants
    BY <1>3, HeadOfWire DEF ReceiveSubscribe, Receive
  <2>2. ASSUME NEW m \in {Subscribed(r), RoomClosed(r, RoomRejected), RoomClosed(r, RoomInterrupted)},
               Reply(m), bypassAttempts' = bypassAttempts
        PROVE  Goal
    BY <2>1, <2>2, <1>a, ReplySends, PermittedMessages
  <2>3. CASE g = "foreign" /\ RejectAuthorizationBypass(r)
    <3>1. ~Honest
      BY <2>1, <2>3 DEF Honest
    <3> QED
      BY <2>1, <2>3, <3>1, <1>c, BypassSends
  <2>4. CASE AddRoom(r) /\ bypassAttempts' = bypassAttempts
    BY <2>1, <2>4, <1>a, AddRoomSends
  <2> QED
    BY <1>3, <2>2, <2>3, <2>4 DEF ReceiveSubscribe, SubscribeRoom
<1>4. CASE ReceiveData
  <2>1. Head(toServer).room \in KnownRooms
    BY <1>4, HeadOfWire DEF ReceiveData, Receive, KnownInv
  <2> QED
    BY <1>4, <2>1, <1>a, <1>b DEF ReceiveData, KnownRooms
<1>5. CASE ReceiveUnsubscribe
  BY <1>5, <1>a, <1>b DEF ReceiveUnsubscribe
<1>6. CASE ReceiveClose
  BY <1>6, <1>a, HeadOfWire, CloseSends DEF ReceiveClose, Receive
<1>7. ASSUME NEW r \in Rooms, RoomSendsData(r)
      PROVE  Goal
  <2>1. ASSUME Send(<<Data(r)>>)
        PROVE  SendsOf(FromServer)
    BY <2>1, PermittedMessages DEF Send, SendsOf
  <2>2. ASSUME SendFails(toClient, rooms, closedRooms, activeRooms)
        PROVE  SendsOf(FromServer)
    BY <2>2, CloseSends, PermittedMessages DEF SendFails
  <2> QED
    BY <1>7, <1>a, <1>b, <2>1, <2>2 DEF RoomSendsData
<1>8. ASSUME NEW r \in Rooms, RoomClosesItself(r)
      PROVE  Goal
  <2>1. ASSUME Send(<<RoomClosed(r, RoomInterrupted)>>)
        PROVE  SendsOf(FromServer)
    BY <2>1, PermittedMessages DEF Send, SendsOf
  <2>2. ASSUME SendFails(toClient, rooms, closedRooms, activeRooms)
        PROVE  SendsOf(FromServer)
    BY <2>2, CloseSends, PermittedMessages DEF SendFails
  <2> QED
    BY <1>8, <1>a, <1>b, <2>1, <2>2 DEF RoomClosesItself
<1>9. CASE SendsSettle \/ PhysicalClosed \/ Pong
  BY <1>9, <1>a, <1>b DEF SendsSettle, PhysicalClosed, Pong
<1>10. CASE SendFailsLater
  BY <1>10, <1>a, CloseSends, PermittedMessages DEF SendFailsLater
<1>11. CASE ConnectionTimeout
  BY <1>11, <1>a, CloseSends, PermittedMessages DEF ConnectionTimeout
<1>12. CASE HeartbeatTick
  <2>1. ASSUME TickEmpty
        PROVE  SendsOf(FromServer)
    BY <2>1, CloseSends, PermittedMessages DEF TickEmpty, ClosePhysical
  <2> QED
    BY <1>12, <2>1, <1>a, <1>b
       DEF HeartbeatTick, TickNotOpen, TickUnanswered, TickPing, Terminate
<1> QED
  BY <1>1, <1>2, <1>3, <1>4, <1>5, <1>6, <1>7, <1>8, <1>9, <1>10, <1>11, <1>12
     DEF ServerNext, ReceiveMessage

\* A subscribe the session reads is answered, unless the connection ends.
Answered(r) ==
  Refused(r, toClient') \/ (r \in rooms' /\ Subscribed(r) \in Range(toClient'))

LEMMA SubscribeIsAnswered ==
  ASSUME Wires, ReceiveSubscribe, phys' = "open"
  PROVE  Answered(Head(toServer).room)
<1> DEFINE r == Head(toServer).room
<1>1. r \in Rooms
  BY HeadOfWire DEF ReceiveSubscribe, Receive
<1>2. toClient \in Seq(FromServer)
  BY DEF Wires
<1>3. ASSUME NEW code \in {RoomRejected, RoomInterrupted}, Reply(RoomClosed(r, code))
      PROVE  Refused(r, toClient')
  <2>1. RoomClosed(r, code) \in FromServer
    BY <1>1, PermittedMessages
  <2>2. toClient' = Append(toClient, RoomClosed(r, code))
    BY <1>3, <1>2, <2>1 DEF Reply, Send, SendFails, ClosePhysicalSocket
  <2>3. RoomClosed(r, code) \in Range(toClient')
    BY <1>2, <2>1, <2>2, Elements
  <2> QED
    BY <2>3 DEF Refused, RoomClosed
<1>4. CASE r \in rooms /\ Reply(Subscribed(r))
  <2>1. toClient' = Append(toClient, Subscribed(r)) /\ rooms' = rooms
    BY <1>4 DEF Reply, Send, SendFails, ClosePhysicalSocket, roomVars
  <2> QED
    BY <1>1, <1>2, <1>4, <2>1, Elements, PermittedMessages DEF Answered
<1>5. CASE RejectAuthorizationBypass(r)
  BY <1>3, <1>5
     DEF RejectAuthorizationBypass, ClosePhysical, SendFails, ClosePhysicalSocket, Answered
<1>6. CASE AddRoom(r)
  <2>1. r \in rooms' /\ toClient' = Append(Append(toClient, Subscribed(r)), Data(r))
    BY <1>6 DEF AddRoom, Send, SendFails, ClosePhysicalSocket
  <2> DEFINE q == Append(toClient, Subscribed(r))
  <2>2. Subscribed(r) \in FromServer /\ Data(r) \in FromServer
    BY <1>1, PermittedMessages
  <2>3. q \in Seq(FromServer) /\ Subscribed(r) \in Range(q)
    BY <1>2, <2>2, Appended, Elements
  <2> HIDE DEF q
  <2>4. Range(Append(q, Data(r))) = Range(q) \cup {Data(r)}
    BY <2>2, <2>3, Elements
  <2> QED
    BY <2>1, <2>3, <2>4 DEF Answered, q
<1> QED
  BY <1>3, <1>4, <1>5, <1>6 DEF ReceiveSubscribe, SubscribeRoom, Answered

\* What the session does to the connection and to the queue it reads.
LEMMA ServerTakes ==
  ASSUME Wires, ServerNext
  PROVE  /\ link' \in {link, "down"}
         /\ phys' = "open" => phys = "open"
         /\ \/ toServer' = toServer
            \/ toServer' = <<>> /\ phys' # "open"
            \/ /\ toServer # <<>> /\ toServer' = Tail(toServer)
               /\ (phys' = "open" /\ Head(toServer).type = "subscribe")
                    => Answered(Head(toServer).room)
<1>1. CASE ReceiveWhenNotOpen
  BY <1>1 DEF ReceiveWhenNotOpen, Receive
<1>2. CASE ReceiveInvalid
  BY <1>2 DEF ReceiveInvalid, Receive
<1>3. CASE ReceiveSubscribe
  BY <1>3, SubscribeIsAnswered DEF ReceiveSubscribe, Receive
<1>4. CASE ReceiveData
  BY <1>4 DEF ReceiveData, Receive
<1>5. CASE ReceiveUnsubscribe
  BY <1>5 DEF ReceiveUnsubscribe, Receive
<1>6. CASE ReceiveClose
  BY <1>6 DEF ReceiveClose, Receive, ClosePhysicalSocket
<1>7. ASSUME NEW r \in Rooms, RoomSendsData(r) \/ RoomClosesItself(r)
      PROVE  /\ link' = link /\ toServer' = toServer
             /\ phys' = "open" => phys = "open"
  BY <1>7 DEF RoomSendsData, RoomClosesItself, Send, SendFails, ClosePhysicalSocket
<1>8. CASE SendsSettle \/ SendFailsLater \/ ConnectionTimeout \/ Pong
  BY <1>8 DEF SendsSettle, SendFailsLater, ConnectionTimeout, Pong, ClosePhysicalSocket
<1>9. CASE PhysicalClosed
  BY <1>9 DEF PhysicalClosed
<1>10. CASE HeartbeatTick
  BY <1>10 DEF HeartbeatTick, TickNotOpen, TickEmpty, TickUnanswered, TickPing, Terminate,
               ClosePhysical, ClosePhysicalSocket
<1> QED
  BY <1>1, <1>2, <1>3, <1>4, <1>5, <1>6, <1>7, <1>8, <1>9, <1>10 DEF ServerNext, ReceiveMessage

\* A step of the session keeps the invariant.
LEMMA ServerKeeps ==
  ASSUME EndToEndInv, ServerStep
  PROVE  EndToEndInv'
<1> USE DEF EndToEndInv
<1>1. /\ ServerNext /\ link # "dialing" /\ QueuesOK
      /\ socket' = socket /\ virtual' = virtual /\ grant' = grant
  BY WiresOK DEF ServerStep, clientVars
<1>2. MapTypes' /\ Registered' = Registered
  BY <1>1 DEF MapTypes, Registered
<1>3. RoomInv' /\ KnownRooms \subseteq KnownRooms'
  BY <1>1, NextRoomStep, RoomStepPreserves DEF RoomInv, Next, KnownRooms
<1>4. SendsOf(FromServer) /\ HonestInv'
  BY <1>1, ServerSends
<1>5. toClient' \in Seq(FromServer) /\ Range(toClient) \subseteq Range(toClient')
  BY <1>4, SendsAppend DEF Wires
<1>6. toClient' \in Seq(KnownMessages')
  BY <1>1, <1>3, NextQueueStep, QueueStepPreserves DEF Next, Wires, KnownRooms
<1>7. /\ link' \in {link, "down"}
      /\ phys' = "open" => phys = "open"
      /\ \/ toServer' = toServer
         \/ toServer' = <<>> /\ phys' # "open"
         \/ /\ toServer # <<>> /\ toServer' = Tail(toServer)
            /\ (phys' = "open" /\ Head(toServer).type = "subscribe")
                 => Answered(Head(toServer).room)
  BY <1>1, ServerTakes
<1>8. toServer' \in Seq(FromClient) /\ Range(toServer') \subseteq Range(toServer)
  <2>1. toServer \in Seq(FromClient)
    BY DEF Wires
  <2>2. <<>> \in Seq(FromClient) /\ Range(<<>>) \subseteq {}
    BY DEF Range
  <2>3. toServer # <<>> =>
          Tail(toServer) \in Seq(FromClient) /\ Range(Tail(toServer)) \subseteq Range(toServer)
    BY <2>1, HeadAndTail, Elements
  <2> QED
    BY <1>7, <2>1, <2>2, <2>3
<1>9. Wires'
  BY <1>5, <1>6, <1>8 DEF Wires, FromServer, FromClient, Permitted, Honest, ClientBound
<1>10. LinkInv'
  BY <1>1, <1>2, <1>7 DEF LinkInv
<1>11. KnownInv'
  BY <1>1, <1>3, <1>8 DEF KnownInv
<1>12. (Carries => Resubscribes(toServer, Registered))'
  <2> SUFFICES ASSUME Carries' PROVE Resubscribes(toServer', Registered)
    BY <1>2
  <2>1. Resubscribes(toServer, Registered)
    BY <1>1, <1>7 DEF Carries, ServedInv
  <2>2. Resubscribes(<<>>, Registered)
    BY DEF Resubscribes
  <2> QED
    BY <1>7, <2>1, <2>2, TailResubscribes DEF Wires
<1>13. (Live => \A r \in Registered : Served(r))'
  <2> SUFFICES ASSUME Live', NEW r \in Registered PROVE Served(r)'
    BY <1>2
  <2>1. Carries /\ phys = "open" /\ phys' = "open" /\ Served(r)
    BY <1>1, <1>7 DEF Live, Carries, ServedInv
  <2>2. ASSUME Asked(r, toServer)
        PROVE  Served(r)'
    <3>1. CASE toServer' = toServer
      BY <2>2, <3>1 DEF Served, Asked
    <3>2. CASE toServer # <<>> /\ toServer' = Tail(toServer)
      <4>1. PICK m \in Range(toServer) : m.type = "subscribe" /\ m.room = r
        BY <2>2 DEF Asked
      <4>2. m = Head(toServer) \/ m \in Range(toServer')
        BY <3>2, Elements DEF Wires
      <4>3. CASE m \in Range(toServer')
        BY <4>1, <4>3 DEF Served, Asked
      <4>4. CASE m = Head(toServer) /\ toServer' # toServer
        BY <1>7, <2>1, <4>1, <4>4 DEF Answered, Served
      <4> QED
        BY <3>1, <4>2, <4>3, <4>4
    <3> QED
      BY <1>7, <2>1, <3>1, <3>2
  <2>3. CASE Refused(r, toClient)
    BY <1>5, <2>3 DEF Refused, Served
  <2>4. CASE r \in rooms /\ (virtual[r] = "connecting" => Subscribed(r) \in Range(toClient))
    <3>1. CASE r \in rooms'
      BY <1>1, <1>5, <2>4, <3>1 DEF Served
    <3>2. CASE r \notin rooms'
      <4>1. Cause(r)
        BY <1>1, <2>4, <3>2, NextCause DEF Next, LeavesForACause
      <4>2. CASE toServer # <<>> /\ Head(toServer) = Unsubscribe(r)
        <5>1. /\ 1 \in DOMAIN toServer /\ toServer[1] = Head(toServer)
              /\ \A k \in 1 .. Len(toServer) : k \in DOMAIN toServer
          BY <4>2 DEF Wires
        <5>2. toServer[1].type = "unsubscribe" /\ toServer[1].room = r
          BY <4>2, <5>1 DEF Unsubscribe
        <5>3. PICK k \in 1 .. Len(toServer) :
                toServer[k].type = "subscribe" /\ toServer[k].room = r
          BY <2>1, <5>1, <5>2 DEF Resubscribes, ServedInv
        <5> QED
          BY <2>2, <5>1, <5>3 DEF Asked, Range
      <4>3. CASE toClient' = Append(toClient, RoomClosed(r, RoomInterrupted))
        <5>1. r \in Rooms /\ toClient \in Seq(FromServer)
          BY DEF Registered, Wires
        <5>2. RoomClosed(r, RoomInterrupted) \in Range(toClient')
          BY <4>3, <5>1, Elements, PermittedMessages
        <5> QED
          BY <5>2 DEF Refused, RoomClosed, Served
      <4> QED
        BY <2>1, <4>1, <4>2, <4>3 DEF Cause
    <3> QED
      BY <3>1, <3>2
  <2> QED
    BY <2>1, <2>2, <2>3, <2>4 DEF Served
<1>14. ServedInv'
  BY <1>12, <1>13 DEF ServedInv
<1> QED
  BY <1>2, <1>3, <1>4, <1>9, <1>10, <1>11, <1>14

-----------------------------------------------------------------------------
(***************************************************************************)
(* The adapter: what it says, and what becomes of the rooms it registers.  *)
(***************************************************************************)
\* No grant is the absence of a grant.
LEMMA NoneIsNoGrant == "none" \notin Grants
BY GrantsAssumption DEF GrantKinds

\* The adapter's messages are permitted; so is the echo of a close it may hear.
LEMMA AdapterMessages ==
  /\ \A r \in Rooms : /\ \A g \in Grants : Subscribe(r, g) \in FromClient
                      /\ Unsubscribe(r) \in FromClient
                      /\ Data(r) \in FromClient
  /\ Close(NormalClosure) \in FromClient
  /\ Close(ProtocolFailure) \in FromClient
  /\ \A m \in FromServer : m.type = "close" => Close(m.code) \in FromClient
<1>1. /\ \A r, g : Subscribe(r, g).type # "close"
      /\ \A r : Unsubscribe(r).type # "close" /\ Data(r).type # "close"
      /\ \A code : Close(code).type = "close"
  BY DEF Subscribe, Unsubscribe, Data, Close
<1>2. \A r \in Rooms : /\ \A g \in Grants : Subscribe(r, g) \in FromClient
                       /\ Unsubscribe(r) \in FromClient
                       /\ Data(r) \in FromClient
  BY <1>1 DEF FromClient, Permitted, ClientMessages
<1>3. \A code \in {NormalClosure, ProtocolFailure} : Close(code) \in FromClient
  <2>1. \A code \in {NormalClosure, ProtocolFailure} : Close(code) # Close(PolicyViolation)
    BY DEF Close, NormalClosure, ProtocolFailure, PolicyViolation
  <2> QED
    BY <2>1 DEF FromClient, Permitted, CloseFrames, CloseCodes
<1>4. ASSUME NEW m \in FromServer, m.type = "close"
      PROVE  Close(m.code) \in FromClient
  <2>1. m \in ClientBound /\ (Honest => m # Close(PolicyViolation))
    BY DEF FromServer, Permitted
  <2>2. m \in CloseFrames /\ m = Close(m.code)
    BY <1>4, <2>1
       DEF ClientBound, ServerMessages, Subscribed, Data, RoomClosed, CloseFrames, Close
  <2> QED
    BY <2>1, <2>2 DEF FromClient, Permitted
<1> QED
  BY <1>2, <1>3, <1>4

\* What is heard and not yet handled.
Hears == toClient' = toClient \/ (socket = "open" /\ toClient # <<>> /\ toClient' = Tail(toClient))

\* What is left to hear is well-typed.
LEMMA HearsOK ==
  ASSUME Wires, Hears
  PROVE  /\ toClient' \in Seq(FromServer) /\ toClient' \in Seq(KnownMessages)
         /\ \A m \in Range(toClient) :
              m \in Range(toClient') \/ (toClient' # toClient /\ m = Head(toClient))
<1>1. toClient \in Seq(FromServer) /\ toClient \in Seq(KnownMessages)
  BY DEF Wires
<1>2. ASSUME toClient # <<>>
      PROVE  /\ Tail(toClient) \in Seq(FromServer) /\ Tail(toClient) \in Seq(KnownMessages)
             /\ Range(toClient) = Range(Tail(toClient)) \cup {Head(toClient)}
  BY <1>1, <1>2, HeadAndTail, Elements
<1> QED
  BY <1>1, <1>2 DEF Hears

\* The message at hand is the session's, and of a room it knows.
LEMMA HeadHeard ==
  ASSUME Wires, toClient # <<>>
  PROVE  /\ Head(toClient) \in FromServer
         /\ Head(toClient).type = "subscribed" =>
              /\ Head(toClient).room \in Rooms
              /\ Head(toClient).room \in KnownRooms
<1>1. Head(toClient) \in FromServer /\ Head(toClient) \in KnownMessages
  BY HeadAndTail DEF Wires
<1>2. Head(toClient) \in ClientBound
  BY <1>1 DEF KnownMessages, Known
<1>3. Head(toClient).type = "subscribed" => Head(toClient).room \in Rooms
  BY <1>2 DEF ClientBound, ServerMessages, Subscribed, Data, RoomClosed, CloseFrames, Close
<1> QED
  BY <1>1, <1>3 DEF KnownMessages, Known, KnownRooms

\* Nothing the client does changes what the session knows.
LEMMA SessionUnchanged ==
  ASSUME EndToEndInv, UNCHANGED serverVars
  PROVE  /\ RoomInv' /\ HonestInv'
         /\ KnownRooms' = KnownRooms /\ KnownMessages' = KnownMessages
         /\ rooms' = rooms /\ phys' = phys
BY DEF EndToEndInv, serverVars, roomVars, RoomInv, HonestInv, Honest, KnownRooms, KnownMessages

\* Room r stays registered, and what it waits for is still to come.
Keeps(r) ==
  /\ r \in Registered
  /\ Refused(r, toClient) => Refused(r, toClient')
  /\ virtual'[r] = "connecting" =>
       /\ virtual[r] = "connecting"
       /\ Subscribed(r) \in Range(toClient) => Subscribed(r) \in Range(toClient')

\* A step that says s on a connection that stays.
LEMMA ClientSpeaks ==
  ASSUME EndToEndInv, UNCHANGED serverVars, MapTypes',
         socket' = socket, link' = link, socket # "none",
         NEW s \in Seq(FromClient), toServer' = toServer \o s,
         ~Carries => s = <<>>,
         Hears,
         \A r \in Rooms : virtual'[r] = "open" => r \in KnownRooms,
         socket = "connecting" => \A r \in Rooms : virtual'[r] # "open",
         \A m \in Range(s) : m.type = "data" => m.room \in KnownRooms,
         Carries => /\ Resubscribes(s, Registered')
                    /\ \A r \in Registered' : Asked(r, s) \/ Keeps(r)
  PROVE  EndToEndInv'
<1> USE DEF EndToEndInv
<1>1. /\ RoomInv' /\ HonestInv' /\ KnownRooms' = KnownRooms /\ KnownMessages' = KnownMessages
      /\ rooms' = rooms /\ phys' = phys
  BY SessionUnchanged
<1>2. toServer \in Seq(FromClient) /\ toClient \in Seq(FromServer)
  BY DEF Wires
<1>3. toServer' \in Seq(FromClient) /\ Range(toServer') = Range(toServer) \cup Range(s)
  BY <1>2, ElementsOfConcatenation
<1>4. toClient' \in Seq(FromServer) /\ toClient' \in Seq(KnownMessages)
  BY HearsOK
<1>5. Wires'
  BY <1>1, <1>3, <1>4 DEF Wires, FromServer, FromClient, Permitted, Honest, ClientBound
<1>6. LinkInv'
  <2>1. socket = "connecting" => toServer' = <<>>
    <3>1. socket = "connecting" => toServer = <<>> /\ s = <<>>
      BY DEF LinkInv, Carries
    <3> QED
      BY <3>1
  <2> QED
    BY <2>1 DEF LinkInv, Hears
<1>7. KnownInv'
  BY <1>1, <1>3 DEF KnownInv
<1>8. ASSUME Carries
      PROVE  Resubscribes(toServer', Registered')
  <2>1. \A r \in Registered' : r \in Registered \/ Asked(r, s)
    BY <1>8 DEF Keeps
  <2> QED
    BY <1>2, <1>8, <2>1, ConcatenationResubscribes DEF ServedInv
<1>9. ASSUME Live, NEW r \in Registered'
      PROVE  Served(r)'
  <2>1. CASE Asked(r, s)
    BY <1>3, <2>1 DEF Asked, Served
  <2>2. CASE Keeps(r)
    <3>1. Served(r)
      BY <1>9, <2>2 DEF Keeps, ServedInv
    <3> QED
      BY <1>1, <1>3, <2>2, <3>1 DEF Keeps, Served, Asked
  <2> QED
    BY <1>9, <2>1, <2>2 DEF Live
<1>10. ServedInv'
  BY <1>1, <1>8, <1>9 DEF ServedInv, Live, Carries
<1> QED
  BY <1>1, <1>5, <1>6, <1>7, <1>10

\* A step that says s and ends the connection.
LEMMA ClientEnds ==
  ASSUME EndToEndInv, UNCHANGED serverVars, MapTypes',
         socket' = "closing", link' \in {"up", "down"},
         NEW s \in Seq(FromClient), toServer' = toServer \o s,
         Hears,
         \A r \in Rooms : virtual'[r] = "open" => r \in KnownRooms,
         \A m \in Range(s) : m.type = "data" => m.room \in KnownRooms
  PROVE  EndToEndInv'
<1> USE DEF EndToEndInv
<1>1. /\ RoomInv' /\ HonestInv' /\ KnownRooms' = KnownRooms /\ KnownMessages' = KnownMessages
  BY SessionUnchanged
<1>2. toServer' \in Seq(FromClient) /\ Range(toServer') = Range(toServer) \cup Range(s)
  BY ElementsOfConcatenation DEF Wires
<1>3. toClient' \in Seq(FromServer) /\ toClient' \in Seq(KnownMessages)
  BY HearsOK
<1>4. Wires'
  BY <1>1, <1>2, <1>3 DEF Wires, FromServer, FromClient, Permitted, Honest, ClientBound
<1>5. LinkInv' /\ ServedInv'
  BY DEF LinkInv, ServedInv, Live, Carries
<1>6. KnownInv'
  BY <1>1, <1>2 DEF KnownInv
<1> QED
  BY <1>1, <1>4, <1>5, <1>6

\* Queues of at most two messages, as Wire makes them.
LEMMA FewMessages ==
  ASSUME NEW S
  PROVE  /\ <<>> \in Seq(S) /\ Range(<<>>) = {}
         /\ \A m \in S : <<m>> \in Seq(S) /\ Range(<<m>>) = {m}
         /\ \A q \in Seq(S) : q \o <<>> = q /\ <<>> \o q = q
         /\ \A q, s, u \in Seq(S) : (q \o s) \o u = q \o (s \o u)
<1>1. Range(<<>>) = {}
  BY DEF Range
<1>2. ASSUME NEW m \in S
      PROVE  <<m>> \in Seq(S) /\ Range(<<m>>) = {m}
  <2>1. DOMAIN <<m>> = {1} /\ <<m>>[1] = m
    OBVIOUS
  <2> QED
    BY <2>1 DEF Range
<1>3. /\ <<>> \in Seq(S)
      /\ \A q \in Seq(S) : q \o <<>> = q /\ <<>> \o q = q
  OBVIOUS
<1>4. ASSUME NEW q \in Seq(S), NEW s \in Seq(S), NEW u \in Seq(S)
      PROVE  (q \o s) \o u = q \o (s \o u)
  OBVIOUS
<1> QED
  BY <1>1, <1>2, <1>3, <1>4

\* A single message that is no unsubscribe of a registered room settles itself.
LEMMA FewResubscribe ==
  ASSUME NEW R
  PROVE  /\ Resubscribes(<<>>, R)
         /\ \A m : ~(m.type = "unsubscribe" /\ m.room \in R) => Resubscribes(<<m>>, R)
<1>1. Resubscribes(<<>>, R)
  BY DEF Resubscribes
<1>2. ASSUME NEW m, ~(m.type = "unsubscribe" /\ m.room \in R)
      PROVE  Resubscribes(<<m>>, R)
  <2>1. DOMAIN <<m>> = {1} /\ <<m>>[1] = m
    OBVIOUS
  <2> QED
    BY <1>2, <2>1 DEF Resubscribes
<1> QED
  BY <1>1, <1>2

\* Both ends speak the language of MultiplexProtocol.
LEMMA SameVocabulary ==
  /\ \A r, g : Client!Subscribe(r, g) = Subscribe(r, g)
  /\ \A r : Client!Unsubscribe(r) = Unsubscribe(r)
  /\ \A r : Client!Data(r) = Data(r)
  /\ \A code : Client!Close(code) = Close(code)
  /\ Client!NormalClosure = NormalClosure
  /\ Client!ProtocolFailure = ProtocolFailure
BY DEF Client!Subscribe, Subscribe, Client!Unsubscribe, Unsubscribe, Client!Data, Data,
       Client!Close, Close, Client!NormalClosure, NormalClosure, Client!ProtocolFailure,
       ProtocolFailure

\* Adapter and session order the rooms of a set by the same definition.
LEMMA SameSequences == \A S : Client!SetToSeqs(S) = SetToSeqs(S)
BY DEF Client!SetToSeqs, SetToSeqs, Client!Cardinality, Cardinality

\* What Wire lets through.
LEMMA WireCarries ==
  ASSUME NEW s
  PROVE  Client!Wire(s) = IF Carries THEN s ELSE <<>>
BY DEF Client!Wire, Carries

\* Closing the transport after `sent' has left.
LEMMA ClosingTransport ==
  ASSUME EndToEndInv, UNCHANGED serverVars, MapTypes', socket # "none",
         NEW sent \in Seq(FromClient), NEW code, Close(code) \in FromClient,
         Client!ClosePhysicalSocket(sent, code), Hears,
         \A r \in Rooms : virtual'[r] = "open" => r \in KnownRooms,
         \A m \in Range(sent) : m.type = "data" => m.room \in KnownRooms
  PROVE  EndToEndInv'
<1> DEFINE w == Client!Wire(<<Close(code)>>)
           s == sent \o w
<1>1. w \in Seq(FromClient) /\ \A m \in Range(w) : m.type # "data"
  <2>1. <<Close(code)>> \in Seq(FromClient) /\ Range(<<Close(code)>>) = {Close(code)}
    BY FewMessages
  <2>2. Close(code).type # "data"
    BY DEF Close
  <2>3. w = <<Close(code)>> \/ w = <<>>
    BY DEF Client!Wire
  <2> HIDE DEF w
  <2> QED
    BY <2>1, <2>2, <2>3, FewMessages
<1>2. toServer' = (toServer \o sent) \o w
  BY SameVocabulary DEF Client!ClosePhysicalSocket
<1>3. socket' = "closing" /\ link' \in {"up", "down"}
  BY DEF Client!ClosePhysicalSocket, EndToEndInv, LinkInv
<1> HIDE DEF w
<1>4. toServer' = toServer \o s /\ s \in Seq(FromClient) /\ Range(s) = Range(sent) \cup Range(w)
  <2>1. toServer \in Seq(FromClient)
    BY DEF EndToEndInv, Wires
  <2> QED
    BY <1>1, <1>2, <2>1, FewMessages, ElementsOfConcatenation
<1> HIDE DEF s
<1> QED
  BY <1>1, <1>3, <1>4, ClientEnds

\* closeVirtualSocket, with what its onclose does.
LEMMA ClosingRoom ==
  ASSUME EndToEndInv, UNCHANGED serverVars, socket # "none",
         NEW r \in Registered, NEW failed \in BOOLEAN, NEW again \in Reopens,
         NEW leaving \in {<<>>, Client!Wire(<<Unsubscribe(r)>>)},
         Client!CloseVirtualSocket(r, leaving, failed, again),
         Hears,
         toClient' # toClient => Head(toClient).type = "room_closed" /\ Head(toClient).room = r
  PROVE  EndToEndInv'
<1> USE DEF EndToEndInv
<1> DEFINE asking == IF again = "none" THEN <<>> ELSE Client!Wire(<<Subscribe(r, again)>>)
           s == leaving \o asking
<1>1. r \in Rooms /\ (again # "none" => again \in Grants)
  BY ReopensAssumption DEF Registered
<1>2. Unsubscribe(r) \in FromClient /\ (again # "none" => Subscribe(r, again) \in FromClient)
  BY <1>1, AdapterMessages
<1>3. /\ leaving \in {<<>>, <<Unsubscribe(r)>>} /\ asking \in {<<>>, <<Subscribe(r, again)>>}
      /\ again = "none" => asking = <<>>
      /\ ~Carries => leaving = <<>> /\ asking = <<>>
      /\ Carries /\ again # "none" => asking = <<Subscribe(r, again)>>
  BY WireCarries
<1>4. /\ virtual' = [virtual EXCEPT ![r] = IF again = "none" THEN "none" ELSE "connecting"]
      /\ grant' = [grant EXCEPT ![r] = again]
  BY DEF Client!CloseVirtualSocket
<1>5. \/ Client!ClosePhysicalSocket(s, NormalClosure)
      \/ toServer' = toServer \o s /\ UNCHANGED <<socket, link>>
  BY SameVocabulary DEF Client!CloseVirtualSocket
<1> HIDE DEF asking
<1>6. leaving \in Seq(FromClient) /\ asking \in Seq(FromClient)
  <2>1. <<>> \in Seq(FromClient) /\ \A m \in FromClient : <<m>> \in Seq(FromClient)
    BY FewMessages
  <2>2. leaving = <<>> \/ leaving = <<Unsubscribe(r)>>
    BY <1>3
  <2>3. asking = <<>> \/ (again # "none" /\ asking = <<Subscribe(r, again)>>)
    BY <1>3
  <2> QED
    BY <1>2, <2>1, <2>2, <2>3
<1>7. s \in Seq(FromClient) /\ Range(s) = Range(leaving) \cup Range(asking)
  BY <1>6, ElementsOfConcatenation
<1>8. \A m \in Range(s) : m.type # "data"
  <2>1. /\ Range(leaving) \subseteq {Unsubscribe(r)}
        /\ Range(asking) \subseteq {Subscribe(r, again)}
    BY <1>2, <1>3, FewMessages
  <2>2. Unsubscribe(r).type # "data" /\ Subscribe(r, again).type # "data"
    BY DEF Unsubscribe, Subscribe
  <2> QED
    BY <1>7, <2>1, <2>2
<1>9. MapTypes' /\ Registered' = IF again = "none" THEN Registered \ {r} ELSE Registered \cup {r}
  <2>1. socket' \in {"none", "connecting", "open", "closing"}
    BY <1>5 DEF Client!ClosePhysicalSocket, MapTypes
  <2> QED
    BY <1>1, <1>4, <2>1, NoneIsNoGrant DEF MapTypes, Registered
<1>10. \A q \in Rooms : virtual'[q] = "open" => virtual[q] = "open" /\ q \in KnownRooms
  BY <1>1, <1>4 DEF MapTypes, KnownInv
<1>11. ASSUME NEW q \in Registered', q # r
       PROVE  Keeps(q)
  <2>1. q \in Registered /\ virtual'[q] = virtual[q]
    BY <1>1, <1>4, <1>9, <1>11 DEF Registered, MapTypes
  <2>2. \A m \in Range(toClient) : m \in Range(toClient') \/ (m.type = "room_closed" /\ m.room = r)
    BY HearsOK
  <2>3. Subscribed(q).type # "room_closed"
    BY DEF Subscribed
  <2> QED
    BY <1>11, <2>1, <2>2, <2>3 DEF Keeps, Refused
<1>12. CASE Client!ClosePhysicalSocket(s, NormalClosure)
  BY <1>7, <1>8, <1>9, <1>10, <1>12, ClosingTransport, AdapterMessages
<1>13. CASE toServer' = toServer \o s /\ UNCHANGED <<socket, link>>
  <2>1. ASSUME Carries, r \in Registered'
        PROVE  Asked(r, asking)
    <3>1. asking = <<Subscribe(r, again)>> /\ Subscribe(r, again) \in FromClient
      BY <1>2, <1>3, <1>9, <2>1
    <3>2. Subscribe(r, again) \in Range(asking)
      BY <3>1, FewMessages
    <3> QED
      BY <3>2 DEF Asked, Subscribe
  <2>2. ASSUME Carries
        PROVE  Resubscribes(s, Registered')
    <3>1. Resubscribes(leaving, Registered' \ {r})
      BY <1>3, FewResubscribe DEF Unsubscribe
    <3>2. Resubscribes(asking, Registered')
      BY <1>3, FewResubscribe DEF Subscribe
    <3> QED
      BY <1>6, <2>1, <2>2, <3>1, <3>2, ConcatenationResubscribes
  <2>3. ASSUME Carries, NEW q \in Registered'
        PROVE  Asked(q, s) \/ Keeps(q)
    BY <1>7, <1>11, <2>1, <2>3 DEF Asked
  <2>4. ~Carries => s = <<>>
    BY <1>3
  <2>5. socket = "connecting" => \A q \in Rooms : virtual'[q] # "open"
    BY <1>10 DEF LinkInv
  <2> HIDE DEF s
  <2> QED
    BY <1>7, <1>8, <1>9, <1>10, <1>13, <2>2, <2>3, <2>4, <2>5, ClientSpeaks
<1> QED
  BY <1>5, <1>12, <1>13

\* socket.onopen: every registered room is subscribed, or the connection ends.
LEMMA OpeningKeeps ==
  ASSUME EndToEndInv, UNCHANGED serverVars, Client!PhysicalOpens
  PROVE  EndToEndInv'
<1> USE DEF EndToEndInv
<1>1. PICK order \in Client!SetToSeqs(Client!Connecting) :
        LET asks == [i \in DOMAIN order |-> Subscribe(order[i], grant[order[i]])]
        IN \/ /\ socket' = "open"
              /\ toServer' = toServer \o asks
           \/ \E n \in 0 .. Len(order) - 1 :
                /\ socket' = "closing"
                /\ toServer' = toServer \o SubSeq(asks, 1, n) \o <<Close(NormalClosure)>>
  BY SameVocabulary DEF Client!PhysicalOpens
<1> DEFINE asks == [i \in DOMAIN order |-> Subscribe(order[i], grant[order[i]])]
           count == Cardinality(Registered)
<1>2. /\ socket = "connecting" /\ link = "up" /\ toServer = <<>>
      /\ virtual' = virtual /\ grant' = grant /\ toClient' = toClient /\ link' = link
      /\ Registered' = Registered
  BY DEF Client!PhysicalOpens, LinkInv, Registered
<1>3. Client!Connecting = Registered /\ \A r \in Rooms : virtual[r] # "open"
  BY <1>2 DEF Client!Connecting, Registered, LinkInv, MapTypes
<1>4. count \in Nat /\ IsFiniteSet(Registered) /\ Cardinality(1 .. count) = count
  BY RoomCount, FS_Interval DEF Registered
<1>5. order \in [1 .. count -> Registered] /\ order \in Injection(1 .. count, Registered)
  BY <1>1, <1>3, SameSequences DEF SetToSeqs, Injection, IsInjective
<1>6. \A r \in Registered : \E i \in 1 .. count : order[i] = r
  BY <1>4, <1>5, FS_Injection DEF Surjection
<1>7. \A r \in Registered : r \in Rooms /\ Subscribe(r, grant[r]) \in FromClient
  BY AdapterMessages DEF Registered, MapTypes
<1>8. /\ asks \in Seq(FromClient) /\ Len(asks) = count /\ Len(order) = count
      /\ \A i \in 1 .. count : asks[i] = Subscribe(order[i], grant[order[i]])
  <2>1. asks \in [1 .. count -> FromClient]
    BY <1>5, <1>7
  <2>2. order \in Seq(Registered) /\ Len(order) = count
    BY <1>4, <1>5
  <2> QED
    BY <1>4, <1>5, <2>1, <2>2
<1>9. DOMAIN asks = 1 .. count /\ \A r, g : Subscribe(r, g).type = "subscribe" /\ Subscribe(r, g).room = r
  BY <1>5 DEF Subscribe
<1> HIDE DEF asks, count
<1>10. \A r \in Registered : Asked(r, asks)
  BY <1>6, <1>8, <1>9 DEF Asked, Range
<1>11. \A i \in 1 .. count : asks[i].type = "subscribe"
  BY <1>8, <1>9
<1>12. MapTypes'
  BY <1>1, <1>2 DEF MapTypes
<1>13. /\ RoomInv' /\ HonestInv' /\ KnownRooms' = KnownRooms /\ KnownMessages' = KnownMessages
       /\ phys' = phys
  BY SessionUnchanged
<1>14. CASE socket' = "open" /\ toServer' = toServer \o asks
  <2>1. toServer' = asks
    BY <1>2, <1>8, <1>14, FewMessages
  <2>2. Wires'
    BY <1>2, <1>8, <1>13, <2>1 DEF Wires, FromServer, FromClient, Permitted, Honest, ClientBound
  <2>3. LinkInv'
    BY <1>2, <1>14 DEF LinkInv
  <2>4. KnownInv'
    BY <1>2, <1>3, <1>9, <1>11, <2>1 DEF KnownInv, Range
  <2>5. Resubscribes(asks, Registered)
    BY <1>9, <1>11 DEF Resubscribes
  <2>6. ServedInv'
    BY <1>2, <1>10, <2>1, <2>5 DEF ServedInv, Served, Asked
  <2> QED
    BY <1>12, <1>13, <2>2, <2>3, <2>4, <2>6
<1>15. ASSUME NEW n \in 0 .. Len(order) - 1, socket' = "closing",
              toServer' = toServer \o SubSeq(asks, 1, n) \o <<Close(NormalClosure)>>
       PROVE  EndToEndInv'
  <2> DEFINE some == SubSeq(asks, 1, n)
             s == some \o <<Close(NormalClosure)>>
  <2>1. /\ some \in Seq(FromClient)
        /\ DOMAIN some = 1 .. n
        /\ \A i \in 1 .. n : i \in 1 .. count /\ some[i] = asks[i]
    BY <1>4, <1>8
  <2> HIDE DEF some
  <2>2. /\ <<Close(NormalClosure)>> \in Seq(FromClient)
        /\ Range(<<Close(NormalClosure)>>) = {Close(NormalClosure)}
    BY AdapterMessages, FewMessages
  <2>3. toServer' = toServer \o s /\ s \in Seq(FromClient)
        /\ Range(s) = Range(some) \cup {Close(NormalClosure)}
    <3> DEFINE c == <<Close(NormalClosure)>>
    <3>1. toServer \in Seq(FromClient) /\ c \in Seq(FromClient)
      BY <2>2 DEF Wires
    <3>2. toServer' = (toServer \o some) \o c
      BY <1>15 DEF some
    <3>3. Range(c) = {Close(NormalClosure)}
      BY <2>2
    <3> HIDE DEF c
    <3>4. toServer' = toServer \o (some \o c)
      <4>1. \A q, u, v \in Seq(FromClient) : (q \o u) \o v = q \o (u \o v)
        BY FewMessages
      <4>2. (toServer \o some) \o c = toServer \o (some \o c)
        BY <2>1, <3>1, <4>1
      <4> QED
        BY <3>2, <4>2
    <3>5. some \o c \in Seq(FromClient) /\ Range(some \o c) = Range(some) \cup Range(c)
      BY <2>1, <3>1, ElementsOfConcatenation
    <3> QED
      BY <3>3, <3>4, <3>5 DEF c
  <2>4. \A m \in Range(s) : m.type # "data"
    <3>1. \A m \in Range(some) : m.type = "subscribe"
      BY <1>11, <2>1 DEF Range
    <3>2. Close(NormalClosure).type = "close"
      BY DEF Close
    <3> QED
      BY <2>3, <3>1, <3>2
  <2> HIDE DEF s
  <2> QED
    BY <1>2, <1>3, <1>12, <1>15, <2>3, <2>4, ClientEnds DEF Hears
<1> QED
  BY <1>1, <1>14, <1>15 DEF asks

\* new SharedWebSocket(room): it dials, subscribes at once or waits for onopen.
LEMMA ConstructKeeps ==
  ASSUME EndToEndInv, UNCHANGED serverVars, NEW r \in Rooms, NEW g \in Grants,
         Client!Construct(r, g)
  PROVE  EndToEndInv'
<1> USE DEF EndToEndInv
<1> DEFINE s == Client!Wire(<<Subscribe(r, g)>>)
<1>1. /\ virtual[r] = "none"
      /\ virtual' = [virtual EXCEPT ![r] = "connecting"]
      /\ grant' = [grant EXCEPT ![r] = g]
      /\ socket = "none" => socket' = "connecting" /\ link' = "dialing" /\ toClient' = <<>>
      /\ socket # "none" => socket' = socket /\ link' = link /\ toClient' = toClient
      /\ toServer' = (IF socket = "none" THEN <<>> ELSE toServer) \o s
  BY SameVocabulary DEF Client!Construct
<1>2. MapTypes' /\ Registered' = Registered \cup {r}
  BY <1>1, NoneIsNoGrant DEF MapTypes, Registered
<1>3. \A q \in Rooms : virtual'[q] = "open" => virtual[q] = "open" /\ q \in KnownRooms
  BY <1>1 DEF MapTypes, KnownInv
<1>4. Subscribe(r, g) \in FromClient /\ s = IF Carries THEN <<Subscribe(r, g)>> ELSE <<>>
  BY AdapterMessages, WireCarries
<1>5. s \in Seq(FromClient) /\ Range(s) = IF Carries THEN {Subscribe(r, g)} ELSE {}
  BY <1>4, FewMessages
<1> HIDE DEF s
<1>6. CASE socket = "none"
  <2>1. toServer' = <<>> /\ Range(<<>>) = {}
    BY <1>1, <1>4, <1>6, FewMessages DEF Carries
  <2>2. /\ RoomInv' /\ HonestInv' /\ KnownRooms' = KnownRooms
    BY SessionUnchanged
  <2>3. Wires'
    BY <1>1, <1>6, <2>1 DEF Wires
  <2>4. \A q \in Rooms : virtual'[q] # "open"
    BY <1>3, <1>6 DEF LinkInv, Registered
  <2>5. LinkInv' /\ KnownInv' /\ ServedInv'
    BY <1>1, <1>6, <2>1, <2>4 DEF LinkInv, KnownInv, ServedInv, Live, Carries
  <2> QED
    BY <1>2, <2>2, <2>3, <2>5
<1>7. CASE socket # "none"
  <2>1. Subscribe(r, g).type = "subscribe" /\ Subscribe(r, g).room = r
    BY DEF Subscribe
  <2>2. Carries => Resubscribes(s, Registered')
    BY <1>4, <2>1, FewResubscribe
  <2>3. ASSUME Carries, NEW q \in Registered'
        PROVE  Asked(q, s) \/ Keeps(q)
    <3>1. CASE q = r
      BY <1>5, <2>1, <2>3, <3>1 DEF Asked
    <3>2. CASE q # r
      BY <1>1, <1>2, <1>7, <2>3, <3>2 DEF Keeps, MapTypes, Registered
    <3> QED
      BY <3>1, <3>2
  <2>4. socket = "connecting" => \A q \in Rooms : virtual'[q] # "open"
    BY <1>3 DEF LinkInv
  <2> QED
    BY <1>1, <1>2, <1>3, <1>4, <1>5, <1>7, <2>1, <2>2, <2>3, <2>4, ClientSpeaks DEF Hears
<1> QED
  BY <1>6, <1>7

\* SharedWebSocket.close(), and send().
LEMMA CloseRoomKeeps ==
  ASSUME EndToEndInv, UNCHANGED serverVars, NEW r \in Rooms, Client!CloseRoom(r)
  PROVE  EndToEndInv'
<1>1. r \in Registered /\ toClient' = toClient
  BY DEF Client!CloseRoom, Client!Registered, Registered
<1>2. socket # "none"
  BY <1>1 DEF EndToEndInv, LinkInv
<1>3. PICK again \in Reopens :
        \/ Client!CloseVirtualSocket(r, Client!Wire(<<Unsubscribe(r)>>), FALSE, again)
        \/ Client!CloseVirtualSocket(r, <<>>, TRUE, again)
  BY SameVocabulary DEF Client!CloseRoom
<1> QED
  BY <1>1, <1>2, <1>3, ClosingRoom DEF Hears

LEMMA SendDataKeeps ==
  ASSUME EndToEndInv, UNCHANGED serverVars, NEW r \in Rooms, Client!SendData(r)
  PROVE  EndToEndInv'
<1> USE DEF EndToEndInv
<1> DEFINE s == Client!Wire(<<Data(r)>>)
<1>1. virtual[r] = "open" /\ UNCHANGED <<virtual, grant, toClient>> /\ Registered' = Registered
  BY DEF Client!SendData, Registered
<1>2. socket # "none" /\ r \in KnownRooms
  BY <1>1 DEF LinkInv, Registered, KnownInv
<1>3. \/ toServer' = toServer \o s /\ UNCHANGED <<socket, link>>
      \/ Client!ClosePhysicalSocket(<<>>, NormalClosure)
  BY SameVocabulary DEF Client!SendData
<1>4. Data(r) \in FromClient /\ s = IF Carries THEN <<Data(r)>> ELSE <<>>
  BY AdapterMessages, WireCarries
<1>5. s \in Seq(FromClient) /\ Range(s) = IF Carries THEN {Data(r)} ELSE {}
  BY <1>4, FewMessages
<1> HIDE DEF s
<1>6. \A q \in Rooms : virtual'[q] = "open" => virtual[q] = "open" /\ q \in KnownRooms
  BY <1>1 DEF KnownInv
<1>7. CASE toServer' = toServer \o s /\ UNCHANGED <<socket, link>>
  <2>1. MapTypes'
    BY <1>1, <1>7 DEF MapTypes
  <2>2. Carries => Resubscribes(s, Registered')
    BY <1>4, FewResubscribe DEF Data
  <2>3. \A q \in Registered' : Keeps(q)
    BY <1>1 DEF Keeps
  <2>4. \A m \in Range(s) : m.type = "data" => m.room \in KnownRooms
    BY <1>2, <1>5 DEF Data
  <2>5. socket = "connecting" => \A q \in Rooms : virtual'[q] # "open"
    BY <1>6 DEF LinkInv
  <2> QED
    BY <1>1, <1>2, <1>4, <1>5, <1>6, <1>7, <2>1, <2>2, <2>3, <2>4, <2>5, ClientSpeaks DEF Hears
<1>8. CASE Client!ClosePhysicalSocket(<<>>, NormalClosure)
  <2>1. MapTypes'
    BY <1>1, <1>8 DEF MapTypes, Client!ClosePhysicalSocket
  <2> QED
    BY <1>1, <1>2, <1>6, <1>8, <2>1, ClosingTransport, AdapterMessages, FewMessages DEF Hears
<1> QED
  BY <1>3, <1>7, <1>8

\* What the adapter hears: an acknowledgement, the end of a room, anything else.
LEMMA ReceiveKeeps ==
  ASSUME EndToEndInv, UNCHANGED serverVars, Client!ReceiveMessage
  PROVE  EndToEndInv'
<1> USE DEF EndToEndInv
<1> DEFINE m == Head(toClient)
<1>1. socket = "open" /\ toClient # <<>> /\ toClient' = Tail(toClient)
  BY DEF Client!ReceiveMessage, Client!ReceiveSubscribed, Client!ReceiveData,
         Client!ReceiveRoomClosed, Client!ReceiveInvalid, Client!ReceiveClose, Client!Deliver
<1>2. /\ Hears
      /\ \A n \in Range(toClient) : n \in Range(toClient') \/ n = m
      /\ m \in FromServer
      /\ m.type = "subscribed" => m.room \in Rooms /\ m.room \in KnownRooms
  BY <1>1, HearsOK, HeadHeard DEF Hears
<1>3. toServer \in Seq(FromClient) /\ toServer' = toServer => toServer' = toServer \o <<>>
  BY FewMessages
<1>4. ASSUME UNCHANGED <<socket, grant, toServer, link>>, MapTypes',
             \A r \in Rooms : virtual'[r] = "open" => r \in KnownRooms,
             \A r \in Registered' : Keeps(r)
      PROVE  EndToEndInv'
    BY <1>1, <1>2, <1>3, <1>4, FewMessages, FewResubscribe, ClientSpeaks DEF Wires
<1>5. CASE Client!ReceiveSubscribed
  <2> DEFINE r == m.room
  <2>1. /\ m.type = "subscribed" /\ UNCHANGED <<socket, grant, toServer, link>>
        /\ virtual' = IF virtual[r] = "connecting" THEN [virtual EXCEPT ![r] = "open"] ELSE virtual
    BY <1>5 DEF Client!ReceiveSubscribed, Client!Deliver
  <2>2. MapTypes' /\ Registered' = Registered
    BY <1>2, <2>1 DEF MapTypes, Registered
  <2>3. \A q \in Rooms : virtual'[q] = "open" => q \in KnownRooms
    BY <1>2, <2>1 DEF MapTypes, KnownInv
  <2>4. ASSUME NEW q \in Registered
        PROVE  Keeps(q)
    <3>1. q \in Rooms /\ (virtual'[q] = "connecting" => virtual[q] = "connecting" /\ q # r)
      BY <1>2, <2>1 DEF MapTypes, Registered
    <3>2. Subscribed(q).room = q
      BY DEF Subscribed
    <3> QED
      BY <1>2, <2>1, <3>1, <3>2 DEF Keeps, Refused
  <2> QED
    BY <1>4, <2>1, <2>2, <2>3, <2>4
<1>6. ASSUME UNCHANGED <<clientVars, toServer, link>>,
             m.type = "data" \/ (m.type = "room_closed" /\ m.room \notin Registered)
      PROVE  EndToEndInv'
  <2>1. MapTypes' /\ Registered' = Registered /\ virtual' = virtual
    BY <1>6 DEF clientVars, MapTypes, Registered
  <2>2. \A q \in Rooms : virtual'[q] = "open" => q \in KnownRooms
    BY <2>1 DEF KnownInv
  <2>3. ASSUME NEW q \in Registered
        PROVE  Keeps(q)
    <3>1. Subscribed(q).type = "subscribed"
      BY DEF Subscribed
    <3> QED
      BY <1>2, <1>6, <2>1, <3>1 DEF Keeps, Refused
  <2> QED
    BY <1>4, <1>6, <2>1, <2>2, <2>3 DEF clientVars
<1>7. CASE Client!ReceiveData
  BY <1>6, <1>7 DEF Client!ReceiveData, Client!Deliver, Client!clientVars, clientVars
<1>8. CASE Client!ReceiveRoomClosed
  <2>1. m.type = "room_closed" /\ Client!Registered = Registered
    BY <1>8 DEF Client!ReceiveRoomClosed, Client!Deliver, Client!Registered, Registered
  <2>2. CASE m.room \in Registered
    <3>1. PICK again \in Reopens : Client!CloseVirtualSocket(m.room, <<>>, FALSE, again)
      BY <1>8, <2>1, <2>2 DEF Client!ReceiveRoomClosed
    <3> QED
      BY <1>1, <1>2, <2>1, <2>2, <3>1, ClosingRoom
  <2>3. CASE m.room \notin Registered
    BY <1>6, <1>8, <2>1, <2>3 DEF Client!ReceiveRoomClosed, Client!clientVars, clientVars
  <2> QED
    BY <2>2, <2>3
<1>9. CASE Client!ReceiveInvalid \/ Client!ReceiveClose
  <2>1. PICK code : Client!ClosePhysicalSocket(<<>>, code) /\ Close(code) \in FromClient
    <3>1. CASE Client!ReceiveInvalid
      BY <3>1, AdapterMessages, SameVocabulary DEF Client!ReceiveInvalid
    <3>2. CASE Client!ReceiveClose
      BY <1>2, <3>2, AdapterMessages DEF Client!ReceiveClose, Client!Deliver
    <3> QED
      BY <1>9, <3>1, <3>2
  <2>2. UNCHANGED <<virtual, grant>>
    BY <1>9 DEF Client!ReceiveInvalid, Client!ReceiveClose
  <2>3. MapTypes'
    BY <2>1, <2>2 DEF MapTypes, Client!ClosePhysicalSocket
  <2>4. \A q \in Rooms : virtual'[q] = "open" => q \in KnownRooms
    BY <2>2 DEF KnownInv
  <2> QED
    BY <1>1, <1>2, <2>1, <2>3, <2>4, ClosingTransport, FewMessages
<1> QED
  BY <1>5, <1>7, <1>8, <1>9 DEF Client!ReceiveMessage

\* socket.onclose: the map is emptied.
LEMMA PhysicalClosesKeeps ==
  ASSUME EndToEndInv, UNCHANGED serverVars, Client!PhysicalCloses
  PROVE  EndToEndInv'
<1> USE DEF EndToEndInv
<1>1. /\ socket' = "none" /\ link' = "down" /\ toClient' = <<>> /\ toServer' = toServer
      /\ virtual' = [r \in Rooms |-> "none"] /\ grant' = [r \in Rooms |-> "none"]
  BY DEF Client!PhysicalCloses
<1>2. /\ RoomInv' /\ HonestInv' /\ KnownRooms' = KnownRooms
  BY SessionUnchanged
<1>3. MapTypes' /\ Registered' = {}
  BY <1>1 DEF MapTypes, Registered
<1>4. Wires' /\ LinkInv'
  BY <1>1, <1>3 DEF Wires, FromClient, Permitted, Honest, LinkInv
<1>5. KnownInv' /\ ServedInv'
  BY <1>1, <1>2 DEF KnownInv, ServedInv, Live, Carries
<1> QED
  BY <1>2, <1>3, <1>4, <1>5

\* A step of the adapter keeps the invariant.
LEMMA ClientKeeps ==
  ASSUME EndToEndInv, ClientStep
  PROVE  EndToEndInv'
BY ConstructKeeps, CloseRoomKeeps, SendDataKeeps, OpeningKeeps, ReceiveKeeps, PhysicalClosesKeeps
   DEF ClientStep, Client!ClientNext, Client!Consumer

-----------------------------------------------------------------------------
(***************************************************************************)
(* The connection, and the theorems.                                       *)
(***************************************************************************)
\* A new session knows no room, and nothing has been said yet.
LEMMA UpgradeKeeps ==
  ASSUME EndToEndInv, Upgrade
  PROVE  EndToEndInv'
<1> USE DEF EndToEndInv
<1>1. /\ socket = "connecting" /\ toServer = <<>> /\ toClient = <<>>
      /\ \A r \in Rooms : virtual[r] # "open"
      /\ UNCHANGED <<socket, virtual, grant, toServer>>
      /\ link' \in {"up", "down"}
  BY DEF Upgrade, UpgradeAccepted, UpgradeRejected, UpgradeOverLimit, clientVars, LinkInv
<1>2. MapTypes' /\ Registered' = Registered
  BY <1>1 DEF MapTypes, Registered
<1>3. LinkInv'
  BY <1>1, <1>2 DEF LinkInv
<1>4. ServedInv'
  BY <1>1 DEF ServedInv, Live, Carries
<1>5. KnownInv'
  <2>1. Range(toServer') = {}
    BY <1>1 DEF Range
  <2> QED
    BY <1>1, <2>1 DEF KnownInv
<1>6. CASE UpgradeAccepted \/ UpgradeOverLimit
  <2>1. /\ rooms' = {} /\ attached' = {} /\ closedRooms' = {} /\ activeRooms' = 0
        /\ peakRooms' = 0 /\ bypassAttempts' = 0
    BY <1>6 DEF UpgradeAccepted, UpgradeOverLimit, NewSession
  <2>2. RoomInv' /\ HonestInv'
    BY <2>1, FS_EmptySet DEF RoomInv, HonestInv
  <2>3. toClient' \in Seq(FromServer) /\ toClient' \in Seq(KnownMessages')
    <3>1. CASE toClient' = <<>>
      BY <3>1
    <3>2. ASSUME NEW code \in {ConnectionLimit, CollaboratorLimit}, toClient' = <<Close(code)>>
          PROVE  toClient' \in Seq(FromServer) /\ toClient' \in Seq(KnownMessages')
      <4>1. Close(code) \in CloseFrames /\ Close(code) # Close(PolicyViolation)
        BY DEF CloseFrames, CloseCodes, Close, PolicyViolation, ConnectionLimit, CollaboratorLimit
      <4>2. Close(code) \in FromServer /\ Close(code) \in KnownMessages'
        BY <4>1, AlwaysKnown DEF FromServer, Permitted, ClientBound, KnownMessages
      <4> QED
        BY <3>2, <4>2, FewMessages
    <3> QED
      BY <1>1, <1>6, <3>1, <3>2 DEF UpgradeAccepted, UpgradeOverLimit
  <2>4. Wires'
    BY <1>1, <2>3 DEF Wires, FromServer, FromClient, Permitted, Honest, ClientBound
  <2> QED
    BY <1>2, <1>3, <1>4, <1>5, <2>2, <2>4
<1>7. CASE UpgradeRejected
  <2>1. UNCHANGED serverVars /\ toClient' = toClient
    BY <1>7 DEF UpgradeRejected
  <2>2. RoomInv' /\ HonestInv' /\ KnownMessages' = KnownMessages
    BY <2>1, SessionUnchanged
  <2>3. Wires'
    BY <1>1, <2>1, <2>2 DEF Wires, FromServer, FromClient, Permitted, Honest, ClientBound
  <2> QED
    BY <1>2, <1>3, <1>4, <1>5, <2>2, <2>3
<1> QED
  BY <1>6, <1>7 DEF Upgrade

\* A network that breaks takes the link down and leaves both ends as they are.
LEMMA NetworkKeeps ==
  ASSUME EndToEndInv, ConnectionBreaks \/ UNCHANGED multiplexVars
  PROVE  EndToEndInv'
<1> USE DEF EndToEndInv
<1>1. /\ UNCHANGED <<socket, virtual, grant, toServer, toClient>> /\ UNCHANGED serverVars
      /\ link' \in {link, "down"}
  BY DEF ConnectionBreaks, multiplexVars, vars, clientVars
<1>2. /\ RoomInv' /\ HonestInv' /\ KnownRooms' = KnownRooms /\ KnownMessages' = KnownMessages
      /\ rooms' = rooms /\ phys' = phys
  BY <1>1, SessionUnchanged
<1>3. MapTypes' /\ Registered' = Registered
  BY <1>1 DEF MapTypes, Registered
<1>4. Wires'
  BY <1>1, <1>2 DEF Wires, FromServer, FromClient, Permitted, Honest, ClientBound
<1>5. LinkInv' /\ KnownInv'
  BY <1>1, <1>2, <1>3 DEF LinkInv, KnownInv
<1>6. ServedInv'
  BY <1>1, <1>2, <1>3 DEF ServedInv, Live, Carries, Served, Asked, Refused
<1> QED
  BY <1>2, <1>3, <1>4, <1>5, <1>6

\* Client and server start without a connection.
LEMMA InitEndToEnd == MultiplexInit => EndToEndInv
<1> SUFFICES ASSUME MultiplexInit PROVE EndToEndInv
  OBVIOUS
<1> USE DEF MultiplexInit
<1>1. /\ socket = "none" /\ toServer = <<>> /\ toClient = <<>> /\ link = "down"
      /\ virtual = [r \in Rooms |-> "none"] /\ grant = [r \in Rooms |-> "none"]
  BY DEF Client!Init
<1>2. MapTypes /\ Registered = {}
  BY <1>1 DEF MapTypes, Registered
<1>3. RoomInv /\ HonestInv
  BY FS_EmptySet DEF RoomInv, HonestInv
<1>4. Wires /\ LinkInv
  BY <1>1, <1>2 DEF Wires, LinkInv
<1>5. KnownInv /\ ServedInv
  BY <1>1 DEF KnownInv, ServedInv, Live, Carries, Range
<1> QED
  BY <1>2, <1>3, <1>4, <1>5 DEF EndToEndInv

\* The invariant holds in every state client and server can reach.
LEMMA EndToEndHolds == MultiplexSpec => []EndToEndInv
<1>1. EndToEndInv /\ [MultiplexNext]_multiplexVars => EndToEndInv'
  BY ClientKeeps, ServerKeeps, UpgradeKeeps, NetworkKeeps DEF MultiplexNext
<1> QED
  BY <1>1, InitEndToEnd, PTL DEF MultiplexSpec

\* However closes, resubscriptions and late acknowledgements interleave, a
\* client with grants of its own is never charged with a bypass attempt and
\* never cut off for one.
THEOREM HonestClientsStay == MultiplexSpec => []HonestClientIsNotExpelled
<1>1. EndToEndInv => HonestClientIsNotExpelled
  <2> SUFFICES ASSUME EndToEndInv, Honest
               PROVE  bypassAttempts = 0 /\ \A i \in DOMAIN toClient : toClient[i] # Close(PolicyViolation)
    BY DEF HonestClientIsNotExpelled, Honest
  <2>1. \A i \in DOMAIN toClient : toClient[i] \in FromServer
    BY DEF EndToEndInv, Wires
  <2> QED
    BY <2>1 DEF EndToEndInv, HonestInv, FromServer, Permitted
<1> QED
  BY <1>1, EndToEndHolds, PTL

\* When nothing about a registered room is in flight, the server serves it and
\* the client knows that it does.
LEMMA QuietIsServed ==
  ASSUME EndToEndInv, Connected, NEW r \in Registered, Quiet(r)
  PROVE  r \in rooms /\ virtual[r] # "connecting"
<1>1. Served(r)
  BY DEF EndToEndInv, ServedInv, Live, Carries, Connected
<1>2. ~Asked(r, toServer) /\ ~Refused(r, toClient)
  BY DEF Quiet, Asked, Refused, Range
<1>3. Subscribed(r) \notin Range(toClient)
  BY DEF Quiet, Range, Subscribed
<1> QED
  BY <1>1, <1>2, <1>3 DEF Served

\* A room the client uses is one the server serves, as soon as nothing about
\* it is in flight: the client does not edit into the void.
THEOREM OpenRoomsAreServed == MultiplexSpec => []OpenRoomIsServed
<1>1. EndToEndInv => OpenRoomIsServed
  BY QuietIsServed DEF OpenRoomIsServed, Registered, EndToEndInv, RoomInv
<1> QED
  BY <1>1, EndToEndHolds, PTL

\* The client waits for no room about which nothing is in flight: every
\* subscribe it depends on was sent, and answered.
THEOREM SubscriptionsAreRemembered == MultiplexSpec => []NoForgottenSubscription
<1>1. EndToEndInv => NoForgottenSubscription
  BY QuietIsServed DEF NoForgottenSubscription, Registered
<1> QED
  BY <1>1, EndToEndHolds, PTL
=============================================================================
