# Verification of VIP Real-Time Collaboration

TLA+ specifications of this repository's collaboration transport and of the
parts around it that decide who is in a room, the TLC runs that check them on
small instances, and theorems, proved with TLAPS, about what holds on every
instance. `PROJECT.json` lists runs, theorems, hazards and findings and, for
every definition, the source lines it stands for.

    tlc -config MCMultiplexSession.cfg MCMultiplexSession.tla
    tlapm MultiplexSessionProofs.tla

## 1. The system

An editor tab opens a *room* per synced entity (a post, a collection). Each room
has a Yjs document, kept in step with the other tabs by y-websocket. A room
needs a short-lived grant from WordPress (PHP). With multiplexing, the rooms of
a tab share one WebSocket.

| Part | Source | State | Operations | Interacts with |
| --- | --- | --- | --- | --- |
| Multiplex session | `websocket-server/multiplex-session.ts`, `physical-heartbeat.ts`, `room-websocket.ts` | rooms map, closed rooms, bypass strikes, peak, heartbeat flag | message, close, send-error handlers, heartbeat tick | adapter (messages), y-websocket (calls, close listener), metrics |
| Shared WebSocket adapter | `src/shared-websocket.ts` | physical socket, virtual sockets by room | construct, close, send; onopen, onmessage, onclose, onerror | y-websocket (callbacks, re-entrant), session |
| Upgrade and limits | `websocket-server/server.ts`, `connection-limits.ts` | `wss.clients` with their identities, timers | upgrade, close, timeout | session, metrics |
| Room provider | `src/websocket-client.ts` | retry state, retained error, timers, limit flag | connect loop, close, status, sync, destroy | adapter, REST token fetch, Gutenberg |
| Close policy | `src/websocket-close-policy.ts` | none | code and scope to retry or not | provider |
| Room client limit | `src/utilities/room-client-limit.ts` | none; awareness states | ranking, yield | provider, other clients |
| Wire codec | `websocket-server/protocol.ts` | none | encode, decode, validate | adapter, session |
| Metrics | `websocket-server/metrics.ts` | gauges, recent disconnects | open, close, 60 s maintenance | upgrade, session |
| Grants | `inc/Auth`, `inc/Api`, `websocket-server/auth.ts` | none (signed tokens, 30 s) | issue, verify | provider, session |
| Room presence | `inc/Presence/RoomPresence.php` | rows "user:second" of post meta | heartbeat, query | WordPress heartbeat |
| Limit modal | `src/components` | dialog and request state | status, click, result | provider, REST |
| Settings | `inc/Settings`, `inc/Compatibility` | one option | save, sanitise, load | grants |
| Yjs inspector | `yjs-inspector/src` | document, provider, filter, dialogs | connect, load, filter, add, delete | any Yjs server |
| Assets, telemetry, process entry | | configuration | | |

What is hard, and where:

- **Rooms without generations.** Messages name a room, never a subscription of
  it. Close and re-subscribe on one side cross acknowledgements and closes of
  the other, and every handler must be right for the wrong generation.
- **Failure inside a handler.** `sendPhysicalMessage` may run its error handler
  before it returns, which closes every room while the caller is half-way.
- **After the close has started.** Buffered messages, Yjs updates, timers and
  send callbacks still arrive at a socket that is closing.
- **Re-entrancy.** `onclose` of a virtual socket may construct the next one.
- **Decisions of one's own.** Every tab decides from its own, late view of the
  awareness whether it is one too many in a room.
- **Rows by value.** Presence reads, deletes and updates rows of post meta in
  requests that nothing keeps apart.
- **Checked once.** A permission is looked at when a token is issued, a token
  when a connection or a room begins, and neither ever again.
- **Stale closures.** A promise or a timer of the inspector and of the modal
  acts on the state of the render that made it.
- **Liveness.** A vanished peer, an empty connection, a room registered while
  the transport is closing: something else has to end the wait.

Correctness of each part, in short: the *session* keeps rooms, Yjs connections
and gauge paired, joins nothing after a close, tells the client of every room
it closes, and ends the connection at the second strike; the *adapter* keeps
map and transport in step and tells every room of the transport's end;
*together* they never expel an honest client nor leave it editing a room nobody
serves; the *provider* retries exactly what the policy allows and nothing after
it was destroyed; the *modal* shows the limit that is in force; the *limits*
keep the buffer for the further rooms of clients already served and never
exceed a maximum; the *gauges* never understate; the *room limit* empties no
room it means to thin; *presence* lists who reported, and everyone who keeps
reporting; *access* ends in bounded time after the permission; the *inspector*
deletes what it says it deletes.

## 2. Modules

| Module | Models |
| --- | --- |
| `MultiplexProtocol` | the five messages, the close frame, close codes, grants by what checks can tell |
| `ProtocolCodec` | the same messages as bytes |
| `MultiplexSession` | the server's end of one connection |
| `RoomService` | what that end promises: the abstract specification it implements |
| `SharedSocket` | the client's end |
| `AdapterWire` | the messages in that end's queues as bytes |
| `Multiplex` | both ends, over one connection after another |
| `RoomProvider` | one room's provider in the browser: connect loop, close policy, statuses, disposal |
| `LimitModal` | the modal over the provider's statuses, with its upgrade request |
| `ConnectionLimits` | the admission of sockets on the server, their identities and gauges |
| `RoomLimit` | the tabs of one room that decide who leaves it |
| `RoomPresence` | concurrent heartbeats and queries over the rows of one post |
| `Access` | settings, permissions, tokens and what they open, against the clock |
| `InspectorConnection`, `InspectorDocument`, `Inspector` | the inspector's provider, the document it shows, and both on one page |
| `MC*` | instances for TLC |
| `*Proofs` | theorems about the module they are named after; `RoomProviderProofs` also about `LimitModal` and `RoomLimit`, `SharedSocketProofs` about `AdapterWire` and `ProtocolCodec` |

`MultiplexSession` and `SharedSocket` can each be checked alone against an
arbitrary peer. `Multiplex` composes them on shared queues: it extends the
session and takes the adapter by INSTANCE (`Client`).
`LimitModal` extends `RoomProvider`: each of its provider steps is followed by
the effects of the modal. `Inspector` conjoins its two halves, which meet where
another document is shown.

**Atomicity.** JavaScript handlers run to completion, so one handler is one
action, with everything it calls; an `async` function is cut at each `await`,
and what is true before one may be stale after it. A send that fails inside a
handler is a disjunct of the action that sends; a send whose callback reports
the error later is `SendFailsLater`. A PHP request is cut at each call to the
database.

**MultiplexSession.** `phys` is `physical.readyState`, `rooms` the keys of the
rooms map, `attached` the rooms with a y-websocket connection (external, in
step with the room socket's listeners), `activeRooms` the session's share of
the room gauge. `ReceiveX` are the branches of `handlePhysicalMessage`,
`LeaveRoom` the close listener that `addRoom` registers, `CleanupRooms` the
same for all rooms, `Reply`/`Send`/`SendFails` the outcomes of
`sendPhysicalMessage`. Grants are `valid`, `foreign` (signed for another room,
user, blog or client) and `unverifiable`; a valid grant may have expired when
it is checked, which is a choice of the action. A `RoomSendsData` is whatever
y-websocket sends, its answer to a message included.

**SharedSocket.** `virtual[r]` is the state of the socket registered for `r`;
a socket that has left the map is unreachable and left out. `Reopens` says
whether an `onclose` callback constructs the room anew. Constructing inside the
physical `onclose` is the same as constructing right after it, because the map
is cleared first. The guards against a stale physical socket never fire, since
`physicalSocket` is replaced only after its own `onclose`. `send` on a socket
that is not open throws before it does anything, and a constructor that throws
changes nothing: neither is a step. `onerror` fans an event out and changes no
state.

**ProtocolCodec.** `Encode` and `Decode` are the functions of `protocol.ts` on
sequences of bytes, varints included; names and grants are sequences of bytes,
so UTF-8 is what is left out. It has no state: `AdapterWire` gives the rooms and
grants of `SharedSocket` their bytes and states the properties of the codec for
every message that the adapter's queues may hold.

**RoomService.** Three variables: `phase` of the connection, rooms `served`,
and whether the peer is in `reach`. `MultiplexSession` maps `phys`, the keys of
its map and `link` to them and forgets documents, strikes, queues and gauge.

**Multiplex.** A connection is refused (`UpgradeRejected`), accepted and closed
at once by a limit (`UpgradeOverLimit`), or accepted with a new session. When
the client dials again the session of the old connection is dropped from the
model: it has no way to reach the client, and `MultiplexSession` shows by
itself that it ends.

**RoomProvider.** The state of y-websocket's provider (`ws`, `synced`), the
retry state, the error and limit flags, and what Gutenberg was last told
(`shown`). A connect loop is an `async` function cut in two: it waits
(`backoffs`) and then fetches a token (`fetches`, or `creation = "pending"` for
the first, which the creator's caller awaits). Each half looks at `eligible`
again, as the code does after each `await`. `SocketCloses` is `connection-close`
with any scope and code; 1006 stands for every code the policy has no case for
and for the null event of a deliberate disconnect. A close by `YieldToRoomLimit`
sets the flag first. `ConstructorThrows` and `Destroy` dispose the provider,
listeners first, so nothing it does afterwards is heard. The debugging handle
may start loops beside a socket, `Reconnects` times; `attempts` saturates at
`MaxAttempts`, since only `attempts >= Threshold` and the reset are looked at.
What shows in the model and is worth knowing: statuses emitted before Gutenberg
listens are lost, and construction that fails for good leaves the last status
standing.

**LimitModal.** `StatusShown` is the effect on `connectionStatus` together with
the one that resets the request; `UpgradeClick` starts a request and
`UpgradeAnswered` ends one at any time later. A request is not told from
another, and nothing cancels it: that is the code.

**ConnectionLimits.** A socket is in `wss.clients` from its upgrade to its end;
only an accepted one has an identity. A refused one occupies a place, without an
identity, until its closing handshake is over, so the total the limit sees
includes it. `Accept`, `OverConnections` and `OverCollaborators` are the three
outcomes of the `connection` handler, in the order of its checks; `Reconcile` is
the periodic maintenance of the gauges. Every grant the server accepts names
a client and a user.

**RoomLimit.** `Evaluate` is the debounced callback with what follows from it,
the terminal close. A client whose `collaboratorInfo` has no time ranks as
`Infinity`; two such clients compare as NaN in the code, which `Precedes`
reproduces by falling to the client id. Awareness is external (y-protocols and
y-websocket): `news[n][d]` is the latest that `n` has of client `d`, a state or
its removal under `d`'s clock, and `Learn` is how news travels, late and in any
order of pairs. `Told` says between whom. The provider options never set
`disableBc` (`websocket-client.ts:379-385`, `448-452`), so besides the server
the tabs of one browser tell each other, from the first `connect()` on and
whether their sockets are open or not. A socket that closes takes the states of
the others with it, which a tab also tells the tabs beside it; the server
forgets whom a closed socket spoke for; and who is told it was removed renews
its state. Assumed: a message that arrives carries what its sender has by then;
whether a closed socket is tried again is left open, so `closed` stands for a
provider that waits and for one refused for good; and an editor closes only
after its first `connect()`.

**RoomPresence.** `rows` is the post meta by `meta_id`. `record` and `stamp`
are the steps from `Heartbeat` to `StampEnds`, `get_user_ids` those from
`QueryBegins` to `QueryEnds`. WordPress deletes by value in two statements, a
SELECT of ids and a DELETE of those, which are two steps; an UPDATE by value
is one. Assumed: the object cache gives what the database holds, so a read is a
table read.

**Access.** `SaveSettings`, `EnvironmentChanges` and `PermissionChanges` are the
policy; `RequestLoads`, `RequestIsChecked` and `TokenIssued` a REST request,
whose three looks at the policy may disagree; `UpgradeLegacy`,
`UpgradeMultiplex` and `Subscribe` the server's. Time passes in `Tick`, which
waits while a request, a timeout or a closing handshake is due: a timer fires in
the second it is set for.

**InspectorConnection.** `OnConnect` is the callback with the state its render
`held`, which a Blocksuite connection carries across its `await`. Documents and
providers are numbered. The effect that disconnects when the document changes
is an action, since other callbacks may come before it.

**InspectorDocument.** A document with a map and a list, whose values are
primitives or nested arrays; peers change it between any two clicks.
`FilterYDoc` is `filter-map.tsx`: a rule is the set of entries it selects, by
type, key, path, value or any of these together, and a selected entry is listed
unless the traversal has `Accessed` it before, selected or not. The order of a
traversal is that in which keys were inserted and root types declared, so it is
a constant, `Place`, and may be any. `filtered` is the cached value of
`filteredYDocAtom`, which a remote update does not recompute; `Resolve` is the
lookup of a path. Assumed: no key contains a dot, the separator of a joined
path.

## 3. Runs

| Run | Instance | Shows | Time |
| --- | --- | --- | --- |
| `session` | 2 rooms, all grants, queues 1 and 2 | safety of the session against any peer; it implements `RoomService`, liveness included | 55 s |
| `adapter` | 2 rooms, queues of 2, onclose may reopen; names of up to 2 bytes, grants of up to 3 | safety of the adapter, every room hears of the transport's end, frames are read back | 30 s |
| `multiplex` | 2 rooms, queues of 1, valid and unverifiable grants | end to end: nobody honest is expelled, an open room is served, every waiting room is answered | 90 s |
| `provider` | 1 room, attempts to 4, 1 reconnect by hand, 2 upgrade requests | retries go on, never twice at once, and end for good; statuses and modal tell the truth | 2 s |
| `limits` | 5 sockets, 5 clients of 3 users, maximum 4, buffer 1, 2 collaborators | both limits and the buffer hold; the gauge understates nothing | 12 s |
| `presence` | Ann with one tab, Bob with two, one query, 3 seconds | listed users have reported; who keeps reporting is listed | 30 s |
| `room_limit` | 3 tabs in 2 browsers, limit 2, clocks equal, apart or missing, 1 failure, refusal or departure | tabs leave only when outranked, leave a full room, and the room settles | 2 min |
| `access` | 1 user, 2 rooms, 1 connection, every duration 1, 5 seconds, 1 change | a revoked permission and a disabled site are out in bounded time | 47 s |
| `inspector` | 3 kinds of provider, 2 documents, 3 connections, 2 edits, 3 of these in all, rules by type, value and key | no stray provider but by a late socket; filter and dialogs agree with the document | 55 s |
| `limits_atomic` | as `limits` | a client may be served in part | |
| `presence_lost` | Bob alone | a row may be lost to a report of its own user | |
| `modal_stale` | 1 request, no reconnect by hand | a late answer reaches the next limit | |

**Bounds.** Two rooms suffice to have a room and its sibling; a third adds no
new relation, since no handler looks at two rooms except to count or close them
all. `MaxBacklog` and `MaxQueue` bound only what the environment, the users and
the documents *add*: a handler never finds its own answer refused by a bound.
One buffered message each way is enough to cross a close with a subscribe, two
(in `session` and `adapter`) for an unsubscribe followed by a subscribe. Strikes
are bounded by the code itself. Four attempts pass the threshold of three and
saturate. Five sockets are one more than the maximum, so one can always be
refused; two users have two clients, so that a second tab is told from a second
user; the soft limit leaves places for three clients, so that a third user can
come up against the limit of collaborators before the limit of connections.
Three tabs past a limit of two are the fewest that can disagree on who leaves
while a full room is to stay; two of them in one browser and one in another hear
of each other both ways. Their clocks, two of which always tie, put the lone tab
first, between the others or last. What
fails is bounded twice (`FailureBound`), as clocks grow with each failure: any
one of two tabs fails, is refused or closes at any moment; of three tabs only
the lone one loses its socket, where it outranks the others, when all know of
each other and none has yielded, the moment at which the others decide anew. A
time to live of two seconds and a clock of three values let a row expire and be
renewed. With every duration 1, `Linger` is 4, so five seconds see the last of a
permission end. Names of one and two bytes stand for the whole range, and the
lengths at which a varint takes another byte are checked at their boundaries
(`VarUintsRoundTrip`). The rooms of `access`, which checks no liveness, are
symmetric, and so are the sockets of `limits`.

**Deadlock** is checked in `adapter`, `multiplex`, `limits` and `limits_atomic`.
The other systems really end (a closed connection, a destroyed provider), or
stop at the bound of their clock or of their inputs.

**TypeOK** of a run is about values, not shapes: a gauge below zero, a closed
room brought back without a grant, a loop that ends twice.

**Fairness.** Weak fairness of message delivery, of the heartbeat tick and of
the end of a closing handshake: the event loop runs, `setInterval` fires, and ws
and browsers force a closing handshake to an end by timeout. Nothing is assumed
of peers, users, optional timers or failures; an upgrade gets some outcome,
which need not be a connection. For the provider, timers fire (weak fairness of
`BackoffElapses`) and the token service does not refuse forever (strong fairness
of `TokenArrives`, an assumption about the environment, without which there is
no connection to be had). For the room limit, weak fairness of `Settle`:
awareness is delivered and timers fire. The debounce behind it is restarted by
every change of awareness (`websocket-client.ts:287`), so a room whose presences
never rest may postpone it without bound; `RoomSettlesWithinLimit` speaks of a
room that does come to rest. `RoomService` asks for fairness of giving up the
rooms of a lost peer, of ending an idle connection and of ending a closing one;
that the session's timers supply it is what the run shows.

### What the code does otherwise

`limits_atomic`: a comment in `connection-limits.ts` says that a client is let
in completely or not at all. A client that has a connection is refused its next
one when the others have used up the buffer.

`presence_lost`: `stamp` is to replace the user's rows with one stamped now. Two
heartbeats that overlap while the user has none each add a row, equal within
one second; the next report of that second keeps the first and deletes the
second by value, and so both. The user, who has just reported, is not listed
until the next heartbeat.

`modal_stale`: a comment of the modal says that a later limit starts from a
clean dialog. An upgrade request answered after the reset sets "Request sent"
again.

Five behaviours more showed up on the way. They have no run of their own:

- A client subscribes with a grant that expires on the way, gives the room up
  and subscribes again. The `room_closed` for the first subscription, matched by
  name, closes the second virtual socket while the server joins the room for it.
  The room stays joined although the client holds it closed; a later subscribe
  gets a bare `subscribed`, without the sync step a join sends.
- A refused socket is in `wss.clients`, so a reconcile counts it into the gauge
  of connections, which overstates until the next reconcile
  (`GaugeNeverUnderstates` is the half that holds).
- The guard against a second provider in `connect-button.tsx` (49-51) reads the
  state of the render the connection was started in, so a Blocksuite socket that
  opens late replaces a provider that runs on unseen; the late sync of a
  replaced provider shows "connected" even with no provider. That nothing else
  leaves one behind is `OnlyALateOpenStraysAProvider`.
- A tab announces itself to the tabs of its browser before its socket is open. A
  tab beside it that joined later may yield to it for good, although it is then
  refused: the room may end with fewer connections than its limit.
  `YieldLeavesRoomFull` counts sockets that are opening, and speaks of a room in
  which none has failed or been refused.
- The filter remembers primitives by value before it asks its rule about them
  (`filter-map.tsx:65-82`). A repeated one is listed once, and not at all when
  the rule selects it by a key or a path that the first of its equals does not
  have: of `{a: 1, b: 1}` the rule "key = b" lists nothing.
  `FilterMissesOnlyRepeats` says that no other value is missing. The delete
  dialog follows its path again in the document shown when it is confirmed,
  whereas the add dialog writes to the target it was opened on.

## 4. Proofs

Eight modules, 8,900 lines, more than half of them about the two ends of the
transport. Every invariant and every action property that a passing run checks
is a theorem; of the temporal ones `ImplementsRoomService` and
`RoomSettlesWithinLimit` are, as far as they are safety. Assumed are only the
named ASSUMEs of the modules: finite sets where sets are counted, natural
numbers for limits and bounds, names and grants of a length the protocol allows,
a traversal that meets no two paths at once.

`MultiplexSessionProofs` proves the type invariant, `GaugeCountsRooms`,
`NoLeakedDocument`, `AcknowledgedRoomsAreKnown` and `StrikesEndTheConnection`
for every finite set of rooms (`RoomsAssumption`), every subset of the grant
kinds and every bound. None of them is inductive alone. `IInv` has three parts:

- `RoomInv`, the rooms: map, documents, closed set, gauge and peak. `RoomStep`
  names the four things any step may do to the rooms; `NextRoomStep` shows that
  every action does one of them and `RoomStepPreserves` that each keeps
  `RoomInv` and forgets no room that was ever known.
- `toClient \in Seq(KnownMessages)`: what is in flight names known rooms only.
  It needs the last fact of the rooms, monotonicity, since the queue is read
  later. `QueueStep` lists what a step may do to the queue.
- `ControlInv`: types, strikes, and no room under a closed socket.
  `ControlStep` says that a socket never opens again and that the last strike
  leaves it not open; a strike needs an open socket, so there is no third.

`StepsAreRoomService` is the safety half of the refinement: initial states are
initial, and each action is a step of `RoomService` or a stutter, by the same
`RoomStep` with what it does to socket and link. `LeavesAreAnnounced` runs
through the actions that take a room off the map and names the `Cause` of each.
`RoomClosedIsFinal` needs an invariant of its own, `OrderInv`: in the queue no
data of a room follows its `room_closed` (`Orderly`), and a room whose last
message is its `room_closed` is off the map (`Settled`), so that nothing can
append data for it without an acknowledgement before.

`SharedSocketProofs` proves `RegisteredRoomsHaveTransport` and
`UnusedTransportIsClosing`, inductive together with the type of the map
(`TransportInv`), and `RoomsCloseAlone` from `NextLoses`: every step but the
transport's end takes at most one room off the map. `UnsubscribeIsFinal` is the
mirror of `RoomClosedIsFinal` for the other queue. Its `OrderInv` is about all
that a connection still carries: while the socket carries messages, a room whose
last message is its unsubscribe is not registered, and while it is connecting
the queue holds no unsubscribe yet. The types of both queues come with it.

The same module proves the codec. `MessagesAreReadable` has three parts: the
queues hold only `Messages` (from the types above), every message within the
limits decodes to itself (`EncodedIsDecoded`), and no frame one byte longer or
any number of bytes shorter decodes, but for data of the same room
(`EncodedFramesItself`). Each read is shown to find what was written whatever
follows it (`NumberIsRead`, `StringIsRead`), and to find the same in a longer
sequence, so that a frame cut short cannot end where the whole one does.
`DecodedIsEncodable` goes the other way, from any bytes: a number need not be
written in the fewest bytes, yet what is decoded is within all limits, and those
are what `encodeMessage` asks for. Numbers are proved up to three bytes, more
than any length or code takes; where a fourth and a fifth byte begin is checked
by TLC (`VarUintsRoundTrip`).

`MultiplexProofs` proves the three end-to-end invariants for every finite set of
rooms, every bound and whatever an `onclose` callback constructs. `EndToEndInv`
takes `RoomInv` and its `RoomStep` from the proofs of the session and adds

- `MapTypes` and `Wires`, the types of map and queues, in which an honest client
  and the server never write a close for a policy violation;
- `LinkInv`: a client that is still connecting has told the new session nothing
  and heard nothing of it;
- `KnownInv`: rooms that are open, and data on its way, are of rooms the session
  knows;
- `ServedInv`: of a registered room something still decides the outcome - a
  subscribe or a `room_closed` is on its way, or the room is served and its
  acknowledgement arrives. It says what `OpenRoomIsServed` and
  `NoForgottenSubscription` leave out, a room about which something is in
  flight, and is why both hold again when it has landed;
- `HonestInv`: no strike was ever charged to an honest client.

The proof goes over the actions of each end as lemmas about what a step puts
into the queues and takes from them, so that most actions share theirs.

`RoomProviderProofs` proves every safety and action property of the provider.
`IInv` joins the types, with no loop counted below zero (`CountsOK`, `FlagsOK`),
to `EndInv` (a provider that has ended has no socket and no timer, and the timer
runs beside an open socket only), `LoopInv` (loops and sockets together are one,
or one for each reconnect by hand more) and `StatusInv` (what is shown agrees
with socket and error). `StatusInv` leans on `LoopInv`: that a failed fetch
never puts an error over a working room holds because no loop runs beside a
socket when nobody reconnects by hand.

The modal is proved in the same module. `ModalOnlyWatches` shows that
`LimitModal` implements `RoomProvider`, fairness included, so all of the above
holds beside it; `ModalAgrees` then is one step over the statuses.

`ConnectionLimitsProofs` proves types and the three properties of the run for
every finite set of sockets and clients and every limit. `Joins`, `Leaves` and
`Stays` say what a step does to the accepted sockets and so to the sets of
clients and users; a few lemmas on the cardinality of those sets turn this into
the limits. The buffer holds because a client without a connection must fit the
soft limit with *all* sockets counted, of which there are at least as many as
clients.

Of `RoomLimit`, `RoomProviderProofs` proves `YieldedWereOutranked` and
`YieldLeavesRoomFull` for every finite set of clients in any browsers, every
limit and every clock. News is of whom it concerns: `HeardAreAnnounced` says
that whoever a client knows of has announced itself, to the server or beside it,
and `AnnouncedGrows` that it stays announced, so that what justified a yield
goes on to justify it. The second property is the hard one: clients may yield on
views of one another. `StaysUnlessYielded` says that, without failures and
departures, who ever began to connect is connected, has its socket opening or
has yielded. If some have yielded there is one that comes first among these,
since `Precedes` orders the finitely many clients; all that precede it, at least
`Limit` by the first property, are connected or opening still.
`RestIsWithinLimit` is the safety half of `RoomSettlesWithinLimit`: at rest,
when every client has learnt of all others and no timer runs, the last of those
present has evaluated all of them (`Evaluated`), and so they are no more than
the limit. That the room comes to rest is TLC's.

`RoomPresenceProofs` proves `ListedUsersReported` for any number of tabs, users
and queries. The age of everything a request carries is bounded by the last
report of its user: the rows (`RowsInv`), what tabs are about to write
(`TabsInv`) and what queries have collected (`AnswersInv`). `RequestMoves` names
what a step may do to a request without touching the rows.
`SteadyUsersAreListed` is about one tab of one user amid all the others.
`SteadyInv` follows its report: the last one is young (`ReportIsYoung`), from
the first one on the user has exactly one row and that is no older
(`OneOwnRow`), the loop of `stamp` finds this row and renews it in place
(`StampFollows`), and no other request holds it (`OthersAbstain`): tabs touch
rows of their own user, and queries delete rows as old as the time to live,
which this one never is.

`AccessProofs` proves both bounds of `Access` for every lifetime and every set
of users, rooms and connections. `IInv` dates everything that hands a permission
on: a request that was let through began no later than the last second of the
permission and lasts `RequestTime` at most (`RequestsInv`), the token it brings
ends `TokenTTL` later (`TokensInv`), and a connection or a room in it
`ConnTimeout` and `CloseGrace` after that (`ConnectionsInv`). Their sum is
`Linger`.

`InspectorProofs` proves `OnlyALateOpenStraysAProvider` for every set of
provider kinds and every bound: a connection that is not awaited is adopted only
in the state "disconnected", in which no provider is shown
(`DisconnectedShowsNone`), and what is awaited is a Blocksuite socket
(`AwaitsBlocksuite`). `Counters` types the numbers. Of the document it proves
both properties from `DocInv`. `DeletionIsAsNamed` needs that only a row whose
first key is a single key can be deleted, and that such a key is a root,
whichever document was filtered (`SingleKeysAreRoots`). `FilterIsComplete` joins
`FilterIsCurrent`, that the cache is of the document unless that has changed, to
`FilterIsFair`: of the entries that equal the one left out there is a first,
since `Place` is a number; nothing equal was accessed before it, so it is listed
if the rule, whichever it is, selects it.

Only model-checked, since liveness is out of the prover's reach: the fairness
half of `ImplementsRoomService`, `ClosingReachesEveryRoom`,
`ConnectingRoomIsAnswered`, `ReconnectsEventually`, and that
`RoomSettlesWithinLimit`'s room comes to rest. The findings are TLC's too: a
counterexample needs no proof.

## 5. Not modelled

- The Yjs merge and the payloads of messages: the CRDT is a library's, and no
  property here depends on what a document holds.
- The legacy connection behind the upgrade: y-websocket's own client and server
  around the same token check, which `Access` has.
- Telemetry, histograms, counters, the window of recent disconnects and close
  reason labels: recorded and never read back by the program.
- Assets, process entry, persistence stub, Yjs shim and formatting utilities:
  straight-line code that keeps no state.
- Of the inspector, undo and export, the data types and icons of the viewer, the
  state of the filter builder's form and the user interface kit.

Hazards without a property, with their notes in `PROJECT.json`: statuses emitted
before anyone listens (`websocket-client.ts:633`), two providers of one post in
the registry of open rooms (`:360`), and the debounce that a busy room restarts
(`:287`). For the first and the last nothing in the repository says what should
happen; the second is decided outside it.

## 6. Plan

Done: the transport (`MultiplexProtocol`, `MultiplexSession`, `SharedSocket`,
`Multiplex`, `ProtocolCodec`) with `RoomService` as the abstract specification
of the session; `RoomProvider` and `LimitModal`; `ConnectionLimits`;
`RoomLimit`; `RoomPresence`; `Access`; the inspector. Each has a run and
theorems.

Left, most important first:

1. The timeouts of the upgrade and its routing to the legacy transport.
2. That `RoomProvider` implements a specification of what a room's provider
   promises to the editor, and `Multiplex` one of a room that is served.
3. Undo and export of the inspector.
