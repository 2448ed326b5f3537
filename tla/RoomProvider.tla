---------------------------- MODULE RoomProvider ----------------------------
(***************************************************************************)
(* One room's provider: the y-websocket provider that                      *)
(* createWebSocketConnection builds, its connect loop, its event handlers  *)
(* and the statuses it emits to Gutenberg.                                 *)
(*                                                                         *)
(* y-websocket is external and modelled by how the code uses it: connect   *)
(* does nothing while there is a socket; a close emits connection-close,   *)
(* then drops the socket, then emits `disconnected' if it was open; sync   *)
(* is emitted once per socket.  Its own reconnect is switched off by       *)
(* shouldConnect = false.                                                  *)
(***************************************************************************)
EXTENDS Naturals

CONSTANTS
  MaxAttempts,   \* where the count of attempts saturates
  Reconnects     \* bound on calls of the debugging reconnectWebSocket

Threshold == 3   \* BACKGROUND_RETRIES_FAILED_THRESHOLD

ASSUME MaxAttemptsAssumption == MaxAttempts \in Nat /\ MaxAttempts >= Threshold
ASSUME ReconnectsAssumption == Reconnects \in Nat

VARIABLES
  ws,                  \* provider.ws: "none", "connecting" or "open"
  synced,              \* provider.synced
  eligible,            \* retryState.eligible
  attempts,            \* retryState.attempts, saturating
  creation,            \* the creator's promise: "pending" (the initial token
                       \* is being fetched), "resolved" or "failed"
  backoffs,            \* connect loops that wait before they retry
  fetches,             \* connect loops that fetch a token, but the initial one
  stableTimer,         \* attemptsResetTimerId is set
  hasConnectionError,
  roomLimitExceeded,
  disposed,
  subscribed,          \* Gutenberg listens to status
  shown,               \* the last status it received, "none" before the first
  reconnects           \* debugging reconnects so far

socketVars == <<ws, synced, stableTimer>>
loopVars == <<eligible, attempts, creation, backoffs, fetches, reconnects>>
statusVars == <<hasConnectionError, roomLimitExceeded, subscribed, shown>>
vars == <<socketVars, loopVars, statusVars, disposed>>

\* The creator has wired its handlers and called connect for the first time.
Init ==
  /\ ws = "none" /\ synced = FALSE /\ stableTimer = FALSE
  /\ eligible = TRUE /\ attempts = 1 /\ creation = "pending"
  /\ backoffs = 0 /\ fetches = 0 /\ reconnects = 0
  /\ hasConnectionError = FALSE /\ roomLimitExceeded = FALSE
  /\ subscribed = FALSE /\ shown = "none"
  /\ disposed = FALSE

-----------------------------------------------------------------------------
\* What a disconnected status says: a retry with its countdown, the limit of
\* 4002 or of 4003 (retried, without a countdown), the room's own limit, or an
\* error nothing follows.
Errors == {"retrying", "connectionLimit", "collaboratorLimit", "roomLimit", "final"}

\* The errors of which a retry is promised.
Retries == {"retrying", "connectionLimit", "collaboratorLimit"}

Scopes == {"physical", "room"}

\* Close codes.  1006 stands for every other code and for a null event.
Codes == {1002, 1006, 1008, 4001, 4002, 4003, 4004, 4005, 4006}

Retried(scope, code) ==
  \/ scope = "room" /\ code = 4005
  \/ scope # "room" /\ code \notin {1002, 1008, 4006}

\* Mutant: promises a retry of a room the server refused.
ClosePolicyPromises(scope, code, exceeded) ==
  [shouldRetry |-> ~exceeded /\ Retried(scope, code),
   error |-> IF exceeded THEN "roomLimit"
             ELSE IF scope = "physical" /\ ~Retried(scope, code) THEN "final"
             ELSE "retrying"]

\* getWebSocketClosePolicy
ClosePolicy(scope, code, exceeded) ==
  [shouldRetry |-> ~exceeded /\ Retried(scope, code),
   error |-> IF exceeded THEN "roomLimit"
             ELSE IF ~Retried(scope, code) THEN "final"
             ELSE IF scope = "physical" /\ code = 4002 THEN "connectionLimit"
             ELSE IF scope = "physical" /\ code = 4003 THEN "collaboratorLimit"
             ELSE "retrying"]

\* syncStatusEmitter.emit: reaches those who listen already.
Emit(status) == shown' = IF subscribed THEN status ELSE shown

\* Mutant: a bare status replaces the error.
EmitAlways(status) == Emit(status)

\* handleStatus: while an error is retained, only its successor is emitted.
EmitUnlessError(status) ==
  IF hasConnectionError THEN UNCHANGED shown ELSE Emit(status)

\* disposeProvider: handlers and listeners go first, so no event is heard.
DisposeProvider ==
  /\ disposed' = TRUE /\ eligible' = FALSE
  /\ ws' = "none" /\ synced' = FALSE /\ stableTimer' = FALSE
  /\ subscribed' = FALSE
  /\ UNCHANGED <<hasConnectionError, roomLimitExceeded, shown>>

-----------------------------------------------------------------------------
\* Mutant: the initial request is counted among the retries.
FetchEndsTwice(outcome) ==
  \/ creation = "pending" /\ creation' = outcome /\ fetches' = fetches - 1
  \/ fetches > 0 /\ fetches' = fetches - 1 /\ UNCHANGED creation

\* connect, once the token request has ended: the initial one settles the
\* creator's promise as well.
FetchEnds(outcome) ==
  \/ creation = "pending" /\ creation' = outcome /\ UNCHANGED fetches
  \/ fetches > 0 /\ fetches' = fetches - 1 /\ UNCHANGED creation

\* provider.connect, with the `connecting' it emits.
ProviderConnect ==
  IF ws = "none"
  THEN /\ ws' = "connecting" /\ synced' = FALSE /\ stableTimer' = FALSE
       /\ EmitUnlessError("connecting")
  ELSE UNCHANGED <<socketVars, shown>>

\* Mutant: connects without looking whether the provider has ended.
TokenArrivesUnchecked ==
  /\ FetchEnds("resolved")
  /\ ProviderConnect
  /\ UNCHANGED <<eligible, attempts, backoffs, reconnects, hasConnectionError,
                 roomLimitExceeded, subscribed, disposed>>

TokenArrives ==
  /\ FetchEnds("resolved")
  /\ IF eligible THEN ProviderConnect ELSE UNCHANGED <<socketVars, shown>>
  /\ UNCHANGED <<eligible, attempts, backoffs, reconnects, hasConnectionError,
                 roomLimitExceeded, subscribed, disposed>>

\* The constructor of the socket throws: onFatalConnectError.
ConstructorThrows ==
  /\ eligible /\ ws = "none"
  /\ FetchEnds("failed")
  /\ DisposeProvider
  /\ UNCHANGED <<attempts, backoffs, reconnects>>

\* handleTokenFetchFailure, and connect once more.
TokenFails ==
  /\ FetchEnds("resolved")
  /\ IF eligible
     THEN /\ hasConnectionError' = TRUE
          /\ Emit("retrying")
          /\ backoffs' = backoffs + 1
     ELSE UNCHANGED <<hasConnectionError, shown, backoffs>>
  /\ UNCHANGED <<socketVars, eligible, attempts, reconnects,
                 roomLimitExceeded, subscribed, disposed>>

\* Mutant: gives up at the threshold.
BackoffGivesUp ==
  /\ backoffs > 0 /\ backoffs' = backoffs - 1
  /\ IF eligible /\ attempts < Threshold
     THEN fetches' = fetches + 1 /\ attempts' = attempts + 1
     ELSE UNCHANGED <<fetches, attempts>>
  /\ UNCHANGED <<socketVars, statusVars, eligible, creation, reconnects, disposed>>

\* connect, after waitBeforeRetry.
BackoffElapses ==
  /\ backoffs > 0 /\ backoffs' = backoffs - 1
  /\ IF eligible
     THEN /\ fetches' = fetches + 1
          /\ attempts' = IF attempts < MaxAttempts THEN attempts + 1 ELSE attempts
     ELSE UNCHANGED <<fetches, attempts>>
  /\ UNCHANGED <<socketVars, statusVars, eligible, creation, reconnects, disposed>>

\* window.VIP_RTC.debug.reconnectWebSocket, in development only.
DebugReconnect ==
  /\ eligible /\ reconnects < Reconnects
  /\ reconnects' = reconnects + 1
  /\ backoffs' = backoffs + 1
  /\ UNCHANGED <<socketVars, statusVars, eligible, attempts, creation, fetches, disposed>>

-----------------------------------------------------------------------------
\* handleStatus( connected )
SocketOpens ==
  /\ ws = "connecting" /\ ws' = "open"
  /\ stableTimer' = TRUE
  /\ EmitUnlessError("connected")
  /\ UNCHANGED <<synced, loopVars, hasConnectionError, roomLimitExceeded, subscribed, disposed>>

\* Mutant: drops the error without a word.
SocketSyncsSilently ==
  /\ ws = "open" /\ ~synced
  /\ synced' = TRUE
  /\ hasConnectionError' = FALSE
  /\ UNCHANGED <<ws, stableTimer, loopVars, shown, roomLimitExceeded, subscribed, disposed>>

\* handleSync
SocketSyncs ==
  /\ ws = "open" /\ ~synced
  /\ synced' = TRUE
  /\ hasConnectionError' = FALSE
  /\ IF hasConnectionError THEN Emit("connected") ELSE UNCHANGED shown
  /\ UNCHANGED <<ws, stableTimer, loopVars, roomLimitExceeded, subscribed, disposed>>

\* The timer handleStatus sets: the connection has been stable.
StableTimerFires ==
  /\ stableTimer /\ stableTimer' = FALSE
  /\ attempts' = 0
  /\ UNCHANGED <<ws, synced, eligible, creation, backoffs, fetches, reconnects,
                 statusVars, disposed>>

\* Mutant: the close does not stop the timer.
CloseLeavesTimer(policy) ==
  /\ ws' = "none" /\ synced' = FALSE
  /\ hasConnectionError' = TRUE
  /\ eligible' = (eligible /\ policy.shouldRetry)
  /\ Emit(policy.error)
  /\ backoffs' = IF eligible' THEN backoffs + 1 ELSE backoffs
  /\ UNCHANGED <<stableTimer, attempts, creation, fetches, reconnects, subscribed, disposed>>

\* Mutant: shouldConnect was left on, so y-websocket reconnects as well.
CloseReconnectsTwice(policy) ==
  /\ ws' = IF policy.shouldRetry THEN "connecting" ELSE "none"
  /\ synced' = FALSE /\ stableTimer' = FALSE
  /\ hasConnectionError' = TRUE
  /\ eligible' = (eligible /\ policy.shouldRetry)
  /\ Emit(policy.error)
  /\ backoffs' = IF eligible' THEN backoffs + 1 ELSE backoffs
  /\ UNCHANGED <<attempts, creation, fetches, reconnects, subscribed, disposed>>

\* handleConnectionClose, and handleStatus( disconnected ) if it was open.
HandleConnectionClose(policy) ==
  /\ ws' = "none" /\ synced' = FALSE
  /\ stableTimer' = (stableTimer /\ ws # "open")
  /\ hasConnectionError' = TRUE
  /\ eligible' = (eligible /\ policy.shouldRetry)
  /\ Emit(policy.error)
  /\ backoffs' = IF eligible' THEN backoffs + 1 ELSE backoffs
  /\ UNCHANGED <<attempts, creation, fetches, reconnects, subscribed, disposed>>

\* The socket closes, or y-websocket or debug.disconnectWebSocket closes it.
SocketCloses ==
  \E scope \in Scopes, code \in Codes :
    /\ ws # "none"
    /\ HandleConnectionClose(ClosePolicy(scope, code, roomLimitExceeded))
    /\ UNCHANGED roomLimitExceeded

\* evaluate of setupRoomClientLimit finds this client over the limit.
YieldToRoomLimit ==
  /\ ws = "open"
  /\ roomLimitExceeded' = TRUE
  /\ HandleConnectionClose(ClosePolicy("physical", 1006, roomLimitExceeded'))

-----------------------------------------------------------------------------
\* provider.on( 'status', ... ) of the creator's result
Subscribe ==
  /\ creation = "resolved" /\ ~subscribed
  /\ subscribed' = TRUE
  /\ UNCHANGED <<socketVars, loopVars, hasConnectionError, roomLimitExceeded, shown, disposed>>

\* provider.destroy() of the creator's result
Destroy ==
  /\ creation = "resolved" /\ ~disposed
  /\ DisposeProvider
  /\ UNCHANGED <<attempts, creation, backoffs, fetches, reconnects>>

Next ==
  \/ TokenArrives \/ ConstructorThrows \/ TokenFails
  \/ BackoffElapses \/ DebugReconnect
  \/ SocketOpens \/ SocketSyncs \/ StableTimerFires
  \/ SocketCloses \/ YieldToRoomLimit
  \/ Subscribe \/ Destroy

Spec == Init /\ [][Next]_vars

\* Timers fire, and the token service does not refuse forever.
Fairness == WF_vars(BackoffElapses) /\ SF_vars(TokenArrives)

FairSpec == Spec /\ Fairness

-----------------------------------------------------------------------------
\* Connect loops under way, the initial one included, and sockets.
Loops == backoffs + fetches + (IF creation = "pending" THEN 1 ELSE 0)
Sockets == IF ws = "none" THEN 0 ELSE 1

\* Variables hold values of their types; no more loops end than begin.
TypeOK ==
  /\ ws \in {"none", "connecting", "open"}
  /\ synced \in BOOLEAN /\ stableTimer \in BOOLEAN /\ eligible \in BOOLEAN
  /\ attempts \in 0 .. MaxAttempts
  /\ creation \in {"pending", "resolved", "failed"}
  /\ backoffs \in Nat /\ fetches \in Nat /\ reconnects \in 0 .. Reconnects
  /\ hasConnectionError \in BOOLEAN /\ roomLimitExceeded \in BOOLEAN
  /\ disposed \in BOOLEAN /\ subscribed \in BOOLEAN
  /\ shown \in Errors \cup {"none", "connecting", "connected"}

\* Once destroyed, refused for good or yielded, the provider has no socket and
\* no timer, whatever was being fetched or waited for at the time.
NothingRunsAfterTheEnd == ~eligible => ws = "none" /\ ~stableTimer

\* A provider that has not ended has a socket, or a loop that will get one.
NeverStalls == eligible => Loops + Sockets > 0

\* A provider runs one loop or holds one socket, never two of them, but for
\* those a developer added by hand: retries do not multiply.
OneAttemptAtATime == Loops + Sockets <= 1 + reconnects

\* What Gutenberg shows agrees with the socket: `connected' and `connecting'
\* are true while shown, and a room the server has synced is not shown in
\* error, unless a reconnect by hand failed beside a socket that works.
StatusIsTruthful ==
  ~disposed =>
    /\ shown = "connected" => ws = "open"
    /\ shown = "connecting" => ws = "connecting"
    /\ shown \in Errors /\ reconnects = 0 => ~synced

\* A status that announces a retry is followed up; one without is the last.
PromisedRetryIsScheduled ==
  ~disposed =>
    /\ shown \in Retries => eligible /\ Loops + Sockets > 0
    /\ shown \in {"final", "roomLimit"} => ~eligible /\ ws = "none"

\* The back-off starts over only while a connection stands, never because of
\* one that has closed in the meantime.
BackoffResetsOnlyWhenStable == [][attempts' < attempts => ws = "open"]_vars

\* An error stays shown until the next one or until the server has synced the
\* room: a socket that is accepted only to be refused does not hide it.
ErrorStaysUntilSync ==
  [][(shown \in Errors /\ shown' \notin Errors) => (shown' = "connected" /\ synced')]_vars

\* A provider that has not ended reaches a socket again, however often it has
\* failed, if the token service answers often enough.
ReconnectsEventually == eligible ~> ~eligible \/ ws # "none"
=============================================================================
