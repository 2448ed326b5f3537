------------------------------- MODULE Access -------------------------------
(***************************************************************************)
(* How long a permission outlives its end.  WordPress checks it once, when *)
(* it issues a token; the server checks the token once, when a connection  *)
(* or a room of one begins; and nobody asks again until the connection     *)
(* reaches its timeout.                                                    *)
(*                                                                         *)
(* The two ends of a WebSocket, and who tells the server about which of    *)
(* them has gone, are external here: a connection closes at any time, and  *)
(* ws gives a closing handshake up after CloseGrace.                       *)
(***************************************************************************)
EXTENDS Integers, FiniteSets

CONSTANTS
  Users, Rooms,
  Conns,           \* identities of connections, used again
  TokenTTL,        \* get_token_expire_seconds
  RequestTime,     \* what a PHP request may take
  ConnTimeout,     \* connectionTimeout
  CloseGrace,      \* what ws waits for the close frame of the peer
  MaxTime,         \* bound on the clock
  MaxChanges       \* bound on the changes of settings and permissions

ASSUME DurationsAssumption ==
  /\ TokenTTL \in Nat /\ RequestTime \in Nat /\ ConnTimeout \in Nat
  /\ CloseGrace \in Nat /\ MaxTime \in Nat /\ MaxChanges \in Nat

VARIABLES
  now,
  setting,         \* the stored value of enable-vip-rtc, "absent" without one
  compatible,      \* should_plugin_load: Gutenberg and the server's URL
  mayEdit,         \* <<user, room>>: can_sync
  changes,         \* changes of the three so far
  request,         \* the token request of each user
  tokens,          \* tokens issued
  conn,            \* the server's connections
  lastOn,          \* history: the last second the plugin was on
  lastMayEdit      \* history: the last second of each permission

policyVars == <<setting, compatible, mayEdit, changes>>
historyVars == <<lastOn, lastMayEdit>>
vars == <<now, policyVars, request, tokens, conn, historyVars>>

Pairs == Users \X Rooms

\* The values of an option as a form, an API or the command line leaves them.
StoredValues == {"absent", "true", "false", "0", "other"}

\* is_disabled_value: only an explicit value turns the feature off.
IsDisabledValue(value) == value \in {"false", "0"}

\* sanitize_settings, on the way into the database.
Sanitize(value) == IF IsDisabledValue(value) THEN "false" ELSE "true"

\* plugins_loaded: compatible, and is_vip_rtc_enabled.
PluginOn == compatible /\ ~IsDisabledValue(setting)

NoRequest == [phase |-> "none"]
Closed == [phase |-> "closed"]

Init ==
  /\ now = 0
  /\ setting = "absent" /\ compatible = TRUE
  /\ mayEdit = Pairs /\ changes = 0
  /\ request = [u \in Users |-> NoRequest]
  /\ tokens = {}
  /\ conn = [c \in Conns |-> Closed]
  /\ lastOn = 0
  /\ lastMayEdit = [p \in Pairs |-> 0]

-----------------------------------------------------------------------------
\* What was possible up to this second has been possible in it.
Remember ==
  /\ lastOn' = IF PluginOn' THEN now' ELSE lastOn
  /\ lastMayEdit' = [p \in Pairs |-> IF p \in mayEdit' THEN now' ELSE lastMayEdit[p]]

Change == changes < MaxChanges /\ changes' = changes + 1

SaveSettings(value) ==
  /\ Change
  /\ setting' = Sanitize(value)
  /\ UNCHANGED <<now, compatible, mayEdit, request, tokens, conn>>
  /\ Remember

\* Gutenberg or the configuration of the site changes.
EnvironmentChanges ==
  /\ Change
  /\ compatible' = ~compatible
  /\ UNCHANGED <<now, setting, mayEdit, request, tokens, conn>>
  /\ Remember

\* A role or a post changes: edit_post, or a filter, says something else.
PermissionChanges(p) ==
  /\ Change
  /\ mayEdit' = IF p \in mayEdit THEN mayEdit \ {p} ELSE mayEdit \cup {p}
  /\ UNCHANGED <<now, setting, compatible, request, tokens, conn>>
  /\ Remember

\* plugins_loaded in a request to websocket/auth: without the plugin there is
\* no such route.
RequestLoads(u, r) ==
  /\ request[u].phase = "none" /\ PluginOn
  /\ request' = [request EXCEPT ![u] = [phase |-> "loaded", room |-> r, since |-> now]]
  /\ UNCHANGED <<now, policyVars, tokens, conn, historyVars>>

\* generate_token, its check: can_sync, or permission_denied.
RequestIsChecked(u) ==
  /\ request[u].phase = "loaded"
  /\ request' = [request EXCEPT ![u] =
       IF <<u, @.room>> \in mayEdit THEN [@ EXCEPT !.phase = "checked"] ELSE NoRequest]
  /\ UNCHANGED <<now, policyVars, tokens, conn, historyVars>>

\* generate_token, the rest: the token expires TokenTTL after time().
TokenIssued(u) ==
  /\ request[u].phase = "checked"
  /\ tokens' = tokens \cup {[user |-> u, room |-> request[u].room, exp |-> now + TokenTTL]}
  /\ request' = [request EXCEPT ![u] = NoRequest]
  /\ UNCHANGED <<now, policyVars, conn, historyVars>>

-----------------------------------------------------------------------------
\* verifyJwtToken: signed, and not expired.
Valid(t) == t \in tokens /\ now < t.exp

\* Upgrade to a legacy connection, whose path names the room of its token.
UpgradeLegacy(c, t) ==
  /\ conn[c].phase = "closed" /\ Valid(t)
  /\ conn' = [conn EXCEPT ![c] = [phase |-> "open", user |-> t.user, multiplex |-> FALSE,
                                  rooms |-> {t.room}, since |-> now]]
  /\ UNCHANGED <<now, policyVars, request, tokens, historyVars>>

\* Upgrade to a multiplex connection: the token only says whose it is.
UpgradeMultiplex(c, t) ==
  /\ conn[c].phase = "closed" /\ Valid(t)
  /\ conn' = [conn EXCEPT ![c] = [phase |-> "open", user |-> t.user, multiplex |-> TRUE,
                                  rooms |-> {}, since |-> now]]
  /\ UNCHANGED <<now, policyVars, request, tokens, historyVars>>

\* Mutant: the room of the grant is not compared.
GrantedForAnyRoom(c, t, r) == conn[c].user = t.user

\* subscribe: the grant is of this room and of the connection's user.
Granted(c, t, r) == t.room = r /\ conn[c].user = t.user

\* subscribe, for a room the connection has not joined.
Subscribe(c, t, r) ==
  /\ conn[c].phase = "open" /\ conn[c].multiplex /\ r \notin conn[c].rooms
  /\ Valid(t) /\ Granted(c, t, r)
  /\ conn' = [conn EXCEPT ![c].rooms = @ \cup {r}]
  /\ UNCHANGED <<now, policyVars, request, tokens, historyVars>>

\* The client unsubscribes, or the room is interrupted.
LeaveRoom(c, r) ==
  /\ conn[c].phase = "open" /\ conn[c].multiplex /\ r \in conn[c].rooms
  /\ conn' = [conn EXCEPT ![c].rooms = @ \ {r}]
  /\ UNCHANGED <<now, policyVars, request, tokens, historyVars>>

\* The timer of connectionTimeout: ws.close(4001), and the rooms stay with the
\* connection until it is closed.
TimesOut(c) ==
  /\ conn[c].phase = "open" /\ now >= conn[c].since + ConnTimeout
  /\ conn' = [conn EXCEPT ![c].phase = "closing", ![c].since = now]
  /\ UNCHANGED <<now, policyVars, request, tokens, historyVars>>

\* The socket has closed.
ConnCloses(c) ==
  /\ conn[c].phase # "closed"
  /\ conn' = [conn EXCEPT ![c] = Closed]
  /\ UNCHANGED <<now, policyVars, request, tokens, historyVars>>

\* Mutant: there is no timeout of a connection.
OverdueOnceClosing(c) ==
  conn[c].phase = "closing" /\ now >= conn[c].since + CloseGrace

\* A timer of the connection is due.
Overdue(c) ==
  \/ conn[c].phase = "open" /\ now >= conn[c].since + ConnTimeout
  \/ conn[c].phase = "closing" /\ now >= conn[c].since + CloseGrace

\* A second passes, once nothing of this second is left to be done.
Tick ==
  /\ now < MaxTime
  /\ \A c \in Conns : ~Overdue(c)
  /\ \A u \in Users : request[u].phase # "none" => now < request[u].since + RequestTime
  /\ now' = now + 1
  /\ UNCHANGED <<policyVars, request, tokens, conn>>
  /\ Remember

Policy ==
  \/ \E value \in StoredValues : SaveSettings(value)
  \/ EnvironmentChanges
  \/ \E p \in Pairs : PermissionChanges(p)

WordPress ==
  \E u \in Users :
    (\E r \in Rooms : RequestLoads(u, r)) \/ RequestIsChecked(u) \/ TokenIssued(u)

Server ==
  \E c \in Conns :
    \/ \E t \in tokens :
         \/ UpgradeLegacy(c, t) \/ UpgradeMultiplex(c, t)
         \/ \E r \in Rooms : Subscribe(c, t, r)
    \/ \E r \in Rooms : LeaveRoom(c, r)
    \/ TimesOut(c) \/ ConnCloses(c)

Next == Policy \/ WordPress \/ Server \/ Tick

Spec == Init /\ [][Next]_vars

-----------------------------------------------------------------------------
Requests == {NoRequest} \cup [phase : {"loaded", "checked"}, room : Rooms, since : Nat]
Tokens == [user : Users, room : Rooms, exp : Nat]
Connections ==
  {Closed} \cup [phase : {"open", "closing"}, user : Users, multiplex : BOOLEAN,
                 rooms : SUBSET Rooms, since : Nat]

\* Variables hold values of their types; the setting is one sanitize_settings
\* leaves.
TypeOK ==
  /\ now \in Nat /\ changes \in Nat
  /\ setting \in {"absent", "true", "false"} /\ compatible \in BOOLEAN
  /\ mayEdit \subseteq Pairs
  /\ request \in [Users -> Requests]
  /\ tokens \subseteq Tokens
  /\ conn \in [Conns -> Connections]
  /\ lastOn \in Nat /\ lastMayEdit \in [Pairs -> Nat]

\* How long after its last second a permission may still have an effect.
Linger == RequestTime + TokenTTL + ConnTimeout + CloseGrace

\* A user who may no longer edit a post is out of its room after a time that
\* the constants bound, whatever tokens and connections were open: no chain of
\* requests, tokens, subscriptions and reconnections passes the permission on.
RevocationReachesRooms ==
  \A c \in Conns : conn[c].phase # "closed" =>
    \A r \in conn[c].rooms : now <= lastMayEdit[<<conn[c].user, r>>] + Linger

\* Turning the feature off, or losing what it needs, ends all collaboration
\* after that time, although nothing tells the server.
SwitchReachesConnections ==
  \A c \in Conns : conn[c].phase # "closed" => now <= lastOn + Linger
=============================================================================
