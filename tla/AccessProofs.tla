---------------------------- MODULE AccessProofs ----------------------------
(***************************************************************************)
(* Access, for every set of users, rooms and connections and all durations.*)
(*                                                                         *)
(* The properties hold because each link of the chain is dated: a request  *)
(* is no older than RequestTime, a token expires TokenTTL after it was     *)
(* issued, a connection or a room of one begins while a token is valid,    *)
(* and it is over ConnTimeout and CloseGrace later.  Each link is therefore*)
(* compared with the last second in which it was allowed, and these        *)
(* seconds only grow.                                                      *)
(***************************************************************************)
EXTENDS Access, TLAPS

\* What is possible now was possible in this second, and none is in the future.
HistoryInv ==
  /\ lastOn <= now /\ (PluginOn => lastOn = now)
  /\ \A p \in Pairs : lastMayEdit[p] <= now /\ (p \in mayEdit => lastMayEdit[p] = now)

\* A request is answered in time; it was loaded while the plugin was on and
\* checked while the user could edit.
RequestsInv ==
  \A u \in Users : request[u].phase # "none" =>
    /\ request[u].since <= now /\ now <= request[u].since + RequestTime
    /\ request[u].since <= lastOn
    /\ request[u].phase = "checked" =>
         request[u].since <= lastMayEdit[<<u, request[u].room>>]

\* A token expires a bounded time after it could last be had.
TokensInv ==
  \A t \in tokens :
    /\ t.exp <= lastOn + RequestTime + TokenTTL
    /\ t.exp <= lastMayEdit[<<t.user, t.room>>] + RequestTime + TokenTTL

\* A second by which connection c has closed.
Deadline(c) ==
  IF conn[c].phase = "open" THEN conn[c].since + ConnTimeout + CloseGrace
  ELSE conn[c].since + CloseGrace

\* A connection keeps to its timers, and to the tokens it came in with.
ConnectionsInv ==
  \A c \in Conns : conn[c].phase # "closed" =>
    /\ conn[c].since <= now
    /\ conn[c].phase = "open" => now <= conn[c].since + ConnTimeout
    /\ conn[c].phase = "closing" => now <= conn[c].since + CloseGrace
    /\ Deadline(c) <= lastOn + Linger
    /\ \A r \in conn[c].rooms : Deadline(c) <= lastMayEdit[<<conn[c].user, r>>] + Linger

IInv == TypeOK /\ HistoryInv /\ RequestsInv /\ TokensInv /\ ConnectionsInv

USE DurationsAssumption

-----------------------------------------------------------------------------
\* The history grows.
Grows ==
  /\ lastOn' \in Nat /\ lastMayEdit' \in [Pairs -> Nat]
  /\ lastOn <= lastOn'
  /\ \A p \in Pairs : lastMayEdit[p] <= lastMayEdit'[p]

LEMMA RememberGrows ==
  ASSUME TypeOK, HistoryInv, Remember, now' \in Nat, now <= now'
  PROVE  Grows /\ HistoryInv'
<1>1. lastOn' \in Nat /\ lastOn <= lastOn' /\ lastOn' <= now' /\ (PluginOn' => lastOn' = now')
  BY DEF TypeOK, HistoryInv, Remember
<1>2. lastMayEdit' \in [Pairs -> Nat]
  BY DEF TypeOK, Remember
<1>3. ASSUME NEW p \in Pairs
      PROVE  /\ lastMayEdit[p] <= lastMayEdit'[p] /\ lastMayEdit'[p] <= now'
             /\ p \in mayEdit' => lastMayEdit'[p] = now'
  BY DEF TypeOK, HistoryInv, Remember
<1> QED
  BY <1>1, <1>2, <1>3 DEF Grows, HistoryInv

\* What a growing history allowed it goes on to allow.
LEMMA GrowthKeepsInv ==
  ASSUME TypeOK, RequestsInv, TokensInv, ConnectionsInv, Grows,
         UNCHANGED <<now, request, tokens, conn>>
  PROVE  RequestsInv' /\ TokensInv' /\ ConnectionsInv'
<1>1. RequestsInv'
  <2> SUFFICES ASSUME NEW u \in Users, request[u].phase # "none"
               PROVE  /\ request[u].since <= now /\ now <= request[u].since + RequestTime
                      /\ request[u].since <= lastOn'
                      /\ request[u].phase = "checked" =>
                           request[u].since <= lastMayEdit'[<<u, request[u].room>>]
    BY DEF RequestsInv
  <2>1. request[u].room \in Rooms /\ request[u].since \in Nat
    BY DEF TypeOK, Requests, NoRequest
  <2>2. <<u, request[u].room>> \in Pairs
    BY <2>1 DEF Pairs
  <2> QED
    BY <2>1, <2>2 DEF TypeOK, RequestsInv, Grows
<1>2. TokensInv'
  <2> SUFFICES ASSUME NEW t \in tokens
               PROVE  /\ t.exp <= lastOn' + RequestTime + TokenTTL
                      /\ t.exp <= lastMayEdit'[<<t.user, t.room>>] + RequestTime + TokenTTL
    BY DEF TokensInv
  <2>1. t.exp \in Nat /\ <<t.user, t.room>> \in Pairs
    BY DEF TypeOK, Tokens, Pairs
  <2> QED
    BY <2>1 DEF TypeOK, TokensInv, Grows
<1>3. ConnectionsInv'
  <2> SUFFICES ASSUME NEW c \in Conns, conn[c].phase # "closed"
               PROVE  /\ Deadline(c) <= lastOn' + Linger
                      /\ \A r \in conn[c].rooms :
                           Deadline(c) <= lastMayEdit'[<<conn[c].user, r>>] + Linger
    BY DEF ConnectionsInv, Deadline
  <2>1. conn[c].since \in Nat /\ \A r \in conn[c].rooms : <<conn[c].user, r>> \in Pairs
    BY DEF TypeOK, Connections, Closed, Pairs
  <2>2. Deadline(c) \in Nat /\ Linger \in Nat
    BY <2>1 DEF Deadline, Linger
  <2>3. Deadline(c) <= lastOn + Linger
    BY DEF ConnectionsInv
  <2>4. \A r \in conn[c].rooms : Deadline(c) <= lastMayEdit[<<conn[c].user, r>>] + Linger
    BY DEF ConnectionsInv
  <2>5. Deadline(c) <= lastOn' + Linger
    BY <2>2, <2>3 DEF TypeOK, Grows
  <2>6. ASSUME NEW r \in conn[c].rooms
        PROVE  Deadline(c) <= lastMayEdit'[<<conn[c].user, r>>] + Linger
    BY <2>1, <2>2, <2>4 DEF TypeOK, Grows
  <2> QED
    BY <2>5, <2>6
<1> QED
  BY <1>1, <1>2, <1>3

-----------------------------------------------------------------------------
LEMMA InitInv == Init => IInv
<1> SUFFICES ASSUME Init PROVE IInv
  OBVIOUS
<1>1. TypeOK
  BY DEF Init, TypeOK, Pairs, Requests, NoRequest, Connections, Closed
<1>2. HistoryInv
  BY DEF Init, HistoryInv
<1>3. RequestsInv /\ TokensInv /\ ConnectionsInv
  BY DEF Init, RequestsInv, TokensInv, ConnectionsInv, NoRequest, Closed
<1> QED
  BY <1>1, <1>2, <1>3 DEF IInv

\* A change of the policy: the history grows, and the rest stays.
LEMMA PolicyInv ==
  ASSUME IInv, Policy
  PROVE  IInv'
<1>1. /\ UNCHANGED <<now, request, tokens, conn>> /\ Remember /\ changes' \in Nat
      /\ setting' \in {"absent", "true", "false"} /\ compatible' \in BOOLEAN
      /\ mayEdit' \subseteq Pairs
  <2>1. CASE \E value \in StoredValues : SaveSettings(value)
    BY <2>1 DEF IInv, TypeOK, SaveSettings, Sanitize, Change
  <2>2. CASE EnvironmentChanges
    BY <2>2 DEF IInv, TypeOK, EnvironmentChanges, Change
  <2>3. CASE \E p \in Pairs : PermissionChanges(p)
    BY <2>3 DEF IInv, TypeOK, PermissionChanges, Change
  <2> QED
    BY <2>1, <2>2, <2>3 DEF Policy
<1>2. now' \in Nat /\ now <= now'
  BY <1>1 DEF IInv, TypeOK
<1>3. Grows /\ HistoryInv'
  BY <1>1, <1>2, RememberGrows DEF IInv
<1>4. TypeOK'
  BY <1>1, <1>3 DEF IInv, TypeOK, Grows
<1> QED
  BY <1>1, <1>3, <1>4, GrowthKeepsInv DEF IInv

-----------------------------------------------------------------------------
\* A request is loaded, checked or answered.
LEMMA WordPressInv ==
  ASSUME IInv, WordPress
  PROVE  IInv'
<1> USE DEF IInv
<1>1. PICK u \in Users : (\E r \in Rooms : RequestLoads(u, r)) \/ RequestIsChecked(u) \/ TokenIssued(u)
  BY DEF WordPress
<1>2. UNCHANGED <<now, policyVars, conn, historyVars>>
  BY <1>1 DEF RequestLoads, RequestIsChecked, TokenIssued
<1>3. HistoryInv' /\ ConnectionsInv'
  BY <1>2 DEF HistoryInv, ConnectionsInv, Deadline, PluginOn, policyVars, historyVars
<1>4. request' \in [Users -> Requests] /\ RequestsInv'
  <2>1. CASE \E r \in Rooms : RequestLoads(u, r)
    <3>1. PICK r \in Rooms : RequestLoads(u, r)
      BY <2>1
    <3>2. request' = [request EXCEPT ![u] = [phase |-> "loaded", room |-> r, since |-> now]]
      BY <3>1 DEF RequestLoads
    <3>3. lastOn = now
      BY <3>1 DEF RequestLoads, HistoryInv
    <3>4. request' \in [Users -> Requests]
      BY <3>2 DEF TypeOK, Requests
    <3> QED
      BY <3>2, <3>3, <3>4, <1>2 DEF TypeOK, RequestsInv, historyVars
  <2>2. CASE RequestIsChecked(u)
    <3>1. request[u].phase = "loaded" /\ request[u].room \in Rooms /\ request[u].since \in Nat
          /\ request[u] \in [phase : {"loaded", "checked"}, room : Rooms, since : Nat]
      BY <2>2 DEF RequestIsChecked, TypeOK, Requests, NoRequest
    <3>2. CASE <<u, request[u].room>> \in mayEdit
      <4>1. request' = [request EXCEPT ![u] = [@ EXCEPT !.phase = "checked"]]
        BY <2>2, <3>2 DEF RequestIsChecked
      <4>2. lastMayEdit[<<u, request[u].room>>] = now
        BY <3>1, <3>2 DEF HistoryInv, Pairs
      <4>3. request' \in [Users -> Requests]
        BY <4>1, <3>1 DEF TypeOK, Requests
      <4>4. ASSUME NEW v \in Users, request'[v].phase # "none"
            PROVE  /\ request'[v].since <= now /\ now <= request'[v].since + RequestTime
                   /\ request'[v].since <= lastOn
                   /\ request'[v].phase = "checked" =>
                        request'[v].since <= lastMayEdit[<<v, request'[v].room>>]
        <5>1. CASE v = u
          <6>1. request'[u].since = request[u].since /\ request'[u].room = request[u].room
            BY <4>1, <3>1 DEF TypeOK
          <6> QED
            BY <6>1, <5>1, <4>2, <3>1 DEF RequestsInv
        <5>2. CASE v # u
          BY <5>2, <4>1, <4>4 DEF RequestsInv, TypeOK
        <5> QED
          BY <5>1, <5>2
      <4> QED
        BY <4>3, <4>4, <1>2 DEF RequestsInv, historyVars
    <3>3. CASE <<u, request[u].room>> \notin mayEdit
      <4>1. request' = [request EXCEPT ![u] = NoRequest]
        BY <2>2, <3>3 DEF RequestIsChecked
      <4> QED
        BY <4>1, <1>2 DEF TypeOK, Requests, NoRequest, RequestsInv, historyVars
    <3> QED
      BY <3>2, <3>3
  <2>3. CASE TokenIssued(u)
    <3>1. request' = [request EXCEPT ![u] = NoRequest]
      BY <2>3 DEF TokenIssued
    <3> QED
      BY <3>1, <1>2 DEF TypeOK, Requests, NoRequest, RequestsInv, historyVars
  <2> QED
    BY <1>1, <2>1, <2>2, <2>3
<1>5. tokens' \subseteq Tokens /\ TokensInv'
  <2>1. CASE TokenIssued(u)
    <3> DEFINE t == [user |-> u, room |-> request[u].room, exp |-> now + TokenTTL]
    <3>1. tokens' = tokens \cup {t} /\ request[u].phase = "checked"
      BY <2>1 DEF TokenIssued
    <3>2. request[u].room \in Rooms /\ request[u].since \in Nat
      BY <3>1 DEF TypeOK, Requests, NoRequest
    <3>3. <<u, request[u].room>> \in Pairs /\ t \in Tokens
      BY <3>2 DEF Pairs, Tokens, TypeOK
    <3>4. /\ request[u].since <= now /\ now <= request[u].since + RequestTime
          /\ request[u].since <= lastOn /\ request[u].since <= lastMayEdit[<<u, request[u].room>>]
      BY <3>1 DEF RequestsInv
    <3>5. /\ now + TokenTTL <= lastOn + RequestTime + TokenTTL
          /\ now + TokenTTL <= lastMayEdit[<<u, request[u].room>>] + RequestTime + TokenTTL
      BY <3>2, <3>3, <3>4 DEF TypeOK
    <3> QED
      BY <3>1, <3>3, <3>5, <1>2 DEF TypeOK, TokensInv, historyVars
  <2>2. CASE ~TokenIssued(u)
    BY <2>2, <1>1, <1>2 DEF RequestLoads, RequestIsChecked, TypeOK, TokensInv, historyVars
  <2> QED
    BY <2>1, <2>2
<1>6. TypeOK'
  BY <1>2, <1>4, <1>5 DEF TypeOK, policyVars, historyVars
<1> QED
  BY <1>3, <1>4, <1>5, <1>6

-----------------------------------------------------------------------------
\* A connection begins: a valid token dates it.
LEMMA ConnectionBegins ==
  ASSUME IInv, NEW c \in Conns, NEW t \in tokens, Valid(t), NEW next \in Connections,
         next.phase = "open", next.user = t.user, next.since = now, next.rooms \subseteq {t.room},
         conn' = [conn EXCEPT ![c] = next],
         UNCHANGED <<now, historyVars>>
  PROVE  conn' \in [Conns -> Connections] /\ ConnectionsInv'
<1> USE DEF IInv
<1>1. t.user \in Users /\ t.room \in Rooms /\ t.exp \in Nat
  BY DEF TypeOK, Tokens
<1>2. conn' \in [Conns -> Connections]
  BY DEF TypeOK
<1>3. /\ now + ConnTimeout + CloseGrace <= lastOn + Linger
      /\ now + ConnTimeout + CloseGrace <= lastMayEdit[<<t.user, t.room>>] + Linger
  <2>1. <<t.user, t.room>> \in Pairs
    BY <1>1 DEF Pairs
  <2>2. /\ t.exp <= lastOn + RequestTime + TokenTTL
        /\ t.exp <= lastMayEdit[<<t.user, t.room>>] + RequestTime + TokenTTL
    BY DEF TokensInv
  <2> QED
    BY <1>1, <2>1, <2>2 DEF TypeOK, Valid, Linger
<1>4. ASSUME NEW d \in Conns, conn'[d].phase # "closed"
      PROVE  /\ conn'[d].since <= now
             /\ conn'[d].phase = "open" => now <= conn'[d].since + ConnTimeout
             /\ conn'[d].phase = "closing" => now <= conn'[d].since + CloseGrace
             /\ Deadline(d)' <= lastOn + Linger
             /\ \A r \in conn'[d].rooms : Deadline(d)' <= lastMayEdit[<<conn'[d].user, r>>] + Linger
  <2>1. CASE d = c
    <3>1. conn'[d] = next
      BY <2>1 DEF TypeOK
    <3>2. Deadline(d)' = now + ConnTimeout + CloseGrace
      BY <3>1 DEF Deadline
    <3> QED
      BY <1>3, <3>1, <3>2 DEF TypeOK
  <2>2. CASE d # c
    <3>1. conn'[d] = conn[d]
      BY <2>2 DEF TypeOK
    <3> QED
      BY <1>4, <3>1 DEF ConnectionsInv, Deadline
  <2> QED
    BY <2>1, <2>2
<1> QED
  BY <1>2, <1>4 DEF ConnectionsInv, historyVars

\* A connection changes, or ends, and its deadline does not recede.
LEMMA ConnectionContinues ==
  ASSUME IInv, NEW c \in Conns, NEW next \in Connections, conn' = [conn EXCEPT ![c] = next],
         UNCHANGED <<now, historyVars>>,
         next.phase # "closed" =>
           /\ conn[c].phase # "closed" /\ next.user = conn[c].user
           /\ next.since <= now
           /\ next.phase = "open" => now <= next.since + ConnTimeout
           /\ next.phase = "closing" => now <= next.since + CloseGrace
           /\ Deadline(c)' <= Deadline(c)
           /\ \A r \in next.rooms :
                r \in conn[c].rooms \/ Deadline(c) <= lastMayEdit[<<conn[c].user, r>>] + Linger
  PROVE  conn' \in [Conns -> Connections] /\ ConnectionsInv'
<1> USE DEF IInv
<1>1. conn' \in [Conns -> Connections]
  BY DEF TypeOK
<1>2. ASSUME NEW d \in Conns, conn'[d].phase # "closed"
      PROVE  /\ conn'[d].since <= now
             /\ conn'[d].phase = "open" => now <= conn'[d].since + ConnTimeout
             /\ conn'[d].phase = "closing" => now <= conn'[d].since + CloseGrace
             /\ Deadline(d)' <= lastOn + Linger
             /\ \A r \in conn'[d].rooms : Deadline(d)' <= lastMayEdit[<<conn'[d].user, r>>] + Linger
  <2>1. CASE d = c
    <3>1. conn'[d] = next /\ next.phase # "closed" /\ conn[c].phase # "closed"
      BY <1>2, <2>1 DEF TypeOK
    <3>2. /\ Deadline(c) <= lastOn + Linger
          /\ \A r \in conn[c].rooms : Deadline(c) <= lastMayEdit[<<conn[c].user, r>>] + Linger
      BY <3>1 DEF ConnectionsInv
    <3>3. /\ next.since \in Nat /\ conn[c].since \in Nat /\ next.rooms \subseteq Rooms
          /\ conn[c].user \in Users
      BY <3>1 DEF TypeOK, Connections, Closed
    <3>4. Deadline(c) \in Nat /\ Deadline(c)' \in Nat /\ Linger \in Nat
      BY <3>1, <3>3, <2>1 DEF Deadline, Linger
    <3>5. Deadline(d)' <= lastOn + Linger
      BY <2>1, <3>1, <3>2, <3>4 DEF TypeOK
    <3>6. ASSUME NEW r \in conn'[d].rooms
          PROVE  Deadline(d)' <= lastMayEdit[<<conn'[d].user, r>>] + Linger
      <4>1. Deadline(c) <= lastMayEdit[<<conn[c].user, r>>] + Linger
        BY <3>1, <3>2
      <4>2. <<conn[c].user, r>> \in Pairs
        BY <3>1, <3>3 DEF Pairs
      <4> QED
        BY <2>1, <3>1, <3>4, <4>1, <4>2 DEF TypeOK
    <3> QED
      BY <3>1, <3>5, <3>6
  <2>2. CASE d # c
    <3>1. conn'[d] = conn[d]
      BY <2>2 DEF TypeOK
    <3> QED
      BY <1>2, <3>1 DEF ConnectionsInv, Deadline
  <2> QED
    BY <2>1, <2>2
<1> QED
  BY <1>1, <1>2 DEF ConnectionsInv, historyVars

LEMMA ServerInv ==
  ASSUME IInv, Server
  PROVE  IInv'
<1> USE DEF IInv
<1>1. PICK c \in Conns :
        \/ \E t \in tokens : \/ UpgradeLegacy(c, t) \/ UpgradeMultiplex(c, t)
                             \/ \E r \in Rooms : Subscribe(c, t, r)
        \/ \E r \in Rooms : LeaveRoom(c, r)
        \/ TimesOut(c) \/ ConnCloses(c)
  BY DEF Server
<1>2. UNCHANGED <<now, policyVars, request, tokens, historyVars>>
  BY <1>1 DEF UpgradeLegacy, UpgradeMultiplex, Subscribe, LeaveRoom, TimesOut, ConnCloses
<1>3. conn' \in [Conns -> Connections] /\ ConnectionsInv'
  <2>1. ASSUME NEW t \in tokens, UpgradeLegacy(c, t)
        PROVE  conn' \in [Conns -> Connections] /\ ConnectionsInv'
    <3> DEFINE next == [phase |-> "open", user |-> t.user, multiplex |-> FALSE,
                        rooms |-> {t.room}, since |-> now]
    <3>1. Valid(t) /\ conn' = [conn EXCEPT ![c] = next]
      BY <2>1 DEF UpgradeLegacy
    <3>2. next \in Connections
      BY DEF TypeOK, Tokens, Connections
    <3>3. next.phase = "open" /\ next.user = t.user /\ next.since = now /\ next.rooms \subseteq {t.room}
      OBVIOUS
    <3> HIDE DEF next
    <3> QED
      BY <3>1, <3>2, <3>3, <1>2, ConnectionBegins
  <2>2. ASSUME NEW t \in tokens, UpgradeMultiplex(c, t)
        PROVE  conn' \in [Conns -> Connections] /\ ConnectionsInv'
    <3> DEFINE next == [phase |-> "open", user |-> t.user, multiplex |-> TRUE,
                        rooms |-> {}, since |-> now]
    <3>1. Valid(t) /\ conn' = [conn EXCEPT ![c] = next]
      BY <2>2 DEF UpgradeMultiplex
    <3>2. next \in Connections
      BY DEF TypeOK, Tokens, Connections
    <3>3. next.phase = "open" /\ next.user = t.user /\ next.since = now /\ next.rooms \subseteq {t.room}
      OBVIOUS
    <3> HIDE DEF next
    <3> QED
      BY <3>1, <3>2, <3>3, <1>2, ConnectionBegins
  <2>3. ASSUME conn[c].phase # "closed"
        PROVE  /\ conn[c] \in [phase : {"open", "closing"}, user : Users, multiplex : BOOLEAN,
                                rooms : SUBSET Rooms, since : Nat]
               /\ conn[c].since <= now
               /\ conn[c].phase = "open" => now <= conn[c].since + ConnTimeout
    BY <2>3 DEF TypeOK, Connections, Closed, ConnectionsInv
  <2>4. ASSUME NEW t \in tokens, NEW r \in Rooms, Subscribe(c, t, r)
        PROVE  conn' \in [Conns -> Connections] /\ ConnectionsInv'
    <3> DEFINE next == [conn[c] EXCEPT !.rooms = @ \cup {r}]
    <3>1. conn[c].phase = "open" /\ conn' = [conn EXCEPT ![c] = next]
      BY <2>4 DEF Subscribe, TypeOK
    <3>2. next \in Connections
      BY <2>3, <3>1 DEF Connections
    <3>3. /\ next.phase = "open" /\ next.user = conn[c].user /\ next.since = conn[c].since
          /\ next.rooms = conn[c].rooms \cup {r}
      BY <2>3, <3>1
    <3>4. Deadline(c)' = Deadline(c) /\ Deadline(c) = conn[c].since + ConnTimeout + CloseGrace
      BY <3>1, <3>3 DEF Deadline, TypeOK
    <3>5. Deadline(c) <= lastMayEdit[<<conn[c].user, r>>] + Linger
      <4>1. t.exp <= lastMayEdit[<<conn[c].user, r>>] + RequestTime + TokenTTL /\ now < t.exp
        BY <2>4 DEF Subscribe, Granted, Valid, TokensInv
      <4>2. t.exp \in Nat /\ conn[c].user \in Users /\ <<conn[c].user, r>> \in Pairs
        BY <2>3, <3>1 DEF TypeOK, Tokens, Pairs
      <4> QED
        BY <2>3, <3>1, <3>4, <4>1, <4>2 DEF TypeOK, Linger
    <3>6. Deadline(c) \in Nat
      BY <2>3, <3>1, <3>4
    <3> HIDE DEF next
    <3>7. /\ conn[c].phase # "closed" /\ next.user = conn[c].user
          /\ next.since <= now
          /\ next.phase = "open" => now <= next.since + ConnTimeout
          /\ next.phase = "closing" => now <= next.since + CloseGrace
          /\ Deadline(c)' <= Deadline(c)
          /\ \A r1 \in next.rooms :
               r1 \in conn[c].rooms \/ Deadline(c) <= lastMayEdit[<<conn[c].user, r1>>] + Linger
      BY <2>3, <3>1, <3>3, <3>4, <3>5, <3>6
    <3> QED
      BY <1>2, <3>1, <3>2, <3>7, ConnectionContinues
  <2>5. ASSUME NEW r \in Rooms, LeaveRoom(c, r)
        PROVE  conn' \in [Conns -> Connections] /\ ConnectionsInv'
    <3> DEFINE next == [conn[c] EXCEPT !.rooms = @ \ {r}]
    <3>1. conn[c].phase = "open" /\ conn' = [conn EXCEPT ![c] = next]
      BY <2>5 DEF LeaveRoom, TypeOK
    <3>2. next \in Connections
      BY <2>3, <3>1 DEF Connections
    <3>3. /\ next.phase = "open" /\ next.user = conn[c].user /\ next.since = conn[c].since
          /\ next.rooms = conn[c].rooms \ {r}
      BY <2>3, <3>1
    <3>4. Deadline(c)' = Deadline(c) /\ Deadline(c) \in Nat
      BY <2>3, <3>1, <3>3 DEF Deadline, TypeOK
    <3> HIDE DEF next
    <3>5. /\ conn[c].phase # "closed" /\ next.user = conn[c].user
          /\ next.since <= now
          /\ next.phase = "open" => now <= next.since + ConnTimeout
          /\ next.phase = "closing" => now <= next.since + CloseGrace
          /\ Deadline(c)' <= Deadline(c)
          /\ \A r1 \in next.rooms :
               r1 \in conn[c].rooms \/ Deadline(c) <= lastMayEdit[<<conn[c].user, r1>>] + Linger
      BY <2>3, <3>1, <3>3, <3>4
    <3> QED
      BY <1>2, <3>1, <3>2, <3>5, ConnectionContinues
  <2>6. ASSUME TimesOut(c)
        PROVE  conn' \in [Conns -> Connections] /\ ConnectionsInv'
    <3> DEFINE next == [conn[c] EXCEPT !.phase = "closing", !.since = now]
    <3>1. conn[c].phase = "open" /\ conn' = [conn EXCEPT ![c] = next]
      BY <2>6 DEF TimesOut, TypeOK
    <3>2. next \in Connections
      BY <2>3, <3>1 DEF Connections, TypeOK
    <3>3. /\ next.phase = "closing" /\ next.user = conn[c].user /\ next.since = now
          /\ next.rooms = conn[c].rooms
      BY <2>3, <3>1
    <3>4. Deadline(c)' = now + CloseGrace /\ Deadline(c) = conn[c].since + ConnTimeout + CloseGrace
      BY <1>2, <3>1, <3>3 DEF Deadline, TypeOK
    <3>5. Deadline(c)' <= Deadline(c) /\ now <= now + CloseGrace /\ now <= now
      BY <2>3, <3>1, <3>4 DEF TypeOK
    <3> HIDE DEF next
    <3> QED
      BY <1>2, <3>1, <3>2, <3>3, <3>5, ConnectionContinues
  <2>7. ASSUME ConnCloses(c)
        PROVE  conn' \in [Conns -> Connections] /\ ConnectionsInv'
    <3>1. Closed \in Connections /\ Closed.phase = "closed"
      BY DEF Connections, Closed
    <3> QED
      BY <2>7, <1>2, <3>1, ConnectionContinues DEF ConnCloses
  <2> QED
    BY <1>1, <2>1, <2>2, <2>4, <2>5, <2>6, <2>7
<1>4. HistoryInv' /\ RequestsInv' /\ TokensInv'
  BY <1>2 DEF HistoryInv, RequestsInv, TokensInv, PluginOn, policyVars, historyVars
<1>5. TypeOK'
  BY <1>2, <1>3 DEF TypeOK, policyVars, historyVars
<1> QED
  BY <1>3, <1>4, <1>5

\* A second passes: nothing is overdue, and what was allowed stays so.
LEMMA TickInv ==
  ASSUME IInv, Tick
  PROVE  IInv'
<1> USE DEF IInv
<1>1. /\ now' = now + 1 /\ now' \in Nat /\ now <= now'
      /\ UNCHANGED <<policyVars, request, tokens, conn>> /\ Remember
  BY DEF Tick, TypeOK
<1>2. Grows /\ HistoryInv'
  BY <1>1, RememberGrows
<1>3. TypeOK'
  BY <1>1, <1>2 DEF TypeOK, Grows, policyVars
<1>4. RequestsInv'
  <2> SUFFICES ASSUME NEW u \in Users, request[u].phase # "none"
               PROVE  /\ request[u].since <= now' /\ now' <= request[u].since + RequestTime
                      /\ request[u].since <= lastOn'
                      /\ request[u].phase = "checked" =>
                           request[u].since <= lastMayEdit'[<<u, request[u].room>>]
    BY <1>1 DEF RequestsInv
  <2>1. request[u].room \in Rooms /\ request[u].since \in Nat
    BY DEF TypeOK, Requests, NoRequest
  <2>2. <<u, request[u].room>> \in Pairs
    BY <2>1 DEF Pairs
  <2>3. now < request[u].since + RequestTime
    BY DEF Tick
  <2>4. request[u].since <= now' /\ now' <= request[u].since + RequestTime
    <3>1. request[u].since <= now
      BY DEF RequestsInv
    <3> QED
      BY <1>1, <2>1, <2>3, <3>1 DEF TypeOK
  <2> QED
    BY <1>2, <2>1, <2>2, <2>4 DEF TypeOK, RequestsInv, Grows
<1>5. TokensInv'
  <2> SUFFICES ASSUME NEW t \in tokens
               PROVE  /\ t.exp <= lastOn' + RequestTime + TokenTTL
                      /\ t.exp <= lastMayEdit'[<<t.user, t.room>>] + RequestTime + TokenTTL
    BY <1>1 DEF TokensInv
  <2>1. t.exp \in Nat /\ <<t.user, t.room>> \in Pairs
    BY DEF TypeOK, Tokens, Pairs
  <2> QED
    BY <1>2, <2>1 DEF TypeOK, TokensInv, Grows
<1>6. ConnectionsInv'
  <2> SUFFICES ASSUME NEW c \in Conns, conn[c].phase # "closed"
               PROVE  /\ conn[c].since <= now'
                      /\ conn[c].phase = "open" => now' <= conn[c].since + ConnTimeout
                      /\ conn[c].phase = "closing" => now' <= conn[c].since + CloseGrace
                      /\ Deadline(c) <= lastOn' + Linger
                      /\ \A r \in conn[c].rooms :
                           Deadline(c) <= lastMayEdit'[<<conn[c].user, r>>] + Linger
    BY <1>1 DEF ConnectionsInv, Deadline
  <2>1. conn[c].since \in Nat /\ \A r \in conn[c].rooms : <<conn[c].user, r>> \in Pairs
    BY DEF TypeOK, Connections, Closed, Pairs
  <2>2. Deadline(c) \in Nat /\ Linger \in Nat
    BY <2>1 DEF Deadline, Linger
  <2>3. /\ Deadline(c) <= lastOn + Linger
        /\ \A r \in conn[c].rooms : Deadline(c) <= lastMayEdit[<<conn[c].user, r>>] + Linger
    BY DEF ConnectionsInv
  <2>4. ~Overdue(c)
    BY DEF Tick
  <2>5. /\ conn[c].since <= now'
        /\ conn[c].phase = "open" => now' <= conn[c].since + ConnTimeout
        /\ conn[c].phase = "closing" => now' <= conn[c].since + CloseGrace
    BY <1>1, <2>1, <2>4 DEF TypeOK, ConnectionsInv, Overdue
  <2>6. Deadline(c) <= lastOn' + Linger
    BY <1>2, <2>2, <2>3 DEF TypeOK, Grows
  <2>7. ASSUME NEW r \in conn[c].rooms
        PROVE  Deadline(c) <= lastMayEdit'[<<conn[c].user, r>>] + Linger
    BY <1>2, <2>1, <2>2, <2>3 DEF TypeOK, Grows
  <2> QED
    BY <2>5, <2>6, <2>7
<1> QED
  BY <1>2, <1>3, <1>4, <1>5, <1>6

-----------------------------------------------------------------------------
\* The chain of dates is kept by every step.
THEOREM Dated == Spec => []IInv
<1>1. Init => IInv
  BY InitInv
<1>2. IInv /\ [Next]_vars => IInv'
  <2> SUFFICES ASSUME IInv, [Next]_vars PROVE IInv'
    OBVIOUS
  <2>1. CASE Policy
    BY <2>1, PolicyInv
  <2>2. CASE WordPress
    BY <2>2, WordPressInv
  <2>3. CASE Server
    BY <2>3, ServerInv
  <2>4. CASE Tick
    BY <2>4, TickInv
  <2>5. CASE UNCHANGED vars
    BY <2>5 DEF vars, policyVars, historyVars, IInv, TypeOK, HistoryInv, PluginOn, RequestsInv,
                TokensInv, ConnectionsInv, Deadline
  <2> QED
    BY <2>1, <2>2, <2>3, <2>4, <2>5 DEF Next
<1> QED
  BY <1>1, <1>2, PTL DEF Spec

\* Before its deadline is past a connection has closed.
LEMMA NowIsBeforeDeadline ==
  ASSUME IInv, NEW c \in Conns, conn[c].phase # "closed"
  PROVE  /\ now <= lastOn + Linger
         /\ \A r \in conn[c].rooms : now <= lastMayEdit[<<conn[c].user, r>>] + Linger
<1> USE DEF IInv
<1>1. conn[c].phase \in {"open", "closing"} /\ conn[c].since \in Nat
      /\ \A r \in conn[c].rooms : <<conn[c].user, r>> \in Pairs
  BY DEF TypeOK, Connections, Closed, Pairs
<1>2. now <= Deadline(c) /\ Deadline(c) \in Nat /\ Linger \in Nat
  BY <1>1 DEF TypeOK, ConnectionsInv, Deadline, Linger
<1>3. Deadline(c) <= lastOn + Linger
  BY DEF ConnectionsInv
<1>4. \A r \in conn[c].rooms : Deadline(c) <= lastMayEdit[<<conn[c].user, r>>] + Linger
  BY DEF ConnectionsInv
<1>5. now <= lastOn + Linger
  BY <1>2, <1>3 DEF TypeOK
<1>6. ASSUME NEW r \in conn[c].rooms PROVE now <= lastMayEdit[<<conn[c].user, r>>] + Linger
  BY <1>1, <1>2, <1>4 DEF TypeOK
<1> QED
  BY <1>5, <1>6

\* A revoked permission has no effect after Linger, whatever was issued, joined
\* or reconnected before.
THEOREM RevocationHolds == Spec => []RevocationReachesRooms
<1>1. IInv => RevocationReachesRooms
  BY NowIsBeforeDeadline DEF RevocationReachesRooms
<1> QED
  BY <1>1, Dated, PTL

\* A site that is switched off serves nobody after Linger.
THEOREM SwitchHolds == Spec => []SwitchReachesConnections
<1>1. IInv => SwitchReachesConnections
  BY NowIsBeforeDeadline DEF SwitchReachesConnections
<1> QED
  BY <1>1, Dated, PTL

\* The state of the model keeps its types.
THEOREM TypeCorrect == Spec => []TypeOK
<1>1. IInv => TypeOK
  BY DEF IInv
<1> QED
  BY <1>1, Dated, PTL
=============================================================================
