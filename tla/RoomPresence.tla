---------------------------- MODULE RoomPresence ----------------------------
(***************************************************************************)
(* Who edits a post right now, as the heartbeats of the editors report it. *)
(*                                                                         *)
(* Each report is a row of post meta, "user:second".  A heartbeat and a    *)
(* query are PHP requests: each is cut at its calls to the database, and   *)
(* any number of them run side by side.  The meta functions of WordPress   *)
(* are external: a table read, an UPDATE of the rows with a given value, a *)
(* SELECT of the rows with a given value followed by a DELETE of those     *)
(* rows, and an INSERT.                                                    *)
(***************************************************************************)
EXTENDS Integers, Sequences, FiniteSets

CONSTANTS
  Tabs,        \* editor tabs with the room of this post
  UserOf,      \* the user of each tab
  Queries,     \* requests that call get_user_ids
  TTL,         \* seconds a row counts
  MaxTime,     \* bound on the clock
  Beats        \* Beats[p]: bound on the requests of a tab or a query

Users == {UserOf[t] : t \in Tabs}
Requests == Tabs \cup Queries

ASSUME TTLAssumption == TTL \in Nat /\ TTL > 0
ASSUME RequestsAssumption ==
  Tabs \cap Queries = {} /\ IsFiniteSet(Requests) /\ MaxTime \in Nat
ASSUME BeatsAssumption == Beats \in [Requests -> Nat]

VARIABLES
  now,        \* time()
  rows,       \* post meta by meta_id: a row is [user, at], None when deleted
  pc,         \* where each request is
  started,    \* time() as the request read it first
  todo,       \* the values the request has still to look at
  added,      \* stamp: $added
  chosen,     \* meta_ids a DELETE is about to remove
  answer,     \* what get_user_ids is about to return
  beats,      \* requests so far
  heard,      \* history: the last second a request of the user started in
  reported,   \* history: the second of the user's last finished report
  lapsed,     \* history: users without a finished report for TTL seconds, once
  alone       \* history: no other request has run beside this one so far

requestVars == <<pc, started, todo, added, chosen, answer, beats>>
historyVars == <<heard, reported, lapsed, alone>>
vars == <<now, rows, requestVars, historyVars>>

None == [user |-> "none", at |-> -1]
Never == -1

Row(u, t) == [user |-> u, at |-> t]
MetaIds == DOMAIN rows
Live == {i \in MetaIds : rows[i] # None}
WithValue(v) == {i \in Live : rows[i] = v}
Value(t) == Row(UserOf[t], started[t])

Init ==
  /\ now = 0 /\ rows = <<>>
  /\ pc = [p \in Requests |-> "idle"]
  /\ started = [p \in Requests |-> 0]
  /\ todo = [p \in Requests |-> <<>>]
  /\ added = [p \in Requests |-> FALSE]
  /\ chosen = [p \in Requests |-> {}]
  /\ answer = [q \in Queries |-> {}]
  /\ beats = [p \in Requests |-> 0]
  /\ heard = [u \in Users |-> Never]
  /\ reported = [u \in Users |-> Never]
  /\ lapsed = {}
  /\ alone = [p \in Requests |-> FALSE]

-----------------------------------------------------------------------------
\* One step of request p: where it goes, and what it no longer has alone.
Goto(p, label) == pc' = [pc EXCEPT ![p] = label]

Begin(p) ==
  /\ pc[p] = "idle" /\ beats[p] < Beats[p]
  /\ beats' = [beats EXCEPT ![p] = @ + 1]
  /\ started' = [started EXCEPT ![p] = now]
  /\ Goto(p, "read")
  /\ alone' = [r \in Requests |->
                 IF r = p THEN \A s \in Requests : pc[s] = "idle"
                 ELSE FALSE]

\* The request ends, and what it knew is gone.
End(p) ==
  /\ Goto(p, "idle")
  /\ started' = [started EXCEPT ![p] = 0]
  /\ added' = [added EXCEPT ![p] = FALSE]
  /\ alone' = [alone EXCEPT ![p] = FALSE]

\* A heartbeat of tab t: addToHeartbeat names the post only while the room is
\* and record stamps a post the user may edit.
Heartbeat(t) ==
  /\ Begin(t)
  /\ heard' = [heard EXCEPT ![UserOf[t]] = now]
  /\ UNCHANGED <<now, rows, todo, added, chosen, answer, reported, lapsed>>

\* The values of some of the rows, in the order of their meta_ids.
ValuesOf(S) == [i \in 1 .. Cardinality(S) |->
  rows[CHOOSE j \in S : Cardinality({k \in S : k <= j}) = i]]

\* The user's own rows, which are all that the loop of stamp acts on.
RowsToStamp(t) == ValuesOf({i \in Live : rows[i].user = UserOf[t]})

\* stamp: get_post_meta
StampReads(t) ==
  /\ t \in Tabs /\ pc[t] = "read"
  /\ todo' = [todo EXCEPT ![t] = RowsToStamp(t)]
  /\ added' = [added EXCEPT ![t] = FALSE]
  /\ Goto(t, "loop")
  /\ UNCHANGED <<now, rows, started, chosen, answer, beats, historyVars>>

\* delete_post_meta, its SELECT: the rows that have the value now.
SelectForDelete(p, v) ==
  /\ chosen' = [chosen EXCEPT ![p] = WithValue(v)]
  /\ Goto(p, "delete")

\* A further row of the user: delete.
StampDeletesRow(t) ==
  /\ t \in Tabs /\ pc[t] = "loop" /\ todo[t] # <<>> /\ added[t]
  /\ SelectForDelete(t, Head(todo[t]))
  /\ todo' = [todo EXCEPT ![t] = Tail(@)]
  /\ UNCHANGED <<now, rows, started, added, answer, beats, historyVars>>

\* The row already has this second.
StampKeepsRow(t) ==
  /\ t \in Tabs /\ pc[t] = "loop" /\ todo[t] # <<>> /\ ~added[t]
  /\ Head(todo[t]) = Value(t)
  /\ added' = [added EXCEPT ![t] = TRUE]
  /\ todo' = [todo EXCEPT ![t] = Tail(@)]
  /\ UNCHANGED <<now, rows, pc, started, chosen, answer, beats, historyVars>>

\* update_post_meta: all rows with the old value get the new one; where the
\* post has no row of the key at all, WordPress adds one.
StampUpdatesRow(t) ==
  /\ t \in Tabs /\ pc[t] = "loop" /\ todo[t] # <<>> /\ ~added[t]
  /\ Head(todo[t]) # Value(t)
  /\ LET hit == WithValue(Head(todo[t])) IN
       /\ rows' = IF Live = {} THEN Append(rows, Value(t))
                  ELSE [i \in MetaIds |-> IF i \in hit THEN Value(t) ELSE rows[i]]
       /\ added' = [added EXCEPT ![t] = Live = {} \/ hit # {}]
  /\ todo' = [todo EXCEPT ![t] = Tail(@)]
  /\ UNCHANGED <<now, pc, started, chosen, answer, beats, historyVars>>

\* delete_post_meta, its DELETE: those meta_ids, whatever they hold by now.
DeleteRows(p) ==
  /\ pc[p] = "delete"
  /\ rows' = [i \in MetaIds |-> IF i \in chosen[p] THEN None ELSE rows[i]]
  /\ chosen' = [chosen EXCEPT ![p] = {}]
  /\ Goto(p, "loop")
  /\ UNCHANGED <<now, started, todo, added, answer, beats, historyVars>>

\* add_post_meta if no row was taken over; the report is made.
StampEnds(t) ==
  /\ t \in Tabs /\ pc[t] = "loop" /\ todo[t] = <<>>
  /\ rows' = IF added[t] THEN rows ELSE Append(rows, Value(t))
  /\ reported' = [reported EXCEPT ![UserOf[t]] = started[t]]
  /\ lapsed' = IF now - started[t] >= TTL THEN lapsed \cup {UserOf[t]} ELSE lapsed
  /\ End(t)
  /\ UNCHANGED <<now, todo, chosen, answer, beats, heard>>

-----------------------------------------------------------------------------
\* Mutant: a row that has just reached its age still counts.
ExpiredLate(q, row) == started[q] - row.at > TTL

\* get_user_ids: the row is too old.
Expired(q, row) == started[q] - row.at >= TTL

\* get_user_ids: time(), before the rows are read.
QueryBegins(q) ==
  /\ q \in Queries
  /\ Begin(q)
  /\ UNCHANGED <<now, rows, todo, added, chosen, answer, heard, reported, lapsed>>

\* Mutant: deletes the rows of users it does not count.
QueryReadsUsers(q) ==
  /\ q \in Queries /\ pc[q] = "read"
  /\ LET old == {i \in Live : Expired(q, rows[i])} IN
       /\ answer' = [answer EXCEPT ![q] = {rows[i].user : i \in Live \ old}]
       /\ todo' = [todo EXCEPT ![q] = ValuesOf({i \in Live : rows[i].at < started[q]})]
  /\ Goto(q, "loop")
  /\ UNCHANGED <<now, rows, started, added, chosen, beats, historyVars>>

\* get_post_meta: the answer is what the rows say now; the expired ones are
\* then deleted one value at a time.
QueryReads(q) ==
  /\ q \in Queries /\ pc[q] = "read"
  /\ LET old == {i \in Live : Expired(q, rows[i])} IN
       /\ answer' = [answer EXCEPT ![q] = {rows[i].user : i \in Live \ old}]
       /\ todo' = [todo EXCEPT ![q] = ValuesOf(old)]
  /\ Goto(q, "loop")
  /\ UNCHANGED <<now, rows, started, added, chosen, beats, historyVars>>

QueryDeletesRow(q) ==
  /\ q \in Queries /\ pc[q] = "loop" /\ todo[q] # <<>>
  /\ SelectForDelete(q, Head(todo[q]))
  /\ todo' = [todo EXCEPT ![q] = Tail(@)]
  /\ UNCHANGED <<now, rows, started, added, answer, beats, historyVars>>

QueryEnds(q) ==
  /\ q \in Queries /\ pc[q] = "loop" /\ todo[q] = <<>>
  /\ answer' = [answer EXCEPT ![q] = {}]
  /\ End(q)
  /\ UNCHANGED <<now, rows, todo, chosen, beats, heard, reported, lapsed>>

-----------------------------------------------------------------------------
\* A second passes.
Tick ==
  /\ now < MaxTime /\ now' = now + 1
  /\ lapsed' = lapsed \cup {u \in Users : reported[u] # Never /\ now' - reported[u] >= TTL}
  /\ UNCHANGED <<rows, requestVars, heard, reported, alone>>

TabStep(t) ==
  \/ Heartbeat(t)
  \/ StampReads(t) \/ StampDeletesRow(t) \/ StampKeepsRow(t) \/ StampUpdatesRow(t)
  \/ StampEnds(t)

QueryStep(q) == QueryBegins(q) \/ QueryReads(q) \/ QueryDeletesRow(q) \/ QueryEnds(q)

Next ==
  \/ \E t \in Tabs : TabStep(t)
  \/ \E q \in Queries : QueryStep(q)
  \/ \E p \in Requests : DeleteRows(p)
  \/ Tick

Spec == Init /\ [][Next]_vars

-----------------------------------------------------------------------------
\* Nobody is listed on a report older than TTL seconds, however the reports of
\* the user's tabs and the queries of others overlap: the age of a row is never
\* renewed by anything but a heartbeat of that very user.
ListedUsersReported ==
  \A q \in Queries : pc[q] = "loop" =>
    \A u \in answer[q] : heard[u] # Never /\ started[q] - heard[u] < TTL

\* The tabs a user has open on the post.
TabsOf(u) == {t \in Tabs : UserOf[t] = u}

\* A user with a single tab who has never let TTL seconds pass between two
\* reports is on record with the last of them or a later one, at every moment:
\* neither the reports of others nor a query that cleans up remove the row, nor
\* is it missing between two steps of the user's next report.
SteadyUserIsListed ==
  \A u \in Users :
    (Cardinality(TabsOf(u)) = 1 /\ reported[u] # Never /\ u \notin lapsed)
      => \E i \in Live : rows[i].user = u /\ rows[i].at >= reported[u]

\* "Replace the user's row(s) with one stamped now" (RoomPresence.php:136): a
\* report that no other request ran beside leaves exactly one row of the user,
\* stamped with the second it began in.
ReportLeavesOneRow ==
  [][\A t \in Tabs : (pc[t] = "loop" /\ pc'[t] = "idle" /\ alone[t])
       => {rows'[i].at : i \in {j \in DOMAIN rows' : rows'[j].user = UserOf[t]}}
            = {started[t]}]_vars
=============================================================================
