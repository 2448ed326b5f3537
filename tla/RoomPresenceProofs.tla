------------------------- MODULE RoomPresenceProofs -------------------------
(***************************************************************************)
(* RoomPresence, for every set of tabs, users and queries and every time   *)
(* to live.                                                                *)
(*                                                                         *)
(* However the requests overlap, a row carries a second in which its user  *)
(* was heard: a heartbeat writes nothing but its own start.  An answer is  *)
(* drawn from rows that were young enough, and to be heard again since can *)
(* only make a user younger.                                               *)
(***************************************************************************)
EXTENDS RoomPresence, SequenceTheorems, FiniteSetTheorems, WellFoundedInduction, TLAPS

RowType == [user : Users, at : Nat]

\* The types the argument needs.
TypeInv ==
  /\ now \in Nat
  /\ rows \in Seq(RowType \cup {None})
  /\ pc \in [Requests -> {"idle", "read", "loop", "delete"}]
  /\ started \in [Requests -> Nat]
  /\ answer \in [Queries -> SUBSET Users]
  /\ heard \in [Users -> Nat \cup {Never}]

\* User u was heard of at second t or later.
HeardSince(u, t) == heard[u] # Never /\ t <= heard[u]

HeardInv == \A u \in Users : heard[u] <= now

RowsInv == \A i \in Live : HeardSince(rows[i].user, rows[i].at)

TabsInv == \A t \in Tabs : pc[t] # "idle" => HeardSince(UserOf[t], started[t])

AnswersInv ==
  \A q \in Queries : pc[q] \in {"loop", "delete"} =>
    \A u \in answer[q] : heard[u] # Never /\ started[q] - heard[u] < TTL

IInv == TypeInv /\ HeardInv /\ RowsInv /\ TabsInv /\ AnswersInv

USE TTLAssumption, RequestsAssumption

-----------------------------------------------------------------------------
LEMMA RowTypes ==
  ASSUME TypeInv
  PROVE  /\ \A i \in Live : rows[i] \in RowType
         /\ \A t \in Tabs : UserOf[t] \in Users /\ Value(t) \in RowType /\ Value(t) # None
<1>1. ASSUME NEW i \in Live PROVE rows[i] \in RowType
  <2>1. i \in 1 .. Len(rows) /\ rows[i] # None
    BY DEF TypeInv, Live, MetaIds
  <2> QED
    BY <2>1, ElementOfSeq DEF TypeInv
<1>2. ASSUME NEW t \in Tabs
      PROVE  UserOf[t] \in Users /\ Value(t) \in RowType /\ Value(t) # None
  <2>1. UserOf[t] \in Users /\ started[t] \in Nat
    BY DEF Users, TypeInv, Requests
  <2> QED
    BY <2>1 DEF Value, Row, RowType, None
<1> QED
  BY <1>1, <1>2

\* Rows that change to something a user was heard of, or go.
LEMMA RowsChange ==
  ASSUME TypeInv, RowsInv, NEW new \in RowType, HeardSince(new.user, new.at), heard' = heard,
         \/ rows' = rows
         \/ rows' = Append(rows, new)
         \/ \E hit : rows' = [i \in MetaIds |-> IF i \in hit THEN new ELSE rows[i]]
         \/ \E hit : rows' = [i \in MetaIds |-> IF i \in hit THEN None ELSE rows[i]]
  PROVE  rows' \in Seq(RowType \cup {None}) /\ RowsInv'
<1>0. MetaIds = 1 .. Len(rows) /\ Len(rows) \in Nat
      /\ \A i \in 1 .. Len(rows) : rows[i] \in RowType \cup {None}
  BY DEF TypeInv, MetaIds
<1>1. CASE rows' = rows
  BY <1>1 DEF TypeInv, RowsInv, Live, MetaIds, HeardSince
<1>2. CASE rows' = Append(rows, new)
  <2>1. rows' \in Seq(RowType \cup {None}) /\ Len(rows') = Len(rows) + 1
        /\ \A i \in 1 .. Len(rows') : rows'[i] = IF i <= Len(rows) THEN rows[i] ELSE new
    BY <1>2, AppendProperties DEF TypeInv
  <2>2. ASSUME NEW i \in 1 .. Len(rows'), rows'[i] # None
        PROVE  HeardSince(rows'[i].user, rows'[i].at)
    BY <1>0, <2>1, <2>2 DEF RowsInv, Live
  <2>3. DOMAIN rows' = 1 .. Len(rows')
    BY <2>1
  <2> QED
    BY <2>1, <2>2, <2>3 DEF RowsInv, Live, MetaIds, HeardSince
<1>3. ASSUME NEW hit, NEW put \in {new, None},
             rows' = [i \in MetaIds |-> IF i \in hit THEN put ELSE rows[i]]
      PROVE  rows' \in Seq(RowType \cup {None}) /\ RowsInv'
  <2>1. rows' \in [1 .. Len(rows) -> RowType \cup {None}]
    BY <1>0, <1>3
  <2>2. rows' \in Seq(RowType \cup {None}) /\ DOMAIN rows' = 1 .. Len(rows)
    BY <1>0, <2>1
  <2>3. ASSUME NEW i \in 1 .. Len(rows), rows'[i] # None
        PROVE  HeardSince(rows'[i].user, rows'[i].at)
    BY <1>0, <1>3, <2>3 DEF RowsInv, Live
  <2> QED
    BY <2>2, <2>3 DEF RowsInv, Live, MetaIds, HeardSince
<1> QED
  BY <1>1, <1>2, <1>3

-----------------------------------------------------------------------------
\* Rows and histories stay, requests move on: to another step of theirs, or to
\* their end.
LEMMA RequestMoves ==
  ASSUME IInv, NEW p \in Requests, UNCHANGED <<now, rows, heard>>,
         \/ \E label \in {"loop", "delete"} :
              pc[p] \in {"loop", "delete"} /\ Goto(p, label) /\ UNCHANGED <<started, answer>>
         \/ End(p) /\ UNCHANGED answer
         \/ End(p) /\ p \in Queries /\ answer' = [answer EXCEPT ![p] = {}]
         \/ UNCHANGED <<pc, started, answer>>
         \/ p \in Tabs /\ pc[p] = "read" /\ Goto(p, "loop") /\ UNCHANGED <<started, answer>>
  PROVE  IInv'
<1> USE DEF IInv
<1>1. TypeInv' /\ HeardInv' /\ RowsInv'
  <2>0. pc' \in [Requests -> {"idle", "read", "loop", "delete"}]
    <3>1. \/ UNCHANGED pc
          \/ \E label \in {"idle", "loop", "delete"} : pc' = [pc EXCEPT ![p] = label]
      BY DEF Goto, End
    <3> QED
      BY <3>1 DEF TypeInv
  <2>1. started' \in [Requests -> Nat]
    <3>1. UNCHANGED started \/ started' = [started EXCEPT ![p] = 0]
      BY DEF End
    <3> QED
      BY <3>1 DEF TypeInv
  <2>2. answer' \in [Queries -> SUBSET Users]
    BY DEF TypeInv
  <2> QED
    BY <2>0, <2>1, <2>2 DEF TypeInv, HeardInv, RowsInv, Live, MetaIds, HeardSince
<1>2. TabsInv'
  BY DEF TypeInv, TabsInv, HeardSince, Goto, End, Requests
<1>3. AnswersInv'
  BY DEF TypeInv, AnswersInv, Goto, End, Requests
<1> QED
  BY <1>1, <1>2, <1>3

\* A heartbeat is heard of.
LEMMA HeartbeatInv ==
  ASSUME IInv, NEW t \in Tabs, Heartbeat(t)
  PROVE  IInv'
<1> USE DEF IInv
<1>1. /\ pc' = [pc EXCEPT ![t] = "read"] /\ started' = [started EXCEPT ![t] = now]
      /\ heard' = [heard EXCEPT ![UserOf[t]] = now] /\ UNCHANGED <<now, rows, answer>>
      /\ t \in Requests /\ UserOf[t] \in Users
  BY DEF Heartbeat, Begin, Goto, Requests, Users
<1>2. \A u \in Users : heard'[u] \in Nat \cup {Never} /\ heard'[u] <= now
                       /\ (heard[u] # Never => heard'[u] # Never /\ heard[u] <= heard'[u])
  BY <1>1 DEF TypeInv, HeardInv, Never
<1>3. TypeInv' /\ HeardInv'
  BY <1>1, <1>2 DEF TypeInv, HeardInv
<1>4. RowsInv'
  <2> SUFFICES ASSUME NEW i \in Live
               PROVE  heard'[rows[i].user] # Never /\ rows[i].at <= heard'[rows[i].user]
    BY <1>1 DEF RowsInv, Live, MetaIds, HeardSince
  <2>1. rows[i].user \in Users /\ rows[i].at \in Nat
    BY RowTypes DEF RowType
  <2>2. heard[rows[i].user] # Never /\ rows[i].at <= heard[rows[i].user]
    BY DEF RowsInv, HeardSince
  <2> QED
    BY <1>2, <2>1, <2>2 DEF TypeInv
<1>5. TabsInv'
  <2> SUFFICES ASSUME NEW s \in Tabs, pc'[s] # "idle"
               PROVE  heard'[UserOf[s]] # Never /\ started'[s] <= heard'[UserOf[s]]
    BY DEF TabsInv, HeardSince
  <2>0. s \in Requests /\ UserOf[s] \in Users /\ started[s] \in Nat
    BY DEF Requests, Users, TypeInv
  <2>1. CASE s = t
    BY <1>1, <2>1 DEF TypeInv, Never
  <2>2. CASE s # t
    <3>1. pc[s] # "idle" /\ started'[s] = started[s]
      BY <1>1, <2>0, <2>2 DEF TypeInv
    <3>2. heard[UserOf[s]] # Never /\ started[s] <= heard[UserOf[s]]
      BY <3>1 DEF TabsInv, HeardSince
    <3> QED
      BY <1>2, <2>0, <3>1, <3>2 DEF TypeInv
  <2> QED
    BY <2>1, <2>2
<1>6. AnswersInv'
  <2> SUFFICES ASSUME NEW q \in Queries, pc'[q] \in {"loop", "delete"}, NEW u \in answer[q]
               PROVE  heard'[u] # Never /\ started'[q] - heard'[u] < TTL
    BY <1>1 DEF AnswersInv
  <2>1. q # t /\ q \in Requests /\ u \in Users
    BY DEF Requests, TypeInv
  <2>2. pc[q] \in {"loop", "delete"} /\ started'[q] = started[q] /\ started[q] \in Nat
    BY <1>1, <2>1 DEF TypeInv
  <2>3. heard[u] # Never /\ started[q] - heard[u] < TTL
    BY <2>2 DEF AnswersInv
  <2> QED
    BY <1>2, <2>1, <2>2, <2>3 DEF TypeInv
<1> QED
  BY <1>3, <1>4, <1>5, <1>6

\* A query begins, without an answer yet.
LEMMA QueryBeginsInv ==
  ASSUME IInv, NEW q \in Queries, QueryBegins(q)
  PROVE  IInv'
<1> USE DEF IInv
<1>1. /\ pc' = [pc EXCEPT ![q] = "read"] /\ started' = [started EXCEPT ![q] = now]
      /\ UNCHANGED <<now, rows, answer, heard>> /\ q \in Requests /\ q \notin Tabs
  BY DEF QueryBegins, Begin, Goto, Requests
<1>2. TypeInv' /\ HeardInv' /\ RowsInv'
  BY <1>1 DEF TypeInv, HeardInv, RowsInv, Live, MetaIds, HeardSince
<1>3. TabsInv' /\ AnswersInv'
  BY <1>1 DEF TypeInv, TabsInv, AnswersInv, HeardSince, Requests
<1> QED
  BY <1>2, <1>3

\* The answer: users of rows that are young enough.
LEMMA QueryReadsInv ==
  ASSUME IInv, NEW q \in Queries, QueryReads(q)
  PROVE  IInv'
<1> USE DEF IInv
<1> DEFINE young == {i \in Live : ~Expired(q, rows[i])}
<1>1. /\ pc' = [pc EXCEPT ![q] = "loop"] /\ UNCHANGED <<now, rows, started, heard>>
      /\ answer' = [answer EXCEPT ![q] = {rows[i].user : i \in young}]
      /\ q \in Requests /\ q \notin Tabs
  <2>1. Live \ {i \in Live : Expired(q, rows[i])} = young
    OBVIOUS
  <2> QED
    BY <2>1 DEF QueryReads, Goto, Requests, historyVars
<1>2. ASSUME NEW i \in young
      PROVE  rows[i].user \in Users /\ heard[rows[i].user] # Never
             /\ started[q] - heard[rows[i].user] < TTL
  <2>1. rows[i].user \in Users /\ rows[i].at \in Nat /\ started[q] \in Nat
    BY <1>1, RowTypes DEF RowType, TypeInv
  <2>2. heard[rows[i].user] # Never /\ rows[i].at <= heard[rows[i].user]
    BY DEF RowsInv, HeardSince
  <2>3. heard[rows[i].user] \in Nat
    BY <2>1, <2>2 DEF TypeInv
  <2>4. started[q] - rows[i].at < TTL
    BY <2>1 DEF Expired
  <2> QED
    BY <2>1, <2>2, <2>3, <2>4
<1>3. TypeInv'
  <2>1. {rows[i].user : i \in young} \subseteq Users
    BY <1>2
  <2> HIDE DEF young
  <2> QED
    BY <1>1, <2>1 DEF TypeInv
<1>4. HeardInv' /\ RowsInv' /\ TabsInv'
  BY <1>1 DEF TypeInv, HeardInv, RowsInv, TabsInv, Live, MetaIds, HeardSince, Requests
<1>5. AnswersInv'
  <2> SUFFICES ASSUME NEW r \in Queries, pc'[r] \in {"loop", "delete"}, NEW u \in answer'[r]
               PROVE  heard[u] # Never /\ started[r] - heard[u] < TTL
    BY <1>1 DEF AnswersInv
  <2>1. CASE r = q
    <3>1. u \in {rows[i].user : i \in young}
      BY <1>1, <2>1 DEF TypeInv
    <3> QED
      BY <1>2, <2>1, <3>1
  <2>2. CASE r # q
    BY <1>1, <2>2 DEF AnswersInv, TypeInv, Requests
  <2> QED
    BY <2>1, <2>2
<1> QED
  BY <1>3, <1>4, <1>5

\* A heartbeat or a query changes the rows.
LEMMA RowsMove ==
  ASSUME IInv, NEW p \in Requests, rows' \in Seq(RowType \cup {None}), RowsInv',
         UNCHANGED <<now, answer, heard>>,
         \/ UNCHANGED <<pc, started>>
         \/ pc[p] = "delete" /\ Goto(p, "loop") /\ UNCHANGED started
         \/ End(p)
  PROVE  IInv'
<1> USE DEF IInv
<1>1. TypeInv' /\ HeardInv'
  BY DEF TypeInv, HeardInv, Goto, End
<1>2. TabsInv' /\ AnswersInv'
  BY DEF TypeInv, TabsInv, AnswersInv, HeardSince, Goto, End, Requests
<1> QED
  BY <1>1, <1>2

-----------------------------------------------------------------------------
LEMMA TabStepInv ==
  ASSUME IInv, NEW t \in Tabs, TabStep(t)
  PROVE  IInv'
<1> USE DEF IInv
<1>0. t \in Requests
  BY DEF Requests
<1>1. CASE Heartbeat(t)
  BY <1>1, HeartbeatInv
<1>2. CASE StampReads(t)
  BY <1>0, <1>2, RequestMoves DEF StampReads, historyVars
<1>3. CASE StampDeletesRow(t)
  BY <1>0, <1>3, RequestMoves DEF StampDeletesRow, SelectForDelete, historyVars
<1>4. CASE StampKeepsRow(t)
  BY <1>0, <1>4, RequestMoves DEF StampKeepsRow, historyVars
<1>5. CASE StampUpdatesRow(t) \/ StampEnds(t)
  <2>1. /\ \/ rows' = rows
           \/ rows' = Append(rows, Value(t))
           \/ \E hit : rows' = [i \in MetaIds |-> IF i \in hit THEN Value(t) ELSE rows[i]]
        /\ UNCHANGED <<now, answer, heard>> /\ pc[t] = "loop"
        /\ UNCHANGED <<pc, started>> \/ End(t)
    BY <1>5 DEF StampUpdatesRow, StampEnds, historyVars
  <2>2. Value(t) \in RowType /\ HeardSince(Value(t).user, Value(t).at)
    <3>1. HeardSince(UserOf[t], started[t])
      BY <2>1 DEF TabsInv
    <3>2. Value(t).user = UserOf[t] /\ Value(t).at = started[t]
      BY DEF Value, Row
    <3> QED
      BY <3>1, <3>2, RowTypes
  <2>3. rows' \in Seq(RowType \cup {None}) /\ RowsInv'
    BY <2>1, <2>2, RowsChange
  <2> QED
    BY <1>0, <2>1, <2>3, RowsMove
<1> QED
  BY <1>1, <1>2, <1>3, <1>4, <1>5 DEF TabStep

LEMMA DeleteRowsInv ==
  ASSUME IInv, NEW p \in Requests, DeleteRows(p)
  PROVE  IInv'
<1> USE DEF IInv
<1>1. rows' = [i \in MetaIds |-> IF i \in chosen[p] THEN None ELSE rows[i]]
      /\ UNCHANGED <<now, answer, heard, started>> /\ pc[p] = "delete" /\ Goto(p, "loop")
  BY DEF DeleteRows, historyVars
<1>2. \/ \E new \in RowType : HeardSince(new.user, new.at)
      \/ \A i \in MetaIds : rows[i] = None
  BY RowTypes DEF RowsInv, Live
<1>3. CASE \E new \in RowType : HeardSince(new.user, new.at)
  <2>1. rows' \in Seq(RowType \cup {None}) /\ RowsInv'
    BY <1>1, <1>3, RowsChange
  <2> QED
    BY <1>1, <2>1, RowsMove
<1>4. CASE \A i \in MetaIds : rows[i] = None
  <2>1. rows' = rows
    BY <1>1, <1>4 DEF MetaIds, TypeInv
  <2>2. rows' \in Seq(RowType \cup {None}) /\ RowsInv'
    BY <1>1, <2>1 DEF TypeInv, RowsInv, Live, MetaIds, HeardSince
  <2> QED
    BY <1>1, <2>2, RowsMove
<1> QED
  BY <1>2, <1>3, <1>4

LEMMA QueryStepInv ==
  ASSUME IInv, NEW q \in Queries, QueryStep(q)
  PROVE  IInv'
<1>0. q \in Requests
  BY DEF Requests
<1>1. CASE QueryBegins(q)
  BY <1>1, QueryBeginsInv
<1>2. CASE QueryReads(q)
  BY <1>2, QueryReadsInv
<1>3. CASE QueryDeletesRow(q)
  BY <1>0, <1>3, RequestMoves DEF QueryDeletesRow, SelectForDelete, historyVars
<1>4. CASE QueryEnds(q)
  BY <1>0, <1>4, RequestMoves DEF QueryEnds
<1> QED
  BY <1>1, <1>2, <1>3, <1>4 DEF QueryStep

LEMMA TickInv ==
  ASSUME IInv, Tick
  PROVE  IInv'
<1> USE DEF IInv
<1>1. now' = now + 1 /\ UNCHANGED <<rows, pc, started, answer, heard>>
  BY DEF Tick, requestVars
<1>2. TypeInv' /\ HeardInv'
  BY <1>1 DEF TypeInv, HeardInv, Never
<1>3. RowsInv' /\ TabsInv' /\ AnswersInv'
  BY <1>1 DEF RowsInv, TabsInv, AnswersInv, HeardSince, Live, MetaIds
<1> QED
  BY <1>2, <1>3

LEMMA InvStep == IInv /\ [Next]_vars => IInv'
<1> SUFFICES ASSUME IInv, [Next]_vars PROVE IInv'
  OBVIOUS
<1>1. CASE UNCHANGED vars
  BY <1>1 DEF IInv, vars, requestVars, historyVars, TypeInv, HeardInv, RowsInv, Live, MetaIds,
              HeardSince, TabsInv, AnswersInv
<1> QED
  BY <1>1, TabStepInv, QueryStepInv, DeleteRowsInv, TickInv DEF Next

\* Rows and answers are dated by heartbeats, in every state.
LEMMA Inductive == Spec => []IInv
<1>1. Init => IInv
  <2> SUFFICES ASSUME Init PROVE IInv
    OBVIOUS
  <2>1. TypeInv
    BY DEF Init, TypeInv, Never
  <2>2. HeardInv
    BY DEF Init, HeardInv, Never
  <2>3. RowsInv /\ TabsInv /\ AnswersInv
    BY DEF Init, RowsInv, Live, MetaIds, TabsInv, AnswersInv, Requests
  <2> QED
    BY <2>1, <2>2, <2>3 DEF IInv
<1> QED
  BY <1>1, InvStep, PTL DEF Spec

\* Nobody is listed who was not heard of within the time to live.
THEOREM ListedWereHeard == Spec => []ListedUsersReported
<1>1. IInv => ListedUsersReported
  BY DEF IInv, AnswersInv, ListedUsersReported
<1> QED
  BY <1>1, Inductive, PTL

-----------------------------------------------------------------------------
(***************************************************************************)
(* A user with a single tab who keeps reporting.  Until the first report   *)
(* no row is the user's; from then on there is one, which the next report  *)
(* finds and renews.  A query deletes rows by the value it has read, which *)
(* is too old to be this one; the tabs of others delete and update only    *)
(* rows of their own.                                                      *)
(***************************************************************************)

\* What the requests have in hand.
WorkInv ==
  /\ todo \in [Requests -> Seq(RowType)]
  /\ added \in [Requests -> BOOLEAN]
  /\ chosen \in [Requests -> SUBSET MetaIds]
  /\ reported \in [Users -> Nat \cup {Never}]
  /\ \A p \in Requests : started[p] <= now

\* The only tab of a user who has never let TTL seconds pass without a report.
Steady(t) == TabsOf(UserOf[t]) = {t} /\ UserOf[t] \notin lapsed

Own(t) == {i \in Live : rows[i].user = UserOf[t]}
OthersRows(t) == {r \in RowType : r.user # UserOf[t]}

\* The last report is young, and older than the one being made.
ReportIsYoung(t) ==
  /\ reported[UserOf[t]] # Never =>
       reported[UserOf[t]] <= now /\ now - reported[UserOf[t]] < TTL
  /\ pc[t] # "idle" => reported[UserOf[t]] <= started[t]

\* There is a row from the first report on, and never two.
OneOwnRow(t) ==
  IF reported[UserOf[t]] = Never
  THEN Own(t) = {}
  ELSE \E i \in MetaIds : Own(t) = {i} /\ rows[i].at >= reported[UserOf[t]]

\* Where the loop of stamp is: nothing to renew, the row to renew, or done.
StampFollows(t) ==
  /\ pc[t] # "delete"
  /\ pc[t] = "loop" =>
       \/ Own(t) = {} /\ todo[t] = <<>> /\ ~added[t]
       \/ \E i \in Own(t) : todo[t] = <<rows[i]>> /\ ~added[t]
       \/ \E i \in Own(t) : todo[t] = <<>> /\ added[t] /\ rows[i] = Value(t)

\* No other request has its hands on the row.
OthersAbstain(t) ==
  \A p \in Requests \ {t} : todo[p] \in Seq(OthersRows(t)) /\ chosen[p] \cap Own(t) = {}

SteadyTab(t) == ReportIsYoung(t) /\ OneOwnRow(t) /\ StampFollows(t) /\ OthersAbstain(t)

SteadyInv == WorkInv /\ \A t \in Tabs : Steady(t) => SteadyTab(t)

-----------------------------------------------------------------------------
\* Of some numbers one is the least.
LEMMA LeastNatural ==
  ASSUME NEW S, S \subseteq Nat, S # {}
  PROVE  \E n \in S : \A m \in S : n <= m
<1>1. PICK n \in S : \A m \in S : <<m, n>> \notin OpToRel(<, Nat)
  BY WFMin, NatLessThanWellFounded, Zenon
<1>2. \A m \in S : ~(m < n)
  BY <1>1, Zenon DEF OpToRel
<1>3. \A m \in S : n <= m
  BY <1>2
<1> QED
  BY <1>3

LEMMA SubsetsOfInterval ==
  ASSUME NEW n \in Nat, NEW S, S \subseteq 1 .. n
  PROVE  IsFiniteSet(S) /\ Cardinality(S) \in Nat
         /\ \A T \in SUBSET S : IsFiniteSet(T) /\ Cardinality(T) \in Nat
<1>1. IsFiniteSet(1 .. n)
  BY FS_Interval
<1>2. IsFiniteSet(S)
  BY <1>1, FS_Subset
<1>3. \A T \in SUBSET S : IsFiniteSet(T) /\ Cardinality(T) \in Nat
  BY <1>2, FS_Subset, FS_CardinalityType
<1> QED
  BY <1>2, <1>3

Rank(S, j) == Cardinality({k \in S : k <= j})

\* In a set of meta_ids every place is taken: the i-th of them is the least
\* that i of them do not exceed.
LEMMA PlacesAreTaken ==
  ASSUME NEW n \in Nat, NEW S, S \subseteq 1 .. n, NEW i \in 1 .. Cardinality(S)
  PROVE  \E j \in S : Rank(S, j) = i
<1> USE DEF Rank
<1> DEFINE upTo(j) == {k \in S : k <= j}
           rank(j) == Cardinality(upTo(j))
           enough == {j \in Nat : rank(j) >= i}
<1>1. IsFiniteSet(S) /\ Cardinality(S) \in Nat
      /\ \A T \in SUBSET S : IsFiniteSet(T) /\ Cardinality(T) \in Nat
  BY SubsetsOfInterval
<1>0. \A k \in S : k \in Nat /\ 1 <= k /\ k <= n
  OBVIOUS
<1>2. n \in enough
  <2>1. upTo(n) = S
    BY <1>0
  <2> QED
    BY <1>1, <2>1
<1>3. PICK j \in enough : \A m \in enough : j <= m
  <2> HIDE DEF enough
  <2>1. enough \subseteq Nat
    BY DEF enough
  <2> QED
    BY <1>2, <2>1, LeastNatural
<1>4. j # 0
  <2>1. upTo(0) = {}
    <3>1. \A k \in S : ~(k <= 0)
      BY <1>0
    <3> QED
      BY <3>1
  <2>2. rank(0) = 0
    BY <2>1, FS_EmptySet
  <2> QED
    BY <1>3, <2>2
<1>5. j - 1 \in Nat /\ rank(j - 1) < i
  <2>1. j - 1 \in Nat /\ ~(j - 1 \in enough)
    <3>1. j \in Nat /\ j >= 1
      BY <1>3, <1>4
    <3>2. j - 1 \in Nat /\ ~(j <= j - 1)
      BY <3>1
    <3> HIDE DEF enough
    <3> QED
      BY <1>3, <3>2
  <2>2. rank(j - 1) \in Nat
    BY <1>1
  <2> QED
    BY <2>1, <2>2
<1>6. j \in S
  <2>1. ASSUME j \notin S PROVE FALSE
    <3>1. upTo(j) = upTo(j - 1)
      <4>1. \A k \in S : k <= j <=> k <= j - 1
        BY <1>0, <1>3, <2>1
      <4> QED
        BY <4>1
    <3> QED
      BY <3>1, <1>1, <1>3, <1>5
  <2> QED
    BY <2>1
<1>7. rank(j) = rank(j - 1) + 1
  <2>1. upTo(j) = upTo(j - 1) \cup {j} /\ j \notin upTo(j - 1)
    <3>1. \A k \in S : k <= j <=> (k <= j - 1 \/ k = j)
      BY <1>0, <1>3
    <3>2. ~(j <= j - 1)
      BY <1>3
    <3> QED
      BY <1>6, <3>1, <3>2
  <2>2. IsFiniteSet(upTo(j - 1))
    BY <1>1
  <2> HIDE DEF upTo
  <2> QED
    BY <2>1, <2>2, FS_AddElement
<1>8. rank(j - 1) \in Nat
  BY <1>1
<1>9. rank(j) = i
  BY <1>3, <1>5, <1>7, <1>8
<1> QED
  BY <1>6, <1>9

\* ValuesOf lists rows of the set and nothing else.
LEMMA ValuesAreRows ==
  ASSUME TypeInv, NEW S, S \subseteq MetaIds, NEW R, \A i \in S : rows[i] \in R
  PROVE  /\ ValuesOf(S) \in Seq(R)
         /\ S = {} => ValuesOf(S) = <<>>
         /\ \A i \in S : S = {i} => ValuesOf(S) = <<rows[i]>>
<1>1. MetaIds = 1 .. Len(rows) /\ Len(rows) \in Nat
  BY DEF TypeInv, MetaIds
<1>2. IsFiniteSet(S) /\ Cardinality(S) \in Nat
  BY <1>1, SubsetsOfInterval
<1>0. \A i \in 1 .. Cardinality(S) : \E j \in S : Rank(S, j) = i
  <2> DEFINE n == Len(rows)
  <2>1. n \in Nat /\ S \subseteq 1 .. n
    BY <1>1
  <2> HIDE DEF n
  <2> QED
    BY <2>1, PlacesAreTaken
<1> DEFINE place(i) == CHOOSE j \in S : Rank(S, j) = i
<1>3. ASSUME NEW i \in 1 .. Cardinality(S) PROVE place(i) \in S
  <2>1. \E j \in S : Rank(S, j) = i
    BY <1>0
  <2> QED
    BY <2>1
<1>4. ValuesOf(S) = [i \in 1 .. Cardinality(S) |-> rows[place(i)]]
  BY DEF ValuesOf, Rank
<1>5. ValuesOf(S) \in [1 .. Cardinality(S) -> R]
  <2> HIDE DEF place
  <2> QED
    BY <1>3, <1>4
<1>6. S = {} => ValuesOf(S) = <<>>
  <2>1. S = {} => Cardinality(S) = 0
    BY FS_EmptySet
  <2> HIDE DEF place
  <2> QED
    BY <1>4, <2>1
<1>7. ASSUME NEW i \in S, S = {i} PROVE ValuesOf(S) = <<rows[i]>>
  <2>1. Cardinality(S) = 1
    BY <1>7, FS_Singleton
  <2>2. place(1) = i
    BY <1>3, <1>7, <2>1
  <2> HIDE DEF place
  <2> QED
    BY <1>4, <2>1, <2>2
<1> QED
  BY <1>2, <1>5, <1>6, <1>7

-----------------------------------------------------------------------------
\* A step of one request, and what it leaves alone.
RequestStep(p) ==
  \/ p \in Tabs /\ TabStep(p)
  \/ p \in Queries /\ QueryStep(p)
  \/ DeleteRows(p)

TouchesOnly(p) ==
  /\ now' = now
  /\ pc' = [pc EXCEPT ![p] = pc'[p]]
  /\ started' = [started EXCEPT ![p] = started'[p]]
  /\ todo' = [todo EXCEPT ![p] = todo'[p]]
  /\ added' = [added EXCEPT ![p] = added'[p]]
  /\ chosen' = [chosen EXCEPT ![p] = chosen'[p]]

LEMMA TouchesOwnOnly ==
  ASSUME TypeInv, WorkInv, NEW p \in Requests, RequestStep(p)
  PROVE  TouchesOnly(p)
<1> USE DEF TypeInv, WorkInv, TouchesOnly
<1>1. CASE p \in Tabs /\ TabStep(p)
  BY <1>1 DEF TabStep, Heartbeat, Begin, StampReads, StampDeletesRow, SelectForDelete,
              StampKeepsRow, StampUpdatesRow, StampEnds, End, Goto, historyVars
<1>2. CASE p \in Queries /\ QueryStep(p)
  BY <1>2 DEF QueryStep, QueryBegins, Begin, QueryReads, QueryDeletesRow, SelectForDelete,
              QueryEnds, End, Goto, historyVars
<1>3. CASE DeleteRows(p)
  BY <1>3 DEF DeleteRows, Goto
<1> QED
  BY <1>1, <1>2, <1>3 DEF RequestStep

\* meta_ids are never reused.
LEMMA MetaIdsGrow ==
  ASSUME TypeInv, NEW p \in Requests, RequestStep(p)
  PROVE  MetaIds \subseteq MetaIds'
<1>1. \/ rows' = rows
      \/ \E new : rows' = Append(rows, new)
      \/ \E hit, new : rows' = [i \in MetaIds |-> IF i \in hit THEN new ELSE rows[i]]
  <2>1. CASE p \in Tabs /\ StampUpdatesRow(p)
    BY <2>1 DEF StampUpdatesRow
  <2>2. CASE p \in Tabs /\ StampEnds(p)
    BY <2>2 DEF StampEnds
  <2>3. CASE DeleteRows(p)
    BY <2>3 DEF DeleteRows
  <2>4. CASE rows' = rows
    BY <2>4
  <2> QED
    BY <2>1, <2>2, <2>3, <2>4 DEF RequestStep, TabStep, Heartbeat, StampReads,
         StampDeletesRow, StampKeepsRow, QueryStep, QueryBegins, QueryReads, QueryDeletesRow,
         QueryEnds
<1>2. MetaIds = 1 .. Len(rows) /\ Len(rows) \in Nat
  BY DEF TypeInv, MetaIds
<1>3. ASSUME NEW new, rows' = Append(rows, new) PROVE MetaIds \subseteq MetaIds'
  <2>1. rows \in Seq(RowType \cup {None} \cup {new})
    BY DEF TypeInv
  <2>2. rows' \in Seq(RowType \cup {None} \cup {new}) /\ Len(rows') = Len(rows) + 1
    BY <1>3, <2>1, AppendProperties
  <2> QED
    BY <1>2, <2>2 DEF MetaIds
<1> QED
  BY <1>1, <1>2, <1>3 DEF MetaIds

\* The request's own share of WorkInv.
LEMMA OwnWork ==
  ASSUME TypeInv, WorkInv, NEW p \in Requests, RequestStep(p)
  PROVE  /\ todo'[p] \in Seq(RowType) /\ added'[p] \in BOOLEAN
         /\ chosen'[p] \subseteq MetaIds
         /\ started'[p] \in {0, started[p], now}
<1> USE DEF TypeInv, WorkInv
<1>0. \A S : S \subseteq Live => ValuesOf(S) \in Seq(RowType)
  BY RowTypes, ValuesAreRows DEF Live
<1>1. todo'[p] \in Seq(RowType)
  <2>1. CASE todo'[p] = todo[p]
    BY <2>1
  <2>2. CASE todo[p] # <<>> /\ todo'[p] = Tail(todo[p])
    BY <2>2, HeadTailProperties
  <2>3. CASE \E S : S \subseteq Live /\ todo'[p] = ValuesOf(S)
    BY <1>0, <2>3
  <2> QED
    BY <2>1, <2>2, <2>3 DEF RequestStep, TabStep, Heartbeat, StampReads, RowsToStamp,
         StampDeletesRow, StampKeepsRow, StampUpdatesRow, StampEnds, QueryStep, QueryBegins,
         QueryReads, QueryDeletesRow, QueryEnds, DeleteRows
<1>2. added'[p] \in BOOLEAN /\ chosen'[p] \subseteq MetaIds
      /\ started'[p] \in {0, started[p], now}
  <2>0. ASSUME NEW v, SelectForDelete(p, v)
        PROVE  chosen'[p] \subseteq MetaIds
    BY <2>0 DEF SelectForDelete, WithValue, Live
  <2>1. CASE p \in Tabs /\ TabStep(p)
    <3>1. CASE Heartbeat(p) \/ StampReads(p)
      BY <3>1 DEF Heartbeat, Begin, StampReads
    <3>2. CASE StampDeletesRow(p) \/ StampKeepsRow(p)
      BY <2>0, <3>2 DEF StampDeletesRow, StampKeepsRow
    <3>3. CASE StampUpdatesRow(p)
      <4>1. added'[p] = (Live = {} \/ WithValue(Head(todo[p])) # {})
            /\ UNCHANGED <<chosen, started>>
        BY <3>3 DEF StampUpdatesRow
      <4> QED
        BY <4>1
    <3>4. CASE StampEnds(p)
      BY <3>4 DEF StampEnds, End
    <3> QED
      BY <2>1, <3>1, <3>2, <3>3, <3>4 DEF TabStep
  <2>2. CASE p \in Queries /\ QueryStep(p)
    BY <2>0, <2>2 DEF QueryStep, QueryBegins, Begin, QueryReads, QueryDeletesRow, QueryEnds, End
  <2>3. CASE DeleteRows(p)
    BY <2>3 DEF DeleteRows
  <2> QED
    BY <2>1, <2>2, <2>3 DEF RequestStep
<1> QED
  BY <1>1, <1>2

LEMMA WorkStep ==
  ASSUME TypeInv, WorkInv, [Next]_vars
  PROVE  WorkInv'
<1> USE DEF WorkInv
<1>1. ASSUME NEW p \in Requests, RequestStep(p) PROVE WorkInv'
  <2>1. TouchesOnly(p) /\ MetaIds \subseteq MetaIds'
    BY <1>1, TouchesOwnOnly, MetaIdsGrow
  <2>2. /\ todo'[p] \in Seq(RowType) /\ added'[p] \in BOOLEAN
        /\ chosen'[p] \subseteq MetaIds /\ started'[p] \in {0, started[p], now}
    BY <1>1, OwnWork
  <2>3. todo' \in [Requests -> Seq(RowType)] /\ added' \in [Requests -> BOOLEAN]
    BY <2>1, <2>2 DEF TouchesOnly
  <2>4. chosen' \in [Requests -> SUBSET MetaIds']
    BY <2>1, <2>2 DEF TouchesOnly
  <2>5. reported' \in [Users -> Nat \cup {Never}]
    <3>1. \/ reported' = reported
          \/ p \in Tabs /\ reported' = [reported EXCEPT ![UserOf[p]] = started[p]]
      BY <1>1 DEF RequestStep, TabStep, Heartbeat, StampReads, StampDeletesRow, StampKeepsRow,
           StampUpdatesRow, StampEnds, QueryStep, QueryBegins, QueryReads, QueryDeletesRow,
           QueryEnds, DeleteRows, historyVars
    <3> QED
      BY <3>1 DEF TypeInv
  <2>6. \A q \in Requests : started'[q] <= now'
    <3>1. now \in Nat /\ now' = now /\ started' = [started EXCEPT ![p] = started'[p]]
      BY <2>1 DEF TouchesOnly, TypeInv
    <3>2. started'[p] <= now
      BY <2>2, <3>1
    <3> QED
      BY <3>1, <3>2 DEF TypeInv
  <2> QED
    BY <2>3, <2>4, <2>5, <2>6
<1>2. CASE Tick
  BY <1>2 DEF Tick, requestVars, MetaIds, TypeInv
<1>3. CASE UNCHANGED vars
  BY <1>3 DEF vars, requestVars, historyVars, MetaIds
<1> QED
  BY <1>1, <1>2, <1>3 DEF Next, RequestStep, Requests

-----------------------------------------------------------------------------
\* Rows written or deleted elsewhere leave the tab's own as they are.
LEMMA OwnRowsStay ==
  ASSUME TypeInv, NEW t \in Tabs, NEW new \in OthersRows(t) \cup {None},
         \/ rows' = rows
         \/ new # None /\ rows' = Append(rows, new)
         \/ \E hit : /\ hit \cap Own(t) = {}
                     /\ rows' = [i \in MetaIds |-> IF i \in hit THEN new ELSE rows[i]]
  PROVE  Own(t)' = Own(t) /\ \A i \in Own(t) : rows'[i] = rows[i]
<1>0. MetaIds = 1 .. Len(rows) /\ Len(rows) \in Nat /\ rows \in Seq(RowType \cup {None})
  BY DEF TypeInv, MetaIds
<1> USE DEF Own, Live, MetaIds
<1>1. CASE rows' = rows
  BY <1>1
<1>2. CASE new # None /\ rows' = Append(rows, new)
  <2>1. new \in RowType \cup {None} /\ new.user # UserOf[t]
    BY <1>2 DEF OthersRows
  <2>2. rows' \in Seq(RowType \cup {None}) /\ Len(rows') = Len(rows) + 1
        /\ \A i \in 1 .. Len(rows') : rows'[i] = IF i <= Len(rows) THEN rows[i] ELSE new
    BY <1>2, <2>1, AppendProperties DEF TypeInv
  <2>3. DOMAIN rows' = 1 .. Len(rows')
    BY <2>2
  <2>4. PICK n \in Nat : /\ DOMAIN rows = 1 .. n /\ DOMAIN rows' = 1 .. (n + 1)
                         /\ \A i \in 1 .. (n + 1) : rows'[i] = IF i <= n THEN rows[i] ELSE new
    BY <1>0, <2>2, <2>3
  <2>5. \A i \in 1 .. n : i \in 1 .. (n + 1) /\ i <= n
    OBVIOUS
  <2>6. \A i \in 1 .. (n + 1) : i \in 1 .. n \/ ~(i <= n)
    OBVIOUS
  <2> QED
    BY <2>1, <2>4, <2>5, <2>6
<1>3. ASSUME NEW hit, hit \cap Own(t) = {},
             rows' = [i \in MetaIds |-> IF i \in hit THEN new ELSE rows[i]]
      PROVE  Own(t)' = Own(t) /\ \A i \in Own(t) : rows'[i] = rows[i]
  <2>1. new = None \/ new.user # UserOf[t]
    BY DEF OthersRows
  <2> QED
    BY <1>3, <2>1
<1> QED
  BY <1>1, <1>2, <1>3

\* While another request takes a step, all of the tab's own stays.
LEMMA OthersStepKeeps ==
  ASSUME TypeInv, WorkInv, NEW t \in Tabs, SteadyTab(t),
         NEW p \in Requests \ {t}, TouchesOnly(p),
         Own(t)' = Own(t), \A i \in Own(t) : rows'[i] = rows[i],
         MetaIds \subseteq MetaIds',
         reported'[UserOf[t]] = reported[UserOf[t]],
         todo'[p] \in Seq(OthersRows(t)), chosen'[p] \cap Own(t) = {}
  PROVE  SteadyTab(t)'
<1>1. t \in Requests /\ UNCHANGED <<now, pc[t], started[t], todo[t], added[t], chosen[t]>>
  BY DEF TouchesOnly, TypeInv, WorkInv, Requests
<1>2. \A r \in Requests \ {p} : todo'[r] = todo[r] /\ chosen'[r] = chosen[r]
  BY DEF TouchesOnly, WorkInv
<1>3. \A i \in Own(t) : i \in MetaIds
  BY DEF Own, Live
<1>4. ReportIsYoung(t)'
  BY <1>1 DEF SteadyTab, ReportIsYoung
<1>5. OneOwnRow(t)'
  BY <1>3 DEF SteadyTab, OneOwnRow
<1>6. StampFollows(t)'
  BY <1>1 DEF SteadyTab, StampFollows, Value
<1>7. OthersAbstain(t)'
  BY <1>2 DEF SteadyTab, OthersAbstain, OthersRows
<1> QED
  BY <1>4, <1>5, <1>6, <1>7 DEF SteadyTab

\* Rows that are not the tab's own have other users.
LEMMA OthersHaveOthers ==
  ASSUME TypeInv, NEW t \in Tabs, NEW S, S \subseteq Live, S \cap Own(t) = {}
  PROVE  ValuesOf(S) \in Seq(OthersRows(t))
<1>1. \A i \in S : rows[i] \in OthersRows(t)
  BY RowTypes DEF Own, OthersRows
<1> QED
  BY <1>1, ValuesAreRows DEF Live

\* Nor is a row with the value of another user the tab's own.
LEMMA OthersValues ==
  ASSUME NEW t \in Tabs, NEW s \in Seq(OthersRows(t)), s # <<>>
  PROVE  WithValue(Head(s)) \cap Own(t) = {} /\ Tail(s) \in Seq(OthersRows(t))
<1>1. Head(s) \in OthersRows(t) /\ Tail(s) \in Seq(OthersRows(t))
  BY HeadTailProperties
<1> QED
  BY <1>1 DEF WithValue, Own, OthersRows

-----------------------------------------------------------------------------
\* A step of a tab of somebody else.
LEMMA OtherTabKeeps ==
  ASSUME TypeInv, WorkInv, NEW t \in Tabs, Steady(t), SteadyTab(t),
         NEW p \in Tabs \ {t}, TabStep(p)
  PROVE  SteadyTab(t)'
<1>1. p \in Requests /\ UserOf[p] # UserOf[t] /\ UserOf[t] \in Users /\ RequestStep(p)
  BY DEF Requests, Steady, TabsOf, Users, RequestStep
<1>2. TouchesOnly(p) /\ MetaIds \subseteq MetaIds'
  BY <1>1, TouchesOwnOnly, MetaIdsGrow
<1>3. todo[p] \in Seq(OthersRows(t)) /\ chosen[p] \cap Own(t) = {}
  BY <1>1 DEF SteadyTab, OthersAbstain
<1>4. Value(p) \in OthersRows(t) /\ Value(p) # None
  <2>1. Value(p) \in RowType /\ Value(p) # None
    BY RowTypes
  <2>2. Value(p).user = UserOf[p]
    BY DEF Value, Row
  <2> QED
    BY <1>1, <2>1, <2>2 DEF OthersRows
<1>5. CASE Heartbeat(p)
  BY <1>1, <1>2, <1>3, <1>5, OwnRowsStay, OthersStepKeeps DEF Heartbeat
<1>6. CASE StampReads(p)
  <2>1. todo'[p] \in Seq(OthersRows(t))
    <3>1. todo'[p] = RowsToStamp(p)
      BY <1>1, <1>6 DEF StampReads, WorkInv
    <3>2. {i \in Live : rows[i].user = UserOf[p]} \cap Own(t) = {}
      BY <1>1 DEF Own
    <3> QED
      BY <3>1, <3>2, OthersHaveOthers DEF RowsToStamp
  <2> QED
    BY <1>1, <1>2, <1>3, <1>6, <2>1, OwnRowsStay, OthersStepKeeps DEF StampReads, historyVars
<1>7. CASE StampDeletesRow(p)
  <2>1. todo'[p] = Tail(todo[p]) /\ chosen'[p] = WithValue(Head(todo[p])) /\ todo[p] # <<>>
    BY <1>1, <1>7 DEF StampDeletesRow, SelectForDelete, WorkInv
  <2> QED
    BY <1>1, <1>2, <1>3, <1>7, <2>1, OthersValues, OwnRowsStay, OthersStepKeeps
       DEF StampDeletesRow, historyVars
<1>8. CASE StampKeepsRow(p)
  <2>1. todo'[p] = Tail(todo[p]) /\ todo[p] # <<>>
    BY <1>1, <1>8 DEF StampKeepsRow, WorkInv
  <2> QED
    BY <1>1, <1>2, <1>3, <1>8, <2>1, OthersValues, OwnRowsStay, OthersStepKeeps
       DEF StampKeepsRow, historyVars
<1>9. CASE StampUpdatesRow(p)
  <2>1. todo'[p] = Tail(todo[p]) /\ todo[p] # <<>>
    BY <1>1, <1>9 DEF StampUpdatesRow, WorkInv
  <2>2. WithValue(Head(todo[p])) \cap Own(t) = {}
    BY <1>3, <2>1, OthersValues
  <2>3. Own(t)' = Own(t) /\ \A i \in Own(t) : rows'[i] = rows[i]
    <3>1. \/ rows' = Append(rows, Value(p))
          \/ rows' = [i \in MetaIds |-> IF i \in WithValue(Head(todo[p])) THEN Value(p) ELSE rows[i]]
      BY <1>9 DEF StampUpdatesRow
    <3> QED
      BY <1>4, <2>2, <3>1, OwnRowsStay
  <2> QED
    BY <1>1, <1>2, <1>3, <1>9, <2>1, <2>3, OthersValues, OthersStepKeeps
       DEF StampUpdatesRow, historyVars
<1>10. CASE StampEnds(p)
  <2>1. Own(t)' = Own(t) /\ \A i \in Own(t) : rows'[i] = rows[i]
    BY <1>4, <1>10, OwnRowsStay DEF StampEnds
  <2>2. reported'[UserOf[t]] = reported[UserOf[t]]
    BY <1>1, <1>10 DEF StampEnds, WorkInv
  <2> QED
    BY <1>1, <1>2, <1>3, <1>10, <2>1, <2>2, OthersStepKeeps DEF StampEnds
<1> QED
  BY <1>5, <1>6, <1>7, <1>8, <1>9, <1>10 DEF TabStep

\* A row of a steady user is too young for any query that runs.
LEMMA OwnRowIsYoung ==
  ASSUME TypeInv, WorkInv, NEW t \in Tabs, SteadyTab(t), NEW q \in Queries, NEW i \in Own(t)
  PROVE  ~Expired(q, rows[i])
<1>1. q \in Requests /\ UserOf[t] \in Users
  BY DEF Requests, Users
<1>2. reported[UserOf[t]] # Never /\ rows[i].at >= reported[UserOf[t]]
  BY DEF SteadyTab, OneOwnRow
<1>3. rows[i].at \in Nat
  BY RowTypes DEF Own, RowType
<1>4. reported[UserOf[t]] \in Nat /\ started[q] \in Nat /\ now \in Nat /\ started[q] <= now
  BY <1>1, <1>2 DEF TypeInv, WorkInv
<1>5. now - reported[UserOf[t]] < TTL
  BY <1>2 DEF SteadyTab, ReportIsYoung
<1> QED
  BY <1>2, <1>3, <1>4, <1>5 DEF Expired

LEMMA QueryKeeps ==
  ASSUME TypeInv, WorkInv, NEW t \in Tabs, Steady(t), SteadyTab(t),
         NEW q \in Queries, QueryStep(q)
  PROVE  SteadyTab(t)'
<1>1. q \in Requests \ {t} /\ RequestStep(q)
  BY DEF Requests, RequestStep
<1>2. TouchesOnly(q) /\ MetaIds \subseteq MetaIds'
  BY <1>1, TouchesOwnOnly, MetaIdsGrow
<1>3. todo[q] \in Seq(OthersRows(t)) /\ chosen[q] \cap Own(t) = {}
  BY <1>1 DEF SteadyTab, OthersAbstain
<1>4. rows' = rows /\ reported' = reported
  BY DEF QueryStep, QueryBegins, QueryReads, QueryDeletesRow, QueryEnds, historyVars
<1>5. Own(t)' = Own(t) /\ \A i \in Own(t) : rows'[i] = rows[i]
  BY <1>4 DEF Own, Live, MetaIds
<1>6. todo'[q] \in Seq(OthersRows(t)) /\ chosen'[q] \cap Own(t) = {}
  <2>1. CASE QueryBegins(q) \/ QueryEnds(q)
    BY <1>3, <2>1 DEF QueryBegins, QueryEnds
  <2>2. CASE QueryReads(q)
    <3> DEFINE old == {i \in Live : Expired(q, rows[i])}
    <3>1. todo'[q] = ValuesOf(old) /\ chosen' = chosen
      BY <1>1, <2>2 DEF QueryReads, WorkInv
    <3>2. old \subseteq Live /\ old \cap Own(t) = {}
      BY OwnRowIsYoung
    <3> HIDE DEF old
    <3> QED
      BY <1>3, <3>1, <3>2, OthersHaveOthers
  <2>3. CASE QueryDeletesRow(q)
    <3>1. todo'[q] = Tail(todo[q]) /\ chosen'[q] = WithValue(Head(todo[q])) /\ todo[q] # <<>>
      BY <1>1, <2>3 DEF QueryDeletesRow, SelectForDelete, WorkInv
    <3> QED
      BY <1>3, <3>1, OthersValues
  <2> QED
    BY <2>1, <2>2, <2>3 DEF QueryStep
<1> QED
  BY <1>1, <1>2, <1>4, <1>5, <1>6, OthersStepKeeps

LEMMA DeletionKeeps ==
  ASSUME TypeInv, WorkInv, NEW t \in Tabs, Steady(t), SteadyTab(t),
         NEW p \in Requests, DeleteRows(p)
  PROVE  SteadyTab(t)'
<1>1. p # t
  BY DEF DeleteRows, SteadyTab, StampFollows
<1>2. TouchesOnly(p) /\ MetaIds \subseteq MetaIds'
  BY TouchesOwnOnly, MetaIdsGrow DEF RequestStep
<1>3. todo[p] \in Seq(OthersRows(t)) /\ chosen[p] \cap Own(t) = {}
  BY <1>1 DEF SteadyTab, OthersAbstain
<1>4. Own(t)' = Own(t) /\ \A i \in Own(t) : rows'[i] = rows[i]
  BY <1>3, OwnRowsStay DEF DeleteRows
<1>5. chosen'[p] = {} /\ todo' = todo /\ reported' = reported
  BY DEF DeleteRows, WorkInv, historyVars
<1> QED
  BY <1>1, <1>2, <1>3, <1>4, <1>5, OthersStepKeeps

-----------------------------------------------------------------------------
\* The tab's own steps, over its one row.
LEMMA OwnStepKeeps ==
  ASSUME TypeInv, WorkInv, NEW t \in Tabs, Steady(t), Steady(t)', SteadyTab(t), TabStep(t)
  PROVE  SteadyTab(t)'
<1>0. t \in Requests /\ UserOf[t] \in Users /\ RequestStep(t)
  BY DEF Requests, Users, RequestStep
<1>1. TouchesOnly(t) /\ MetaIds \subseteq MetaIds'
  BY <1>0, TouchesOwnOnly, MetaIdsGrow
<1>2. \A p \in Requests \ {t} : todo'[p] = todo[p] /\ chosen'[p] = chosen[p]
                                /\ todo[p] \in Seq(OthersRows(t)) /\ chosen[p] \subseteq MetaIds
                                /\ chosen[p] \cap Own(t) = {}
  BY <1>1 DEF TouchesOnly, WorkInv, SteadyTab, OthersAbstain
<1>3. /\ now \in Nat /\ started[t] \in Nat /\ started[t] <= now
      /\ reported[UserOf[t]] \in Nat \cup {Never}
  BY <1>0 DEF TypeInv, WorkInv
<1>4. Value(t) \in RowType /\ Value(t) # None /\ Value(t).user = UserOf[t]
      /\ Value(t).at = started[t]
  BY RowTypes DEF Value, Row
<1>5. ASSUME Own(t)' = Own(t) PROVE OthersAbstain(t)'
  BY <1>2, <1>5 DEF OthersAbstain, OthersRows
<1>6. CASE Heartbeat(t)
  <2>1. /\ pc'[t] = "read" /\ started'[t] = now /\ now' = now
        /\ rows' = rows /\ reported' = reported
    BY <1>0, <1>6 DEF Heartbeat, Begin, Goto, TypeInv
  <2>2. Own(t)' = Own(t)
    BY <2>1 DEF Own, Live, MetaIds
  <2>3. ReportIsYoung(t)'
    BY <1>3, <2>1 DEF SteadyTab, ReportIsYoung, Never
  <2>4. OneOwnRow(t)' /\ StampFollows(t)'
    BY <2>1, <2>2 DEF SteadyTab, OneOwnRow, StampFollows, MetaIds
  <2> QED
    BY <1>5, <2>2, <2>3, <2>4 DEF SteadyTab
<1>7. CASE StampReads(t)
  <2>1. /\ pc[t] = "read" /\ pc'[t] = "loop" /\ todo'[t] = RowsToStamp(t) /\ ~added'[t]
        /\ UNCHANGED <<now, rows, started, reported>>
    BY <1>0, <1>7 DEF StampReads, Goto, TypeInv, WorkInv, historyVars
  <2>2. Own(t)' = Own(t)
    BY <2>1 DEF Own, Live, MetaIds
  <2>3. ReportIsYoung(t)' /\ OneOwnRow(t)'
    BY <2>1, <2>2 DEF SteadyTab, ReportIsYoung, OneOwnRow, MetaIds
  <2>4. Own(t) = {} => todo'[t] = <<>>
    <3>1. Own(t) \subseteq MetaIds /\ RowsToStamp(t) = ValuesOf(Own(t))
      BY DEF Own, Live, RowsToStamp
    <3> QED
      BY <2>1, <3>1, ValuesAreRows
  <2>5. \A i \in Own(t) : Own(t) = {i} => todo'[t] = <<rows[i]>>
    <3>1. Own(t) \subseteq MetaIds /\ RowsToStamp(t) = ValuesOf(Own(t))
      BY DEF Own, Live, RowsToStamp
    <3>2. \A i \in Own(t) : rows[i] \in RowType
      BY RowTypes DEF Own
    <3> QED
      BY <2>1, <3>1, <3>2, ValuesAreRows
  <2>6. Own(t) = {} \/ \E i \in Own(t) : Own(t) = {i}
    BY DEF SteadyTab, OneOwnRow
  <2>7. StampFollows(t)'
    BY <2>1, <2>2, <2>4, <2>5, <2>6 DEF StampFollows
  <2> QED
    BY <1>5, <2>2, <2>3, <2>7 DEF SteadyTab
<1>8. CASE StampDeletesRow(t)
  BY <1>8 DEF StampDeletesRow, SteadyTab, StampFollows
<1>9. CASE StampKeepsRow(t) \/ StampUpdatesRow(t)
  <2>1. PICK i \in Own(t) : todo[t] = <<rows[i]>> /\ ~added[t]
    BY <1>9 DEF StampKeepsRow, StampUpdatesRow, SteadyTab, StampFollows
  <2>2. /\ Own(t) = {i} /\ reported[UserOf[t]] # Never /\ i \in MetaIds /\ i \in Live
        /\ rows[i].user = UserOf[t]
    BY <2>1 DEF SteadyTab, OneOwnRow, Own, Live
  <2>3. Head(todo[t]) = rows[i] /\ Tail(todo[t]) = <<>>
    BY <2>1
  <2>4. /\ pc[t] = "loop" /\ todo'[t] = <<>>
        /\ UNCHANGED <<now, pc, started, chosen, reported>>
    BY <1>0, <1>9, <2>3 DEF StampKeepsRow, StampUpdatesRow, WorkInv, historyVars
  <2>5. added'[t] /\ rows'[i] = Value(t) /\ Own(t)' = {i} /\ MetaIds' = MetaIds
    <3>1. CASE StampKeepsRow(t)
      BY <1>0, <2>2, <2>3, <3>1 DEF StampKeepsRow, WorkInv, Own, Live, MetaIds
    <3>2. CASE StampUpdatesRow(t)
      <4>1. WithValue(Head(todo[t])) = {i}
        BY <2>2, <2>3 DEF WithValue, Own
      <4>2. rows' = [j \in MetaIds |-> IF j = i THEN Value(t) ELSE rows[j]]
        BY <2>2, <3>2, <4>1 DEF StampUpdatesRow
      <4>3. added'[t]
        BY <1>0, <3>2, <4>1 DEF StampUpdatesRow, WorkInv
      <4>4. MetaIds' = MetaIds /\ rows'[i] = Value(t)
        BY <2>2, <4>2 DEF MetaIds
      <4>5. Own(t)' = {i}
        BY <1>4, <2>2, <4>2, <4>4 DEF Own, Live
      <4> QED
        BY <4>3, <4>4, <4>5
    <3> QED
      BY <1>9, <3>1, <3>2
  <2>6. ReportIsYoung(t)'
    BY <2>4 DEF SteadyTab, ReportIsYoung
  <2>7. OneOwnRow(t)'
    <3>1. started[t] >= reported[UserOf[t]]
      BY <1>3, <2>2, <2>4 DEF SteadyTab, ReportIsYoung
    <3> QED
      BY <1>4, <2>2, <2>4, <2>5, <3>1 DEF OneOwnRow
  <2>8. StampFollows(t)'
    BY <2>4, <2>5 DEF StampFollows, Value
  <2> QED
    BY <1>5, <2>2, <2>5, <2>6, <2>7, <2>8 DEF SteadyTab
<1>10. CASE StampEnds(t)
  <2>1. /\ pc[t] = "loop" /\ pc'[t] = "idle" /\ now' = now /\ todo[t] = <<>>
        /\ reported'[UserOf[t]] = started[t]
        /\ rows' = IF added[t] THEN rows ELSE Append(rows, Value(t))
    BY <1>0, <1>10 DEF StampEnds, End, Goto, TypeInv, WorkInv
  <2>2. now - started[t] < TTL
    BY <1>3, <1>10 DEF StampEnds, Steady
  <2>3. ReportIsYoung(t)' /\ StampFollows(t)'
    BY <1>3, <2>1, <2>2 DEF ReportIsYoung, StampFollows
  <2>4. CASE added[t]
    <3>1. PICK i \in Own(t) : rows[i] = Value(t)
      BY <2>1, <2>4 DEF SteadyTab, StampFollows
    <3>2. Own(t) = {i} /\ i \in MetaIds
      BY <3>1 DEF SteadyTab, OneOwnRow, Own, Live
    <3>3. Own(t)' = Own(t) /\ MetaIds' = MetaIds
      BY <2>1, <2>4 DEF Own, Live, MetaIds
    <3>4. OneOwnRow(t)'
      BY <1>3, <1>4, <2>1, <2>4, <3>1, <3>2, <3>3 DEF OneOwnRow, Never
    <3> QED
      BY <1>5, <2>3, <3>3, <3>4 DEF SteadyTab
  <2>5. CASE ~added[t]
    <3>1. Own(t) = {}
      BY <2>1, <2>5 DEF SteadyTab, StampFollows
    <3>2. /\ rows \in Seq(RowType \cup {None}) /\ Len(rows) \in Nat /\ MetaIds = 1 .. Len(rows)
          /\ rows' = Append(rows, Value(t))
      BY <2>1, <2>5 DEF TypeInv, MetaIds
    <3>3. rows' \in Seq(RowType \cup {None}) /\ Len(rows') = Len(rows) + 1
          /\ \A i \in 1 .. Len(rows') : rows'[i] = IF i <= Len(rows) THEN rows[i] ELSE Value(t)
      BY <1>4, <3>2, AppendProperties
    <3>4. PICK n \in Nat : /\ MetaIds = 1 .. n /\ MetaIds' = 1 .. (n + 1)
                           /\ \A i \in 1 .. (n + 1) :
                                rows'[i] = IF i <= n THEN rows[i] ELSE Value(t)
      <4>1. MetaIds' = 1 .. Len(rows')
        BY <3>3 DEF MetaIds
      <4> QED
        BY <3>2, <3>3, <4>1
    <3>5. \A i \in 1 .. n : i \in 1 .. (n + 1) /\ i <= n
      OBVIOUS
    <3>6. \A i \in 1 .. (n + 1) : i = n + 1 \/ i \in 1 .. n
      OBVIOUS
    <3>7. n + 1 \in 1 .. (n + 1) /\ ~(n + 1 <= n) /\ n + 1 \notin MetaIds
      BY <3>4
    <3>8. Own(t)' = {n + 1} /\ rows'[n + 1] = Value(t)
      BY <1>4, <3>1, <3>4, <3>5, <3>6, <3>7 DEF Own, Live
    <3>9. OneOwnRow(t)'
      <4>1. n + 1 \in MetaIds' /\ rows'[n + 1].at = reported'[UserOf[t]]
        BY <1>4, <2>1, <3>4, <3>7, <3>8
      <4>2. reported'[UserOf[t]] \in Nat /\ reported'[UserOf[t]] # Never
        BY <1>3, <2>1 DEF Never
      <4> QED
        BY <3>8, <4>1, <4>2 DEF OneOwnRow
    <3>10. OthersAbstain(t)'
      BY <1>2, <3>7, <3>8 DEF OthersAbstain, OthersRows
    <3> QED
      BY <2>3, <3>9, <3>10 DEF SteadyTab
  <2> QED
    BY <2>4, <2>5
<1> QED
  BY <1>6, <1>7, <1>8, <1>9, <1>10 DEF TabStep

\* A second passes, and the user is still steady.
LEMMA TickKeeps ==
  ASSUME TypeInv, WorkInv, NEW t \in Tabs, Steady(t)', SteadyTab(t), Tick
  PROVE  SteadyTab(t)'
<1>1. /\ now' = now + 1 /\ UNCHANGED <<rows, pc, started, todo, added, chosen, reported>>
      /\ lapsed' = lapsed \cup {u \in Users : reported[u] # Never /\ now' - reported[u] >= TTL}
  BY DEF Tick, requestVars
<1>2. UserOf[t] \in Users /\ now \in Nat /\ reported[UserOf[t]] \in Nat \cup {Never}
  BY DEF Users, TypeInv, WorkInv
<1>3. ReportIsYoung(t)'
  BY <1>1, <1>2 DEF ReportIsYoung, SteadyTab, Steady
<1>4. OneOwnRow(t)' /\ StampFollows(t)' /\ OthersAbstain(t)'
  BY <1>1 DEF SteadyTab, OneOwnRow, StampFollows, OthersAbstain, OthersRows, Own, Live,
              MetaIds, Value
<1> QED
  BY <1>3, <1>4 DEF SteadyTab

\* Who has lapsed stays so.
LEMMA SteadyBefore ==
  ASSUME [Next]_vars, NEW t \in Tabs, Steady(t)'
  PROVE  Steady(t)
<1>1. lapsed \subseteq lapsed'
  BY DEF Next, TabStep, Heartbeat, StampReads, StampDeletesRow, StampKeepsRow,
         StampUpdatesRow, StampEnds, QueryStep, QueryBegins, QueryReads, QueryDeletesRow,
         QueryEnds, DeleteRows, Tick, historyVars, vars
<1> QED
  BY <1>1 DEF Steady, TabsOf

LEMMA SteadyStep ==
  ASSUME TypeInv, SteadyInv, [Next]_vars
  PROVE  SteadyInv'
<1>1. WorkInv'
  BY WorkStep DEF SteadyInv
<1>2. ASSUME NEW t \in Tabs, Steady(t)' PROVE SteadyTab(t)'
  <2>1. WorkInv /\ Steady(t) /\ SteadyTab(t)
    BY <1>2, SteadyBefore DEF SteadyInv
  <2>2. ASSUME NEW p \in Tabs, TabStep(p) PROVE SteadyTab(t)'
    BY <1>2, <2>1, <2>2, OwnStepKeeps, OtherTabKeeps
  <2>3. CASE UNCHANGED vars
    BY <2>1, <2>3 DEF vars, requestVars, historyVars, SteadyTab, ReportIsYoung, OneOwnRow,
                      StampFollows, OthersAbstain, OthersRows, Own, Live, MetaIds, Value
  <2> QED
    BY <1>2, <2>1, <2>2, <2>3, QueryKeeps, DeletionKeeps, TickKeeps DEF Next
<1> QED
  BY <1>1, <1>2 DEF SteadyInv

LEMMA SteadyInduction == Spec => [](IInv /\ SteadyInv)
<1>1. Init => SteadyInv
  <2> SUFFICES ASSUME Init PROVE SteadyInv
    OBVIOUS
  <2>1. WorkInv
    BY DEF Init, WorkInv
  <2>2. ASSUME NEW t \in Tabs PROVE SteadyTab(t)
    <3>1. t \in Requests /\ UserOf[t] \in Users
      BY DEF Requests, Users
    <3>2. reported[UserOf[t]] = Never /\ pc[t] = "idle" /\ Own(t) = {}
      BY <3>1 DEF Init, Own, Live, MetaIds
    <3>3. \A p \in Requests : todo[p] = <<>> /\ chosen[p] = {}
      BY DEF Init
    <3> QED
      <4>1. ReportIsYoung(t) /\ OneOwnRow(t) /\ StampFollows(t)
        BY <3>2 DEF ReportIsYoung, OneOwnRow, StampFollows
      <4>2. OthersAbstain(t)
        BY <3>3, EmptySeq DEF OthersAbstain
      <4> QED
        BY <4>1, <4>2 DEF SteadyTab
  <2> QED
    BY <2>1, <2>2 DEF SteadyInv
<1>2. IInv /\ SteadyInv /\ [Next]_vars => SteadyInv'
  BY SteadyStep DEF IInv
<1> QED
  BY <1>1, <1>2, Inductive, PTL DEF Spec

\* A user with one tab who keeps reporting is on record at every moment, with
\* the last report or a later one: no query that cleans up, no report of
\* another and no step of the user's own next report takes the row away.
THEOREM SteadyUsersAreListed == Spec => []SteadyUserIsListed
<1>1. IInv /\ SteadyInv => SteadyUserIsListed
  <2> SUFFICES ASSUME IInv, SteadyInv, NEW u \in Users, Cardinality(TabsOf(u)) = 1,
                      reported[u] # Never, u \notin lapsed
               PROVE  \E i \in Live : rows[i].user = u /\ rows[i].at >= reported[u]
    BY DEF SteadyUserIsListed
  <2>1. IsFiniteSet(TabsOf(u))
    <3>1. TabsOf(u) \subseteq Requests
      BY DEF TabsOf, Requests
    <3> QED
      BY <3>1, FS_Subset
  <2>2. PICK t : TabsOf(u) = {t}
    BY <2>1, FS_Singleton
  <2>3. t \in Tabs /\ UserOf[t] = u /\ Steady(t)
    BY <2>2 DEF TabsOf, Steady
  <2>4. SteadyTab(t)
    BY <2>3 DEF SteadyInv
  <2> QED
    BY <2>3, <2>4 DEF SteadyTab, OneOwnRow, Own
<1> QED
  BY <1>1, SteadyInduction, PTL

\* Nor does such a user ever have two rows: the update by value, which would
\* renew them both, and the deletion of what is left over never meet one.
THEOREM SteadyUsersHaveOneRow ==
  Spec => [](\A t \in Tabs : Steady(t) =>
               \A i, j \in Live : rows[i].user = UserOf[t] /\ rows[j].user = UserOf[t] => i = j)
<1>1. SteadyInv => \A t \in Tabs : Steady(t) =>
        \A i, j \in Live : rows[i].user = UserOf[t] /\ rows[j].user = UserOf[t] => i = j
  <2> SUFFICES ASSUME SteadyInv, NEW t \in Tabs, Steady(t), NEW i \in Own(t), NEW j \in Own(t)
               PROVE  i = j
    BY DEF Own
  <2> QED
    BY DEF SteadyInv, SteadyTab, OneOwnRow
<1> QED
  BY <1>1, SteadyInduction, PTL
=============================================================================
