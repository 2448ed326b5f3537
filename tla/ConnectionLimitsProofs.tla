----------------------- MODULE ConnectionLimitsProofs -----------------------
(***************************************************************************)
(* ConnectionLimits, for every finite set of sockets and of clients, every *)
(* limit and every buffer.                                                 *)
(*                                                                         *)
(* Each bound holds because a step adds at most one element to the set it  *)
(* is about, and only when the guard leaves a place for it.  The sets are  *)
(* therefore described first, step by step; the counting follows.          *)
(***************************************************************************)
EXTENDS ConnectionLimits, FiniteSetTheorems, TLAPS

Verdicts == {"free", "accepted", "overConnections", "overCollaborators"}

\* TypeOK, without the gauges.
TypeInv ==
  /\ verdict \in [Sockets -> Verdicts]
  /\ client \in [Sockets -> Clients \cup {"none"}]
  /\ \A s \in Sockets : verdict[s] = "free" <=> client[s] = "none"

\* An image of a finite set is finite and no larger.
LEMMA ImageIsFinite ==
  ASSUME NEW S, IsFiniteSet(S), NEW f
  PROVE  LET T == {f[x] : x \in S}
         IN  IsFiniteSet(T) /\ Cardinality(T) <= Cardinality(S)
<1> DEFINE T == {f[x] : x \in S}
           g == [x \in S |-> f[x]]
<1>1. g \in Surjection(S, T)
  BY DEF Surjection
<1> HIDE DEF g
<1> QED
  BY <1>1, FS_Surjection

\* The sets that are counted are finite, and no client has less than a socket.
LEMMA CountedSets ==
  ASSUME TypeInv
  PROVE  /\ IsFiniteSet(WssClients) /\ IsFiniteSet(Accepted)
         /\ IsFiniteSet(ActiveClients) /\ IsFiniteSet(ActiveUsers)
         /\ Cardinality(Accepted) <= Cardinality(WssClients)
         /\ Cardinality(ActiveClients) <= Cardinality(Accepted)
<1>1. IsFiniteSet(WssClients)
  BY SocketsAssumption, FS_Subset DEF WssClients
<1>2. IsFiniteSet(Accepted) /\ Cardinality(Accepted) <= Cardinality(WssClients)
  <2>1. Accepted \in SUBSET WssClients
    BY DEF Accepted, WssClients
  <2> QED
    BY <1>1, <2>1, FS_Subset
<1>3. /\ IsFiniteSet(ActiveClients)
      /\ Cardinality(ActiveClients) <= Cardinality(Accepted)
  BY <1>2, ImageIsFinite DEF ActiveClients
<1>4. IsFiniteSet(ActiveUsers)
  BY <1>3, ImageIsFinite DEF ActiveUsers
<1> QED
  BY <1>1, <1>2, <1>3, <1>4

-----------------------------------------------------------------------------
\* What a step does to the sockets that are served: it adds one, for whom the
\* limits left a place, or takes one away, or leaves them as they are.
Joins(s, c) ==
  /\ s \in Sockets /\ c \in Clients
  /\ s \notin WssClients
  /\ ShouldAllowCollaborator(UserOf[c])
  /\ ShouldAllowConnection(Cardinality(WssClients) + 1, c)
  /\ Accepted' = Accepted \cup {s}
  /\ ActiveClients' = ActiveClients \cup {c}
  /\ activeConnectionsGauge' = activeConnectionsGauge + 1

Leaves(s) ==
  /\ s \in Accepted
  /\ Accepted' = Accepted \ {s}
  /\ ActiveClients' \in SUBSET ActiveClients
  /\ activeConnectionsGauge' = activeConnectionsGauge - 1

Stays ==
  /\ Accepted' = Accepted
  /\ ActiveClients' = ActiveClients
  /\ activeConnectionsGauge' \in {activeConnectionsGauge, Cardinality(WssClients)}

\* Every step keeps the types of the sockets.
LEMMA TypeStep == TypeInv /\ [Next]_vars => TypeInv'
<1> SUFFICES ASSUME TypeInv, [Next]_vars PROVE TypeInv'
  OBVIOUS
<1> USE ClientsAssumption DEF TypeInv, Verdicts
<1>1. ASSUME NEW s \in Sockets, NEW c \in Clients,
             OverCollaborators(s, c) \/ OverConnections(s, c) \/ Accept(s, c)
      PROVE  TypeInv'
  BY <1>1 DEF OverCollaborators, OverConnections, Accept, Refuse
<1>2. ASSUME NEW s \in Sockets, ConnectionCloses(s) \/ RefusedCloses(s)
      PROVE  TypeInv'
  BY <1>2 DEF ConnectionCloses, RefusedCloses, Leave
<1>3. CASE Reconcile \/ UNCHANGED vars
  BY <1>3 DEF Reconcile, vars
<1> QED
  BY <1>1, <1>2, <1>3 DEF Next

\* Every step is one of the three.
LEMMA StepCases ==
  ASSUME TypeInv, [Next]_vars
  PROVE  \/ \E s, c : Joins(s, c)
         \/ \E s : Leaves(s)
         \/ Stays
<1> USE ClientsAssumption DEF TypeInv
<1>1. ASSUME NEW s \in Sockets, NEW c \in Clients, Accept(s, c)
      PROVE  Joins(s, c)
  <2>1. Accepted' = Accepted \cup {s}
    BY <1>1 DEF Accept, Accepted
  <2>2. \A t \in Accepted : client'[t] = client[t]
    BY <1>1 DEF Accept, Accepted
  <2>3. client'[s] = c
    BY <1>1 DEF Accept
  <2>4. ActiveClients' = ActiveClients \cup {c}
    BY <2>1, <2>2, <2>3 DEF ActiveClients
  <2> QED
    BY <1>1, <2>1, <2>4 DEF Accept, Joins, WssClients
<1>2. ASSUME NEW s \in Sockets, ConnectionCloses(s)
      PROVE  Leaves(s)
  <2>1. s \in Accepted /\ Accepted' = Accepted \ {s}
    BY <1>2 DEF ConnectionCloses, Leave, Accepted
  <2>2. \A t \in Accepted' : client'[t] = client[t]
    BY <1>2, <2>1 DEF ConnectionCloses, Leave, Accepted
  <2>3. ActiveClients' \in SUBSET ActiveClients
    BY <2>1, <2>2 DEF ActiveClients
  <2> QED
    BY <1>2, <2>1, <2>3 DEF ConnectionCloses, Leaves
<1>3. ASSUME NEW s \in Sockets, NEW c \in Clients \cup {"none"},
             NEW v \in Verdicts \ {"accepted"},
             s \notin Accepted,
             verdict' = [verdict EXCEPT ![s] = v],
             client' = [client EXCEPT ![s] = c],
             UNCHANGED gauges
      PROVE  Stays
  <2>1. Accepted' = Accepted
    BY <1>3 DEF Accepted
  <2>2. \A t \in Accepted : client'[t] = client[t]
    BY <1>3 DEF Accepted
  <2>3. ActiveClients' = ActiveClients
    BY <2>1, <2>2 DEF ActiveClients
  <2> QED
    BY <1>3, <2>1, <2>3 DEF Stays, gauges
<1>4. ASSUME NEW s \in Sockets, NEW c \in Clients,
             OverCollaborators(s, c) \/ OverConnections(s, c)
      PROVE  Stays
  BY <1>3, <1>4 DEF OverCollaborators, OverConnections, Refuse, Accepted, Verdicts
<1>5. ASSUME NEW s \in Sockets, RefusedCloses(s)
      PROVE  Stays
  BY <1>3, <1>5 DEF RefusedCloses, Leave, Accepted, Verdicts
<1>6. CASE Reconcile \/ UNCHANGED vars
  BY <1>6 DEF Reconcile, vars, gauges, Stays, Accepted, ActiveClients
<1> QED
  BY <1>1, <1>2, <1>4, <1>5, <1>6 DEF Next

-----------------------------------------------------------------------------
Gauge == activeConnectionsGauge \in Nat /\ GaugeNeverUnderstates

IInv ==
  TypeInv /\ Gauge /\ NeverExceedsMax /\ BufferIsReserved /\ CollaboratorsWithinLimit

\* Initially nothing is served.
LEMMA InitInv == Init => IInv
<1> SUFFICES ASSUME Init PROVE IInv
  OBVIOUS
<1>1. TypeInv
  BY DEF Init, TypeInv, Verdicts
<1>2. Accepted = {} /\ ActiveClients = {} /\ ActiveUsers = {}
  BY DEF Init, Accepted, ActiveClients, ActiveUsers
<1>3. Cardinality({}) = 0
  BY FS_EmptySet
<1>4. Gauge /\ NeverExceedsMax /\ CollaboratorsWithinLimit
  BY <1>2, <1>3, MaxConnectionsAssumption, MaxCollaboratorsAssumption
  DEF Init, Gauge, GaugeNeverUnderstates, NeverExceedsMax, CollaboratorsWithinLimit
<1>5. BufferIsReserved
  BY <1>2, <1>3, MaxConnectionsAssumption, BufferConnectionsAssumption
  DEF BufferIsReserved, SoftLimit
<1> QED
  BY <1>1, <1>4, <1>5 DEF IInv

\* A socket that joins is one more, and a client one more at most.
LEMMA JoinCounts ==
  ASSUME TypeInv, TypeInv', NEW s, NEW c, Joins(s, c)
  PROVE  /\ Cardinality(Accepted') = Cardinality(Accepted) + 1
         /\ c \in ActiveClients => ActiveClients' = ActiveClients
         /\ Cardinality(ActiveClients') <= Cardinality(ActiveClients) + 1
         /\ ActiveUsers' = ActiveUsers \cup {UserOf[c]}
<1>1. s \notin Accepted
  BY DEF Joins, Accepted, WssClients
<1>2. Cardinality(Accepted') = Cardinality(Accepted) + 1
  BY <1>1, CountedSets, FS_AddElement DEF Joins
<1>3. c \in ActiveClients => ActiveClients' = ActiveClients
  BY DEF Joins
<1>4. /\ IsFiniteSet(ActiveClients) /\ Cardinality(ActiveClients) \in Nat
      /\ ActiveClients' = ActiveClients \cup {c}
  BY CountedSets, FS_CardinalityType DEF Joins
<1>5. Cardinality(ActiveClients') <= Cardinality(ActiveClients) + 1
  BY <1>4, FS_AddElement
<1>6. ActiveUsers' = ActiveUsers \cup {UserOf[c]}
  BY <1>4 DEF ActiveUsers
<1> QED
  BY <1>2, <1>3, <1>5, <1>6

\* A socket that leaves is one less, and brings no client and no user.
LEMMA LeaveCounts ==
  ASSUME TypeInv, TypeInv', NEW s, Leaves(s)
  PROVE  /\ Cardinality(Accepted') = Cardinality(Accepted) - 1
         /\ Cardinality(Accepted) > 0
         /\ Cardinality(ActiveClients') <= Cardinality(ActiveClients)
         /\ Cardinality(ActiveUsers') <= Cardinality(ActiveUsers)
<1>1. Cardinality(Accepted') = Cardinality(Accepted) - 1
  BY CountedSets, FS_RemoveElement DEF Leaves
<1>2. Cardinality(Accepted') \in Nat /\ Cardinality(Accepted) \in Nat
  BY CountedSets, FS_CardinalityType, FS_RemoveElement DEF Leaves
<1>3. Cardinality(ActiveClients') <= Cardinality(ActiveClients)
  BY CountedSets, FS_Subset DEF Leaves
<1>4. ActiveUsers' \in SUBSET ActiveUsers
  BY DEF Leaves, ActiveUsers
<1>5. Cardinality(ActiveUsers') <= Cardinality(ActiveUsers)
  BY <1>4, CountedSets, FS_Subset
<1> QED
  BY <1>1, <1>2, <1>3, <1>5

\* Every step keeps every bound.
LEMMA StepInv == IInv /\ [Next]_vars => IInv'
<1> SUFFICES ASSUME IInv, [Next]_vars PROVE IInv'
  OBVIOUS
<1>1. TypeInv /\ TypeInv'
  BY TypeStep DEF IInv
<1> DEFINE a == Cardinality(Accepted)
           w == Cardinality(WssClients)
           k == Cardinality(ActiveClients)
           u == Cardinality(ActiveUsers)
<1>2. /\ a \in Nat /\ w \in Nat /\ k \in Nat /\ u \in Nat
      /\ a <= w /\ k <= a
  BY <1>1, CountedSets, FS_CardinalityType
<1>3. SoftLimit' = SoftLimit
  BY DEF SoftLimit
<1> USE DEF IInv, Gauge, GaugeNeverUnderstates, NeverExceedsMax, BufferIsReserved,
            CollaboratorsWithinLimit
<1>4. ASSUME NEW s, NEW c, Joins(s, c)
      PROVE  IInv'
  <2>1. /\ Cardinality(Accepted') = a + 1
        /\ c \in ActiveClients => ActiveClients' = ActiveClients
        /\ Cardinality(ActiveClients') <= k + 1
        /\ ActiveUsers' = ActiveUsers \cup {UserOf[c]}
    BY <1>1, <1>4, JoinCounts
  <2>2. Gauge'
    BY <1>2, <1>4, <2>1 DEF Joins
  <2>3. NeverExceedsMax'
    BY <1>2, <1>4, <2>1, MaxConnectionsAssumption DEF Joins, ShouldAllowConnection
  <2>4. BufferIsReserved'
    <3>1. Cardinality(ActiveClients') \in Nat /\ SoftLimit \in Int
      BY <1>1, CountedSets, FS_CardinalityType, MaxConnectionsAssumption,
         BufferConnectionsAssumption, <1>4, FS_AddElement DEF SoftLimit, Joins
    <3>2. CASE c \in ActiveClients
      BY <1>3, <2>1, <3>2
    <3>3. CASE c \notin ActiveClients
      <4>1. MaxConnections # -1 => w + 1 <= SoftLimit
        BY <1>4, <3>3 DEF Joins, ShouldAllowConnection, IsClientActive
      <4> QED
        BY <1>2, <1>3, <2>1, <3>1, <4>1
    <3> QED
      BY <3>2, <3>3
  <2>5. CollaboratorsWithinLimit'
    <3>1. CASE UserOf[c] \in ActiveUsers
      <4>1. ActiveUsers' = ActiveUsers
        BY <2>1, <3>1
      <4> QED
        BY <4>1
    <3>2. CASE UserOf[c] \notin ActiveUsers
      <4>1. Cardinality(ActiveUsers') = u + 1
        BY <1>1, <2>1, <3>2, CountedSets, FS_AddElement
      <4>2. MaxCollaborators # -1 => u < MaxCollaborators
        BY <1>4, <3>2 DEF Joins, ShouldAllowCollaborator
      <4> QED
        BY <1>2, <4>1, <4>2, MaxCollaboratorsAssumption
    <3> QED
      BY <3>1, <3>2
  <2> QED
    BY <1>1, <2>2, <2>3, <2>4, <2>5
<1>5. ASSUME NEW s, Leaves(s)
      PROVE  IInv'
  <2>1. /\ Cardinality(Accepted') = a - 1 /\ a > 0
        /\ Cardinality(ActiveClients') <= k
        /\ Cardinality(ActiveUsers') <= u
    BY <1>1, <1>5, LeaveCounts
  <2>2. /\ Cardinality(ActiveClients') \in Int /\ Cardinality(ActiveUsers') \in Int
        /\ SoftLimit \in Int
    BY <1>1, CountedSets, FS_CardinalityType, FS_Subset, <1>5,
       MaxConnectionsAssumption, BufferConnectionsAssumption
    DEF SoftLimit, Leaves, ActiveUsers
  <2>3. Gauge'
    BY <1>2, <1>5, <2>1 DEF Leaves
  <2>4. NeverExceedsMax'
    BY <1>2, <2>1, MaxConnectionsAssumption
  <2>5. BufferIsReserved' /\ CollaboratorsWithinLimit'
    BY <1>2, <1>3, <2>1, <2>2, MaxCollaboratorsAssumption
  <2> QED
    BY <1>1, <2>3, <2>4, <2>5
<1>6. CASE Stays
  <2>1. ActiveUsers' = ActiveUsers
    BY <1>6 DEF Stays, ActiveUsers
  <2> QED
    BY <1>1, <1>2, <1>3, <1>6, <2>1 DEF Stays
<1> QED
  BY <1>1, <1>4, <1>5, <1>6, StepCases

\* The gauges that are only ever set hold what was counted.
IdentityGauges == activeClientsGauge \in Nat /\ activeCollaboratorsGauge \in Nat

\* Whatever set of clients a gauge counts, there are finitely many of them.
LEMMA ClientsAreCounted ==
  ASSUME NEW A \in SUBSET (Clients \cup {"none"})
  PROVE  /\ Cardinality(A) \in Nat
         /\ Cardinality({UserOf[c] : c \in A}) \in Nat
<1>1. IsFiniteSet(Clients \cup {"none"})
  BY ClientsAssumption, FS_AddElement
<1>2. IsFiniteSet(A)
  BY <1>1, FS_Subset
<1>3. IsFiniteSet({UserOf[c] : c \in A})
  BY <1>2, ImageIsFinite
<1> QED
  BY <1>2, <1>3, FS_CardinalityType

\* Every step sets them to such a count, or leaves them.
LEMMA IdentityGaugesStep ==
  IdentityGauges /\ TypeInv /\ [Next]_vars => IdentityGauges'
<1> SUFFICES ASSUME IdentityGauges, TypeInv, [Next]_vars PROVE IdentityGauges'
  OBVIOUS
<1>1. TypeInv'
  BY TypeStep
<1>2. /\ ActiveClientCount \in Nat /\ Cardinality(ActiveUsers) \in Nat
      /\ ActiveClientCount' \in Nat /\ Cardinality(ActiveUsers') \in Nat
  <2> DEFINE counted == ActiveClients \cup {"none" : s \in WssClients \ Accepted}
  <2>1. /\ ActiveClients \in SUBSET (Clients \cup {"none"})
        /\ counted \in SUBSET (Clients \cup {"none"})
    BY DEF TypeInv, ActiveClients, Accepted
  <2>2. /\ ActiveClients' \in SUBSET (Clients \cup {"none"})
        /\ counted' \in SUBSET (Clients \cup {"none"})
    BY <1>1 DEF TypeInv, ActiveClients, Accepted
  <2>3. ActiveClientCount \in Nat /\ Cardinality(ActiveUsers) \in Nat
    BY <2>1, ClientsAreCounted DEF ActiveClientCount, ActiveUsers
  <2>4. ActiveClientCount' \in Nat /\ Cardinality(ActiveUsers') \in Nat
    BY <2>2, ClientsAreCounted DEF ActiveClientCount, ActiveUsers
  <2> QED
    BY <2>3, <2>4
<1>3. \/ RecordIdentities
      \/ Reconcile
      \/ UNCHANGED <<activeClientsGauge, activeCollaboratorsGauge>>
  BY DEF Next, OverCollaborators, OverConnections, Accept, Refuse, ConnectionCloses,
         RefusedCloses, vars, gauges
<1> QED
  BY <1>2, <1>3 DEF IdentityGauges, RecordIdentities, Reconcile

-----------------------------------------------------------------------------
\* The strengthened invariant holds throughout.
THEOREM Invariance == Spec => []IInv
  BY InitInv, StepInv, PTL DEF Spec

\* Variables hold values of their types and no gauge falls below zero.
THEOREM TypeCorrect == Spec => []TypeOK
<1>1. Init => IdentityGauges
  BY DEF Init, IdentityGauges
<1>2. IInv /\ IdentityGauges /\ [Next]_vars => IdentityGauges'
  BY IdentityGaugesStep DEF IInv
<1>3. IInv /\ IdentityGauges => TypeOK
  BY DEF IInv, TypeInv, Gauge, IdentityGauges, TypeOK, Verdicts
<1> QED
  BY Invariance, <1>1, <1>2, <1>3, PTL DEF Spec

\* The server never serves more sockets than MAX_CONNECTIONS, nor more users
\* than MAX_COLLABORATORS.
THEOREM LimitsHold == Spec => []WithinLimits
<1>1. IInv => WithinLimits
  BY DEF IInv, WithinLimits
<1> QED
  BY Invariance, <1>1, PTL

\* There are never more clients than the soft limit, so the buffer is left to
\* the further connections of those that have one.
THEOREM BufferHolds == Spec => []BufferIsReserved
  BY Invariance, PTL DEF IInv

\* Counted up, counted down and set, the gauge never falls behind.
THEOREM GaugeIsUpperBound == Spec => []GaugeNeverUnderstates
<1>1. IInv => GaugeNeverUnderstates
  BY DEF IInv, Gauge
<1> QED
  BY Invariance, <1>1, PTL
=============================================================================
