------------------------- MODULE RoomProviderProofs -------------------------
(***************************************************************************)
(* RoomProvider's safety, for every bound on reconnects and attempts; then *)
(* the modal that shows its status, and the limit of a room to which a     *)
(* provider yields.                                                        *)
(*                                                                         *)
(* EndInv says what an ended provider may still hold, LoopInv counts loops *)
(* and sockets, StatusInv relates the status shown to the rest.  StatusInv *)
(* needs LoopInv: only a loop beside a socket could fail while the room is *)
(* synced.                                                                 *)
(***************************************************************************)
EXTENDS LimitModal, RoomLimit, FiniteSetTheorems, WellFoundedInduction, TLAPS

\* TypeOK, with what is counted apart from what is not.
CountsOK ==
  /\ attempts \in 0 .. MaxAttempts
  /\ backoffs \in Nat /\ fetches \in Nat /\ reconnects \in 0 .. Reconnects

FlagsOK ==
  /\ ws \in {"none", "connecting", "open"}
  /\ synced \in BOOLEAN /\ stableTimer \in BOOLEAN /\ eligible \in BOOLEAN
  /\ creation \in {"pending", "resolved", "failed"}
  /\ hasConnectionError \in BOOLEAN /\ roomLimitExceeded \in BOOLEAN
  /\ disposed \in BOOLEAN /\ subscribed \in BOOLEAN
  /\ shown \in Errors \cup {"none", "connecting", "connected"}

EndInv ==
  /\ NothingRunsAfterTheEnd
  /\ disposed => ~eligible
  /\ stableTimer \/ synced => ws = "open"

LoopInv == NeverStalls /\ OneAttemptAtATime

StatusInv ==
  /\ ~disposed /\ shown # "none" => subscribed
  /\ shown \in Errors => hasConnectionError
  /\ shown = "connecting" => ~hasConnectionError
  /\ synced /\ reconnects = 0 => ~hasConnectionError
  /\ ~disposed =>
       /\ shown = "connected" => ws = "open"
       /\ shown = "connecting" => ws = "connecting"
       /\ shown \in Retries => eligible
       /\ shown \in {"final", "roomLimit"} => ~eligible

IInv == CountsOK /\ FlagsOK /\ EndInv /\ LoopInv /\ StatusInv

USE DEF Errors, Retries

-----------------------------------------------------------------------------
\* A policy that says of an error whether it is retried.
Consistent(p) ==
  /\ p.shouldRetry \in BOOLEAN
  /\ p.shouldRetry => p.error \in Retries
  /\ ~p.shouldRetry => p.error \in {"final", "roomLimit"}

\* A close retries exactly what its error says is retried.
LEMMA PolicyIsConsistent ==
  ASSUME NEW scope, NEW code, NEW exceeded
  PROVE  Consistent(ClosePolicy(scope, code, exceeded))
<1> DEFINE p == ClosePolicy(scope, code, exceeded)
<1>1. p.shouldRetry = (~exceeded /\ Retried(scope, code))
  BY DEF ClosePolicy
<1>2. p.shouldRetry \in BOOLEAN
  BY <1>1, Zenon
<1>3. p.error = IF exceeded THEN "roomLimit"
                ELSE IF ~Retried(scope, code) THEN "final"
                ELSE IF scope = "physical" /\ code = 4002 THEN "connectionLimit"
                ELSE IF scope = "physical" /\ code = 4003 THEN "collaboratorLimit"
                ELSE "retrying"
  BY DEF ClosePolicy
<1>4. ~exceeded /\ Retried(scope, code) => p.error \in Retries
  BY <1>3
<1>5. ~(~exceeded /\ Retried(scope, code)) => p.error \in {"final", "roomLimit"}
  BY <1>3
<1> HIDE DEF p
<1>6. /\ p.shouldRetry => p.error \in Retries
      /\ ~p.shouldRetry => p.error \in {"final", "roomLimit"}
  BY <1>1, <1>4, <1>5, Zenon
<1> QED
  BY <1>2, <1>6 DEF p, Consistent

\* What the two actions that lose a socket have in common.
Closes(policy) ==
  /\ Consistent(policy)
  /\ HandleConnectionClose(policy)
  /\ ws # "none"
  /\ roomLimitExceeded' \in BOOLEAN

\* Both of them close by a consistent policy.
LEMMA ClosesConsistently ==
  ASSUME FlagsOK, SocketCloses \/ YieldToRoomLimit
  PROVE  \E policy : Closes(policy)
<1>1. CASE SocketCloses
  <2> PICK scope \in Scopes, code \in Codes :
         /\ ws # "none"
         /\ HandleConnectionClose(ClosePolicy(scope, code, roomLimitExceeded))
         /\ UNCHANGED roomLimitExceeded
    BY <1>1 DEF SocketCloses
  <2>1. Consistent(ClosePolicy(scope, code, roomLimitExceeded))
    BY PolicyIsConsistent
  <2> QED
    BY <2>1 DEF Closes, FlagsOK
<1>2. CASE YieldToRoomLimit
  <2> DEFINE policy == ClosePolicy("physical", 1006, roomLimitExceeded')
  <2>1. Consistent(policy)
    BY PolicyIsConsistent
  <2>2. HandleConnectionClose(policy) /\ ws = "open" /\ roomLimitExceeded' = TRUE
    BY <1>2 DEF YieldToRoomLimit
  <2> HIDE DEF policy
  <2>3. Closes(policy)
    BY <2>1, <2>2 DEF Closes
  <2> QED
    BY <2>3
<1> QED
  BY <1>1, <1>2

\* Initially one loop runs and nothing is shown.
LEMMA InitInv == Init => IInv
<1> SUFFICES ASSUME Init PROVE IInv
  OBVIOUS
<1> USE DEF Init
<1>1. CountsOK
  BY MaxAttemptsAssumption, ReconnectsAssumption DEF CountsOK, Threshold
<1>2. FlagsOK
  BY DEF FlagsOK
<1>3. EndInv
  BY DEF EndInv, NothingRunsAfterTheEnd
<1>4. LoopInv
  BY DEF LoopInv, NeverStalls, OneAttemptAtATime, Loops, Sockets
<1>5. StatusInv
  BY DEF StatusInv
<1> QED
  BY <1>1, <1>2, <1>3, <1>4, <1>5 DEF IInv

-----------------------------------------------------------------------------
\* No loop ends that has not begun, and the counts keep their bounds.
LEMMA CountsStep ==
  IInv /\ [Next]_vars => CountsOK'
<1> SUFFICES ASSUME IInv, [Next]_vars PROVE CountsOK'
  OBVIOUS
<1> USE DEF IInv, CountsOK, FlagsOK, Threshold
<1> USE MaxAttemptsAssumption, ReconnectsAssumption
<1>1. CASE TokenArrives
  BY <1>1 DEF TokenArrives, FetchEnds, ProviderConnect, EmitUnlessError, Emit,
              socketVars
<1>2. CASE ConstructorThrows
  BY <1>2 DEF ConstructorThrows, FetchEnds, DisposeProvider
<1>3. CASE TokenFails
  BY <1>3 DEF TokenFails, FetchEnds, Emit, socketVars
<1>4. CASE BackoffElapses
  BY <1>4 DEF BackoffElapses, socketVars, statusVars
<1>5. CASE DebugReconnect
  BY <1>5 DEF DebugReconnect, socketVars, statusVars
<1>6. CASE SocketOpens
  BY <1>6 DEF SocketOpens, EmitUnlessError, Emit, loopVars
<1>7. CASE SocketSyncs
  BY <1>7 DEF SocketSyncs, Emit, loopVars
<1>8. CASE StableTimerFires
  BY <1>8 DEF StableTimerFires, statusVars
<1>9. CASE Subscribe
  BY <1>9 DEF Subscribe, socketVars, loopVars
<1>10. CASE Destroy
  BY <1>10 DEF Destroy, DisposeProvider
<1>11. CASE SocketCloses \/ YieldToRoomLimit
  <2> PICK policy : Closes(policy)
    BY <1>11, ClosesConsistently
  <2> QED
    BY DEF Closes, HandleConnectionClose, Emit
<1>12. CASE UNCHANGED vars
  BY <1>12 DEF vars, socketVars, loopVars, statusVars
<1> QED
  BY <1>1, <1>2, <1>3, <1>4, <1>5, <1>6, <1>7, <1>8, <1>9, <1>10, <1>11, <1>12 DEF Next

\* Every action keeps the other types.
LEMMA FlagsStep ==
  IInv /\ [Next]_vars => FlagsOK'
<1> SUFFICES ASSUME IInv, [Next]_vars PROVE FlagsOK'
  OBVIOUS
<1> USE DEF IInv, FlagsOK
<1>1. CASE TokenArrives
  <2>1. creation' \in {"pending", "resolved", "failed"}
    BY <1>1 DEF TokenArrives, FetchEnds
  <2>2. CASE eligible /\ ws = "none"
    BY <1>1, <2>1, <2>2 DEF TokenArrives, ProviderConnect, EmitUnlessError, Emit
  <2>3. CASE ~(eligible /\ ws = "none")
    BY <1>1, <2>1, <2>3 DEF TokenArrives, ProviderConnect, socketVars
  <2> QED
    BY <2>2, <2>3
<1>2. CASE ConstructorThrows
  BY <1>2 DEF ConstructorThrows, FetchEnds, DisposeProvider
<1>3. CASE TokenFails
  <2>1. creation' \in {"pending", "resolved", "failed"}
    BY <1>3 DEF TokenFails, FetchEnds
  <2>2. UNCHANGED <<ws, synced, stableTimer, eligible, roomLimitExceeded, subscribed, disposed>>
    BY <1>3 DEF TokenFails, socketVars
  <2>3. CASE eligible
    BY <1>3, <2>1, <2>2, <2>3 DEF TokenFails, Emit, Errors
  <2>4. CASE ~eligible
    BY <1>3, <2>1, <2>2, <2>4 DEF TokenFails
  <2> QED
    BY <2>3, <2>4
<1>4. CASE BackoffElapses
  BY <1>4 DEF BackoffElapses, socketVars, statusVars
<1>5. CASE DebugReconnect
  BY <1>5 DEF DebugReconnect, socketVars, statusVars
<1>6. CASE SocketOpens
  BY <1>6 DEF SocketOpens, EmitUnlessError, Emit, loopVars
<1>7. CASE SocketSyncs
  BY <1>7 DEF SocketSyncs, Emit, loopVars
<1>8. CASE StableTimerFires
  <2>1. stableTimer' \in BOOLEAN
    BY <1>8 DEF StableTimerFires
  <2>2. UNCHANGED <<ws, synced, eligible, creation, disposed, statusVars>>
    BY <1>8 DEF StableTimerFires
  <2> QED
    BY <2>1, <2>2 DEF statusVars
<1>9. CASE Subscribe
  BY <1>9 DEF Subscribe, socketVars, loopVars
<1>10. CASE Destroy
  BY <1>10 DEF Destroy, DisposeProvider
<1>11. CASE SocketCloses \/ YieldToRoomLimit
  <2> PICK policy : Closes(policy)
    BY <1>11, ClosesConsistently
  <2>1. shown' \in Errors \cup {"none", "connecting", "connected"}
    BY DEF Closes, Consistent, HandleConnectionClose, Emit
  <2>2. eligible' \in BOOLEAN /\ stableTimer' \in BOOLEAN
    BY DEF Closes, Consistent, HandleConnectionClose
  <2> QED
    BY <2>1, <2>2 DEF Closes, HandleConnectionClose
<1>12. CASE UNCHANGED vars
  BY <1>12 DEF vars, socketVars, loopVars, statusVars
<1> QED
  BY <1>1, <1>2, <1>3, <1>4, <1>5, <1>6, <1>7, <1>8, <1>9, <1>10, <1>11, <1>12 DEF Next

\* Every action keeps an ended provider idle.
LEMMA EndStep ==
  IInv /\ [Next]_vars => EndInv'
<1> SUFFICES ASSUME IInv, [Next]_vars PROVE EndInv'
  OBVIOUS
<1> USE DEF IInv, FlagsOK, EndInv, NothingRunsAfterTheEnd
<1>1. CASE TokenArrives
  BY <1>1 DEF TokenArrives, FetchEnds, ProviderConnect, EmitUnlessError, Emit,
              socketVars
<1>2. CASE ConstructorThrows
  BY <1>2 DEF ConstructorThrows, FetchEnds, DisposeProvider
<1>3. CASE TokenFails
  BY <1>3 DEF TokenFails, FetchEnds, Emit, socketVars
<1>4. CASE BackoffElapses
  BY <1>4 DEF BackoffElapses, socketVars, statusVars
<1>5. CASE DebugReconnect
  BY <1>5 DEF DebugReconnect, socketVars, statusVars
<1>6. CASE SocketOpens
  BY <1>6 DEF SocketOpens, EmitUnlessError, Emit, loopVars
<1>7. CASE SocketSyncs
  BY <1>7 DEF SocketSyncs, Emit, loopVars
<1>8. CASE StableTimerFires
  BY <1>8 DEF StableTimerFires, statusVars
<1>9. CASE Subscribe
  BY <1>9 DEF Subscribe, socketVars, loopVars
<1>10. CASE Destroy
  BY <1>10 DEF Destroy, DisposeProvider
<1>11. CASE SocketCloses \/ YieldToRoomLimit
  <2> PICK policy : Closes(policy)
    BY <1>11, ClosesConsistently
  <2> QED
    BY DEF Closes, HandleConnectionClose, Emit
<1>12. CASE UNCHANGED vars
  BY <1>12 DEF vars, socketVars, loopVars, statusVars
<1> QED
  BY <1>1, <1>2, <1>3, <1>4, <1>5, <1>6, <1>7, <1>8, <1>9, <1>10, <1>11, <1>12 DEF Next

\* A loop that ends makes a socket or the next loop, or the provider has ended.
LEMMA LoopStep ==
  IInv /\ [Next]_vars => LoopInv'
<1> SUFFICES ASSUME IInv, [Next]_vars PROVE LoopInv'
  OBVIOUS
<1> USE DEF IInv, CountsOK, FlagsOK, EndInv, NothingRunsAfterTheEnd, LoopInv,
            NeverStalls, OneAttemptAtATime, Loops, Sockets
<1>1. CASE TokenArrives
  BY <1>1 DEF TokenArrives, FetchEnds, ProviderConnect, EmitUnlessError, Emit,
              socketVars
<1>2. CASE ConstructorThrows
  BY <1>2 DEF ConstructorThrows, FetchEnds, DisposeProvider
<1>3. CASE TokenFails
  BY <1>3 DEF TokenFails, FetchEnds, Emit, socketVars
<1>4. CASE BackoffElapses
  BY <1>4 DEF BackoffElapses, socketVars, statusVars
<1>5. CASE DebugReconnect
  BY <1>5 DEF DebugReconnect, socketVars, statusVars
<1>6. CASE SocketOpens
  BY <1>6 DEF SocketOpens, EmitUnlessError, Emit, loopVars
<1>7. CASE SocketSyncs
  BY <1>7 DEF SocketSyncs, Emit, loopVars
<1>8. CASE StableTimerFires
  BY <1>8 DEF StableTimerFires, statusVars
<1>9. CASE Subscribe
  BY <1>9 DEF Subscribe, socketVars, loopVars
<1>10. CASE Destroy
  BY <1>10 DEF Destroy, DisposeProvider
<1>11. CASE SocketCloses \/ YieldToRoomLimit
  <2> PICK policy : Closes(policy)
    BY <1>11, ClosesConsistently
  <2> QED
    BY DEF Closes, HandleConnectionClose, Emit
<1>12. CASE UNCHANGED vars
  BY <1>12 DEF vars, socketVars, loopVars, statusVars
<1> QED
  BY <1>1, <1>2, <1>3, <1>4, <1>5, <1>6, <1>7, <1>8, <1>9, <1>10, <1>11, <1>12 DEF Next

\* Every action keeps the status shown in step with the rest.
LEMMA StatusStep ==
  IInv /\ [Next]_vars => StatusInv'
<1> SUFFICES ASSUME IInv, [Next]_vars PROVE StatusInv'
  OBVIOUS
<1> USE DEF IInv, CountsOK, FlagsOK, EndInv, NothingRunsAfterTheEnd, StatusInv
<1>1. CASE TokenArrives
  BY <1>1 DEF TokenArrives, FetchEnds, ProviderConnect, EmitUnlessError, Emit,
              socketVars
<1>2. CASE ConstructorThrows
  BY <1>2 DEF ConstructorThrows, FetchEnds, DisposeProvider
<1>3. CASE TokenFails
  <2>1. eligible /\ synced => reconnects # 0
    BY <1>3 DEF TokenFails, FetchEnds, LoopInv, OneAttemptAtATime, Loops, Sockets
  <2> QED
    BY <1>3, <2>1 DEF TokenFails, Emit, socketVars
<1>4. CASE BackoffElapses
  BY <1>4 DEF BackoffElapses, socketVars, statusVars
<1>5. CASE DebugReconnect
  BY <1>5 DEF DebugReconnect, socketVars, statusVars
<1>6. CASE SocketOpens
  BY <1>6 DEF SocketOpens, EmitUnlessError, Emit, loopVars
<1>7. CASE SocketSyncs
  BY <1>7 DEF SocketSyncs, Emit, loopVars
<1>8. CASE StableTimerFires
  BY <1>8 DEF StableTimerFires, statusVars
<1>9. CASE Subscribe
  BY <1>9 DEF Subscribe, socketVars, loopVars
<1>10. CASE Destroy
  BY <1>10 DEF Destroy, DisposeProvider
<1>11. CASE SocketCloses \/ YieldToRoomLimit
  <2> PICK policy : Closes(policy)
    BY <1>11, ClosesConsistently
  <2>1. /\ ws' = "none" /\ ~synced' /\ hasConnectionError'
        /\ disposed' = disposed /\ subscribed' = subscribed
        /\ eligible' <=> eligible /\ policy.shouldRetry
    BY DEF Closes, HandleConnectionClose
  <2>2. shown' = IF subscribed THEN policy.error ELSE shown
    BY DEF Closes, HandleConnectionClose, Emit
  <2>3. eligible /\ ~disposed
    BY DEF Closes
  <2>4. CASE subscribed
    BY <2>1, <2>2, <2>3, <2>4 DEF Closes, Consistent
  <2>5. CASE ~subscribed
    BY <2>1, <2>2, <2>3, <2>5
  <2> QED
    BY <2>4, <2>5
<1>12. CASE UNCHANGED vars
  BY <1>12 DEF vars, socketVars, loopVars, statusVars
<1> QED
  BY <1>1, <1>2, <1>3, <1>4, <1>5, <1>6, <1>7, <1>8, <1>9, <1>10, <1>11, <1>12 DEF Next

-----------------------------------------------------------------------------
LEMMA StepInv == IInv /\ [Next]_vars => IInv'
BY CountsStep, FlagsStep, EndStep, LoopStep, StatusStep DEF IInv

\* The strengthened invariant holds throughout.
THEOREM Invariance == Spec => []IInv
BY InitInv, StepInv, PTL DEF Spec

\* Variables hold values of their types, in every behaviour of a provider.
THEOREM TypeCorrect == Spec => []TypeOK
<1>1. IInv => TypeOK
  BY DEF IInv, CountsOK, FlagsOK, TypeOK
<1> QED
  BY Invariance, <1>1, PTL

\* A provider that was destroyed, refused for good or over the room's limit
\* has no socket and no timer, whatever it was waiting for: no answer of the
\* token service and no back-off connects it again.
THEOREM EndIsFinal == Spec => []NothingRunsAfterTheEnd
<1>1. IInv => NothingRunsAfterTheEnd
  BY DEF IInv, EndInv
<1> QED
  BY Invariance, <1>1, PTL

\* A provider that has not ended is never without a socket and without a loop
\* that will get one: no failure leaves it disconnected and idle.
THEOREM KeepsTrying == Spec => []NeverStalls
<1>1. IInv => NeverStalls
  BY DEF IInv, LoopInv
<1> QED
  BY Invariance, <1>1, PTL

\* Each failure is retried once: loops and sockets never outnumber the first
\* attempt and the reconnects made by hand.
THEOREM RetriesDoNotMultiply == Spec => []OneAttemptAtATime
<1>1. IInv => OneAttemptAtATime
  BY DEF IInv, LoopInv
<1> QED
  BY Invariance, <1>1, PTL

\* The status shown agrees with the socket, and a room in sync is not shown in
\* error.
THEOREM StatusAgrees == Spec => []StatusIsTruthful
<1>1. IInv => StatusIsTruthful
  BY DEF IInv, StatusInv, StatusIsTruthful
<1> QED
  BY Invariance, <1>1, PTL

\* A retry that was announced is under way; an error without one is the end.
THEOREM PromisesAreKept == Spec => []PromisedRetryIsScheduled
<1>1. IInv => PromisedRetryIsScheduled
  BY DEF IInv, StatusInv, EndInv, LoopInv, NeverStalls, NothingRunsAfterTheEnd,
         PromisedRetryIsScheduled
<1> QED
  BY Invariance, <1>1, PTL

-----------------------------------------------------------------------------
\* Attempts decrease by the timer only, and the timer runs while the socket
\* that set it is open.
THEOREM BackoffIsNotCutShort == Spec => BackoffResetsOnlyWhenStable
<1>1. IInv /\ [Next]_vars => [attempts' < attempts => ws = "open"]_vars
  <2> SUFFICES ASSUME IInv, [Next]_vars, attempts' < attempts PROVE ws = "open"
    OBVIOUS
  <2>1. CASE StableTimerFires
    BY <2>1 DEF IInv, EndInv, StableTimerFires
  <2>2. CASE BackoffElapses
    <3>1. attempts' = attempts \/ attempts' = attempts + 1
      BY <2>2 DEF BackoffElapses
    <3> QED
      BY <3>1 DEF IInv, CountsOK
  <2>3. CASE attempts' = attempts
    BY <2>3 DEF IInv, CountsOK
  <2>4. StableTimerFires \/ BackoffElapses \/ attempts' = attempts
    BY DEF Next, vars, loopVars, TokenArrives, ConstructorThrows, TokenFails,
           DebugReconnect, SocketOpens, SocketSyncs, SocketCloses,
           YieldToRoomLimit, HandleConnectionClose, Subscribe, Destroy
  <2> QED
    BY <2>1, <2>2, <2>3, <2>4
<1> QED
  BY Invariance, <1>1, PTL DEF Spec, BackoffResetsOnlyWhenStable

\* Only a sync replaces an error by something that is none.
LEMMA ErrorStays ==
  ASSUME IInv, [Next]_vars, shown \in Errors, shown' \notin Errors
  PROVE  shown' = "connected" /\ synced'
<1>1. hasConnectionError
  BY DEF IInv, StatusInv
<1>2. CASE TokenArrives \/ SocketOpens
  BY <1>1, <1>2 DEF TokenArrives, ProviderConnect, SocketOpens, EmitUnlessError
<1>3. CASE TokenFails
  BY <1>3 DEF TokenFails, Emit
<1>4. CASE SocketSyncs
  BY <1>4 DEF SocketSyncs, Emit
<1>5. CASE SocketCloses \/ YieldToRoomLimit
  <2> PICK policy : Closes(policy)
    BY <1>5, ClosesConsistently DEF IInv
  <2> QED
    BY DEF Closes, Consistent, HandleConnectionClose, Emit
<1>6. CASE shown' = shown
  BY <1>6
<1>7. \/ TokenArrives \/ SocketOpens \/ TokenFails \/ SocketSyncs
      \/ SocketCloses \/ YieldToRoomLimit \/ shown' = shown
  BY DEF Next, vars, statusVars, ConstructorThrows, DisposeProvider,
         BackoffElapses, DebugReconnect, StableTimerFires, Subscribe, Destroy
<1> QED
  BY <1>2, <1>3, <1>4, <1>5, <1>6, <1>7

\* An error is replaced by another error, or by the connected status of a
\* sync; an open socket alone does not hide it.
THEOREM ErrorsAreRetained == Spec => ErrorStaysUntilSync
BY Invariance, ErrorStays, PTL DEF Spec, ErrorStaysUntilSync

-----------------------------------------------------------------------------
(***************************************************************************)
(* The modal: it only watches the provider, so all of the above holds      *)
(* beside it, and it names a limit because an error is never replaced by a *)
(* bare status.                                                            *)
(***************************************************************************)

\* What the modal does is nothing to the provider.
LEMMA ModalStepsAreProviderSteps ==
  ASSUME [ModalNext]_<<vars, modalVars>>
  PROVE  [Next]_vars
BY DEF ModalNext, ProviderStep, UpgradeClick, UpgradeAnswered

\* With the modal the provider behaves as it does without: the modal waits for
\* no status and delays no attempt, so all that is shown of a provider, what
\* its fairness gives included, holds for the provider a modal watches.
THEOREM ModalOnlyWatches == ModalSpec => FairSpec
<1>1. ModalInit => Init
  BY DEF ModalInit
<1> QED
  BY <1>1, ModalStepsAreProviderSteps, PTL DEF ModalSpec, FairSpec, Spec

\* While the modal is up the last status is the limit it is about: it neither
\* outlives the error nor is shown over an error Gutenberg has a modal for.
THEOREM ModalAgrees == ModalSpec => []ModalNamesItsLimit
<1>1. ModalInit => IInv /\ ModalNamesItsLimit
  BY InitInv DEF ModalInit, ModalNamesItsLimit
<1>2. IInv /\ ModalNamesItsLimit /\ [ModalNext]_<<vars, modalVars>>
        => IInv' /\ ModalNamesItsLimit'
  <2> SUFFICES ASSUME IInv, ModalNamesItsLimit, [ModalNext]_<<vars, modalVars>>
               PROVE  IInv' /\ ModalNamesItsLimit'
    OBVIOUS
  <2>1. IInv'
    BY ModalStepsAreProviderSteps, StepInv
  <2>2. CASE ProviderStep /\ shown' # shown
    <3>1. \/ shown' \in CustomModalErrors \/ ~showModal'
          \/ shown' \notin Errors \cup {"connected"} /\ showModal
      BY <2>2 DEF ProviderStep, StatusShown
    <3>2. showModal => shown \in Errors
      BY DEF ModalNamesItsLimit, CustomModalErrors, Errors
    <3> QED
      BY <2>1, <2>2, <3>1, <3>2, ErrorStays DEF ProviderStep, ModalNamesItsLimit, CustomModalErrors
  <2>3. CASE UpgradeClick \/ UpgradeAnswered
    BY <2>1, <2>3 DEF UpgradeClick, UpgradeAnswered, vars, statusVars, ModalNamesItsLimit,
                CustomModalErrors
  <2>4. CASE UNCHANGED <<vars, modalVars>> \/ (ProviderStep /\ shown' = shown)
    BY <2>1, <2>4 DEF ProviderStep, vars, statusVars, modalVars, ModalNamesItsLimit,
                      CustomModalErrors
  <2> QED
    BY <2>1, <2>2, <2>3, <2>4 DEF ModalNext
<1> QED
  BY <1>1, <1>2, PTL DEF ModalSpec

-----------------------------------------------------------------------------
(***************************************************************************)
(* The limit of a room, for every finite set of clients, wherever their    *)
(* browsers are, whatever their clocks say and for every limit.            *)
(*                                                                         *)
(* A client only ever counts tabs that announced themselves where it could *)
(* hear of them, so a yield is justified by these; and while nothing fails *)
(* and nobody leaves, a tab that connects is connected or about to be      *)
(* unless it yielded itself.  Of those that yielded one comes first, and   *)
(* all that come before it are still there.                                *)
(***************************************************************************)

\* Whoever is heard of has set collaboratorInfo and connected, and is known to
\* the server or a tab of the same browser.
HeardAreAnnounced ==
  \A n \in Nodes, d \in Clients : d # n /\ news[n][d] > 0 =>
    /\ conn[d] # "away" /\ news[d][d] > 0
    /\ n \in Clients => d \in Published \cup Siblings(n)

\* While nothing has failed and nobody has left, who connected is there or has
\* yielded.
StaysUnlessYielded ==
  drops = 0 => \A c \in Clients : conn[c] \in {"away", "opening", "connected", "yielded"}

LimitInv == LimitTypeOK /\ HeardAreAnnounced /\ YieldedWereOutranked /\ StaysUnlessYielded

USE ClientsAssumption, JoinTimesAssumption, LimitAssumption

\* The connections of a set that come before c.
Before(S, c) == {d \in S : Precedes(d, c)}

LEMMA SubsetsOfClients ==
  ASSUME NEW S, S \subseteq Clients
  PROVE  IsFiniteSet(S) /\ Cardinality(S) \in Nat
BY FS_Subset, FS_CardinalityType

LEMMA CountGrows ==
  ASSUME NEW S, NEW T, T \subseteq Clients, S \subseteq T
  PROVE  Cardinality(S) \in Nat /\ Cardinality(T) \in Nat /\ Cardinality(S) <= Cardinality(T)
BY SubsetsOfClients, FS_Subset

\* What is outranked remains so when more is published.
LEMMA OutrankedForGood ==
  ASSUME NEW S, NEW T, S \subseteq T, T \subseteq Clients, NEW c,
         Cardinality(Before(S, c)) >= Limit
  PROVE  Cardinality(Before(T, c)) >= Limit
<1>1. Before(S, c) \subseteq Before(T, c) /\ Before(T, c) \subseteq Clients
  BY DEF Before
<1> QED
  BY <1>1, CountGrows

-----------------------------------------------------------------------------
\* Removing states keeps the news of everyone and makes it no older.
LEMMA RemovedIsNewer ==
  ASSUME NEW row \in [Clients -> Nat], NEW S
  PROVE  /\ Removed(row, S) \in [Clients -> Nat]
         /\ \A d \in Clients : Removed(row, S)[d] > 0 <=> row[d] > 0
<1>1. ASSUME NEW d \in Clients
      PROVE  Removed(row, S)[d] \in Nat /\ (Removed(row, S)[d] > 0 <=> row[d] > 0)
  <2>1. Removed(row, S)[d] = IF d \in S /\ IsState(row[d]) THEN row[d] + 1 ELSE row[d]
    BY DEF Removed
  <2>2. row[d] = 0 => ~IsState(row[d])
    BY DEF IsState
  <2>3. row[d] \in Nat
    OBVIOUS
  <2> QED
    BY <2>1, <2>2, <2>3
<1>2. Removed(row, S) = [d \in Clients |-> Removed(row, S)[d]]
  BY DEF Removed
<1>3. Removed(row, S) \in [Clients -> Nat]
  BY <1>1, <1>2
<1> QED
  BY <1>1, <1>3

\* What is told of is merged in where it is newer.
LEMMA MergedIsNewer ==
  ASSUME LimitTypeOK, NEW n \in Nodes, NEW m \in Nodes
  PROVE  /\ Merged(n, m) \in [Clients -> Nat]
         /\ \A d \in Clients : news[n][d] > 0 => Merged(n, m)[d] > 0
         /\ \A d \in Clients : Merged(n, m)[d] > 0 /\ ~(news[n][d] > 0) =>
              d \in Told(n, m) /\ news[m][d] > 0
<1>1. ASSUME NEW d \in Clients
      PROVE  /\ Merged(n, m)[d] \in Nat
             /\ news[n][d] > 0 => Merged(n, m)[d] > 0
             /\ Merged(n, m)[d] > 0 /\ ~(news[n][d] > 0) => d \in Told(n, m) /\ news[m][d] > 0
  <2>1. Merged(n, m)[d] =
          IF d \in Told(n, m) /\ news[m][d] > news[n][d] THEN news[m][d] ELSE news[n][d]
    BY DEF Merged
  <2>2. news[n][d] \in Nat /\ news[m][d] \in Nat
    BY DEF LimitTypeOK
  <2> QED
    BY <2>1, <2>2
<1>2. Merged(n, m) = [d \in Clients |-> Merged(n, m)[d]]
  BY DEF Merged
<1>3. Merged(n, m) \in [Clients -> Nat]
  BY <1>1, <1>2
<1> QED
  BY <1>1, <1>3

\* A client is a node, and not the server.
LEMMA ClientsAreNodes ==
  /\ \A c \in Clients : c \in Nodes /\ c # Server
  /\ Server \in Nodes
BY DEF Nodes

\* An open socket closes.
LEMMA ClosingKeepsTypes ==
  ASSUME LimitTypeOK, NEW c \in Clients, NEW next \in {"closed", "yielded"},
         conn[c] = "connected", ClientSocketCloses(c, next),
         joinedAt' = joinedAt, drops' \in 0 .. MaxDrops
  PROVE  LimitTypeOK'
<1> DEFINE S == IF next = "yielded" THEN Clients ELSE Clients \ {c}
<1>1. /\ conn' = [conn EXCEPT ![c] = next] /\ news' = [news EXCEPT ![c] = Removed(@, S)]
      /\ unnoticed' = [unnoticed EXCEPT ![c] = @ + 1]
      /\ timer' = [timer EXCEPT ![c] = Enforced /\ (Known(c) \ {c} # {} \/ (@ /\ next # "yielded"))]
  BY DEF ClientSocketCloses
<1>2. conn' \in [Clients -> Conns] /\ unnoticed' \in [Clients -> Nat]
  BY <1>1 DEF LimitTypeOK, Conns
<1>3. timer' \in [Clients -> BOOLEAN]
  BY <1>1 DEF LimitTypeOK
<1>4. news' \in [Nodes -> [Clients -> Nat]]
  <2> HIDE DEF S
  <2>1. Removed(news[c], S) \in [Clients -> Nat]
    BY ClientsAreNodes, RemovedIsNewer DEF LimitTypeOK
  <2> QED
    BY <1>1, <2>1 DEF LimitTypeOK
<1> QED
  BY <1>2, <1>3, <1>4 DEF LimitTypeOK

LEMMA LimitTypesKept ==
  ASSUME LimitTypeOK, [LimitNext]_limitVars
  PROVE  LimitTypeOK'
<1> DEFINE Scheduled(c) == timer' = timer \/ ScheduleEvaluate(c)
<1>10. ASSUME NEW c, Scheduled(c) PROVE timer' \in [Clients -> BOOLEAN]
  <2>1. CASE timer' = timer
    BY <2>1 DEF LimitTypeOK
  <2>2. CASE timer' = [timer EXCEPT ![c] = Enforced]
    <3>1. Enforced \in BOOLEAN
      BY DEF Enforced
    <3>2. timer \in [Clients -> BOOLEAN]
      BY DEF LimitTypeOK
    <3> QED
      BY <2>2, <3>1, <3>2
  <2> QED
    BY <1>10, <2>1, <2>2 DEF ScheduleEvaluate
<1>1. ASSUME NEW c \in Clients, Dial(c) \/ Open(c) \/ Refuse(c) PROVE LimitTypeOK'
  <2>1. \E next \in Conns : conn' = [conn EXCEPT ![c] = next]
    BY <1>1 DEF Dial, Open, Refuse, Conns
  <2>2. conn' \in [Clients -> Conns]
    BY <2>1 DEF LimitTypeOK
  <2>3. drops' \in 0 .. MaxDrops
    BY <1>1 DEF Dial, Open, Refuse, Dropping, LimitTypeOK
  <2>4. Scheduled(c) /\ UNCHANGED <<joinedAt, news, unnoticed>>
    BY <1>1 DEF Dial, Open, Refuse, Dropping
  <2>5. timer' \in [Clients -> BOOLEAN]
    BY <1>10, <2>4
  <2> QED
    BY <2>2, <2>3, <2>4, <2>5 DEF LimitTypeOK
<1>2. ASSUME NEW c \in Clients, SetCollaboratorInfo(c) PROVE LimitTypeOK'
  <2>1. news' \in [Nodes -> [Clients -> Nat]]
    BY <1>2, ClientsAreNodes DEF SetCollaboratorInfo, LimitTypeOK
  <2> QED
    BY <1>2, <2>1 DEF SetCollaboratorInfo, ScheduleEvaluate, Enforced, LimitTypeOK
<1>3. ASSUME NEW n \in Nodes, NEW m \in Nodes, Learn(n, m) PROVE LimitTypeOK'
  <2>1. /\ news' = [news EXCEPT ![n] = Merged(n, m)] /\ Scheduled(n)
        /\ UNCHANGED <<joinedAt, conn, unnoticed, drops>>
    BY <1>3 DEF Learn
  <2>2. news' \in [Nodes -> [Clients -> Nat]]
    BY <2>1, MergedIsNewer DEF LimitTypeOK
  <2>3. timer' \in [Clients -> BOOLEAN]
    BY <1>10, <2>1
  <2> QED
    BY <2>1, <2>2, <2>3 DEF LimitTypeOK
<1>4. ASSUME NEW d \in Clients, Renew(d) PROVE LimitTypeOK'
  <2>1. news' \in [Nodes -> [Clients -> Nat]]
    BY <1>4, ClientsAreNodes DEF Renew, LimitTypeOK
  <2>2. Scheduled(d) /\ UNCHANGED <<joinedAt, conn, unnoticed, drops>>
    BY <1>4 DEF Renew
  <2>3. timer' \in [Clients -> BOOLEAN]
    BY <1>10, <2>2
  <2> QED
    BY <2>1, <2>2, <2>3 DEF LimitTypeOK
<1>5. ASSUME NEW c \in Clients, Evaluate(c) PROVE LimitTypeOK'
  <2>1. CASE conn[c] = "connected" /\ ~WithinLimit(c)
    BY <1>5, <2>1, ClosingKeepsTypes DEF Evaluate, LimitTypeOK
  <2>2. CASE ~(conn[c] = "connected" /\ ~WithinLimit(c))
    <3>1. timer' = [timer EXCEPT ![c] = FALSE]
          /\ UNCHANGED <<joinedAt, conn, news, unnoticed, drops>>
      BY <1>5, <2>2 DEF Evaluate
    <3> QED
      BY <3>1 DEF LimitTypeOK
  <2> QED
    BY <2>1, <2>2
<1>6. ASSUME NEW c \in Clients, Drop(c) PROVE LimitTypeOK'
  <2>1. drops' \in 0 .. MaxDrops /\ joinedAt' = joinedAt
    BY <1>6 DEF Drop, Dropping, LimitTypeOK
  <2> QED
    BY <1>6, <2>1, ClosingKeepsTypes DEF Drop
<1>7. ASSUME NEW c \in Clients, Leave(c) PROVE LimitTypeOK'
  <2>1. drops' \in 0 .. MaxDrops /\ joinedAt' = joinedAt
    BY <1>7 DEF Leave, Dropping, LimitTypeOK
  <2>2. news' \in [Nodes -> [Clients -> Nat]]
    BY <1>7, ClientsAreNodes, RemovedIsNewer DEF Leave, LimitTypeOK
  <2>3. unnoticed' \in [Clients -> Nat]
    BY <1>7 DEF Leave, LimitTypeOK
  <2> QED
    BY <1>7, <2>1, <2>2, <2>3 DEF Leave, LimitTypeOK, Conns
<1>8. ASSUME NEW c \in Clients, ServerForgets(c) PROVE LimitTypeOK'
  <2>1. unnoticed' \in [Clients -> Nat]
    BY <1>8 DEF ServerForgets, LimitTypeOK
  <2>2. news' \in [Nodes -> [Clients -> Nat]]
    <3>1. PICK S \in SUBSET Siblings(c) : news' = [news EXCEPT ![Server] = Removed(@, {c} \cup S)]
      BY <1>8 DEF ServerForgets
    <3> QED
      BY <3>1, ClientsAreNodes, RemovedIsNewer DEF LimitTypeOK
  <2> QED
    BY <1>8, <2>1, <2>2 DEF ServerForgets, LimitTypeOK
<1>9. CASE UNCHANGED limitVars
  BY <1>9 DEF limitVars, LimitTypeOK
<1> QED
  BY <1>1, <1>2, <1>3, <1>4, <1>5, <1>6, <1>7, <1>8, <1>9 DEF LimitNext, Settle

-----------------------------------------------------------------------------
\* What a step does to the room: no news is lost, nobody is as before it
\* connected, and a client that yields in it was outranked by what it knew.
LEMMA StepOfRoom ==
  ASSUME LimitTypeOK, [LimitNext]_limitVars
  PROVE  /\ joinedAt' = joinedAt
         /\ \A c \in Clients : conn[c] # "away" => conn'[c] # "away"
         /\ \A c \in Clients : c \in Yielded' \ Yielded =>
              conn[c] = "connected" /\ ~WithinLimit(c)
<1>1. joinedAt' = joinedAt
  BY DEF LimitNext, Settle, Dial, Open, SetCollaboratorInfo, Learn, Renew, Evaluate, Drop, Refuse,
         Leave, Dropping, ServerForgets, limitVars
<1>2. ASSUME NEW c \in Clients
      PROVE  /\ conn[c] # "away" => conn'[c] # "away"
             /\ c \in Yielded' \ Yielded => conn[c] = "connected" /\ ~WithinLimit(c)
  <2>1. ASSUME NEW d \in Clients, Evaluate(d), conn' # conn
        PROVE  conn[d] = "connected" /\ ~WithinLimit(d) /\ conn' = [conn EXCEPT ![d] = "yielded"]
    BY <2>1 DEF Evaluate, ClientSocketCloses
  <2>2. ASSUME NEW d \in Clients, NEW next \in Conns \ {"away", "yielded"},
               conn' = [conn EXCEPT ![d] = next]
        PROVE  /\ conn[c] # "away" => conn'[c] # "away"
               /\ c \notin Yielded' \ Yielded
    BY <2>2 DEF Yielded, LimitTypeOK
  <2>3. ASSUME NEW d \in Clients, Dial(d) \/ Open(d) \/ Drop(d) \/ Refuse(d) \/ Leave(d)
        PROVE  \E next \in Conns \ {"away", "yielded"} : conn' = [conn EXCEPT ![d] = next]
    BY <2>3 DEF Dial, Open, Drop, Refuse, Leave, ClientSocketCloses, Conns
  <2>4. CASE conn' = conn
    BY <2>4 DEF Yielded
  <2>5. ASSUME NEW d \in Clients, Evaluate(d)
        PROVE  /\ conn[c] # "away" => conn'[c] # "away"
               /\ c \in Yielded' \ Yielded => conn[c] = "connected" /\ ~WithinLimit(c)
    BY <2>1, <2>4, <2>5 DEF Yielded, LimitTypeOK
  <2>6. conn' = conn \/ \E d \in Clients : \/ Evaluate(d)
                                          \/ Dial(d) \/ Open(d) \/ Drop(d) \/ Refuse(d) \/ Leave(d)
    BY DEF LimitNext, Settle, SetCollaboratorInfo, Learn, Renew, ServerForgets, limitVars
  <2> QED
    BY <2>2, <2>3, <2>4, <2>5, <2>6
<1> QED
  BY <1>1, <1>2

\* What is heard anew was told by a node that had it.
LEMMA NewsSpreads ==
  ASSUME LimitTypeOK, [LimitNext]_limitVars, NEW n \in Nodes, NEW d \in Clients
  PROVE  /\ news[n][d] > 0 => news'[n][d] > 0
         /\ d # n /\ news'[n][d] > 0 /\ ~(news[n][d] > 0) =>
              \E m \in Nodes : d \in Told(n, m) /\ news[m][d] > 0
<1>1. ASSUME NEW k \in Nodes, NEW S, news' = [news EXCEPT ![k] = Removed(@, S)]
      PROVE  news'[n][d] > 0 <=> news[n][d] > 0
  BY <1>1, RemovedIsNewer DEF LimitTypeOK
<1>2. ASSUME NEW c \in Clients, SetCollaboratorInfo(c) \/ Renew(c)
      PROVE  /\ news[n][d] > 0 => news'[n][d] > 0
             /\ d # n => news'[n][d] = news[n][d]
  <2>1. news[n] \in [Clients -> Nat] /\ news[c] \in [Clients -> Nat]
        /\ news \in [Nodes -> [Clients -> Nat]] /\ c \in Nodes
    BY ClientsAreNodes DEF LimitTypeOK
  <2>2. CASE SetCollaboratorInfo(c)
    <3>1. news' = [news EXCEPT ![c][c] = 1]
      BY <2>2 DEF SetCollaboratorInfo
    <3> QED
      BY <2>1, <3>1
  <2>3. CASE Renew(c)
    <3>1. news' = [news EXCEPT ![c][c] = news[c][c] + 2]
      BY <2>1, <2>3 DEF Renew
    <3> QED
      BY <2>1, <3>1
  <2> QED
    BY <1>2, <2>2, <2>3
<1>3. ASSUME NEW k \in Nodes, NEW m \in Nodes, Learn(k, m)
      PROVE  /\ news[n][d] > 0 => news'[n][d] > 0
             /\ news'[n][d] > 0 /\ ~(news[n][d] > 0) => d \in Told(n, m) /\ news[m][d] > 0
  <2>1. news' = [news EXCEPT ![k] = Merged(k, m)]
    BY <1>3 DEF Learn
  <2> QED
    BY <2>1, MergedIsNewer DEF LimitTypeOK
<1>4. ASSUME NEW c \in Clients, Evaluate(c) \/ Drop(c) \/ Leave(c)
      PROVE  news' = news \/ \E k \in Nodes, S \in SUBSET Clients :
                                news' = [news EXCEPT ![k] = Removed(@, S)]
  BY <1>4, ClientsAreNodes DEF Evaluate, Drop, Leave, ClientSocketCloses
<1>5. ASSUME NEW c \in Clients, ServerForgets(c)
      PROVE  \E k \in Nodes, S \in SUBSET Clients : news' = [news EXCEPT ![k] = Removed(@, S)]
  <2>1. PICK S \in SUBSET Siblings(c) : news' = [news EXCEPT ![Server] = Removed(@, {c} \cup S)]
    BY <1>5 DEF ServerForgets
  <2>2. {c} \cup S \in SUBSET Clients
    BY DEF Siblings
  <2> QED
    BY <2>1, <2>2, ClientsAreNodes
<1>6. \/ news' = news
      \/ \E c \in Clients : \/ SetCollaboratorInfo(c) \/ Renew(c)
                           \/ Evaluate(c) \/ Drop(c) \/ Leave(c) \/ ServerForgets(c)
      \/ \E k, m \in Nodes : Learn(k, m)
  BY DEF LimitNext, Settle, Dial, Open, Refuse, limitVars
<1> QED
  BY <1>1, <1>2, <1>3, <1>4, <1>5, <1>6

LEMMA HeardKept ==
  ASSUME LimitTypeOK, LimitTypeOK', HeardAreAnnounced, [LimitNext]_limitVars
  PROVE  HeardAreAnnounced'
<1> SUFFICES ASSUME NEW n \in Nodes, NEW d \in Clients, d # n, news'[n][d] > 0
             PROVE  /\ conn'[d] # "away" /\ news'[d][d] > 0
                    /\ n \in Clients => d \in Published' \cup Siblings(n)
  BY DEF HeardAreAnnounced, Siblings
<1>1. /\ conn[d] # "away" /\ news[d][d] > 0
      /\ n \in Clients => d \in Published \cup Siblings(n)
  <2>1. CASE news[n][d] > 0
    BY <2>1 DEF HeardAreAnnounced
  <2>2. CASE ~(news[n][d] > 0)
    <3>1. PICK m \in Nodes : d \in Told(n, m) /\ news[m][d] > 0
      BY <2>2, NewsSpreads
    <3>2. CASE d # m
      <4>1. /\ conn[d] # "away" /\ news[d][d] > 0
            /\ m \in Clients => d \in Published \cup Siblings(m)
        BY <3>1, <3>2 DEF HeardAreAnnounced
      <4>2. CASE m = Server
        BY <3>1, <4>1, <4>2 DEF Published
      <4>3. CASE n \in Clients /\ m # Server
        <5>1. m \in Siblings(n)
          BY <3>1, <4>3, ClientsAreNodes DEF Told
        <5> QED
          BY <4>1, <5>1 DEF Siblings
      <4> QED
        BY <4>1, <4>2, <4>3
    <3>3. CASE d = m
      <4>1. \/ n = Server /\ m \in Connected \cup Gone
            \/ n \in Clients /\ m \in Siblings(n) /\ m \in Sharing \cup Gone
        BY <3>1, <3>3, ClientsAreNodes DEF Told, Sharing
      <4>2. conn[d] # "away"
        BY <3>3, <4>1 DEF Connected, Gone, Sharing
      <4> QED
        BY <3>1, <3>3, <4>1, <4>2, ClientsAreNodes
    <3> QED
      BY <3>2, <3>3
  <2> QED
    BY <2>1, <2>2
<1>2. conn'[d] # "away" /\ news'[d][d] > 0
  BY <1>1, StepOfRoom, NewsSpreads, ClientsAreNodes
<1>3. Published \subseteq Published'
  BY NewsSpreads, ClientsAreNodes DEF Published
<1> QED
  BY <1>1, <1>2, <1>3

\* What has been announced stays so.
LEMMA AnnouncedGrows ==
  ASSUME LimitTypeOK, [LimitNext]_limitVars, NEW c \in Clients
  PROVE  Announced(c) \subseteq Announced(c)' /\ Announced(c)' \subseteq Clients
<1>1. Announced(c)' \subseteq Clients
  BY DEF Announced, Published, Siblings
<1>2. ASSUME NEW d \in Announced(c) PROVE d \in Announced(c)'
  <2>1. d \in Clients /\ d \in Published \cup Siblings(c) /\ conn[d] # "away" /\ news[d][d] > 0
    BY DEF Announced, Published, Siblings
  <2>2. conn'[d] # "away" /\ news'[d][d] > 0
    BY <2>1, StepOfRoom, NewsSpreads, ClientsAreNodes
  <2>3. d \in Published => d \in Published'
    BY <2>1, NewsSpreads, ClientsAreNodes DEF Published
  <2> QED
    BY <2>1, <2>2, <2>3 DEF Announced, Siblings
<1> QED
  BY <1>1, <1>2

LEMMA OutrankedKept ==
  ASSUME LimitTypeOK, LimitTypeOK', HeardAreAnnounced, YieldedWereOutranked, [LimitNext]_limitVars
  PROVE  YieldedWereOutranked'
<1> SUFFICES ASSUME NEW c \in Clients, c \in Yielded'
             PROVE  Cardinality(Before(Announced(c), c)') >= Limit
  BY DEF YieldedWereOutranked, Before, Yielded
<1>1. /\ Before(Announced(c), c)' = Before(Announced(c)', c)
      /\ Announced(c) \subseteq Announced(c)' /\ Announced(c)' \subseteq Clients
  BY StepOfRoom, AnnouncedGrows DEF Before, Precedes
<1>2. Cardinality(Before(Announced(c), c)) >= Limit
  <2>1. CASE c \in Yielded
    BY <2>1 DEF YieldedWereOutranked, Before
  <2>2. CASE c \notin Yielded
    <3>1. conn[c] = "connected" /\ ~WithinLimit(c)
      BY <2>2, StepOfRoom
    <3>2. Known(c) \subseteq Clients /\ Announced(c) \subseteq Clients
      BY DEF Known, Announced, Published, Siblings
    <3>3. Before(Known(c), c) \subseteq Announced(c)
      <4> SUFFICES ASSUME NEW d \in Clients, IsState(news[c][d]), Precedes(d, c)
                   PROVE  d \in Announced(c)
        BY <3>2 DEF Before, Known
      <4>1. d # c
        BY DEF Precedes, LimitTypeOK
      <4>2. news[c][d] > 0
        <5>1. news[c][d] \in Nat
          BY ClientsAreNodes DEF LimitTypeOK
        <5>2. news[c][d] # 0
          BY DEF IsState
        <5> QED
          BY <5>1, <5>2
      <4> QED
        BY <4>1, <4>2, ClientsAreNodes DEF HeardAreAnnounced, Announced
    <3>4. Before(Known(c), c) \subseteq Before(Announced(c), c)
          /\ Before(Announced(c), c) \subseteq Clients
      BY <3>2, <3>3 DEF Before
    <3>5. ~(Cardinality(Before(Known(c), c)) < Limit)
      BY <3>1 DEF WithinLimit, Before
    <3> QED
      BY <3>4, <3>5, CountGrows
  <2> QED
    BY <2>1, <2>2
<1> QED
  BY <1>1, <1>2, OutrankedForGood

LEMMA StaysKept ==
  ASSUME LimitTypeOK, StaysUnlessYielded, [LimitNext]_limitVars
  PROVE  StaysUnlessYielded'
<1> SUFFICES ASSUME drops' = 0, NEW c \in Clients
             PROVE  conn'[c] \in {"away", "opening", "connected", "yielded"}
  BY DEF StaysUnlessYielded
<1>1. ASSUME NEW d \in Clients, Drop(d) \/ Refuse(d) \/ Leave(d) PROVE FALSE
  BY <1>1 DEF Drop, Refuse, Leave, Dropping, LimitTypeOK
<1>2. drops = 0
  BY <1>1 DEF LimitNext, Settle, Dial, Open, SetCollaboratorInfo, Learn, Renew, Evaluate,
              ServerForgets, limitVars
<1>3. conn[c] \in {"away", "opening", "connected", "yielded"}
  BY <1>2 DEF StaysUnlessYielded
<1>4. ASSUME NEW d \in Clients, Dial(d) \/ Open(d) \/ Evaluate(d)
      PROVE  \/ conn' = conn
             \/ \E next \in {"opening", "connected", "yielded"} : conn' = [conn EXCEPT ![d] = next]
  BY <1>4 DEF Dial, Open, Evaluate, ClientSocketCloses
<1>5. conn' = conn \/ \E d \in Clients : Dial(d) \/ Open(d) \/ Evaluate(d)
  BY <1>1 DEF LimitNext, Settle, SetCollaboratorInfo, Learn, Renew, ServerForgets, limitVars
<1> QED
  BY <1>3, <1>4, <1>5 DEF LimitTypeOK

-----------------------------------------------------------------------------
\* Of some numbers one is the least.
LEMMA LeastNatural ==
  ASSUME NEW S, S \subseteq Nat, S # {}
  PROVE  \E n \in S : \A m \in S : n <= m
<1>1. PICK n \in S : \A m \in S : <<m, n>> \notin OpToRel(<, Nat)
  BY WFMin, NatLessThanWellFounded, Zenon
<1>2. \A m \in S : ~(m < n)
  BY <1>1, Zenon DEF OpToRel
<1>3. \A m \in S : n <= m
  BY <1>2
<1> QED
  BY <1>3

\* Of some clients one comes first.
LEMMA FirstOf ==
  ASSUME LimitTypeOK, NEW S, S \subseteq Clients, S # {}
  PROVE  \E c \in S : \A d \in S : ~Precedes(d, c)
<1> DEFINE times == {joinedAt[c] : c \in S}
<1>1. times \subseteq Nat /\ times # {}
  <2>1. \A c \in Clients : joinedAt[c] \in 0 .. Infinity
    BY DEF LimitTypeOK
  <2>2. \A c \in Clients : joinedAt[c] \in Nat
    <3>1. Infinity \in Int
      BY DEF Infinity
    <3> QED
      BY <2>1, <3>1
  <2>3. \A c \in S : joinedAt[c] \in Nat
    BY <2>2
  <2> QED
    BY <2>3
<1>2. PICK n \in times : \A m \in times : n <= m
  BY <1>1, LeastNatural
<1> DEFINE earliest == {c \in S : joinedAt[c] = n}
<1>3. earliest \subseteq Nat /\ earliest # {}
  BY <1>2
<1>4. PICK c \in earliest : \A d \in earliest : c <= d
  BY <1>3, LeastNatural
<1>5. ASSUME NEW d \in S, Precedes(d, c) PROVE FALSE
  <2>1. joinedAt[d] \in Nat /\ n \in Nat /\ n <= joinedAt[d] /\ joinedAt[c] = n /\ c \in Nat /\ d \in Nat
    BY <1>1, <1>2, <1>4
  <2>2. joinedAt[d] = n /\ d < c
    BY <1>5, <2>1 DEF Precedes
  <2>3. c <= d
    BY <1>4, <2>2
  <2> QED
    BY <2>1, <2>2, <2>3
<1> QED
  BY <1>4, <1>5

LEMMA YieldLeavesOthers ==
  ASSUME LimitInv
  PROVE  YieldLeavesRoomFull
<1> USE DEF LimitInv
<1> SUFFICES ASSUME Yielded # {}, drops = 0
             PROVE  Cardinality({c \in Clients : conn[c] \in {"opening", "connected"}}) >= Limit
  BY DEF YieldLeavesRoomFull
<1> DEFINE There == {c \in Clients : conn[c] \in {"opening", "connected"}}
<1>1. Yielded \subseteq Clients /\ There \subseteq Clients
  BY DEF Yielded
<1>2. PICK c \in Yielded : \A d \in Yielded : ~Precedes(d, c)
  BY <1>1, FirstOf
<1>3. Before(Announced(c), c) \subseteq There
  <2> SUFFICES ASSUME NEW d \in Announced(c), Precedes(d, c) PROVE d \in There
    BY DEF Before
  <2>1. d \in Clients /\ conn[d] # "away" /\ d \notin Yielded
    BY <1>2 DEF Announced, Published, Siblings
  <2> QED
    BY <2>1 DEF StaysUnlessYielded, Yielded
<1>4. Cardinality(Before(Announced(c), c)) >= Limit
  BY <1>2 DEF YieldedWereOutranked, Before
<1>5. /\ Cardinality(Before(Announced(c), c)) \in Nat /\ Cardinality(There) \in Nat
      /\ Cardinality(Before(Announced(c), c)) <= Cardinality(There)
  BY <1>1, <1>3, CountGrows
<1> QED
  BY <1>4, <1>5

-----------------------------------------------------------------------------
LEMMA LimitInvariance == LimitSpec => []LimitInv
<1>1. LimitInit => LimitInv
  <2> SUFFICES ASSUME LimitInit PROVE LimitInv
    OBVIOUS
  <2>1. LimitTypeOK
    <3>1. drops \in 0 .. MaxDrops
      BY DEF LimitInit
    <3>2. joinedAt \in [Clients -> 0 .. Infinity]
      BY DEF LimitInit
    <3> QED
      BY <3>1, <3>2 DEF LimitInit, LimitTypeOK, Conns
  <2>2. HeardAreAnnounced /\ YieldedWereOutranked /\ StaysUnlessYielded
    BY DEF LimitInit, HeardAreAnnounced, YieldedWereOutranked, Yielded, StaysUnlessYielded
  <2> QED
    BY <2>1, <2>2 DEF LimitInv
<1>2. LimitInv /\ [LimitNext]_limitVars => LimitInv'
  BY LimitTypesKept, HeardKept, OutrankedKept, StaysKept DEF LimitInv
<1> QED
  BY <1>1, <1>2, PTL DEF LimitSpec

\* The state keeps its types.
THEOREM LimitTypeCorrect == LimitSpec => []LimitTypeOK
<1>1. LimitInv => LimitTypeOK
  BY DEF LimitInv
<1> QED
  BY <1>1, LimitInvariance, PTL

\* A client yields only behind as many announced tabs as the limit: what it
\* counted was in the room or is in its browser, however the news reached it.
THEOREM YieldsAreJustified == LimitSpec => []YieldedWereOutranked
<1>1. LimitInv => YieldedWereOutranked
  BY DEF LimitInv
<1> QED
  BY <1>1, LimitInvariance, PTL

\* The clients never all make way for one another.
THEOREM RoomStaysFull == LimitSpec => []YieldLeavesRoomFull
<1>1. LimitInv => YieldLeavesRoomFull
  BY YieldLeavesOthers
<1> QED
  BY <1>1, LimitInvariance, PTL

-----------------------------------------------------------------------------
\* Every tab that is connected has looked at what it knows, or is about to.
Evaluated == \A c \in Connected : ~timer[c] => WithinLimit(c)

\* Nothing is left to hear of or to look at.
Present == Connected \cap Published
AtRest == \A c \in Present : ~timer[c] /\ Present \subseteq Known(c)

LEMMA EvaluatedStep ==
  ASSUME LimitTypeOK, Evaluated, [LimitNext]_limitVars
  PROVE  Evaluated'
<1> SUFFICES ASSUME NEW d \in Clients, conn'[d] = "connected", ~timer'[d]
             PROVE  WithinLimit(d)'
  BY DEF Evaluated, Connected
<1>1. joinedAt' = joinedAt /\ d \in Nodes /\ d # Server
  BY StepOfRoom, ClientsAreNodes
<1>2. CASE Known(d)' = Known(d) /\ conn[d] = "connected" /\ ~timer[d]
  <2>1. WithinLimit(d)
    BY <1>2 DEF Evaluated, Connected
  <2> QED
    BY <1>1, <1>2, <2>1 DEF WithinLimit, Enforced, Precedes
<1>3. CASE ~Enforced
  BY <1>3 DEF WithinLimit, Enforced
<1>4. ASSUME NEW c \in Clients,
             Dial(c) \/ Refuse(c) \/ Open(c) \/ SetCollaboratorInfo(c) \/ Drop(c) \/ Leave(c), Enforced
      PROVE  WithinLimit(d)'
  <2>1. d # c
    BY <1>4 DEF Dial, Refuse, Open, SetCollaboratorInfo, Drop, Leave, ClientSocketCloses,
                ScheduleEvaluate, LimitTypeOK
  <2>2. news'[d] = news[d] /\ conn'[d] = conn[d] /\ timer'[d] = timer[d]
    BY <1>1, <1>4, <2>1 DEF Dial, Refuse, Open, SetCollaboratorInfo, Drop, Leave, ClientSocketCloses,
                            ScheduleEvaluate, LimitTypeOK
  <2> QED
    BY <1>2, <2>2 DEF Known
<1>5. ASSUME NEW n \in Nodes, NEW m \in Nodes, Learn(n, m), Enforced PROVE WithinLimit(d)'
  <2>1. /\ news' = [news EXCEPT ![n] = Merged(n, m)] /\ conn' = conn
        /\ \/ timer' = [timer EXCEPT ![n] = TRUE]
           \/ /\ timer' = timer
              /\ n \in Clients => \A e \in Clients : IsState(news[n][e]) = IsState(Merged(n, m)[e])
    BY <1>5 DEF Learn, ScheduleEvaluate
  <2>2. timer' # [timer EXCEPT ![n] = TRUE] \/ d # n
    BY <1>1 DEF LimitTypeOK
  <2>3. ~timer[d]
    BY <2>1, <2>2 DEF LimitTypeOK
  <2>4. CASE d # n
    BY <1>1, <1>2, <2>1, <2>3, <2>4 DEF Known, LimitTypeOK
  <2>5. CASE d = n
    <3>1. news'[d] = Merged(n, m) /\ \A e \in Clients : IsState(news[n][e]) = IsState(Merged(n, m)[e])
      BY <1>1, <2>1, <2>2, <2>5 DEF LimitTypeOK
    <3>2. Known(d)' = Known(d)
      BY <2>5, <3>1 DEF Known, IsState
    <3> QED
      BY <1>2, <2>1, <2>3, <3>2
  <2> QED
    BY <2>4, <2>5
<1>6. ASSUME NEW c \in Clients, Renew(c), Enforced PROVE WithinLimit(d)'
  <2>1. news' = [news EXCEPT ![c][c] = news[c][c] + 2] /\ IsState(news[c][c]) /\ conn' = conn
        /\ (timer' = timer \/ timer' = [timer EXCEPT ![c] = TRUE])
    BY <1>6 DEF Renew, ScheduleEvaluate
  <2>2. ~timer[d]
    BY <2>1 DEF LimitTypeOK
  <2>3. \A e \in Clients : IsState(news'[d][e]) <=> IsState(news[d][e])
    <3>1. news[c][c] \in Nat /\ IsState(news[c][c] + 2)
      <4>1. news[c][c] \in Nat
        BY ClientsAreNodes DEF LimitTypeOK
      <4> QED
        BY <2>1, <4>1 DEF IsState
    <3>2. ASSUME NEW e \in Clients
          PROVE  news'[d][e] = IF d = c /\ e = c THEN news[c][c] + 2 ELSE news[d][e]
      BY <1>1, <2>1 DEF LimitTypeOK
    <3> QED
      BY <2>1, <3>1, <3>2
  <2>4. Known(d)' = Known(d)
    BY <2>3 DEF Known, IsState
  <2> QED
    BY <1>2, <2>1, <2>2, <2>4
<1>7. ASSUME NEW c \in Clients, Evaluate(c) PROVE WithinLimit(d)'
  <2>1. CASE conn[c] = "connected" /\ ~WithinLimit(c)
    <3>1. d # c
      BY <1>7, <2>1 DEF Evaluate, ClientSocketCloses, LimitTypeOK
    <3>2. news'[d] = news[d] /\ conn'[d] = conn[d] /\ timer'[d] = timer[d]
      BY <1>1, <1>7, <2>1, <3>1 DEF Evaluate, ClientSocketCloses, LimitTypeOK
    <3> QED
      BY <1>2, <3>2 DEF Known
  <2>2. CASE ~(conn[c] = "connected" /\ ~WithinLimit(c))
    <3>1. timer' = [timer EXCEPT ![c] = FALSE] /\ UNCHANGED <<conn, news>>
      BY <1>7, <2>2 DEF Evaluate
    <3>2. Known(d)' = Known(d)
      BY <3>1 DEF Known
    <3>3. CASE d = c
      <4>1. WithinLimit(d)
        BY <2>2, <3>1, <3>3
      <4> QED
        BY <1>1, <3>2, <4>1 DEF WithinLimit, Enforced, Precedes
    <3>4. CASE d # c
      BY <1>2, <3>1, <3>2, <3>4 DEF LimitTypeOK
    <3> QED
      BY <3>3, <3>4
  <2> QED
    BY <2>1, <2>2
<1>8. ASSUME NEW c \in Clients, ServerForgets(c) PROVE WithinLimit(d)'
  <2>1. news'[d] = news[d] /\ UNCHANGED <<conn, timer>>
    BY <1>1, <1>8 DEF ServerForgets, LimitTypeOK
  <2> QED
    BY <1>2, <2>1 DEF Known
<1>9. CASE UNCHANGED limitVars
  BY <1>2, <1>9 DEF limitVars, Known
<1> QED
  BY <1>3, <1>4, <1>5, <1>6, <1>7, <1>8, <1>9 DEF LimitNext, Settle

\* Of some clients one comes last: the one with the most before it.
LEMMA LastOf ==
  ASSUME LimitTypeOK, NEW S, S \subseteq Clients, S # {}
  PROVE  \E c \in S : \A d \in S \ {c} : Precedes(d, c)
<1> DEFINE after(c) == Cardinality(S) - Cardinality(Before(S, c))
           counts == {after(c) : c \in S}
<1>1. \A c \in S : /\ Before(S, c) \subseteq S /\ Cardinality(Before(S, c)) \in Nat
                   /\ Cardinality(S) \in Nat /\ Cardinality(Before(S, c)) <= Cardinality(S)
  BY CountGrows DEF Before
<1>2. counts \subseteq Nat /\ counts # {}
  <2>1. \A c \in S : after(c) \in Nat
    BY <1>1
  <2> HIDE DEF after
  <2> QED
    BY <2>1
<1>3. PICK c \in S : \A d \in S : after(c) <= after(d)
  <2>1. PICK n \in counts : \A m \in counts : n <= m
    <3> HIDE DEF counts
    <3> QED
      BY <1>2, LeastNatural
  <2> QED
    BY <2>1
<1>4. ASSUME NEW d \in S, d # c, ~Precedes(d, c) PROVE FALSE
  <2>1. \A e \in S : e \in Nat /\ joinedAt[e] \in Int
    <3>1. \A e \in S : e \in Nat /\ joinedAt[e] \in 0 .. Infinity
      BY DEF LimitTypeOK
    <3> QED
      <4>1. Infinity \in Int
        BY DEF Infinity
      <4> QED
        BY <3>1, <4>1
  <2>2. Precedes(c, d)
    BY <1>4, <2>1 DEF Precedes
  <2>3. Before(S, c) \cup {c} \subseteq Before(S, d) /\ c \notin Before(S, c)
    <3>1. ~Precedes(c, c)
      BY <2>1 DEF Precedes
    <3>2. \A e \in S : Precedes(e, c) => Precedes(e, d)
      BY <2>1, <2>2 DEF Precedes
    <3> QED
      BY <2>2, <3>1, <3>2 DEF Before
  <2>4. Cardinality(Before(S, c) \cup {c}) = Cardinality(Before(S, c)) + 1
    <3>1. IsFiniteSet(Before(S, c))
      BY <1>1, SubsetsOfClients
    <3> QED
      BY <2>3, <3>1, FS_AddElement
  <2>5. Cardinality(Before(S, c) \cup {c}) <= Cardinality(Before(S, d))
    BY <1>1, <2>3, CountGrows
  <2> QED
    BY <1>1, <1>3, <2>4, <2>5
<1> QED
  BY <1>4

\* Once nothing is left to hear of, the room is within its limit: whoever came
\* last among those that are there knows of them all and has not yielded.  This
\* is what RoomSettlesWithinLimit comes to; that the room comes to rest is left
\* to its fairness.
THEOREM RestIsWithinLimit ==
  LimitSpec => [](Enforced /\ AtRest => Cardinality(Present) <= Limit)
<1>1. LimitInit => Evaluated
  BY DEF LimitInit, Evaluated, Connected
<1>2. LimitTypeOK /\ Evaluated => (Enforced /\ AtRest => Cardinality(Present) <= Limit)
  <2> SUFFICES ASSUME LimitTypeOK, Evaluated, Enforced, AtRest,
                      ~(Cardinality(Present) <= Limit)
               PROVE  FALSE
    OBVIOUS
  <2>1. Present \subseteq Clients /\ IsFiniteSet(Present) /\ Cardinality(Present) \in Nat
    <3>1. Present \subseteq Clients
      BY DEF Present, Connected
    <3> QED
      BY <3>1, SubsetsOfClients
  <2>2. Present # {}
    BY <2>1, FS_EmptySet
  <2>3. PICK c \in Present : \A d \in Present \ {c} : Precedes(d, c)
    BY <2>1, <2>2, LastOf
  <2>4. WithinLimit(c) /\ Present \subseteq Known(c) /\ Known(c) \subseteq Clients
    BY <2>1, <2>3 DEF AtRest, Evaluated, Present, Known
  <2>5. Cardinality(Before(Known(c), c)) < Limit
    BY <2>3, <2>4 DEF WithinLimit, Before
  <2>6. Present \ {c} \subseteq Before(Known(c), c) /\ Before(Known(c), c) \subseteq Clients
    BY <2>3, <2>4 DEF Before
  <2>7. Cardinality(Present \ {c}) = Cardinality(Present) - 1
    BY <2>1, <2>3, FS_RemoveElement
  <2>8. Cardinality(Present \ {c}) <= Cardinality(Before(Known(c), c))
        /\ Cardinality(Before(Known(c), c)) \in Nat
    BY <2>6, CountGrows
  <2> QED
    BY <2>1, <2>5, <2>7, <2>8
<1>3. LimitTypeOK /\ Evaluated /\ [LimitNext]_limitVars => Evaluated'
  BY EvaluatedStep
<1> QED
  BY <1>1, <1>2, <1>3, LimitTypeCorrect, PTL DEF LimitSpec
=============================================================================
