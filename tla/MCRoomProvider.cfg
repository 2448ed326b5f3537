SPECIFICATION ModalSpec
CONSTANTS
  MaxAttempts = 4
  Reconnects = 1
  MaxRequests = 2
INVARIANTS
  TypeOK
  NothingRunsAfterTheEnd
  OneAttemptAtATime
  StatusIsTruthful
  PromisedRetryIsScheduled
  ModalNamesItsLimit
PROPERTIES
  BackoffResetsOnlyWhenStable
  ErrorStaysUntilSync
  ReconnectsEventually
CHECK_DEADLOCK FALSE
