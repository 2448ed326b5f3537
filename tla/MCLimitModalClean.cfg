SPECIFICATION ModalSpec
CONSTANTS
  MaxAttempts = 3
  Reconnects = 0
  MaxRequests = 1
PROPERTY LaterLimitStartsClean
CHECK_DEADLOCK FALSE
