CONSTANTS
  Callers = {t1, t2, t3}
  Messages = {call, read, write}
  Blocking = {call, read, write}
  Sync = TRUE
  MayStop = FALSE
  MayDisconnect = TRUE
  None = None
SPECIFICATION Spec
INVARIANTS CacheHoldsUnread
CHECK_DEADLOCK FALSE
