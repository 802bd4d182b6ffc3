SPECIFICATION SharedSpec
CONSTANTS
  NULL = NULL
  LatencyBounds <- MCLatencyBounds
  Endpoints = {e1, e2}
  Times <- MCTimes
  Sizes = {2}
  REQUEST_TIMEOUT_US = 1
  EXPIRE_INTERVAL_US = 1
  MAX_PENDING_REQUESTS = 1
  Threshold = 0
  MaxSkew = 0
  MaxPackets = 4
  MaxQueries = 2
INVARIANTS
  ReplyIsACut
  ReplyCoherent
PROPERTIES
  RepliesGrow
  HandlerReturns
  ClientAnswered
  ImplementsTracker
CHECK_DEADLOCK FALSE
