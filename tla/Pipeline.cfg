SPECIFICATION SessionSpec
CONSTANTS
  NULL = NULL
  LatencyBounds <- MCLatencyBounds
  Endpoints = {c1, c2, s}
  Server = s
  Times <- MCTimes
  Sizes = {2}
  REQUEST_TIMEOUT_US = 3
  EXPIRE_INTERVAL_US = 2
  MAX_PENDING_REQUESTS = 2
  Threshold = 0
  MaxSkew = 0
  MaxPackets = 7
  Traffics <- Pipelined
SYMMETRY Symmetry
INVARIANTS
  OneLinePerRequest
CHECK_DEADLOCK FALSE
