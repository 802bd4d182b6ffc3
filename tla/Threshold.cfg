SPECIFICATION SessionSpec
CONSTANTS
  NULL = NULL
  LatencyBounds <- MCLatencyBounds
  Endpoints = {c1, c2, s}
  Server = s
  Times <- MCTimes
  Sizes = {2}
  REQUEST_TIMEOUT_US = 3
  EXPIRE_INTERVAL_US = 2
  MAX_PENDING_REQUESTS = 2
  Threshold = 2
  MaxSkew = 0
  MaxPackets = 7
  Traffics <- OneAtATime
SYMMETRY Symmetry
INVARIANTS
  OnlySlower
CHECK_DEADLOCK FALSE
