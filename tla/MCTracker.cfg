SPECIFICATION Spec
CONSTANTS
  NULL = NULL
  LatencyBounds <- MCLatencyBounds
  Endpoints = {e1, e2, e3}
  Times <- MCTimes
  Sizes = {2}
  REQUEST_TIMEOUT_US = 3
  EXPIRE_INTERVAL_US = 2
  MAX_PENDING_REQUESTS = 2
  Threshold = 2
  MaxSkew = 1
  MaxPackets = 6
SYMMETRY Symmetry
INVARIANTS
  TypeOK
  SweepInv
  PendingToKnown
  PendingAgeBounded
  PendingBelowCeiling
  SamplesCovered
PROPERTY
  NoSilentDrop
CHECK_DEADLOCK FALSE
