SPECIFICATION CaptureSpec
CONSTANTS
  NULL = NULL
  LatencyBounds <- MCLatencyBounds
  Endpoints = {e1, e2}
  Times <- MCTimes
  Sizes = {5}
  REQUEST_TIMEOUT_US = 1
  EXPIRE_INTERVAL_US = 1
  MAX_PENDING_REQUESTS = 1
  Threshold = 1
  MaxSkew = 0
  MaxPackets = 5
  WORD = 2
  SIZEOF_IP = 4
  SIZEOF_TCP = 4
  SIZEOF_UDP = 2
  LinkHeaders = {0, 1}
  UnknownLink = UnknownLink
  Words <- MCWords
  Lengths <- MCLengths
  Shapes <- MCShapes
  Snaplens <- MCSnaplens
  LUA_GC_CYCLE_PERIOD = 2
INVARIANTS
  CutIsUnseen
  PayloadInBounds
  WholeFrameKept
  SnaplenMonotone
CHECK_DEADLOCK FALSE
