SPECIFICATION ReplySpec
CONSTANTS
  NULL = NULL
  Tables <- MCTables
  Counters <- MCCounters
  latency_buckets <- MCBuckets
  MaxFailures = 2
  Name <- MCName
  Digits <- MCDigits
  Characters <- MCCharacters
  Trees <- MCTrees
  Programs <- PrintPrograms
  default_buffer_size = 4
  INT_MAX = 130
INVARIANTS
  ListsWhole
  NothingStays
  ReplyTrue
  WritesInBuffer
  StrlenStops
  PrintsTheReply
CHECK_DEADLOCK FALSE
