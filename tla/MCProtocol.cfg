SPECIFICATION Spec
CONSTANTS
  Bytes = {"*", "CR", "LF", " ", ".", "x"}
  Unprintable = {"CR", "LF"}
  Payloads <- MCPayloads
  MAX_BUF_SIZE = 4
  MaxChunks = 8
INVARIANTS
  LineInBounds
  SingleLine
  LineAsJoined
CHECK_DEADLOCK FALSE
