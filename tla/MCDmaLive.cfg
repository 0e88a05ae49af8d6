SPECIFICATION FairSpec

CONSTANTS
  b1 = b1
  b2 = b2
  b3 = b3
  b4 = b4
  NULL = NULL
  Buf <- MCBuf
  AutoStart = FALSE
  FlushHitsSelf = FALSE
  Allow = {}
INVARIANTS NoStall InStep AbortedNotMoving
PROPERTIES Drains
