SPECIFICATION Spec
SYMMETRY Symmetry
CONSTANTS
  b1 = b1
  b2 = b2
  b3 = b3
  b4 = b4
  NULL = NULL
  Buf <- MCBuf
  AutoStart = TRUE
  FlushHitsSelf = FALSE
  Allow = {"race"}
INVARIANTS TypeOK ReportedOnceMoved NextInChain
PROPERTIES ImplementsQueue
