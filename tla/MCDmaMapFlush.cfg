SPECIFICATION Spec
CONSTANTS
  NULL = NULL
  Configs <- BoardOnly
  FlushRunning <- FlushPlayback
INVARIANTS NoForeignStop
