SPECIFICATION Spec
CONSTANTS
  NULL = NULL
  Configs <- BoardAndCrowded
  FlushRunning <- FlushSafe
INVARIANTS TypeOK HeldExclusively SourceServed NoForeignStop
