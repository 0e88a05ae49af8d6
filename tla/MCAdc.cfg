SPECIFICATION Spec
CONSTANTS
  Client = {ts, h1, h2, h3}
  TsClient = ts
  NULL = NULL
  Samples = 2
  Timeouts = "any"
  RereadStale = FALSE
  SuspendWhen = "any"
SYMMETRY Symmetry
INVARIANTS TypeOK IdleImpliesEmpty NoFreedClient
PROPERTIES ServedInOrder
