SPECIFICATION FairTouchSpec
CONSTANTS
  Client = {ts, h1, h2}
  TsClient = ts
  NULL = NULL
  Samples = 2
  Timeouts = "stalled"
  RereadStale = TRUE
  SuspendWhen = "idle"
  CountCap = 3
  RemoveWhen = "never"
INVARIANTS NoDoubleAdd ConversionUnderway OwnSample
PROPERTIES PenReported ReadersServed
