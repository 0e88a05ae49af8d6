SPECIFICATION TouchSpec
CONSTANTS
  Client = {ts, h1, h2}
  TsClient = ts
  NULL = NULL
  Samples = 2
  Timeouts = "any"
  RereadStale = FALSE
  SuspendWhen = "idle"
  CountCap = 4
  RemoveWhen = "any"
SYMMETRY Symmetry
INVARIANTS TouchTypeOK OneActivity SampleSet PanelMode
