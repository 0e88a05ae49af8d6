SPECIFICATION FairMciSpec
CONSTANTS
  FifoSize = 2
  MaxUnits = 3
  EarlyIrq = TRUE
INVARIANTS MciInv ResultExact
PROPERTIES RequestCompletes
CHECK_DEADLOCK FALSE
