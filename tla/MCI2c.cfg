SPECIFICATION FairSpec
CONSTANTS
  Transfers <- SupportedTransfers
  MayStall = TRUE
  LateAnswer = FALSE
INVARIANTS TypeOK ResultExact InBounds
PROPERTIES CallReturns
