SPECIFICATION FairIrqSpec
CONSTANTS
  Sub = {0, 1, 2}
  Level = {0}
INVARIANTS IrqInv NoneLost
PROPERTIES RequestHandled
