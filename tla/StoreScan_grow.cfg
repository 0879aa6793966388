SPECIFICATION Spec
CONSTANTS
  Lengths <- ScanLengths
  Decoys  <- ScanDecoys
  Others  = {}
  Signed  = {TRUE}
  NextLen = 5
  Chunk   = 16
INVARIANTS GrowthIsEnough
