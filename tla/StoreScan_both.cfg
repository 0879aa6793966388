SPECIFICATION Spec
CONSTANTS
  Lengths <- ScanLengths
  Decoys  <- ScanDecoys
  Others  <- OtherParts
  Signed  = {TRUE, FALSE}
  NextLen = 5
  Chunk   = 16
INVARIANTS TypeOK DestExact PartIsData FoundWhenThere
