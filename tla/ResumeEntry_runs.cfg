SPECIFICATION Spec
CONSTANTS
  Size     = 2
  IoChunk = 2
  InflateChunk = 2
  MappedChunk = 2
  FastChunk = 3
  CryptHeader = 1
  SaltLen = 1
  AuthLen = 1
  MaxInflate = 4
  Payloads <- SomePayloads
  BlockLen = 2
  Counters = 6
  HashBlock = 6
  LenField = 2
  Digest = 2
  Cuts <- SomeCuts
  Passwords <- SomePasswords
  Turns = {1, 2, 3}
  Ways <- SomeWays
  Archives <- AnyArchive
  Parts    <- AnyPart
  Finals   <- OldFinals
  Options  <- AnyOptions
INVARIANTS TypeOK DestWhole OkIsInPlace StateTruthful BadPartCostsOneRun DataIsRight PiecesMakeWhole
PROPERTIES BytesAreKept
