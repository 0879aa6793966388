SPECIFICATION FairSpec
CONSTANTS
  Count        = 4
  Jobs         = 3
  StackThreads = 1
  Size         <- SizeOf
  Directory    <- OneDir
  Skip         <- OneSkipped
  BatchMax     = 2
  BatchBytes   = 2
  HasProgress  = TRUE
  EntryErrors  = {"ECRC"}
  Faults       = {"thread", "clone", "memory"}
  SizeMax      = 15
  MinBytes     = 4
  MinStoreEntries = 3
  MinStoreBytes = 6
  MaxIoJobs    = 2
  Listings     <- UpToThree
  Processors   = {0, 1, 2, 3, 4}
  Max16 = 3
  Max32 = 9
  Max64 = 60
  EndLen = 2
  CentralLen = 1
  LocalLen = 1
  Listings64 <- SomeListings
  Comments <- SomeComments
  Values <- Limits
INVARIANTS TypeOK OneOwner ResultOkIsComplete ProgressExact CancelHonoured ThreadsAgreeAtStart WrittenOpens MappedOpensToo
PROPERTIES LargeFilesAlone Returns PromiseKept
CHECK_DEADLOCK FALSE
