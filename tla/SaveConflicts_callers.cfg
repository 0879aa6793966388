SPECIFICATION Spec
CONSTANTS
  Root = "root"
  Paths = {"d", "dx", "dy", "z"}
  Parent <- Tree
  Contents <- Archives
  Callers = {"all", "to", "stream", "cli"}
  Policies = {"save", "skip", "fail", "overwrite"}
  Jobs = 2
INVARIANTS TypeOK OriginalsKept FailChangesNothing SavedIsListed OthersLeftAlone RememberedParentIsThere 
CHECK_DEADLOCK FALSE
