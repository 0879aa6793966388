SPECIFICATION Spec
CONSTANTS
  Root = "root"
  Paths = {"d", "dx", "dy", "z"}
  Parent <- Tree
  Contents <- Twice
  Callers = {"cli"}
  Policies = {"save"}
  Jobs = 1
INVARIANT SafeOnConflicts
CHECK_DEADLOCK FALSE
