SPECIFICATION Spec
CONSTANTS
  Contents <- TwoUnsized
  Policies <- Overwrite
INVARIANTS StatusRecorded
