SPECIFICATION Spec
CONSTANTS
  Contents <- OneSized
  Policies <- Overwrite
INVARIANTS RetryGetsThere
