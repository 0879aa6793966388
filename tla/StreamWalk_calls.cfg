SPECIFICATION Spec
CONSTANTS
  Contents <- UpToTwo
  Policies <- AllPolicies
INVARIANTS TypeOK OkMeansAll StaysInStep
 
