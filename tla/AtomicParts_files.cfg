SPECIFICATION Spec
CONSTANTS
  Count       = 3
  Jobs        = 3
  Target      = "target"
  Nodes       <- TreeNodes
  Parent      <- Tree
  PartOf      <- PartsXYZ
  DestOf      <- DestsXYZ
  Chunks      = 2
  Bad         = {2}
  Stale       <- LeftOver
  Calls       <- AnyCall
INVARIANTS TypeOK DestWhole NoSpuriousFailureInAll DestFollowsResult NoPartLeft TreeGone
CHECK_DEADLOCK FALSE
