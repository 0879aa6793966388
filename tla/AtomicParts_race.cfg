SPECIFICATION Spec
CONSTANTS
  Count       = 3
  Jobs        = 2
  Target      = "target"
  Nodes       <- TreeNodes
  Parent      <- Tree
  PartOf      <- PartsXYZ
  DestOf      <- DestsXYZ
  Chunks      = 2
  Bad         = {}
  Stale       <- LeftOver
  Calls       <- EachCall
INVARIANTS NoSpuriousFailure
CHECK_DEADLOCK FALSE
