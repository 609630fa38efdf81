CONSTANTS
  FrameUnits = 2
  FragmentUnits = {1, 2, 3}
  MaxUnits = 7
  Stopper = TRUE
SPECIFICATION FairSpec
CHECK_DEADLOCK FALSE
INVARIANTS
  TypeOK SentInOrder
PROPERTIES
  Terminates UsesEndpoint
