CONSTANTS
  FrameUnits = 2
  FragmentUnits = {1, 2, 3}
  MaxUnits = 2
  Stopper = TRUE
SPECIFICATION FairSpec
CHECK_DEADLOCK FALSE
PROPERTIES StopEndsRecord
