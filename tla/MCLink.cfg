CONSTANTS
  MAX_COMPRESSED_QUEUE_FRAMES = 1
  FrameUnits = 2
  BufUnits = 3
  PipeBuf = 1
  MaxFrames = 2
  FragmentUnits = {1, 2, 3}
  MaxUnits = 6
  Stopper = FALSE
SPECIFICATION LinkSpec
\* both ends really stop
CHECK_DEADLOCK FALSE
PROPERTIES ImplementsRelay
