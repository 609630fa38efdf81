CONSTANTS
  MAX_COMPRESSED_QUEUE_FRAMES = 2
  FrameUnits = 3
  BufUnits = 4
  PipeBuf = 2
  MaxFrames = 5
SPECIFICATION Spec
INVARIANTS TypeOK QueuesBounded QueueIsNewest InOrder
PROPERTIES ImplementsFlow
\* the client really stops: the mic thread has ended and no frame arrives
CHECK_DEADLOCK FALSE
