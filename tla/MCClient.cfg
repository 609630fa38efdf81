CONSTANTS
  QueueLimit = 2
  max_retries = 2
SPECIFICATION Spec
INVARIANTS TypeOK QueuesOutliveThreads NoSilentDeath
PROPERTIES CallbackFindsDecoder Terminates UsesEndpoint
\* the process ends
CHECK_DEADLOCK FALSE
