CONSTANTS
  Threads = {main, t1, t2}
  Owner = main
  NoThread = none
  MaxAttempts = 3
SPECIFICATION FairSpec
\* a destroyed endpoint does nothing more
CHECK_DEADLOCK FALSE
INVARIANTS TypeOK OnlyFailuresLeak StopMeansStopped
PROPERTIES StopReturns ImplementsEndpoint
