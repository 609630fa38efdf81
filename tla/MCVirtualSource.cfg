CONSTANTS
  p1 = p1
  p2 = p2
  Proc = {p1, p2}
  other = other
  Other = {other}
  NONE = NONE
SPECIFICATION FairSpec
CHECK_DEADLOCK FALSE
INVARIANTS
  TypeOK LostOnlyToCleanup
PROPERTIES
  ShutdownEnds NextStartCleansUp ImplementsMicrophones
