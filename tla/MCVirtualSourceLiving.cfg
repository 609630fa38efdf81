CONSTANTS
  p1 = p1
  p2 = p2
  Proc = {p1, p2}
  other = other
  Other = {other}
  NONE = NONE
SPECIFICATION Spec
CHECK_DEADLOCK FALSE
INVARIANTS SparesTheLiving
