CONSTANTS
  p1 = p1
  Proc = {p1}
  MaxKeys = 2
SPECIFICATION Spec
INVARIANTS KeyPairMatches
