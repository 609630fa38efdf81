CONSTANTS
  p1 = p1
  p2 = p2
  p3 = p3
  Proc = {p1, p2, p3}
  MaxKeys = 3
SPECIFICATION Spec
SYMMETRY Symmetry
INVARIANTS
  TypeOK PrivateKeyOnDisk OneIdentity LoadFindsKeys PairUnlessDisturbed
