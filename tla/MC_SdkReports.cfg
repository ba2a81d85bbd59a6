SPECIFICATION Spec
CONSTANTS
  c1 = c1
  c2 = c2
  o1 = o1
  fA = fA
  fB = fB
  AnyFeature = AnyFeature
  None = None
  Chat = {}
  Opener = {}
  Feature = {fA, fB}
  FeatureOf <- MCFeatureOf
  Token = {}
  Report = {r1, r2}
  Flush = {f1, f2}
SYMMETRY Symmetry
INVARIANT
  QueuedReportsAreKept
CHECK_DEADLOCK FALSE
