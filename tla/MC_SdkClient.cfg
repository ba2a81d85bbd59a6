SPECIFICATION Spec
CONSTANTS
  c1 = c1
  c2 = c2
  o1 = o1
  fA = fA
  fB = fB
  AnyFeature = AnyFeature
  None = None
  Chat = {c1, c2}
  Opener = {o1}
  Feature = {fA, fB}
  FeatureOf <- MCFeatureOf
  Token = {t1, t2}
  Report = {r1, r2}
  Flush = {f1, f2}
SYMMETRY Symmetry
INVARIANTS
  TypeOK
  ChatsUseTheirSessions
  AckedIsNotSentAgain
CHECK_DEADLOCK FALSE
