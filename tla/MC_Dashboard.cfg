SPECIFICATION Spec
CONSTANTS
  t1 = t1
  Token = {t1, t2}
  Builds <- MCBuilds
  Request = {r1, r2, r3, r4}
  None = None
SYMMETRY Symmetry
INVARIANTS
  TypeOK
  ScreenIsTrue
