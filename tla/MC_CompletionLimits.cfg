SPECIFICATION Spec
CONSTANTS
  u1 = u1
  s1 = s1
  s2 = s2
  r1 = r1
  r2 = r2
  r3 = r3
  c1 = c1
  c2 = c2
  f1 = f1
  f2 = f2
  small = small
  full = full
  over = over
  None = None
  User = {u1}
  Session = {s1, s2}
  Row = {r1, r2, r3}
  Call = {c1, c2}
  Body = {f1}
  SessionOf <- MCTwoSessions
  UserOf <- MCUserOf
  Plan <- MCPlatformPlan
  Usage = {small, full, over}
  WithinCaps <- MCWithinCaps
  Cost <- MCCost
  TokenScale = 2
  Basis = 2
  ReservedRetail <- MCReservedRetail
  ReservedUpstream <- MCReservedUpstream
  MonthlyLimit = 8
  SessionLimit = 6
  DeveloperBudget = 2
  Opening = 12
  Amount = {}
  MaxBalance = 12
  MaxMonth = 1
SYMMETRY TwoSessionSymmetry
INVARIANT
  SpendLimitsKept
CHECK_DEADLOCK FALSE
