SPECIFICATION RetriedSpec
CONSTANTS
  u1 = u1
  s1 = s1
  s2 = s2
  r1 = r1
  r2 = r2
  r3 = r3
  c1 = c1
  c2 = c2
  f1 = f1
  f2 = f2
  small = small
  full = full
  over = over
  None = None
  User = {u1}
  Session = {s1}
  Row = {r1, r2}
  Call = {c1, c2}
  Body = {f1}
  SessionOf <- MCSessionOf
  UserOf <- MCUserOf
  Plan <- MCPlan
  Usage = {full, over}
  WithinCaps <- MCWithinCaps
  Cost <- MCCost
  TokenScale = 2
  Basis = 2
  ReservedRetail <- MCReservedRetail
  ReservedUpstream <- MCReservedUpstream
  MonthlyLimit = 8
  SessionLimit = 8
  DeveloperBudget = 2
  Opening = 8
  Amount = {}
  MaxBalance = 8
  MaxMonth = 0
PROPERTIES
  EveryHandlerReturns
  RetriesResolve
CHECK_DEADLOCK FALSE
