SPECIFICATION Spec
CONSTANTS
  d1 = d1
  a1 = a1
  u1 = u1
  s1 = s1
  kd = kd
  ku = ku
  c1 = c1
  c2 = c2
  f1 = f1
  None = None
  Developer = {d1}
  App = {a1}
  User = {u1}
  Session = {s1}
  Chat = {c1, c2}
  FeatureKey = {f1}
  Key = {kd, ku}
  DeveloperOf <- MCDeveloperOf
  AppOf <- MCAppOf
  UserOf <- MCUserOf
  OwnerOf <- MCOwnerOf
  Cap = {3, 6}
  Price = 3
  Upstream = 1
  Budget = 1
INVARIANTS
  TypeOK
  ChosenKeysAreActive
  CapKept
  BudgetKept
  SomeRequestCanGoOn
SYMMETRY Requests
CHECK_DEADLOCK FALSE
