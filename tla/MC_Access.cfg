SPECIFICATION FairSpec
CONSTANTS
  d1 = d1
  d2 = d2
  a1 = a1
  f1 = f1
  k1 = k1
  t1 = t1
  t2 = t2
  Developer = {d1, d2}
  Oldest = d1
  App = {a1}
  Feature = {f1}
  Key = {k1}
  Token = {t1, t2}
  AppOf <- AppOfAll
  Holder <- HolderOf
  Scopes <- ScopesOf
  Operator = operator
  EndUser = enduser
  Request = {r1, r2}
  Hosted = TRUE
  Deployments <- Switches
  MaxRequests = 4
  None = None
INVARIANTS
  TypeOK
  AuditAccountsForRows
  TenantIsolation
  AppsAreComplete
PROPERTIES
  AppsStay
  RevocationIsFinal
  EveryRequestIsAnswered
