SPECIFICATION Spec
CONSTANTS
  u1 = u1
  d1 = d1
  s1 = s1
  e1 = e1
  e2 = e2
  e3 = e3
  k1 = k1
  k2 = k2
  o1 = o1
  o2 = o2
  p1 = p1
  p2 = p2
  q1 = q1
  None = None
  UserWallet = {u1}
  DeveloperWallet = {d1}
  Checkout = {s1}
  Event = {e1, e2, e3}
  Key = {k1, k2}
  PayoutId = {o1, o2}
  Usage = {q1}
  Process = {p1, p2}
  WalletOf <- MCWalletOf
  Price <- MCPrice
  CheckoutOf <- MCCheckoutOf
  Charged <- MCCharged
  UsageOf <- MCUsageOf
  RequestOf <- MCRequestOf
  Threshold = 1
  Opening = 2
  Amount = {2}
  MaxEarned = 4
SYMMETRY Symmetry
INVARIANTS
  TypeOK
  WalletsAreCovered
  RecordsAddUp
  PaymentsAreNotLost
PROPERTY
  PayoutsFollowReview
CHECK_DEADLOCK FALSE
