------------------------------ MODULE MC_Funds ------------------------------
(* One end user, one developer, one checkout whose events differ, two keys,  *)
(* two payouts, two API requests at once.                                   *)
EXTENDS Funds, TLC

CONSTANTS u1, d1, s1, e1, e2, e3, k1, k2, o1, o2, p1, p2, q1

MCWalletOf   == [s \in Checkout |-> u1]
MCPrice      == [s \in Checkout |-> 2]
MCCheckoutOf == [e \in Event |-> s1]

\* The third event reports another amount than the checkout was opened for.
MCCharged == [e \in Event |-> IF e = e3 THEN 1 ELSE 2]

\* One key debits the end user, the other charges back the developer.
MCRequestOf ==
  [k \in Key |-> IF k = k1
                 THEN [wallet |-> u1, direction |-> "debit", amount |-> 2]
                 ELSE [wallet |-> d1, direction |-> "debit", amount |-> 1]]

\* One usage costs less than the opening balance, of which a completion may reserve all.
MCUsageOf == [u \in Usage |-> [wallet |-> u1, developer |-> d1, price |-> 1, share |-> 1]]

Symmetry == Permutations(PayoutId) \cup Permutations(Process)
=============================================================================
