---------------------------- MODULE GatewayFunds ----------------------------
(* The gateway's part of Funds.  Funds has the API's movements of money step *)
(* by step and of the gateway only that a covered amount is reserved and      *)
(* then given back but for a part of it.  Completion has the gateway's steps  *)
(* one by one and of the API only credits and debits.  The wallets of both    *)
(* are the same rows.                                                        *)
EXTENDS Completion

\* What a row has cost its user.
PaidFor(r, u) ==
  IF usage[r] # None /\ UserOfRow(r) = u THEN Retail(usage[r].shares) ELSE 0

PaidBy(u) == SumFunctionOnSet([r \in Row |-> PaidFor(r, u)], Row)

\* All rows together cost no more.
MostPaid == SumFunctionOnSet([r \in Row |-> ReservedRetail], Row)

Nothing == [x \in {} |-> None]

\* Funds without the API server's own requests.
F == INSTANCE Funds WITH
  UserWallet <- User, DeveloperWallet <- {"developer"},
  Checkout <- {}, Event <- {}, Key <- {}, PayoutId <- {}, Usage <- {}, Process <- {},
  WalletOf <- Nothing, Price <- Nothing, CheckoutOf <- Nothing, Charged <- Nothing,
  RequestOf <- Nothing, UsageOf <- Nothing, Threshold <- 1,
  Amount    <- {Hold(p) : p \in Plan},
  MaxEarned <- MostPaid,
  balance   <- [w \in User \cup {"developer"} |-> balance[w]],
  reserved  <- [w \in User \cup {"developer"} |-> IF w \in User THEN reserved[w] ELSE 0],
  topup <- Nothing, applied <- {}, payout <- Nothing, recorded <- {}, tx <- Nothing,
  shown <- {}, paid <- {}, delivered <- {},
  spent     <- [u \in User |-> PaidBy(u)],
  earned    <- [d \in {"developer"} |-> balance[d]]

\* A credit or debit is the API's; any other step that a wallet is touched by is one Funds
\* has for the gateway.
KeepsToFunds ==
  F!Init /\ [][F!Next \/ \E u \in User, a \in Amount : Credit(u, a) \/ Debit(u, a)]_(F!vars)

\* No row is charged more than the reserved price.
ChargesAreSmall == \A r \in Row : usage[r] # None => Retail(usage[r].shares) <= ReservedRetail
=============================================================================
