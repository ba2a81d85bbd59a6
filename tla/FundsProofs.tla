---------------------------- MODULE FundsProofs ----------------------------
(* The money movements of the API server, for every number of wallets,      *)
(* checkouts, events, keys, payouts and requests served at once.           *)
EXTENDS Funds, Sums

-----------------------------------------------------------------------------
(* The inductive invariant.  That balances stay natural numbers rests on     *)
(* their covering what is reserved; that a payout cannot take reserved money *)
(* on developer wallets having none reserved; that an acknowledged event is  *)
(* credited on the event of a top-up being one of its own checkout.          *)

DevelopersReserveNothing == \A d \in DeveloperWallet : reserved[d] = 0

EventsBelong ==
  \A s \in Checkout :
    topup[s].event # None => topup[s].status = "credited" /\ CheckoutOf[topup[s].event] = s

ShownIsRecorded == paid \subseteq shown /\ \A s \in shown : topup[s].status # "absent"

FundsInv == /\ TypeOK
            /\ WalletsAreCovered
            /\ DevelopersReserveNothing
            /\ EventsBelong
            /\ ShownIsRecorded
            /\ AcknowledgedIsCredited

\* What a process keeps of its transaction, by the kind of the transaction.
LEMMA TransactionFields ==
  \A t \in Transaction :
    /\ t.kind = "checkout" => t.checkout \in Checkout
    /\ t.kind = "webhook" => t.event \in Event
    /\ t.kind = "adjust" => t.key \in Key
    /\ t.kind = "run" => t.due \subseteq DeveloperWallet
    /\ t.kind = "usage" => t.usage \in Usage
BY DEF Transaction

\* A process that begins or ends a transaction keeps tx well typed.
LEMMA BeginDone ==
  ASSUME TypeOK, NEW p \in Process
  PROVE  /\ Done(p) => tx' \in [Process -> Transaction]
         /\ \A t \in Transaction : Begin(p, t) => tx' \in [Process -> Transaction]
<1>1. Idle \in Transaction BY DEF Idle, Transaction
<1>2. QED BY <1>1 DEF TypeOK, Done, Begin

\* A payout that moves on in its review stays well typed.
LEMMA PayoutMoves ==
  ASSUME TypeOK, NEW o \in PayoutId, NEW st \in {"processing", "paid"},
         payout[o].status # "absent",
         payout' = [payout EXCEPT ![o].status = st]
  PROVE  /\ payout' \in [PayoutId -> [status : {"absent", "pending", "processing", "paid"},
                                    developer : DeveloperWallet \cup {None}, amount : Nat]]
         /\ \A q \in PayoutId : payout'[q].status # "absent" => payout'[q].developer # None
<1>1. ASSUME NEW q \in PayoutId
      PROVE  /\ payout'[q] \in [status : {"absent", "pending", "processing", "paid"},
                                developer : DeveloperWallet \cup {None}, amount : Nat]
             /\ payout'[q].status # "absent" => payout'[q].developer # None
  BY DEF TypeOK
<1>2. payout' = [q \in PayoutId |-> payout'[q]] BY DEF TypeOK
<1>3. QED BY <1>1, <1>2

\* Nothing is reserved, stored or paid at first.
LEMMA FundsInit == Init => FundsInv
<1> SUFFICES ASSUME Init PROVE FundsInv OBVIOUS
<1> USE FundsAssumption
<1>1. Wallet = UserWallet \cup DeveloperWallet BY DEF Wallet
<1>2. Idle \in Transaction BY DEF Idle, Transaction
<1>3. TypeOK BY <1>1, <1>2 DEF Init, TypeOK, NoTopup, NoPayout
<1>4. QED
  BY <1>1, <1>3 DEF Init, FundsInv, WalletsAreCovered, DevelopersReserveNothing,
    EventsBelong, ShownIsRecorded, AcknowledgedIsCredited, NoTopup

\* Every step of a request, of Stripe, of an operator or of the gateway keeps it.
LEMMA FundsStep == FundsInv /\ [Next]_vars => FundsInv'
<1> SUFFICES ASSUME FundsInv, [Next]_vars PROVE FundsInv' OBVIOUS
<1> USE FundsAssumption
<1>w. Wallet = UserWallet \cup DeveloperWallet BY DEF Wallet
<1>t. TypeOK BY DEF FundsInv
<1>1. ASSUME NEW p \in Process, NEW s \in Checkout, OpenCheckout(p, s) PROVE FundsInv'
  <2>1. [kind |-> "checkout", checkout |-> s] \in Transaction BY DEF Transaction
  <2>2. tx' \in [Process -> Transaction] BY <1>1, <1>t, <2>1, BeginDone DEF OpenCheckout
  <2>3. QED
    BY <1>1, <2>2 DEF OpenCheckout, FundsInv, TypeOK, WalletsAreCovered, EventsBelong,
      DevelopersReserveNothing, ShownIsRecorded, AcknowledgedIsCredited, gateway, stripe
<1>2. ASSUME NEW p \in Process, RecordCheckout(p) PROVE FundsInv'
  <2>1. tx[p].checkout \in Checkout
    BY <1>2, <1>t, TransactionFields DEF RecordCheckout, TypeOK
  <2>2. tx' \in [Process -> Transaction] BY <1>2, <1>t, BeginDone DEF RecordCheckout
  <2>3. TypeOK'
    <3>1. /\ topup' = [topup EXCEPT ![tx[p].checkout].status = "pending"]
          /\ UNCHANGED <<balance, reserved, applied, recorded, payout, paid, delivered,
                         spent, earned>>
          /\ shown' \in {shown, shown \cup {tx[p].checkout}}
      BY <1>2 DEF RecordCheckout, gateway
    <3>2. topup' \in [Checkout -> [status : {"absent", "pending", "credited"},
                                  event : Event \cup {None}]]
      BY <1>t, <2>1, <3>1 DEF TypeOK
    <3>3. shown' \subseteq Checkout BY <1>t, <2>1, <3>1 DEF TypeOK
    <3>4. QED BY <1>t, <2>2, <3>1, <3>2, <3>3 DEF TypeOK
  <2>4. EventsBelong' /\ AcknowledgedIsCredited'
    BY <1>2, <1>t, <2>1 DEF RecordCheckout, TypeOK, FundsInv, EventsBelong,
      AcknowledgedIsCredited, NoTopup
  <2>5. ShownIsRecorded'
    BY <1>2, <1>t, <2>1 DEF RecordCheckout, TypeOK, FundsInv, ShownIsRecorded
  <2>6. QED
    BY <1>2, <2>3, <2>4, <2>5 DEF RecordCheckout, FundsInv, WalletsAreCovered,
      DevelopersReserveNothing, gateway
<1>3. ASSUME NEW p \in Process, NEW e \in Event, Deliver(p, e) PROVE FundsInv'
  <2>1. [kind |-> "webhook", event |-> e] \in Transaction BY DEF Transaction
  <2>2. tx' \in [Process -> Transaction]
    BY <1>3, <1>t, <2>1, BeginDone DEF Deliver, TypeOK
  <2>3. AcknowledgedIsCredited'
    BY <1>3, <1>t DEF Deliver, TypeOK, FundsInv, EventsBelong, AcknowledgedIsCredited
  <2>4. QED
    BY <1>3, <2>2, <2>3 DEF Deliver, FundsInv, TypeOK, WalletsAreCovered, EventsBelong,
      DevelopersReserveNothing, ShownIsRecorded, gateway
<1>4. ASSUME NEW p \in Process, CreditTopup(p) PROVE FundsInv'
  <2> DEFINE e == tx[p].event
             s == CheckoutOf[e]
             w == WalletOf[s]
  <2>1. e \in Event /\ s \in Checkout /\ w \in Wallet /\ w \in UserWallet /\ Price[s] \in Nat
    BY <1>4, <1>t, <1>w, TransactionFields DEF CreditTopup, TypeOK
  <2>2. tx' \in [Process -> Transaction] BY <1>4, <1>t, BeginDone DEF CreditTopup
  <2>3. /\ UNCHANGED <<reserved, spent, earned, applied, recorded, payout, shown, paid>>
        /\ delivered' \in {delivered, delivered \cup {e}}
        /\ delivered' # delivered => topup'[s].status = "credited"
    BY <1>4 DEF CreditTopup, gateway
  <2>4. CASE IsOpen(s) /\ Charged[e] = Price[s]
    <3>1. /\ balance' = [balance EXCEPT ![w] = @ + Price[s]]
          /\ topup' = [topup EXCEPT ![s] = [status |-> "credited", event |-> e]]
      BY <1>4, <2>4 DEF CreditTopup
    <3>2. TypeOK' BY <1>t, <2>1, <2>2, <2>3, <3>1 DEF TypeOK
    <3>3. WalletsAreCovered' /\ DevelopersReserveNothing'
      BY <1>t, <1>w, <2>1, <2>3, <3>1 DEF TypeOK, FundsInv, WalletsAreCovered,
        DevelopersReserveNothing
    <3>4. EventsBelong' /\ ShownIsRecorded' /\ AcknowledgedIsCredited'
      BY <1>t, <2>1, <2>3, <3>1 DEF TypeOK, FundsInv, EventsBelong, ShownIsRecorded,
        AcknowledgedIsCredited
    <3>5. QED BY <3>2, <3>3, <3>4 DEF FundsInv
  <2>5. CASE ~(IsOpen(s) /\ Charged[e] = Price[s])
    <3>1. UNCHANGED <<balance, topup>> BY <1>4, <2>5 DEF CreditTopup
    <3>2. QED
      BY <1>t, <2>1, <2>2, <2>3, <3>1 DEF TypeOK, FundsInv, WalletsAreCovered, EventsBelong,
        DevelopersReserveNothing, ShownIsRecorded, AcknowledgedIsCredited
  <2>6. QED BY <2>4, <2>5
<1>5. ASSUME NEW p \in Process, NEW k \in Key, StartAdjustment(p, k) PROVE FundsInv'
  <2>1. [kind |-> "adjust", key |-> k] \in Transaction BY DEF Transaction
  <2>2. tx' \in [Process -> Transaction] BY <1>5, <1>t, <2>1, BeginDone DEF StartAdjustment
  <2>3. QED
    BY <1>5, <2>2 DEF StartAdjustment, FundsInv, TypeOK, WalletsAreCovered, EventsBelong,
      DevelopersReserveNothing, ShownIsRecorded, AcknowledgedIsCredited, gateway, stripe
<1>6. ASSUME NEW p \in Process, ApplyAdjustment(p) PROVE FundsInv'
  <2> DEFINE k == tx[p].key
             a == RequestOf[k]
  <2>1. /\ k \in Key /\ a.wallet \in Wallet /\ a.amount \in Nat
        /\ a.direction \in {"credit", "debit"}
    BY <1>6, <1>t, TransactionFields DEF ApplyAdjustment, TypeOK, Direction
  <2>2. tx' \in [Process -> Transaction] BY <1>6, <1>t, BeginDone DEF ApplyAdjustment
  <2>3. UNCHANGED <<reserved, spent, earned, recorded, topup, payout, shown, paid, delivered>>
    BY <1>6 DEF ApplyAdjustment, gateway, stripe
  <2>4. CASE MayAdjust(k)
    <3>1. /\ applied' = applied \cup {k}
          /\ balance' = [balance EXCEPT ![a.wallet] =
                           IF a.direction = "debit" THEN @ - a.amount ELSE @ + a.amount]
      BY <1>6, <2>4 DEF ApplyAdjustment
    <3>2. a.direction = "debit" => balance[a.wallet] - reserved[a.wallet] >= a.amount
      BY <2>4 DEF MayAdjust, Available
    <3>3. balance' \in [Wallet -> Nat] /\ WalletsAreCovered'
      BY <1>t, <2>1, <2>3, <3>1, <3>2 DEF TypeOK, FundsInv, WalletsAreCovered
    <3>4. QED
      BY <2>1, <2>2, <2>3, <3>1, <3>3 DEF TypeOK, FundsInv, EventsBelong,
        DevelopersReserveNothing, ShownIsRecorded, AcknowledgedIsCredited
  <2>5. CASE ~MayAdjust(k)
    <3>1. UNCHANGED <<applied, balance>> BY <1>6, <2>5 DEF ApplyAdjustment
    <3>2. QED
      BY <2>2, <2>3, <3>1 DEF TypeOK, FundsInv, WalletsAreCovered, EventsBelong,
        DevelopersReserveNothing, ShownIsRecorded, AcknowledgedIsCredited
  <2>6. QED BY <2>4, <2>5
<1>7. ASSUME NEW p \in Process, StartPayoutRun(p) PROVE FundsInv'
  <2> DEFINE due == {d \in DeveloperWallet : balance[d] >= Threshold /\ ~HasOpenPayout(d)}
  <2>1. [kind |-> "run", due |-> due] \in Transaction BY DEF Transaction
  <2>2. tx' \in [Process -> Transaction] BY <1>7, <1>t, <2>1, BeginDone DEF StartPayoutRun
  <2>3. QED
    BY <1>7, <2>2 DEF StartPayoutRun, FundsInv, TypeOK, WalletsAreCovered, EventsBelong,
      DevelopersReserveNothing, ShownIsRecorded, AcknowledgedIsCredited, gateway, stripe
<1>8. ASSUME NEW p \in Process, CreatePayouts(p) PROVE FundsInv'
  <2> DEFINE due  == {d \in tx[p].due : balance[d] >= Threshold}
             free == {o \in PayoutId : payout[o] = NoPayout}
  <2>1. due \subseteq DeveloperWallet
    BY <1>8, <1>t, TransactionFields DEF CreatePayouts, TypeOK
  <2>2. tx' \in [Process -> Transaction] BY <1>8, <1>t, BeginDone DEF CreatePayouts
  <2>3. PICK id \in [due -> free] :
          payout' = [o \in PayoutId |->
            IF \E d \in due : id[d] = o
            THEN LET d == CHOOSE x \in due : id[x] = o IN
                 [status |-> "pending", developer |-> d, amount |-> balance[d]]
            ELSE payout[o]]
    BY <1>8 DEF CreatePayouts
  <2>4. ASSUME NEW o \in PayoutId
        PROVE  /\ payout'[o] \in [status : {"absent", "pending", "processing", "paid"},
                                  developer : DeveloperWallet \cup {None}, amount : Nat]
               /\ payout'[o].status # "absent" => payout'[o].developer # None
    <3>1. CASE \E d \in due : id[d] = o
      <4>1. PICK d \in due : payout'[o] = [status |-> "pending", developer |-> d,
                                          amount |-> balance[d]]
        BY <2>3, <3>1
      <4>2. d \in DeveloperWallet /\ d \in Wallet /\ d # None BY <2>1, <1>w
      <4>3. balance[d] \in Nat BY <4>2, <1>t DEF TypeOK
      <4>4. QED BY <4>1, <4>2, <4>3
    <3>2. CASE ~\E d \in due : id[d] = o BY <2>3, <3>2, <1>t DEF TypeOK
    <3>3. QED BY <3>1, <3>2
  <2>5. payout' = [o \in PayoutId |-> payout'[o]] BY <2>3
  <2>6. TypeOK' BY <1>8, <1>t, <2>2, <2>4, <2>5 DEF CreatePayouts, TypeOK, gateway, stripe
  <2>7. QED
    BY <1>8, <2>6 DEF CreatePayouts, FundsInv, WalletsAreCovered, EventsBelong,
      DevelopersReserveNothing, ShownIsRecorded, AcknowledgedIsCredited, gateway, stripe
<1>9. ASSUME NEW p \in Process, Abort(p) PROVE FundsInv'
  <2>1. tx' \in [Process -> Transaction] BY <1>9, <1>t, BeginDone DEF Abort
  <2>2. QED
    BY <1>9, <2>1 DEF Abort, FundsInv, TypeOK, WalletsAreCovered, EventsBelong,
      DevelopersReserveNothing, ShownIsRecorded, AcknowledgedIsCredited, gateway, stripe
<1>10. ASSUME NEW s \in Checkout, Pay(s) PROVE FundsInv'
  BY <1>10 DEF Pay, FundsInv, TypeOK, WalletsAreCovered, EventsBelong,
    DevelopersReserveNothing, ShownIsRecorded, AcknowledgedIsCredited, gateway
<1>11. ASSUME NEW o \in PayoutId, ApprovePayout(o) PROVE FundsInv'
  <2>1. payout[o].status = "pending" /\ payout' = [payout EXCEPT ![o].status = "processing"]
    BY <1>11 DEF ApprovePayout
  <2>2. /\ payout' \in [PayoutId -> [status : {"absent", "pending", "processing", "paid"},
                                   developer : DeveloperWallet \cup {None}, amount : Nat]]
        /\ \A q \in PayoutId : payout'[q].status # "absent" => payout'[q].developer # None
    BY <1>t, <2>1, PayoutMoves
  <2>3. UNCHANGED <<balance, reserved, topup, applied, recorded, tx, shown, paid, delivered,
                   spent, earned>>
    BY <1>11 DEF ApprovePayout, gateway, stripe
  <2>4. TypeOK' BY <1>t, <2>2, <2>3 DEF TypeOK
  <2>5. QED
    BY <2>3, <2>4 DEF FundsInv, WalletsAreCovered, EventsBelong,
      DevelopersReserveNothing, ShownIsRecorded, AcknowledgedIsCredited
<1>12. ASSUME NEW o \in PayoutId, MarkPayoutPaid(o) PROVE FundsInv'
  <2> DEFINE d == payout[o].developer
  <2>1. /\ d \in DeveloperWallet /\ d \in Wallet /\ reserved[d] = 0
        /\ payout[o].amount \in Nat /\ balance[d] >= payout[o].amount
    BY <1>12, <1>t, <1>w DEF MarkPayoutPaid, MayPay, TypeOK, FundsInv, DevelopersReserveNothing
  <2>2. /\ balance' = [balance EXCEPT ![d] = @ - payout[o].amount]
        /\ payout' = [payout EXCEPT ![o].status = "paid"]
        /\ UNCHANGED <<reserved, spent, earned, topup, applied, recorded, tx, shown, paid,
                    delivered>>
    BY <1>12 DEF MarkPayoutPaid, gateway, stripe
  <2>3. balance' \in [Wallet -> Nat] /\ WalletsAreCovered'
    BY <1>t, <2>1, <2>2 DEF TypeOK, FundsInv, WalletsAreCovered
  <2>4. /\ payout' \in [PayoutId -> [status : {"absent", "pending", "processing", "paid"},
                                   developer : DeveloperWallet \cup {None}, amount : Nat]]
        /\ \A q \in PayoutId : payout'[q].status # "absent" => payout'[q].developer # None
    <3>1. payout[o].status # "absent" BY <1>12 DEF MarkPayoutPaid, MayPay
    <3>2. QED BY <1>t, <2>2, <3>1, PayoutMoves
  <2>5. TypeOK' BY <1>t, <2>2, <2>3, <2>4 DEF TypeOK
  <2>6. QED
    BY <2>2, <2>3, <2>5 DEF FundsInv, EventsBelong, DevelopersReserveNothing,
      ShownIsRecorded, AcknowledgedIsCredited
<1>13. ASSUME NEW w \in UserWallet, NEW a \in Amount, Reserve(w, a) PROVE FundsInv'
  <2>1. w \in Wallet /\ w \notin DeveloperWallet /\ a \in Nat BY <1>w
  <2>2. TypeOK' /\ WalletsAreCovered' /\ DevelopersReserveNothing'
    BY <1>13, <1>t, <1>w, <2>1 DEF Reserve, Available, TypeOK, FundsInv, WalletsAreCovered,
      DevelopersReserveNothing, stripe
  <2>3. QED
    BY <1>13, <2>2 DEF Reserve, FundsInv, EventsBelong, ShownIsRecorded,
      AcknowledgedIsCredited, stripe
<1>14. ASSUME NEW w \in UserWallet, NEW a \in Amount, NEW d \in DeveloperWallet,
              Settle(w, d, a)
       PROVE FundsInv'
  <2>1. w \in Wallet /\ d \in Wallet /\ w \notin DeveloperWallet /\ w # d /\ a \in Nat
    BY <1>w
  <2>2. PICK x \in 0..a : \E y \in 0..x :
          /\ reserved' = [reserved EXCEPT ![w] = @ - a]
          /\ balance' = [balance EXCEPT ![w] = @ - x, ![d] = @ + y]
          /\ spent' = [spent EXCEPT ![w] = @ + x]
          /\ earned' = [earned EXCEPT ![d] = @ + y]
    BY <1>14 DEF Settle
  <2>3. PICK y \in 0..x :
          /\ reserved' = [reserved EXCEPT ![w] = @ - a]
          /\ balance' = [balance EXCEPT ![w] = @ - x, ![d] = @ + y]
          /\ spent' = [spent EXCEPT ![w] = @ + x]
          /\ earned' = [earned EXCEPT ![d] = @ + y]
    BY <2>2
  <2>4. x \in Nat /\ y \in Nat /\ x <= a BY <2>1, <2>2, <2>3
  <2>5. reserved[w] >= a /\ reserved[w] <= balance[w]
    BY <1>14, <2>1 DEF Settle, FundsInv, WalletsAreCovered
  <2>6. /\ reserved' \in [Wallet -> Nat] /\ balance' \in [Wallet -> Nat]
        /\ spent' \in [UserWallet -> Nat] /\ earned' \in [DeveloperWallet -> Nat]
    <3>1. /\ reserved[w] \in Nat /\ balance[w] \in Nat /\ balance[d] \in Nat
          /\ spent[w] \in Nat /\ earned[d] \in Nat
      BY <1>t, <2>1 DEF TypeOK
    <3>2. /\ reserved[w] - a \in Nat /\ balance[w] - x \in Nat /\ balance[d] + y \in Nat
          /\ spent[w] + x \in Nat /\ earned[d] + y \in Nat
      BY <2>1, <2>4, <2>5, <3>1
    <3>3. reserved' \in [Wallet -> Nat] BY <1>t, <2>3, <3>2 DEF TypeOK
    <3>4. balance' \in [Wallet -> Nat] BY <1>t, <2>1, <2>3, <3>2 DEF TypeOK
    <3>5. spent' \in [UserWallet -> Nat] BY <1>t, <2>3, <3>2 DEF TypeOK
    <3>6. earned' \in [DeveloperWallet -> Nat] BY <1>t, <2>3, <3>2 DEF TypeOK
    <3>7. QED BY <3>3, <3>4, <3>5, <3>6
  <2>7. WalletsAreCovered' /\ DevelopersReserveNothing'
    BY <1>t, <1>w, <2>1, <2>3, <2>4, <2>5 DEF TypeOK, FundsInv, WalletsAreCovered,
      DevelopersReserveNothing
  <2>8. QED
    BY <1>14, <2>6, <2>7 DEF Settle, FundsInv, TypeOK, EventsBelong, ShownIsRecorded,
      AcknowledgedIsCredited, stripe
<1>15. CASE UNCHANGED vars
  BY <1>15 DEF vars, FundsInv, TypeOK, WalletsAreCovered, EventsBelong,
    DevelopersReserveNothing, ShownIsRecorded, AcknowledgedIsCredited
<1>16. ASSUME NEW p \in Process, NEW u \in Usage, StartUsage(p, u) PROVE FundsInv'
  <2>1. [kind |-> "usage", usage |-> u] \in Transaction BY DEF Transaction
  <2>2. tx' \in [Process -> Transaction] BY <1>16, <1>t, <2>1, BeginDone DEF StartUsage
  <2>3. QED
    BY <1>16, <2>2 DEF StartUsage, FundsInv, TypeOK, WalletsAreCovered, EventsBelong,
      DevelopersReserveNothing, ShownIsRecorded, AcknowledgedIsCredited, gateway, stripe
<1>17. ASSUME NEW p \in Process, ChargeUsage(p) PROVE FundsInv'
  <2> DEFINE u == tx[p].usage
             c == UsageOf[u]
  <2>1. /\ u \in Usage /\ c.wallet \in Wallet /\ c.developer \in Wallet
        /\ c.wallet # c.developer /\ c.price \in Nat /\ c.share \in Nat
    BY <1>17, <1>t, <1>w, TransactionFields DEF ChargeUsage, TypeOK
  <2>2. tx' \in [Process -> Transaction] BY <1>17, <1>t, BeginDone DEF ChargeUsage
  <2>3. UNCHANGED <<reserved, spent, earned, applied, topup, payout, shown, paid, delivered>>
    BY <1>17 DEF ChargeUsage, gateway, stripe
  <2>4. CASE MayCharge(c.wallet, c.price)
    <3>1. /\ recorded' = recorded \cup {u}
          /\ balance' = [balance EXCEPT ![c.wallet] = @ - c.price,
                                        ![c.developer] = @ + c.share]
      BY <1>17, <2>4 DEF ChargeUsage
    <3>2. /\ balance[c.wallet] \in Nat /\ balance[c.developer] \in Nat
          /\ reserved[c.wallet] \in Nat
          /\ reserved[c.wallet] <= balance[c.wallet] - c.price
      BY <1>t, <2>1, <2>4 DEF TypeOK, MayCharge
    <3>3. /\ balance[c.wallet] - c.price \in Nat
          /\ balance[c.developer] + c.share \in Nat
      BY <2>1, <3>2
    <3>4. balance' \in [Wallet -> Nat] BY <1>t, <2>1, <3>1, <3>3 DEF TypeOK
    <3>5. WalletsAreCovered'
      BY <1>t, <2>1, <2>3, <3>1, <3>2 DEF TypeOK, FundsInv, WalletsAreCovered
    <3>6. QED
      BY <2>1, <2>2, <2>3, <3>1, <3>4, <3>5 DEF TypeOK, FundsInv, EventsBelong,
        DevelopersReserveNothing, ShownIsRecorded, AcknowledgedIsCredited
  <2>5. CASE ~MayCharge(c.wallet, c.price)
    <3>1. UNCHANGED <<recorded, balance>> BY <1>17, <2>5 DEF ChargeUsage
    <3>2. QED
      BY <2>2, <2>3, <3>1 DEF TypeOK, FundsInv, WalletsAreCovered, EventsBelong,
        DevelopersReserveNothing, ShownIsRecorded, AcknowledgedIsCredited
  <2>6. QED BY <2>4, <2>5
<1>18. QED
  BY <1>1, <1>2, <1>3, <1>4, <1>5, <1>6, <1>7, <1>8, <1>9, <1>10, <1>11, <1>12, <1>13,
    <1>14, <1>15, <1>16, <1>17 DEF Next

\* So it holds in every reachable state.
LEMMA FundsAlways == Spec => []FundsInv
<1>1. Init => FundsInv BY FundsInit
<1>2. FundsInv /\ [Next]_vars => FundsInv' BY FundsStep
<1>3. QED BY <1>1, <1>2, PTL DEF Spec

-----------------------------------------------------------------------------
(* What the records add up to.  Each sum changes in one kind of step only,    *)
(* by the amount of one record; that a usage is recorded once rests on no    *)
(* two transactions having inserted its request id.                         *)

ToppedUp(w) == SumFunctionOnSet([s \in Checkout |->
                 IF WalletOf[s] = w /\ topup[s].status = "credited" THEN Price[s] ELSE 0], Checkout)
UsedBy(w)   == SumFunctionOnSet([u \in recorded |->
                 IF UsageOf[u].wallet = w THEN UsageOf[u].price ELSE 0], recorded)
PaidOut(d)  == SumFunctionOnSet([o \in PayoutId |->
                 IF payout[o].developer = d /\ payout[o].status = "paid"
                 THEN payout[o].amount ELSE 0], PayoutId)
SharedBy(d) == SumFunctionOnSet([u \in recorded |->
                 IF UsageOf[u].developer = d THEN UsageOf[u].share ELSE 0], recorded)

UsersAddUp ==
  \A w \in UserWallet :
    balance[w] = Opening + Adjusted(w) - spent[w] + ToppedUp(w) - UsedBy(w)
DevelopersAddUp ==
  \A d \in DeveloperWallet :
    balance[d] = earned[d] + Adjusted(d) - PaidOut(d) + SharedBy(d)

UsageInsertedOnce ==
  \A p \in Process :
    tx[p].kind = "usage" =>
      /\ tx[p].usage \notin recorded
      /\ \A q \in Process : tx[q].kind = "usage" /\ tx[q].usage = tx[p].usage => q = p

RecordsInv == /\ IsFiniteSet(applied) /\ IsFiniteSet(recorded)
              /\ UsageInsertedOnce
              /\ UsersAddUp
              /\ DevelopersAddUp

\* The sums over the tables are the property's.
LEMMA InvAddsUp == RecordsInv => RecordsAddUp
BY DEF RecordsInv, UsersAddUp, DevelopersAddUp, RecordsAddUp, ToppedUp, UsedBy, PaidOut,
  SharedBy, SumFunction

\* They are integers.
LEMMA RecordSumsType ==
  ASSUME TypeOK, RecordsInv, NEW w
  PROVE  /\ Adjusted(w) \in Int /\ ToppedUp(w) \in Int /\ UsedBy(w) \in Int
         /\ PaidOut(w) \in Int /\ SharedBy(w) \in Int
<1>1. Adjusted(w) \in Int
  <2>1. PICK f : f = [k \in applied |-> IF RequestOf[k].wallet = w THEN Signed(k) ELSE 0]
    OBVIOUS
  <2>2. \A k \in applied : f[k] \in Int
    BY <2>1, FundsAssumption DEF TypeOK, Signed, Direction
  <2>3. IsFiniteSet(applied)
    BY DEF RecordsInv
  <2>4. SumFunctionOnSet(f, applied) \in Int
    BY <2>2, <2>3, SumInt
  <2>5. QED
    BY <2>1, <2>4 DEF Adjusted, SumFunction
<1>2. ToppedUp(w) \in Int
  <2>1. PICK f : f = [s \in Checkout |-> IF WalletOf[s] = w /\ topup[s].status = "credited"
                                         THEN Price[s] ELSE 0]
    OBVIOUS
  <2>2. \A s \in Checkout : f[s] \in Int
    BY <2>1, FundsAssumption
  <2>3. SumFunctionOnSet(f, Checkout) \in Int
    BY <2>2, FundsAssumption, SumInt
  <2>4. QED
    BY <2>1, <2>3 DEF ToppedUp
<1>3. UsedBy(w) \in Int
  <2>1. PICK f : f = [u \in recorded |-> IF UsageOf[u].wallet = w THEN UsageOf[u].price ELSE 0]
    OBVIOUS
  <2>2. \A u \in recorded : f[u] \in Int
    BY <2>1, FundsAssumption DEF TypeOK
  <2>3. IsFiniteSet(recorded)
    BY DEF RecordsInv
  <2>4. SumFunctionOnSet(f, recorded) \in Int
    BY <2>2, <2>3, SumInt
  <2>5. QED
    BY <2>1, <2>4 DEF UsedBy
<1>4. SharedBy(w) \in Int
  <2>1. PICK f : f = [u \in recorded |-> IF UsageOf[u].developer = w THEN UsageOf[u].share ELSE 0]
    OBVIOUS
  <2>2. \A u \in recorded : f[u] \in Int
    BY <2>1, FundsAssumption DEF TypeOK
  <2>3. IsFiniteSet(recorded)
    BY DEF RecordsInv
  <2>4. SumFunctionOnSet(f, recorded) \in Int
    BY <2>2, <2>3, SumInt
  <2>5. QED
    BY <2>1, <2>4 DEF SharedBy
<1>5. PaidOut(w) \in Int
  <2>1. PICK f : f = [o \in PayoutId |-> IF payout[o].developer = w /\ payout[o].status = "paid"
                                         THEN payout[o].amount ELSE 0]
    OBVIOUS
  <2>2. \A o \in PayoutId : f[o] \in Int
    BY <2>1 DEF TypeOK
  <2>3. SumFunctionOnSet(f, PayoutId) \in Int
    BY <2>2, FundsAssumption, SumInt
  <2>4. QED
    BY <2>1, <2>3 DEF PaidOut
<1>6. QED
  BY <1>1, <1>2, <1>3, <1>4, <1>5

\* A sum over a set of records that one is added to.
LEMMA RecordAdds ==
  ASSUME NEW S, IsFiniteSet(S), NEW x, x \notin S, NEW f, NEW g,
         \A y \in S : f[y] = g[y], \A y \in S \cup {x} : g[y] \in Int
  PROVE  SumFunctionOnSet(g, S \cup {x}) = SumFunctionOnSet(f, S) + g[x]
<1>1. SumFunctionOnSet(g, S \cup {x}) = SumFunctionOnSet(g, S) + g[x]
  BY SumMore
<1>2. SumFunctionOnSet(f, S) = SumFunctionOnSet(g, S)
  BY SumAgrees
<1>3. QED
  BY <1>1, <1>2

\* A checkout that is credited adds its price to its wallet's top-ups.
LEMMA CreditAdds ==
  ASSUME TypeOK, NEW s \in Checkout, topup[s].status # "credited",
         topup'[s].status = "credited",
         \A q \in Checkout \ {s} : topup'[q] = topup[q], NEW w
  PROVE  ToppedUp(w)' = ToppedUp(w) + IF WalletOf[s] = w THEN Price[s] ELSE 0
<1>1. PICK f, g :
        /\ f = [q \in Checkout |-> IF WalletOf[q] = w /\ topup[q].status = "credited"
                                   THEN Price[q] ELSE 0]
        /\ g = [q \in Checkout |-> IF WalletOf[q] = w /\ topup'[q].status = "credited"
                                   THEN Price[q] ELSE 0]
  OBVIOUS
<1>2. \A q \in Checkout : f[q] \in Int /\ g[q] \in Int
  BY <1>1, FundsAssumption
<1>3. f[s] = 0 /\ g[s] = IF WalletOf[s] = w THEN Price[s] ELSE 0
  BY <1>1
<1>4. \A q \in Checkout \ {s} : g[q] = f[q]
  BY <1>1
<1>5. IsFiniteSet(Checkout)
  BY FundsAssumption
<1>6. SumFunctionOnSet(g, Checkout) = SumFunctionOnSet(f, Checkout) - f[s] + g[s]
  BY <1>2, <1>4, <1>5, SumChange
<1>7. SumFunctionOnSet(f, Checkout) \in Int /\ g[s] \in Int
  BY <1>2, <1>5, SumInt
<1>8. QED
  BY <1>1, <1>3, <1>6, <1>7 DEF ToppedUp

\* A payout that is paid adds its amount to what its developer was paid.
LEMMA PaymentAdds ==
  ASSUME TypeOK, NEW o \in PayoutId, payout[o].status # "paid",
         payout'[o].status = "paid", payout'[o].developer = payout[o].developer,
         payout'[o].amount = payout[o].amount,
         \A q \in PayoutId \ {o} : payout'[q] = payout[q], NEW d
  PROVE  PaidOut(d)' = PaidOut(d) + IF payout[o].developer = d THEN payout[o].amount ELSE 0
<1>1. PICK f, g :
        /\ f = [q \in PayoutId |-> IF payout[q].developer = d /\ payout[q].status = "paid"
                                   THEN payout[q].amount ELSE 0]
        /\ g = [q \in PayoutId |-> IF payout'[q].developer = d /\ payout'[q].status = "paid"
                                   THEN payout'[q].amount ELSE 0]
  OBVIOUS
<1>2. \A q \in PayoutId : payout[q].amount \in Int /\ payout'[q].amount \in Int
  BY DEF TypeOK
<1>3. \A q \in PayoutId : f[q] \in Int /\ g[q] \in Int
  BY <1>1, <1>2
<1>4. f[o] = 0 /\ g[o] = IF payout[o].developer = d THEN payout[o].amount ELSE 0
  BY <1>1
<1>5. \A q \in PayoutId \ {o} : g[q] = f[q]
  BY <1>1
<1>6. IsFiniteSet(PayoutId)
  BY FundsAssumption
<1>7. SumFunctionOnSet(g, PayoutId) = SumFunctionOnSet(f, PayoutId) - f[o] + g[o]
  BY <1>3, <1>5, <1>6, SumChange
<1>8. SumFunctionOnSet(f, PayoutId) \in Int /\ g[o] \in Int
  BY <1>3, <1>6, SumInt
<1>9. QED
  BY <1>1, <1>4, <1>7, <1>8 DEF PaidOut

\* An adjustment that is applied adds its signed amount to its wallet's.
LEMMA AdjustmentAdds ==
  ASSUME RecordsInv, TypeOK, NEW k \in Key, k \notin applied, applied' = applied \cup {k}, NEW w
  PROVE  Adjusted(w)' = Adjusted(w) + IF RequestOf[k].wallet = w THEN Signed(k) ELSE 0
<1>1. PICK S, f, g :
        /\ S = applied
        /\ f = [q \in applied |-> IF RequestOf[q].wallet = w THEN Signed(q) ELSE 0]
        /\ g = [q \in applied' |-> IF RequestOf[q].wallet = w THEN Signed(q) ELSE 0]
  OBVIOUS
<1>2. \A q \in S \cup {k} : g[q] \in Int
  BY <1>1, FundsAssumption DEF TypeOK, Signed, Direction
<1>3. IsFiniteSet(S) /\ k \notin S /\ \A q \in S : f[q] = g[q]
  BY <1>1 DEF RecordsInv
<1>4. SumFunctionOnSet(g, S \cup {k}) = SumFunctionOnSet(f, S) + g[k]
  BY <1>2, <1>3, RecordAdds
<1>5. QED
  BY <1>1, <1>4 DEF Adjusted, SumFunction

\* A usage that is recorded adds its price to its wallet's and its share to its
\* developer's.
LEMMA UsageAdds ==
  ASSUME RecordsInv, TypeOK, NEW u \in Usage, u \notin recorded,
         recorded' = recorded \cup {u}, NEW w
  PROVE  /\ UsedBy(w)' = UsedBy(w) + IF UsageOf[u].wallet = w THEN UsageOf[u].price ELSE 0
         /\ SharedBy(w)' = SharedBy(w) + IF UsageOf[u].developer = w THEN UsageOf[u].share ELSE 0
<1>1. PICK S, f, g, h, i :
        /\ S = recorded
        /\ f = [q \in recorded |-> IF UsageOf[q].wallet = w THEN UsageOf[q].price ELSE 0]
        /\ g = [q \in recorded' |-> IF UsageOf[q].wallet = w THEN UsageOf[q].price ELSE 0]
        /\ h = [q \in recorded |-> IF UsageOf[q].developer = w THEN UsageOf[q].share ELSE 0]
        /\ i = [q \in recorded' |-> IF UsageOf[q].developer = w THEN UsageOf[q].share ELSE 0]
  OBVIOUS
<1>2. IsFiniteSet(S) /\ u \notin S
  BY <1>1 DEF RecordsInv
<1>3. \A q \in S \cup {u} : g[q] \in Int
  BY <1>1, FundsAssumption DEF TypeOK
<1>4. \A q \in S : f[q] = g[q]
  BY <1>1
<1>5. SumFunctionOnSet(g, S \cup {u}) = SumFunctionOnSet(f, S) + g[u]
  BY <1>2, <1>3, <1>4, RecordAdds
<1>6. \A q \in S \cup {u} : i[q] \in Int
  BY <1>1, FundsAssumption DEF TypeOK
<1>7. \A q \in S : h[q] = i[q]
  BY <1>1
<1>8. SumFunctionOnSet(i, S \cup {u}) = SumFunctionOnSet(h, S) + i[u]
  BY <1>2, <1>6, <1>7, RecordAdds
<1>9. QED
  BY <1>1, <1>5, <1>8 DEF UsedBy, SharedBy

\* Rows whose status changes otherwise change no sum.
LEMMA CreditsSame ==
  ASSUME \A s \in Checkout : topup'[s].status = "credited" <=> topup[s].status = "credited"
  PROVE  \A w : ToppedUp(w)' = ToppedUp(w)
BY DEF ToppedUp

\* Payouts that stay unpaid or paid, likewise.
LEMMA PaymentsSame ==
  ASSUME \A o \in PayoutId :
           /\ payout'[o].status = "paid" <=> payout[o].status = "paid"
           /\ payout[o].status = "paid" => /\ payout'[o].developer = payout[o].developer
                                           /\ payout'[o].amount = payout[o].amount
  PROVE  \A d : PaidOut(d)' = PaidOut(d)
BY DEF PaidOut

\* A process that begins another transaction, or ends one, inserts no request id.
LEMMA InsertedSame ==
  ASSUME TypeOK, UsageInsertedOnce, recorded' = recorded, NEW p \in Process, NEW t,
         t.kind # "usage", tx' = [tx EXCEPT ![p] = t]
  PROVE  UsageInsertedOnce'
BY DEF TypeOK, UsageInsertedOnce

\* Steps that move no money and store no record.
LEMMA RecordsKept ==
  ASSUME RecordsInv, UsageInsertedOnce',
         UNCHANGED <<balance, applied, recorded, spent, earned>>,
         \A w : ToppedUp(w)' = ToppedUp(w), \A d : PaidOut(d)' = PaidOut(d)
  PROVE  RecordsInv'
<1>1. \A w : /\ Adjusted(w)' = Adjusted(w) /\ UsedBy(w)' = UsedBy(w)
             /\ SharedBy(w)' = SharedBy(w)
  BY DEF Adjusted, UsedBy, SharedBy
<1>2. QED
  BY <1>1 DEF RecordsInv, UsersAddUp, DevelopersAddUp

\* Nothing is recorded at first.
LEMMA RecordsInit == Init => RecordsInv
<1> SUFFICES ASSUME Init PROVE RecordsInv
  OBVIOUS
<1>1. IsFiniteSet(applied) /\ IsFiniteSet(recorded)
  BY FS_EmptySet DEF Init
<1>2. ASSUME NEW w
      PROVE  /\ Adjusted(w) = 0 /\ ToppedUp(w) = 0 /\ UsedBy(w) = 0
             /\ PaidOut(w) = 0 /\ SharedBy(w) = 0
  <2>1. applied = {} /\ recorded = {}
    BY DEF Init
  <2>2. Adjusted(w) = 0 /\ UsedBy(w) = 0 /\ SharedBy(w) = 0
    BY <2>1, SumEmpty DEF Adjusted, UsedBy, SharedBy, SumFunction
  <2>3. ToppedUp(w) = 0
    <3>1. PICK f : f = [s \in Checkout |->
                          IF WalletOf[s] = w /\ topup[s].status = "credited"
                          THEN Price[s] ELSE 0]
      OBVIOUS
    <3>2. \A s \in Checkout : f[s] = 0
      BY <3>1 DEF Init, NoTopup
    <3>3. SumFunctionOnSet(f, Checkout) = 0
      BY <3>2, FundsAssumption, SumZero
    <3>4. QED
      BY <3>1, <3>3 DEF ToppedUp
  <2>4. PaidOut(w) = 0
    <3>1. PICK f : f = [o \in PayoutId |->
                          IF payout[o].developer = w /\ payout[o].status = "paid"
                          THEN payout[o].amount ELSE 0]
      OBVIOUS
    <3>2. \A o \in PayoutId : f[o] = 0
      BY <3>1 DEF Init, NoPayout
    <3>3. SumFunctionOnSet(f, PayoutId) = 0
      BY <3>2, FundsAssumption, SumZero
    <3>4. QED
      BY <3>1, <3>3 DEF PaidOut
  <2>5. QED
    BY <2>2, <2>3, <2>4
<1>3. UsersAddUp /\ DevelopersAddUp
  <2>1. /\ \A w \in UserWallet : balance[w] = Opening /\ spent[w] = 0
        /\ \A d \in DeveloperWallet : balance[d] = 0 /\ earned[d] = 0
        /\ Opening \in Nat
    BY FundsAssumption DEF Init, Wallet
  <2>2. QED
    BY <1>2, <2>1 DEF UsersAddUp, DevelopersAddUp
<1>4. UsageInsertedOnce
  BY DEF Init, UsageInsertedOnce, Idle
<1>5. QED
  BY <1>1, <1>3, <1>4 DEF RecordsInv

\* Every step moves the money of the record it stores, and stores one at most.
LEMMA RecordsStep == FundsInv /\ RecordsInv /\ [Next]_vars => RecordsInv'
<1> SUFFICES ASSUME FundsInv, RecordsInv, [Next]_vars PROVE RecordsInv'
  OBVIOUS
<1>w. /\ Wallet = UserWallet \cup DeveloperWallet
      /\ \A w \in UserWallet : w \notin DeveloperWallet
  BY FundsAssumption DEF Wallet
<1>t. TypeOK
  BY DEF FundsInv
<1>u. UsageInsertedOnce
  BY DEF RecordsInv
<1>s. \A w : /\ Adjusted(w) \in Int /\ ToppedUp(w) \in Int /\ UsedBy(w) \in Int
             /\ PaidOut(w) \in Int /\ SharedBy(w) \in Int
  BY <1>t, RecordSumsType
<1>n. /\ \A w \in Wallet : balance[w] \in Int
      /\ \A w \in UserWallet : spent[w] \in Int
      /\ \A d \in DeveloperWallet : earned[d] \in Int
      /\ Opening \in Int
  BY <1>t, FundsAssumption DEF TypeOK
<1>d. ASSUME NEW p \in Process, Done(p), recorded' = recorded
      PROVE  UsageInsertedOnce'
  BY <1>d, <1>t, <1>u, InsertedSame DEF Done, Idle
<1>1. ASSUME NEW p \in Process, NEW s \in Checkout, OpenCheckout(p, s)
      PROVE  RecordsInv'
  <2>1. UsageInsertedOnce'
    BY <1>1, <1>t, <1>u, InsertedSame DEF OpenCheckout, Begin
  <2>2. QED
    BY <1>1, <2>1, RecordsKept, CreditsSame, PaymentsSame DEF OpenCheckout, gateway
<1>2. ASSUME NEW p \in Process, RecordCheckout(p)
      PROVE  RecordsInv'
  <2>1. UsageInsertedOnce'
    BY <1>2, <1>d DEF RecordCheckout
  <2>2. \A s \in Checkout : topup'[s].status = "credited" <=> topup[s].status = "credited"
    BY <1>2, <1>t DEF RecordCheckout, NoTopup, TypeOK
  <2>3. QED
    BY <1>2, <2>1, <2>2, RecordsKept, CreditsSame, PaymentsSame DEF RecordCheckout, gateway
<1>3. ASSUME NEW p \in Process, NEW e \in Event, Deliver(p, e)
      PROVE  RecordsInv'
  <2>1. CASE \E s \in Checkout : topup[s].event = e
    <3>1. UNCHANGED <<tx, recorded>>
      BY <1>3, <2>1 DEF Deliver
    <3>2. UsageInsertedOnce'
      BY <1>u, <3>1 DEF UsageInsertedOnce
    <3>3. QED
      BY <1>3, <3>2, RecordsKept, CreditsSame, PaymentsSame DEF Deliver, gateway
  <2>2. CASE ~\E s \in Checkout : topup[s].event = e
    <3>1. UsageInsertedOnce'
      BY <1>3, <1>t, <1>u, <2>2, InsertedSame DEF Deliver, Begin
    <3>2. QED
      BY <1>3, <3>1, RecordsKept, CreditsSame, PaymentsSame DEF Deliver, gateway
  <2>3. QED
    BY <2>1, <2>2
<1>4. ASSUME NEW p \in Process, CreditTopup(p)
      PROVE  RecordsInv'
  <2>1. PICK e, s, v : e = tx[p].event /\ s = CheckoutOf[e] /\ v = WalletOf[s]
    OBVIOUS
  <2>2. e \in Event /\ s \in Checkout /\ v \in UserWallet /\ Price[s] \in Int
    BY <1>4, <1>t, <2>1, TransactionFields, FundsAssumption DEF CreditTopup, TypeOK
  <2>3. /\ UsageInsertedOnce'
        /\ UNCHANGED <<spent, earned, applied, recorded, payout>>
    BY <1>4, <1>d DEF CreditTopup, gateway
  <2>4. CASE IsOpen(s) /\ Charged[e] = Price[s]
    <3>1. /\ balance' = [balance EXCEPT ![v] = @ + Price[s]]
          /\ topup' = [topup EXCEPT ![s] = [status |-> "credited", event |-> e]]
          /\ topup[s].status = "pending"
      BY <1>4, <2>1, <2>4 DEF CreditTopup, IsOpen
    <3>2. \A w : ToppedUp(w)' = ToppedUp(w) + IF v = w THEN Price[s] ELSE 0
      <4>1. /\ topup'[s].status = "credited" /\ topup[s].status # "credited"
            /\ \A q \in Checkout \ {s} : topup'[q] = topup[q]
        BY <1>t, <2>2, <3>1 DEF TypeOK
      <4>2. QED
        BY <1>t, <2>1, <2>2, <4>1, CreditAdds
    <3>3. \A w : /\ Adjusted(w)' = Adjusted(w) /\ UsedBy(w)' = UsedBy(w)
                 /\ PaidOut(w)' = PaidOut(w) /\ SharedBy(w)' = SharedBy(w)
      BY <2>3 DEF Adjusted, UsedBy, PaidOut, SharedBy
    <3>4. \A w \in Wallet : balance'[w] = balance[w] + IF v = w THEN Price[s] ELSE 0
      BY <1>t, <1>n, <3>1 DEF TypeOK
    <3>5. UsersAddUp'
      BY <1>s, <1>n, <1>w, <2>2, <2>3, <3>2, <3>3, <3>4 DEF RecordsInv, UsersAddUp
    <3>6. DevelopersAddUp'
      BY <1>n, <1>w, <2>2, <2>3, <3>3, <3>4 DEF RecordsInv, DevelopersAddUp
    <3>7. QED
      BY <2>3, <3>5, <3>6 DEF RecordsInv
  <2>5. CASE ~(IsOpen(s) /\ Charged[e] = Price[s])
    <3>1. UNCHANGED <<balance, topup>>
      BY <1>4, <2>1, <2>5 DEF CreditTopup
    <3>2. QED
      BY <2>3, <3>1, RecordsKept, CreditsSame, PaymentsSame
  <2>6. QED
    BY <2>4, <2>5
<1>5. ASSUME NEW p \in Process, NEW k \in Key, StartAdjustment(p, k)
      PROVE  RecordsInv'
  <2>1. UsageInsertedOnce'
    BY <1>5, <1>t, <1>u, InsertedSame DEF StartAdjustment, Begin
  <2>2. QED
    BY <1>5, <2>1, RecordsKept, CreditsSame, PaymentsSame DEF StartAdjustment, gateway
<1>6. ASSUME NEW p \in Process, ApplyAdjustment(p)
      PROVE  RecordsInv'
  <2>1. PICK k, v : k = tx[p].key /\ v = RequestOf[k].wallet
    OBVIOUS
  <2>2. /\ k \in Key /\ v \in Wallet /\ RequestOf[k].amount \in Int
        /\ RequestOf[k].direction \in {"credit", "debit"} /\ Signed(k) \in Int
    BY <1>6, <1>t, <2>1, TransactionFields, FundsAssumption
    DEF ApplyAdjustment, TypeOK, Direction, Signed
  <2>3. /\ UsageInsertedOnce'
        /\ UNCHANGED <<spent, earned, recorded, topup, payout>>
    BY <1>6, <1>d DEF ApplyAdjustment, gateway
  <2>4. CASE MayAdjust(k)
    <3>1. /\ applied' = applied \cup {k} /\ k \notin applied
          /\ balance' = [balance EXCEPT ![v] = IF RequestOf[k].direction = "debit"
                                               THEN @ - RequestOf[k].amount
                                               ELSE @ + RequestOf[k].amount]
      BY <1>6, <2>1, <2>4 DEF ApplyAdjustment, MayAdjust
    <3>2. \A w : Adjusted(w)' = Adjusted(w) + IF v = w THEN Signed(k) ELSE 0
      BY <1>t, <2>1, <2>2, <3>1, AdjustmentAdds
    <3>3. \A w : /\ ToppedUp(w)' = ToppedUp(w) /\ UsedBy(w)' = UsedBy(w)
                 /\ PaidOut(w)' = PaidOut(w) /\ SharedBy(w)' = SharedBy(w)
      BY <2>3 DEF ToppedUp, UsedBy, PaidOut, SharedBy
    <3>4. \A w \in Wallet : balance'[w] = balance[w] + IF v = w THEN Signed(k) ELSE 0
      BY <1>t, <1>n, <2>2, <3>1 DEF TypeOK, Signed
    <3>5. UsersAddUp'
      BY <1>s, <1>n, <1>w, <2>2, <2>3, <3>2, <3>3, <3>4 DEF RecordsInv, UsersAddUp
    <3>6. DevelopersAddUp'
      BY <1>s, <1>n, <1>w, <2>2, <2>3, <3>2, <3>3, <3>4 DEF RecordsInv, DevelopersAddUp
    <3>7. IsFiniteSet(applied')
      BY <3>1, FS_AddElement DEF RecordsInv
    <3>8. QED
      BY <2>3, <3>5, <3>6, <3>7 DEF RecordsInv
  <2>5. CASE ~MayAdjust(k)
    <3>1. UNCHANGED <<applied, balance>>
      BY <1>6, <2>1, <2>5 DEF ApplyAdjustment
    <3>2. QED
      BY <2>3, <3>1, RecordsKept, CreditsSame, PaymentsSame
  <2>6. QED
    BY <2>4, <2>5
<1>7. ASSUME NEW p \in Process, StartPayoutRun(p)
      PROVE  RecordsInv'
  <2>1. UsageInsertedOnce'
    BY <1>7, <1>t, <1>u, InsertedSame DEF StartPayoutRun, Begin
  <2>2. QED
    BY <1>7, <2>1, RecordsKept, CreditsSame, PaymentsSame DEF StartPayoutRun, gateway
<1>8. ASSUME NEW p \in Process, CreatePayouts(p)
      PROVE  RecordsInv'
  <2> DEFINE due  == {d \in tx[p].due : balance[d] >= Threshold}
             free == {o \in PayoutId : payout[o] = NoPayout}
  <2>1. PICK id \in [due -> free] :
          payout' = [o \in PayoutId |->
            IF \E d \in due : id[d] = o
            THEN LET d == CHOOSE x \in due : id[x] = o IN
                 [status |-> "pending", developer |-> d, amount |-> balance[d]]
            ELSE payout[o]]
    BY <1>8 DEF CreatePayouts
  <2>2. ASSUME NEW o \in PayoutId
        PROVE  payout'[o] = payout[o] \/ (payout[o].status = "absent" /\ payout'[o].status = "pending")
    <3>1. CASE \E d \in due : id[d] = o
      <4>1. payout[o] = NoPayout
        BY <3>1
      <4>2. payout'[o].status = "pending"
        BY <2>1, <3>1
      <4>3. QED
        BY <4>1, <4>2 DEF NoPayout
    <3>2. CASE ~\E d \in due : id[d] = o
      BY <2>1, <3>2
    <3>3. QED
      BY <3>1, <3>2
  <2>3. \A d : PaidOut(d)' = PaidOut(d)
    BY <2>2, PaymentsSame
  <2>4. UsageInsertedOnce'
    BY <1>8, <1>d DEF CreatePayouts
  <2>5. QED
    BY <1>8, <2>3, <2>4, RecordsKept, CreditsSame DEF CreatePayouts, gateway
<1>9. ASSUME NEW p \in Process, Abort(p)
      PROVE  RecordsInv'
  <2>1. UsageInsertedOnce'
    BY <1>9, <1>d DEF Abort
  <2>2. QED
    BY <1>9, <2>1, RecordsKept, CreditsSame, PaymentsSame DEF Abort, gateway
<1>10. ASSUME NEW s \in Checkout, Pay(s)
       PROVE  RecordsInv'
  <2>1. UsageInsertedOnce'
    BY <1>10, <1>u DEF Pay, UsageInsertedOnce
  <2>2. QED
    BY <1>10, <2>1, RecordsKept, CreditsSame, PaymentsSame DEF Pay, gateway
<1>11. ASSUME NEW o \in PayoutId, ApprovePayout(o)
       PROVE  RecordsInv'
  <2>1. UsageInsertedOnce'
    BY <1>11, <1>u DEF ApprovePayout, UsageInsertedOnce
  <2>2. \A d : PaidOut(d)' = PaidOut(d)
    BY <1>11, <1>t, PaymentsSame DEF ApprovePayout, TypeOK
  <2>3. QED
    BY <1>11, <2>1, <2>2, RecordsKept, CreditsSame DEF ApprovePayout, gateway
<1>12. ASSUME NEW o \in PayoutId, MarkPayoutPaid(o)
       PROVE  RecordsInv'
  <2>1. PICK v, x : v = payout[o].developer /\ x = payout[o].amount
    OBVIOUS
  <2>2. /\ v \in DeveloperWallet /\ x \in Int /\ payout[o].status = "processing"
        /\ balance' = [balance EXCEPT ![v] = @ - x]
        /\ payout' = [payout EXCEPT ![o].status = "paid"]
        /\ UNCHANGED <<spent, earned, topup, applied, recorded, tx>>
    BY <1>12, <1>t, <2>1, FundsAssumption DEF MarkPayoutPaid, MayPay, TypeOK, gateway, stripe
  <2>3. TypeOK'
    BY FundsStep DEF FundsInv
  <2>4. \A d : PaidOut(d)' = PaidOut(d) + IF v = d THEN x ELSE 0
    <3>1. /\ payout'[o].status = "paid" /\ payout'[o].developer = v /\ payout'[o].amount = x
          /\ \A q \in PayoutId \ {o} : payout'[q] = payout[q]
      BY <1>t, <2>1, <2>2 DEF TypeOK
    <3>2. QED
      BY <1>t, <2>1, <2>2, <2>3, <3>1, PaymentAdds
  <2>5. \A w : /\ ToppedUp(w)' = ToppedUp(w) /\ UsedBy(w)' = UsedBy(w)
               /\ Adjusted(w)' = Adjusted(w) /\ SharedBy(w)' = SharedBy(w)
    BY <2>2 DEF ToppedUp, UsedBy, Adjusted, SharedBy
  <2>6. \A w \in Wallet : balance'[w] = balance[w] - IF v = w THEN x ELSE 0
    BY <1>t, <1>n, <2>2 DEF TypeOK
  <2>7. UsersAddUp'
    BY <1>n, <1>w, <2>2, <2>5, <2>6 DEF RecordsInv, UsersAddUp
  <2>8. DevelopersAddUp'
    BY <1>s, <1>n, <1>w, <2>2, <2>4, <2>5, <2>6 DEF RecordsInv, DevelopersAddUp
  <2>9. UsageInsertedOnce'
    BY <1>u, <2>2 DEF UsageInsertedOnce
  <2>10. QED
    BY <2>2, <2>7, <2>8, <2>9 DEF RecordsInv
<1>13. ASSUME NEW w \in UserWallet, NEW a \in Amount, Reserve(w, a)
       PROVE  RecordsInv'
  <2>1. UsageInsertedOnce'
    BY <1>13, <1>u DEF Reserve, UsageInsertedOnce
  <2>2. QED
    BY <1>13, <2>1, RecordsKept, CreditsSame, PaymentsSame DEF Reserve
<1>14. ASSUME NEW v \in UserWallet, NEW a \in Amount, NEW d \in DeveloperWallet,
              Settle(v, d, a)
       PROVE  RecordsInv'
  <2>1. PICK x \in 0 .. a : \E y \in 0 .. x :
          /\ balance' = [balance EXCEPT ![v] = @ - x, ![d] = @ + y]
          /\ spent' = [spent EXCEPT ![v] = @ + x]
          /\ earned' = [earned EXCEPT ![d] = @ + y]
    BY <1>14 DEF Settle
  <2>2. PICK y \in 0 .. x :
          /\ balance' = [balance EXCEPT ![v] = @ - x, ![d] = @ + y]
          /\ spent' = [spent EXCEPT ![v] = @ + x]
          /\ earned' = [earned EXCEPT ![d] = @ + y]
    BY <2>1
  <2>3. UNCHANGED <<topup, applied, payout, recorded, tx>>
    BY <1>14 DEF Settle
  <2>4. \A w : /\ ToppedUp(w)' = ToppedUp(w) /\ UsedBy(w)' = UsedBy(w)
               /\ Adjusted(w)' = Adjusted(w) /\ SharedBy(w)' = SharedBy(w)
               /\ PaidOut(w)' = PaidOut(w)
    BY <2>3 DEF ToppedUp, UsedBy, Adjusted, SharedBy, PaidOut
  <2>5. v # d /\ v \in Wallet /\ d \in Wallet /\ x \in Int /\ y \in Int
    BY <1>w, <2>1, <2>2
  <2>6. /\ \A w \in UserWallet : balance'[w] = balance[w] - IF v = w THEN x ELSE 0
        /\ \A w \in DeveloperWallet : balance'[w] = balance[w] + IF d = w THEN y ELSE 0
    BY <1>t, <1>n, <1>w, <2>2, <2>5 DEF TypeOK
  <2>7. /\ \A w \in UserWallet : spent'[w] = spent[w] + IF v = w THEN x ELSE 0
        /\ \A w \in DeveloperWallet : earned'[w] = earned[w] + IF d = w THEN y ELSE 0
    BY <1>t, <1>n, <2>2, <2>5 DEF TypeOK
  <2>8. UsersAddUp'
    BY <1>s, <1>n, <1>w, <2>4, <2>5, <2>6, <2>7 DEF RecordsInv, UsersAddUp
  <2>9. DevelopersAddUp'
    BY <1>s, <1>n, <1>w, <2>4, <2>5, <2>6, <2>7 DEF RecordsInv, DevelopersAddUp
  <2>10. UsageInsertedOnce'
    BY <1>u, <2>3 DEF UsageInsertedOnce
  <2>11. QED
    BY <2>3, <2>8, <2>9, <2>10 DEF RecordsInv
<1>15. CASE UNCHANGED vars
  <2>1. UsageInsertedOnce'
    BY <1>15, <1>u DEF vars, UsageInsertedOnce
  <2>2. QED
    BY <1>15, <2>1, RecordsKept, CreditsSame, PaymentsSame DEF vars
<1>16. ASSUME NEW p \in Process, NEW u \in Usage, StartUsage(p, u)
       PROVE  RecordsInv'
  <2>1. /\ tx' = [tx EXCEPT ![p] = [kind |-> "usage", usage |-> u]]
        /\ u \notin recorded /\ recorded' = recorded
        /\ \A q \in Process : tx[q].kind = "usage" => tx[q].usage # u
    BY <1>16 DEF StartUsage, Begin
  <2>2. UsageInsertedOnce'
    BY <1>t, <1>u, <2>1 DEF UsageInsertedOnce, TypeOK
  <2>3. QED
    BY <1>16, <2>2, RecordsKept, CreditsSame, PaymentsSame DEF StartUsage, gateway
<1>17. ASSUME NEW p \in Process, ChargeUsage(p)
       PROVE  RecordsInv'
  <2>1. PICK u, v, d, x, y : /\ u = tx[p].usage
                             /\ v = UsageOf[u].wallet /\ d = UsageOf[u].developer
                             /\ x = UsageOf[u].price /\ y = UsageOf[u].share
    OBVIOUS
  <2>2. /\ u \in Usage /\ v \in UserWallet /\ d \in DeveloperWallet /\ x \in Int /\ y \in Int
    BY <1>17, <1>t, <2>1, TransactionFields, FundsAssumption DEF ChargeUsage, TypeOK
  <2>3. UNCHANGED <<spent, earned, applied, topup, payout>>
    BY <1>17 DEF ChargeUsage, gateway
  <2>4. /\ u \notin recorded
        /\ \A q \in Process : q # p /\ tx[q].kind = "usage" => tx[q].usage # u
    BY <1>17, <1>u, <2>1 DEF ChargeUsage, UsageInsertedOnce
  <2>5. CASE MayCharge(v, x)
    <3>1. /\ recorded' = recorded \cup {u}
          /\ balance' = [balance EXCEPT ![v] = @ - x, ![d] = @ + y]
      BY <1>17, <2>1, <2>5 DEF ChargeUsage
    <3>2. /\ \A w : UsedBy(w)' = UsedBy(w) + IF v = w THEN x ELSE 0
          /\ \A w : SharedBy(w)' = SharedBy(w) + IF d = w THEN y ELSE 0
      BY <1>t, <2>1, <2>2, <2>4, <3>1, UsageAdds
    <3>3. \A w : /\ Adjusted(w)' = Adjusted(w) /\ ToppedUp(w)' = ToppedUp(w)
                 /\ PaidOut(w)' = PaidOut(w)
      BY <2>3 DEF Adjusted, ToppedUp, PaidOut
    <3>4. /\ \A w \in UserWallet : balance'[w] = balance[w] - IF v = w THEN x ELSE 0
          /\ \A w \in DeveloperWallet : balance'[w] = balance[w] + IF d = w THEN y ELSE 0
      <4>1. v # d /\ v \in Wallet /\ d \in Wallet
        BY <1>w, <2>2
      <4>2. QED
        BY <1>t, <1>n, <1>w, <2>2, <3>1, <4>1 DEF TypeOK
    <3>5. UsersAddUp'
      BY <1>s, <1>n, <1>w, <2>2, <2>3, <3>2, <3>3, <3>4 DEF RecordsInv, UsersAddUp
    <3>6. DevelopersAddUp'
      BY <1>s, <1>n, <1>w, <2>2, <2>3, <3>2, <3>3, <3>4 DEF RecordsInv, DevelopersAddUp
    <3>7. UsageInsertedOnce'
      <4>1. tx' = [tx EXCEPT ![p] = Idle]
        BY <1>17 DEF ChargeUsage, Done
      <4>2. QED
        BY <1>t, <1>u, <2>4, <3>1, <4>1 DEF UsageInsertedOnce, TypeOK, Idle
    <3>8. IsFiniteSet(applied') /\ IsFiniteSet(recorded')
      BY <2>3, <3>1, FS_AddElement DEF RecordsInv
    <3>9. QED
      BY <3>5, <3>6, <3>7, <3>8 DEF RecordsInv
  <2>6. CASE ~MayCharge(v, x)
    <3>1. UNCHANGED <<recorded, balance>>
      BY <1>17, <2>1, <2>6 DEF ChargeUsage
    <3>2. UsageInsertedOnce'
      BY <1>17, <1>d, <3>1 DEF ChargeUsage
    <3>3. QED
      BY <2>3, <3>1, <3>2, RecordsKept, CreditsSame, PaymentsSame
  <2>7. QED
    BY <2>5, <2>6
<1>18. QED
  BY <1>1, <1>2, <1>3, <1>4, <1>5, <1>6, <1>7, <1>8, <1>9, <1>10, <1>11, <1>12, <1>13,
    <1>14, <1>15, <1>16, <1>17 DEF Next

\* So it holds in every reachable state.
LEMMA RecordsAlways == Spec => []RecordsInv
BY RecordsInit, RecordsStep, FundsAlways, PTL DEF Spec

-----------------------------------------------------------------------------
(* What follows from it                                                    *)

\* The tables, transactions and Stripe's state are well typed; balances in particular
\* are never negative.
THEOREM FundsTypeCorrect == Spec => []TypeOK
<1>1. FundsInv => TypeOK BY DEF FundsInv
<1>2. QED BY <1>1, FundsAlways, PTL

\* No adjustment, chargeback or payout takes what a completion has reserved.
THEOREM WalletsStayCovered == Spec => []WalletsAreCovered
<1>1. FundsInv => WalletsAreCovered BY DEF FundsInv
<1>2. QED BY <1>1, FundsAlways, PTL

\* A checkout Stripe was paid for has its pending top-up stored, and an event Stripe will
\* not deliver again has had its checkout credited.
THEOREM PaymentsAreSafe == Spec => []PaymentsAreNotLost
<1>1. FundsInv => PaymentsAreNotLost
  BY DEF FundsInv, ShownIsRecorded, PaidIsRecorded, PaymentsAreNotLost
<1>2. QED BY <1>1, FundsAlways, PTL

\* Every wallet is worth what its stored records add up to, for every number of wallets,
\* checkouts, keys, payouts and usages and of requests served at once: no record moves
\* its money twice, and none is stored without.
THEOREM RecordsAgree == Spec => []RecordsAddUp
BY InvAddsUp, RecordsAlways, PTL

\* A payout that has been created goes through approval before it is paid, and keeps
\* its developer and amount.
THEOREM PayoutsAreReviewed == Spec => PayoutsFollowReview
<1> DEFINE Reviewed(o) ==
      payout'[o] # payout[o] =>
        \/ payout[o].status = "absent" /\ payout'[o].status = "pending"
        \/ /\ <<payout[o].status, payout'[o].status>> \in
                {<<"pending", "processing">>, <<"processing", "paid">>}
           /\ payout'[o].developer = payout[o].developer
           /\ payout'[o].amount = payout[o].amount
<1>1. ASSUME TypeOK, [Next]_vars, NEW o \in PayoutId PROVE Reviewed(o)
  <2> USE <1>1
  <2>1. ASSUME NEW p \in Process, CreatePayouts(p) PROVE Reviewed(o)
    <3> DEFINE due  == {d \in tx[p].due : balance[d] >= Threshold}
               free == {q \in PayoutId : payout[q] = NoPayout}
    <3>1. PICK id \in [due -> free] :
            payout' = [q \in PayoutId |->
              IF \E d \in due : id[d] = q
              THEN LET d == CHOOSE x \in due : id[x] = q IN
                   [status |-> "pending", developer |-> d, amount |-> balance[d]]
              ELSE payout[q]]
      BY <2>1 DEF CreatePayouts
    <3>2. CASE \E d \in due : id[d] = o
      <4>1. payout[o] = NoPayout BY <3>2
      <4>2. payout'[o].status = "pending" BY <3>1, <3>2
      <4>3. QED BY <4>1, <4>2 DEF NoPayout
    <3>3. CASE ~\E d \in due : id[d] = o BY <3>1, <3>3
    <3>4. QED BY <3>2, <3>3
  <2>2. ASSUME NEW q \in PayoutId, ApprovePayout(q) PROVE Reviewed(o)
    BY <2>2 DEF ApprovePayout, TypeOK
  <2>3. ASSUME NEW q \in PayoutId, MarkPayoutPaid(q) PROVE Reviewed(o)
    BY <2>3 DEF MarkPayoutPaid, MayPay, TypeOK
  <2>4. CASE UNCHANGED payout BY <2>4
  <2>5. QED
    BY <2>1, <2>2, <2>3, <2>4 DEF Next, vars, OpenCheckout, RecordCheckout, Deliver,
      CreditTopup, StartAdjustment, ApplyAdjustment, StartPayoutRun, StartUsage, ChargeUsage,
      Abort, Pay, Reserve, Settle
<1>2. TypeOK /\ [Next]_vars => [\A o \in PayoutId : Reviewed(o)]_vars BY <1>1
<1>3. QED BY <1>2, FundsTypeCorrect, PTL DEF Spec, PayoutsFollowReview
-----------------------------------------------------------------------------
(* What the API is to the gateway.  Completion has of it only that a user's   *)
(* wallet is credited, or debited of what is available; GatewayIsFunds        *)
(* (CompletionProofs) is the other direction.                              *)

UserCredited(w, a) == \A v \in UserWallet : balance'[v] = balance[v] + (IF v = w THEN a ELSE 0)
UserDebited(w, a) ==
  /\ a <= Available(w)
  /\ \A v \in UserWallet : balance'[v] = balance[v] - (IF v = w THEN a ELSE 0)

GatewayMoves ==
  \E w \in UserWallet, a \in Amount : Reserve(w, a) \/ \E d \in DeveloperWallet : Settle(w, d, a)

ApiMoves ==
  /\ reserved' = reserved
  /\ \/ \A v \in UserWallet : balance'[v] = balance[v]
     \/ \E w \in UserWallet, a \in Nat : UserCredited(w, a) \/ UserDebited(w, a)

\* Whatever the API server, Stripe and operators do, to a running completion it is a credit
\* or a debit of one user's wallet, at most of what nobody has reserved, and reservations
\* are the gateway's alone.
THEOREM ApiIsCreditsAndDebits == Spec => [][GatewayMoves \/ ApiMoves]_vars
<1>1. ASSUME TypeOK, [Next]_vars PROVE GatewayMoves \/ ApiMoves
  <2>0. /\ Wallet = UserWallet \cup DeveloperWallet /\ UserWallet \cap DeveloperWallet = {}
        /\ balance \in [Wallet -> Nat] /\ reserved \in [Wallet -> Nat]
    BY <1>1, FundsAssumption DEF Wallet, TypeOK
  <2>1. ASSUME UNCHANGED <<balance, reserved>> PROVE ApiMoves
    BY <2>1 DEF ApiMoves
  <2>2. ASSUME NEW w \in UserWallet, NEW a \in Nat, UserCredited(w, a) \/ UserDebited(w, a),
               reserved' = reserved
        PROVE  ApiMoves
    BY <2>2 DEF ApiMoves
  <2>3. ASSUME NEW p \in Process, CreditTopup(p) PROVE ApiMoves
    <3>1. PICK e, s, w : e = tx[p].event /\ s = CheckoutOf[e] /\ w = WalletOf[s]
      OBVIOUS
    <3>2. e \in Event
      BY <1>1, <2>3, <3>1, TransactionFields DEF CreditTopup, TypeOK
    <3>3. w \in UserWallet /\ Price[s] \in Nat
      BY <3>1, <3>2, FundsAssumption
    <3>4. reserved' = reserved
      BY <2>3 DEF CreditTopup, gateway
    <3>5. CASE IsOpen(s) /\ Charged[e] = Price[s]
      <4>1. balance' = [balance EXCEPT ![w] = @ + Price[s]]
        BY <2>3, <3>1, <3>5 DEF CreditTopup
      <4>2. UserCredited(w, Price[s])
        BY <2>0, <3>3, <4>1 DEF UserCredited
      <4>3. QED
        BY <2>2, <3>3, <3>4, <4>2
    <3>6. CASE ~(IsOpen(s) /\ Charged[e] = Price[s])
      BY <2>1, <2>3, <3>1, <3>4, <3>6 DEF CreditTopup
    <3>7. QED
      BY <3>5, <3>6
  <2>4. ASSUME NEW p \in Process, ApplyAdjustment(p) PROVE ApiMoves
    <3>1. PICK k, a : k = tx[p].key /\ a = RequestOf[k]
      OBVIOUS
    <3>2. k \in Key
      BY <1>1, <2>4, <3>1, TransactionFields DEF ApplyAdjustment, TypeOK
    <3>3. a.wallet \in Wallet /\ a.amount \in Nat
      BY <3>1, <3>2, FundsAssumption
    <3>4. reserved' = reserved
      BY <2>4 DEF ApplyAdjustment, gateway
    <3>5. CASE MayAdjust(k)
      <4>1. balance' = [balance EXCEPT ![a.wallet] =
                          IF a.direction = "debit" THEN @ - a.amount ELSE @ + a.amount]
        BY <2>4, <3>1, <3>5 DEF ApplyAdjustment
      <4>2. a.direction = "debit" => a.amount <= Available(a.wallet)
        BY <2>0, <3>1, <3>3, <3>5 DEF MayAdjust, Available
      <4>3. CASE a.wallet \notin UserWallet
        BY <2>0, <3>4, <4>1, <4>3 DEF ApiMoves
      <4>4. CASE a.wallet \in UserWallet
        <5>1. UserCredited(a.wallet, a.amount) \/ UserDebited(a.wallet, a.amount)
          BY <2>0, <3>3, <4>1, <4>2, <4>4 DEF UserCredited, UserDebited
        <5>2. QED
          BY <2>2, <3>3, <3>4, <4>4, <5>1
      <4>5. QED
        BY <4>3, <4>4
    <3>6. CASE ~MayAdjust(k)
      BY <2>1, <2>4, <3>1, <3>4, <3>6 DEF ApplyAdjustment
    <3>7. QED
      BY <3>5, <3>6
  <2>5. ASSUME NEW o \in PayoutId, MarkPayoutPaid(o) PROVE ApiMoves
    <3>1. payout[o].developer \in DeveloperWallet /\ payout[o].amount \in Nat
      BY <1>1, <2>5 DEF MarkPayoutPaid, MayPay, TypeOK
    <3>2. \A v \in UserWallet : balance'[v] = balance[v]
      BY <2>0, <2>5, <3>1 DEF MarkPayoutPaid
    <3>3. QED
      BY <2>5, <3>2 DEF MarkPayoutPaid, ApiMoves, gateway
  <2>6. ASSUME NEW p \in Process, ChargeUsage(p) PROVE ApiMoves
    <3>1. PICK c : c = UsageOf[tx[p].usage]
      OBVIOUS
    <3>2. tx[p].usage \in Usage
      BY <1>1, <2>6, TransactionFields DEF ChargeUsage, TypeOK
    <3>3. c.wallet \in UserWallet /\ c.developer \in DeveloperWallet /\ c.price \in Nat
      BY <3>1, <3>2, FundsAssumption
    <3>4. reserved' = reserved
      BY <2>6 DEF ChargeUsage, gateway
    <3>5. CASE MayCharge(c.wallet, c.price)
      <4>1. balance' = [balance EXCEPT ![c.wallet] = @ - c.price, ![c.developer] = @ + c.share]
        BY <2>6, <3>1, <3>5 DEF ChargeUsage
      <4>2. \A v \in UserWallet : balance'[v] = balance[v] - (IF v = c.wallet THEN c.price ELSE 0)
        BY <2>0, <3>3, <4>1
      <4>3. c.price <= Available(c.wallet)
        BY <2>0, <3>3, <3>5 DEF MayCharge, Available
      <4>4. QED
        BY <2>2, <3>3, <3>4, <4>2, <4>3 DEF UserDebited
    <3>6. CASE ~MayCharge(c.wallet, c.price)
      BY <2>1, <2>6, <3>1, <3>4, <3>6 DEF ChargeUsage
    <3>7. QED
      BY <3>5, <3>6
  <2>7. QED
    BY <1>1, <2>1, <2>3, <2>4, <2>5, <2>6
    DEF Next, GatewayMoves, vars, gateway, OpenCheckout, RecordCheckout, Deliver,
      StartAdjustment, StartPayoutRun, CreatePayouts, StartUsage, Abort, Pay, ApprovePayout
<1>2. TypeOK /\ [Next]_vars => [GatewayMoves \/ ApiMoves]_vars
  BY <1>1
<1>3. QED
  BY <1>2, FundsTypeCorrect, PTL DEF Spec
=============================================================================
