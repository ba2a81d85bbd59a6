------------------------------- MODULE Funds -------------------------------
(***************************************************************************)
(* The API server's movements of money on the wallets the gateway uses:     *)
(* Stripe top-ups (apps/api/src/repositories/paymentRepository.ts), wallet  *)
(* adjustments (settlementRepository.ts), developer payouts                 *)
(* (payoutRepository.ts) and usage that is rated outside the gateway        *)
(* (apps/api/src/services/ledger.ts).                                      *)
(*                                                                         *)
(* Transactions run at READ COMMITTED.  Each of them first reads without a  *)
(* lock, or finds no row to lock, and then takes its row locks and holds    *)
(* them until it commits.  So each is modelled in two steps: what it read,  *)
(* kept in tx, and the locked part, which sees the latest committed rows    *)
(* and in which nothing intervenes.  A transaction may be rolled back in    *)
(* between: its process dies, its connection is lost.                      *)
(***************************************************************************)
EXTENDS Integers, FiniteSets, Functions

CONSTANTS
  UserWallet, DeveloperWallet,
  Checkout,    \* Stripe checkout sessions
  Event,       \* Stripe's checkout.session.completed events
  Key,         \* idempotency keys of adjustments
  PayoutId,
  Usage,       \* request ids of usage that is recorded through the ledger service
  Process,     \* API requests being served
  WalletOf,    \* the wallet a checkout was opened for
  Price,       \* the amount it was opened for
  CheckoutOf,  \* the checkout of an event
  Charged,     \* the amount_total of an event
  RequestOf,   \* what an operator asks for under a key
  UsageOf,     \* whom a recorded usage charges and pays, and how much
  Threshold,   \* payout threshold
  Opening,     \* opening balance of the end users
  Amount,      \* amounts the gateway reserves
  MaxEarned,   \* bound: what the gateway's completions charge in all
  None

Wallet == UserWallet \cup DeveloperWallet
Direction == {"credit", "debit"}

ASSUME FundsAssumption ==
  /\ IsFiniteSet(Checkout) /\ IsFiniteSet(PayoutId)
  /\ UserWallet \cap DeveloperWallet = {}
  /\ WalletOf \in [Checkout -> UserWallet]
  /\ Price \in [Checkout -> Nat \ {0}]
  /\ CheckoutOf \in [Event -> Checkout]
  /\ Charged \in [Event -> Nat \ {0}]
  /\ RequestOf \in [Key -> [wallet : Wallet, direction : Direction, amount : Nat \ {0}]]
  /\ UsageOf \in [Usage -> [wallet : UserWallet, developer : DeveloperWallet,
                            price : Nat, share : Nat]]
  /\ Threshold \in Nat \ {0}
  /\ Opening \in Nat
  /\ Amount \subseteq Nat
  /\ MaxEarned \in Nat
  /\ None \notin Event \cup DeveloperWallet

VARIABLES
  balance,    \* wallets.balance_usd
  reserved,   \* wallets.reserved_balance_usd
  topup,      \* wallet_topups, unique by checkout session and by event
  applied,    \* keys with a row in wallet_adjustments
  payout,     \* payouts
  recorded,   \* request ids the ledger service has stored in usage_events
  tx,         \* what a process has read before its locked part
  shown,      \* checkouts whose URL a customer was given
  paid,       \* checkouts Stripe was paid for
  delivered,  \* events answered with a 2xx
  spent,      \* per user wallet, what completions have charged
  earned      \* per developer wallet, what completions have credited

vars == <<balance, reserved, topup, applied, payout, recorded, tx, shown, paid, delivered,
          spent, earned>>
gateway == <<reserved, spent, earned>>
stripe  == <<shown, paid, delivered>>

NoTopup  == [status |-> "absent", event |-> None]
NoPayout == [status |-> "absent", developer |-> None, amount |-> 0]
Idle     == [kind |-> "idle"]

Available(w) == balance[w] - reserved[w]

Init ==
  /\ balance   = [w \in Wallet |-> IF w \in UserWallet THEN Opening ELSE 0]
  /\ reserved  = [w \in Wallet |-> 0]
  /\ topup     = [s \in Checkout |-> NoTopup]
  /\ applied   = {}
  /\ payout    = [o \in PayoutId |-> NoPayout]
  /\ recorded  = {}
  /\ tx        = [p \in Process |-> Idle]
  /\ shown     = {}
  /\ paid      = {}
  /\ delivered = {}
  /\ spent     = [w \in UserWallet |-> 0]
  /\ earned    = [d \in DeveloperWallet |-> 0]

Begin(p, t) == tx[p] = Idle /\ tx' = [tx EXCEPT ![p] = t]
Done(p)     == tx' = [tx EXCEPT ![p] = Idle]

\* The process dies or its transaction is rolled back.
Abort(p) ==
  /\ tx[p] # Idle
  /\ Done(p)
  /\ UNCHANGED <<balance, gateway, topup, applied, payout, recorded, stripe>>

-----------------------------------------------------------------------------
(* POST /v1/user/stripe/checkout-sessions                                  *)

\* Stripe creates the session; the URL is known to the API server only.
OpenCheckout(p, s) ==
  /\ topup[s] = NoTopup
  /\ Begin(p, [kind |-> "checkout", checkout |-> s])
  /\ UNCHANGED <<balance, gateway, topup, applied, payout, recorded, stripe>>

\* createPendingStripeCheckoutTopup commits (a session is stored once) and the URL is
\* returned, unless the answer is lost.
RecordCheckout(p) ==
  /\ tx[p].kind = "checkout"
  /\ topup[tx[p].checkout] = NoTopup
  /\ topup' = [topup EXCEPT ![tx[p].checkout].status = "pending"]
  /\ shown' \in {shown, shown \cup {tx[p].checkout}}
  /\ Done(p)
  /\ UNCHANGED <<balance, gateway, applied, payout, recorded, paid, delivered>>

Pay(s) ==
  /\ s \in shown \ paid
  /\ paid' = paid \cup {s}
  /\ UNCHANGED <<balance, gateway, topup, applied, payout, recorded, tx, shown, delivered>>

-----------------------------------------------------------------------------
(* POST /v1/stripe/webhook: creditStripeCheckoutSession                    *)

\* Mutant: the event is acknowledged when it arrives.
DeliverAcknowledged(p, e) ==
  /\ CheckoutOf[e] \in paid
  /\ e \notin delivered
  /\ Begin(p, [kind |-> "webhook", event |-> e])
  /\ delivered' = delivered \cup {e}
  /\ UNCHANGED <<balance, gateway, topup, applied, payout, recorded, shown, paid>>

\* Stripe delivers an event until it is acknowledged, and sometimes again.  An event
\* that is stored with a top-up is answered at once; any other finds no row to lock.
Deliver(p, e) ==
  /\ CheckoutOf[e] \in paid
  /\ IF \E s \in Checkout : topup[s].event = e
     THEN /\ tx[p] = Idle
          /\ delivered' = delivered \cup {e}
          /\ UNCHANGED tx
     ELSE /\ Begin(p, [kind |-> "webhook", event |-> e])
          /\ UNCHANGED delivered
  /\ UNCHANGED <<balance, gateway, topup, applied, payout, recorded, shown, paid>>

\* Mutant: the status read under the lock is not looked at.
IsOpenUnchecked(s) == topup[s].status # "absent"

IsOpen(s) == topup[s].status = "pending"

\* The locked part.  A top-up that is credited already is answered as such, one that
\* is not stored or was opened for another amount is an error; otherwise the wallet is
\* credited and the top-up keeps the event.  The acknowledgement may be lost.
CreditTopup(p) ==
  LET e == tx[p].event
      s == CheckoutOf[e]
      w == WalletOf[s] IN
  /\ tx[p].kind = "webhook"
  /\ IF IsOpen(s) /\ Charged[e] = Price[s]
     THEN /\ balance' = [balance EXCEPT ![w] = @ + Price[s]]
          /\ topup'   = [topup EXCEPT ![s] = [status |-> "credited", event |-> e]]
     ELSE UNCHANGED <<balance, topup>>
  /\ IF topup'[s].status = "credited"
     THEN delivered' \in {delivered, delivered \cup {e}}
     ELSE UNCHANGED delivered
  /\ Done(p)
  /\ UNCHANGED <<gateway, applied, payout, recorded, shown, paid>>

-----------------------------------------------------------------------------
(* POST /v1/admin/wallets/:id/adjustments: createWalletAdjustment           *)

\* A key that has a row is answered from it.
StartAdjustment(p, k) ==
  /\ k \notin applied
  /\ Begin(p, [kind |-> "adjust", key |-> k])
  /\ UNCHANGED <<balance, gateway, topup, applied, payout, recorded, stripe>>

\* Mutants: the reservations are not subtracted; the key is not unique.
MayAdjustReserved(k) ==
  /\ k \notin applied
  /\ RequestOf[k].direction = "debit" => balance[RequestOf[k].wallet] >= RequestOf[k].amount
MayAdjustAgain(k) ==
  RequestOf[k].direction = "debit" => Available(RequestOf[k].wallet) >= RequestOf[k].amount

\* What the locked part requires: a key that is still unique, and an available balance.
MayAdjust(k) ==
  /\ k \notin applied
  /\ RequestOf[k].direction = "debit" => Available(RequestOf[k].wallet) >= RequestOf[k].amount

\* Otherwise the transaction throws and is rolled back.
ApplyAdjustment(p) ==
  LET k == tx[p].key
      a == RequestOf[k] IN
  /\ tx[p].kind = "adjust"
  /\ IF MayAdjust(k)
     THEN /\ applied' = applied \cup {k}
          /\ balance' = [balance EXCEPT ![a.wallet] =
                           IF a.direction = "debit" THEN @ - a.amount ELSE @ + a.amount]
     ELSE UNCHANGED <<applied, balance>>
  /\ Done(p)
  /\ UNCHANGED <<gateway, topup, payout, recorded, stripe>>

-----------------------------------------------------------------------------
(* Payouts                                                                 *)

HasOpenPayout(d) ==
  \E o \in PayoutId : payout[o].developer = d /\ payout[o].status \in {"pending", "processing"}

\* createPendingPayouts: the query's snapshot decides which developers have no open
\* payout; the wallets it then waits for are read again, the payouts are not.
StartPayoutRun(p) ==
  /\ Begin(p, [kind |-> "run",
               due  |-> {d \in DeveloperWallet : balance[d] >= Threshold /\ ~HasOpenPayout(d)}])
  /\ UNCHANGED <<balance, gateway, topup, applied, payout, recorded, stripe>>

CreatePayouts(p) ==
  LET due  == {d \in tx[p].due : balance[d] >= Threshold}
      free == {o \in PayoutId : payout[o] = NoPayout} IN
  /\ tx[p].kind = "run"
  /\ \E id \in [due -> free] :
       /\ IsInjective(id)
       /\ payout' = [o \in PayoutId |->
            IF \E d \in due : id[d] = o
            THEN LET d == CHOOSE x \in due : id[x] = o IN
                 [status |-> "pending", developer |-> d, amount |-> balance[d]]
            ELSE payout[o]]
  /\ Done(p)
  /\ UNCHANGED <<balance, gateway, topup, applied, recorded, stripe>>

ApprovePayout(o) ==
  /\ payout[o].status = "pending"
  /\ payout' = [payout EXCEPT ![o].status = "processing"]
  /\ UNCHANGED <<balance, gateway, topup, applied, recorded, tx, stripe>>

\* Mutants: the approval is not required; the balance is not checked again.
MayPayUnapproved(o) ==
  payout[o].status \in {"pending", "processing"} /\ balance[payout[o].developer] >= payout[o].amount
MayPayUncovered(o) == payout[o].status = "processing"

MayPay(o) == payout[o].status = "processing" /\ balance[payout[o].developer] >= payout[o].amount

\* A payout that is paid already is answered as such.
MarkPayoutPaid(o) ==
  /\ MayPay(o)
  /\ balance' = [balance EXCEPT ![payout[o].developer] = @ - payout[o].amount]
  /\ payout'  = [payout EXCEPT ![o].status = "paid"]
  /\ UNCHANGED <<gateway, topup, applied, recorded, tx, stripe>>

-----------------------------------------------------------------------------
(* recordRatedUsage                                                        *)

\* Inserts the usage event, which waits for another transaction that has inserted the
\* same request id; then reads the wallets, without a lock, and throws if the price is
\* more than the balance (what is reserved is not subtracted).  A request id that is
\* stored already is nothing to do.
StartUsage(p, u) ==
  /\ u \notin recorded
  /\ \A q \in Process : tx[q].kind = "usage" => tx[q].usage # u
  /\ balance[UsageOf[u].wallet] >= UsageOf[u].price
  /\ Begin(p, [kind |-> "usage", usage |-> u])
  /\ UNCHANGED <<balance, gateway, topup, applied, payout, recorded, stripe>>

\* Mutant: the table has no such constraint.
MayChargeRead(w, price) == balance[w] >= price

\* The constraint that reserved_balance_usd <= balance_usd, which the update is held to.
MayCharge(w, price) == reserved[w] <= balance[w] - price

\* The updates; a violated constraint rolls everything back.
ChargeUsage(p) ==
  LET u == tx[p].usage
      c == UsageOf[u] IN
  /\ tx[p].kind = "usage"
  /\ IF MayCharge(c.wallet, c.price)
     THEN /\ recorded' = recorded \cup {u}
          /\ balance'  = [balance EXCEPT ![c.wallet] = @ - c.price, ![c.developer] = @ + c.share]
     ELSE UNCHANGED <<recorded, balance>>
  /\ Done(p)
  /\ UNCHANGED <<gateway, topup, applied, payout, stripe>>

-----------------------------------------------------------------------------
(* The gateway's completions on the same wallets (module Completion)        *)

Reserve(w, a) ==
  /\ Available(w) >= a
  /\ reserved' = [reserved EXCEPT ![w] = @ + a]
  /\ UNCHANGED <<balance, topup, applied, payout, recorded, tx, stripe, spent, earned>>

\* A reservation is settled for at most what it holds, possibly for nothing; the
\* developer is credited with a part of it.
Settle(w, d, a) ==
  /\ reserved[w] >= a
  /\ \E x \in 0..a : \E y \in 0..x :
       /\ spent[w] + x <= MaxEarned
       /\ reserved' = [reserved EXCEPT ![w] = @ - a]
       /\ balance'  = [balance EXCEPT ![w] = @ - x, ![d] = @ + y]
       /\ spent'    = [spent EXCEPT ![w] = @ + x]
       /\ earned'   = [earned EXCEPT ![d] = @ + y]
  /\ UNCHANGED <<topup, applied, payout, recorded, tx, stripe>>

Next ==
  \/ \E p \in Process :
       \/ \E s \in Checkout : OpenCheckout(p, s)
       \/ RecordCheckout(p)
       \/ \E e \in Event : Deliver(p, e)
       \/ CreditTopup(p)
       \/ \E k \in Key : StartAdjustment(p, k)
       \/ ApplyAdjustment(p)
       \/ StartPayoutRun(p)
       \/ CreatePayouts(p)
       \/ \E u \in Usage : StartUsage(p, u)
       \/ ChargeUsage(p)
       \/ Abort(p)
  \/ \E s \in Checkout : Pay(s)
  \/ \E o \in PayoutId : ApprovePayout(o) \/ MarkPayoutPaid(o)
  \/ \E w \in UserWallet, a \in Amount :
       Reserve(w, a) \/ \E d \in DeveloperWallet : Settle(w, d, a)

Spec == Init /\ [][Next]_vars

-----------------------------------------------------------------------------
(* Properties                                                              *)

Transaction ==
  [kind : {"idle"}] \cup [kind : {"checkout"}, checkout : Checkout]
    \cup [kind : {"webhook"}, event : Event] \cup [kind : {"adjust"}, key : Key]
    \cup [kind : {"run"}, due : SUBSET DeveloperWallet]
    \cup [kind : {"usage"}, usage : Usage]

\* The tables, the transactions under way and Stripe hold what they can hold.
TypeOK ==
  /\ balance \in [Wallet -> Nat]
  /\ reserved \in [Wallet -> Nat]
  /\ topup \in [Checkout -> [status : {"absent", "pending", "credited"},
                             event : Event \cup {None}]]
  /\ applied \subseteq Key
  /\ payout \in [PayoutId -> [status : {"absent", "pending", "processing", "paid"},
                             developer : DeveloperWallet \cup {None}, amount : Nat]]
  /\ \A o \in PayoutId : payout[o].status # "absent" => payout[o].developer # None
  /\ recorded \subseteq Usage
  /\ tx \in [Process -> Transaction]
  /\ shown \subseteq Checkout
  /\ paid \subseteq Checkout
  /\ delivered \subseteq Event
  /\ spent \in [UserWallet -> Nat]
  /\ earned \in [DeveloperWallet -> Nat]

\* What completions have reserved stays covered, whatever adjustments, chargebacks and
\* usage recorded on balances read before run beside them, and no payout takes more than
\* the developer has (createWalletAdjustment, recordRatedUsage, markPayoutPaid).
WalletsAreCovered == \A w \in Wallet : reserved[w] <= balance[w]

Signed(k) == IF RequestOf[k].direction = "debit" THEN -RequestOf[k].amount
             ELSE RequestOf[k].amount
Adjusted(w) == SumFunction([k \in applied |-> IF RequestOf[k].wallet = w THEN Signed(k) ELSE 0])

\* Every stored top-up, adjustment, payout and usage has moved its money exactly once:
\* webhooks delivered twice or at once, raced idempotency keys and request ids and
\* concurrent payout runs leave each wallet at what its records add up to.
RecordsAddUp ==
  /\ \A w \in UserWallet :
       balance[w] = Opening + Adjusted(w) - spent[w]
                      + SumFunction([s \in Checkout |->
                          IF WalletOf[s] = w /\ topup[s].status = "credited"
                          THEN Price[s] ELSE 0])
                      - SumFunction([u \in recorded |->
                          IF UsageOf[u].wallet = w THEN UsageOf[u].price ELSE 0])
  /\ \A d \in DeveloperWallet :
       balance[d] = earned[d] + Adjusted(d)
                      - SumFunction([o \in PayoutId |->
                          IF payout[o].developer = d /\ payout[o].status = "paid"
                          THEN payout[o].amount ELSE 0])
                      + SumFunction([u \in recorded |->
                          IF UsageOf[u].developer = d THEN UsageOf[u].share ELSE 0])

PaidIsRecorded == \A s \in paid : topup[s].status # "absent"

AcknowledgedIsCredited ==
  \A e \in delivered : topup[CheckoutOf[e]].status = "credited"

\* No payment is lost, though the pending top-up, Stripe's checkout and its events are
\* three steps of three parties: Stripe is never paid for a checkout the API does not
\* know of, as the URL leaves the server only after the pending top-up is committed, and
\* an event answered with a 2xx, which Stripe will not deliver again, has been credited,
\* by it or by another event of the same checkout.
PaymentsAreNotLost == PaidIsRecorded /\ AcknowledgedIsCredited

\* docs/billing-settlement.md:17: "approve is required before mark-paid".  A payout goes
\* through its review in order, for the developer and amount it was created with, also
\* when the developer wallet has changed since and a second run created another one.
PayoutsFollowReview ==
  [][\A o \in PayoutId :
       payout'[o] # payout[o] =>
         \/ payout[o].status = "absent" /\ payout'[o].status = "pending"
         \/ /\ <<payout[o].status, payout'[o].status>> \in
                 {<<"pending", "processing">>, <<"processing", "paid">>}
            /\ payout'[o].developer = payout[o].developer
            /\ payout'[o].amount = payout[o].amount]_vars

\* What a process does with what it has read.
Finish(p) ==
  \/ RecordCheckout(p) \/ CreditTopup(p) \/ ApplyAdjustment(p)
  \/ CreatePayouts(p) \/ ChargeUsage(p)

\* A request that is being served ends, by itself or by its process's death; Stripe
\* keeps delivering an event that was not acknowledged, and not every attempt to handle
\* an event dies.
FairSpec ==
  /\ Spec
  /\ \A p \in Process : WF_vars(Finish(p) \/ Abort(p))
  /\ \A e \in Event : /\ SF_vars(\E p \in Process : Deliver(p, e))
                     /\ SF_vars(\E p \in Process : CreditTopup(p) /\ tx[p].event = e)

\* A checkout that was paid in full is credited in the end.
PaidIsCredited ==
  \A e \in Event :
    (CheckoutOf[e] \in paid /\ Charged[e] = Price[CheckoutOf[e]])
      ~> topup[CheckoutOf[e]].status = "credited"
=============================================================================
