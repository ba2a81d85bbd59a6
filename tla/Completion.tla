----------------------------- MODULE Completion -----------------------------
(***************************************************************************)
(* The gateway's completion state machine: reserve, call the provider      *)
(* outside any transaction, then settle, release or hold for review        *)
(* (apps/gateway/src/repositories/mockCompletionRepository.ts).            *)
(*                                                                         *)
(* A row of gateway_completion_requests is identified by its session and   *)
(* idempotency key and is never deleted, so Row is the set of such pairs.  *)
(* A Call is one execution of the POST /v1/chat/completions handler.  Each *)
(* database transaction is one step: the code runs it under row locks and  *)
(* advisory locks.  Everything between two transactions interleaves with   *)
(* the other handlers, and a handler may die between any two of them.      *)
(* Time is seen only through what the code asks of it: has a reservation's *)
(* deadline passed (Expire), and which calendar month is it (NextMonth).   *)
(***************************************************************************)
EXTENDS Integers, FiniteSets, Functions

CONSTANTS
  User,             \* end users of the app, each with a wallet
  Session,          \* virtual sessions
  Row,              \* (session, idempotency key) pairs
  Call,             \* concurrent executions of the handler
  Body,            \* request bodies, told apart by their fingerprint
  SessionOf,        \* the session of a row
  UserOf,           \* the end user of a session
  Plan,             \* the routes the policies, credentials and requests can choose
  Usage,            \* token counts a provider may report
  WithinCaps,       \* those within the input and output caps
  Cost,             \* how a usage is priced on a route the platform bills
  ReservedRetail,   \* the retail price of a request at the caps
  ReservedUpstream, \* its upstream cost
  MonthlyLimit, SessionLimit, DeveloperBudget,
  Opening,          \* the end users' opening balance
  Amount,           \* amounts of external credits and debits
  MaxBalance,       \* bound: credits stop here
  MaxMonth,         \* bound: the calendar stops here
  None

RouteMode    == {"platform", "developer_key", "byok"}
Status       == {"absent", "reserved", "settled", "failed", "requires_review"}
SystemWallet == {"developer", "provider_cost", "platform"}
Wallet       == User \cup SystemWallet
Shares       == [upstream : Nat, channel : Nat, platform : Nat]

ASSUME CompletionAssumption ==
  /\ IsFiniteSet(Row)
  /\ SessionOf \in [Row -> Session]
  /\ UserOf \in [Session -> User]
  /\ User \cap SystemWallet = {}
  /\ Plan \subseteq [mode : RouteMode, fallback : BOOLEAN]
  /\ \A p \in Plan : p.mode = "platform" => ~p.fallback
  /\ WithinCaps \subseteq Usage
  /\ Cost \in [Usage -> Shares]
  /\ {ReservedRetail, ReservedUpstream, Opening, MonthlyLimit, SessionLimit} \subseteq Nat
  /\ Amount \subseteq Nat
  /\ MaxMonth \in Nat
  /\ MaxBalance \in Nat
  /\ None \notin Row /\ None \notin Body /\ None \notin Plan /\ None \notin Usage
  /\ None \notin RouteMode /\ None \notin [mode : RouteMode, shares : Shares, month : Nat]

VARIABLES
  balance,   \* wallets.balance_usd
  reserved,  \* wallets.reserved_balance_usd of the end users
  ledger,    \* per wallet, credits minus debits over ledger_entries
  request,   \* gateway_completion_requests
  usage,     \* usage_events, unique by request_id
  call,      \* what each handler is doing
  live,      \* sessions loadSession accepts
  month,     \* the calendar month
  attempts,  \* history: provider calls issued for a row
  told       \* history: the outcomes clients were given

wallets == <<balance, reserved, ledger>>
history == <<attempts, told>>
vars    == <<balance, reserved, ledger, request, usage, call, live, month,
             attempts, told>>

-----------------------------------------------------------------------------
(* Pricing and routing, as far as the state machine tells them apart.      *)

NoShares  == [upstream |-> 0, channel |-> 0, platform |-> 0]
Retail(b) == b.upstream + b.channel + b.platform

Rate(mode, u) == IF mode = "byok" THEN NoShares ELSE Cost[u]

\* A plan whose settlement could be billed by the platform reserves the worst case.
ReservesAsPlatform(p) == p.mode # "byok" \/ p.fallback

Hold(p)         == IF ReservesAsPlatform(p) THEN ReservedRetail ELSE 0
HoldUpstream(p) == IF ReservesAsPlatform(p) THEN ReservedUpstream ELSE 0

UserOfRow(r) == UserOf[SessionOf[r]]
\* Mutant: open reservations are not subtracted.
AvailableIgnoringHolds(u) == balance[u]

Available(u) == balance[u] - reserved[u]

\* The statuses under which a row's reservation is still part of its wallet's
\* reserved balance.
IsHeld(r) == request[r].status \in {"reserved", "requires_review"}

\* Mutant: a row under review still counts as reserved.
StillHeld(r) == IsHeld(r)

\* What settleCompletion, releaseReservation and markRequiresReview look for.
StillReserved(r) == request[r].status = "reserved"

\* Mutant: an expired reservation is taken for a new request.
IsNewOrExpired(r) ==
  request[r].status = "absent" \/ (request[r].status = "reserved" /\ request[r].expired)

\* findCompletionRequest found nothing.
IsNew(r) == request[r].status = "absent"

\* Mutant: the fingerprint is not stored.
NewRowNoBody(b, p) == [status |-> "reserved", body |-> None, plan |-> p,
                       month |-> month, expired |-> FALSE]

\* The row prepareCompletion inserts.
NewRow(b, p) == [status |-> "reserved", body |-> b, plan |-> p,
                 month |-> month, expired |-> FALSE]

NoRequest == [status |-> "absent", body |-> None, plan |-> None,
              month |-> 0, expired |-> FALSE]
Idle      == [pc |-> "idle", row |-> None, mode |-> None, answer |-> None]

-----------------------------------------------------------------------------
(* The spending checks of prepareCompletion.                               *)

\* What one row adds to the spend of the months from m on: its usage event by the
\* month of the event, its open reservation by the month of the reservation.
MonthlyShare(r, m) ==
  IF usage[r] # None
  THEN IF usage[r].month >= m THEN Retail(usage[r].shares) ELSE 0
  ELSE IF IsHeld(r) /\ request[r].month >= m THEN Hold(request[r].plan) ELSE 0

WithinMonthlyLimit(p) ==
  SumFunction([r \in Row |-> MonthlyShare(r, month)]) + Hold(p) <= MonthlyLimit

SessionShare(r, s) ==
  IF SessionOf[r] # s THEN 0
  ELSE IF request[r].status = "settled" THEN Retail(usage[r].shares)
  ELSE IF IsHeld(r) THEN Hold(request[r].plan) ELSE 0

\* Mutant: the request itself does not count.
WithinSessionLimitBefore(s, p) ==
  SumFunction([r \in Row |-> SessionShare(r, s)]) <= SessionLimit

WithinSessionLimit(s, p) ==
  SumFunction([r \in Row |-> SessionShare(r, s)]) + Hold(p) <= SessionLimit

\* Counted against the developer key's budget: usage billed on the key, and rows
\* whose status is 'reserved'.
BudgetShare(r) ==
  IF usage[r] # None
  THEN IF usage[r].mode = "developer_key" THEN usage[r].shares.upstream ELSE 0
  ELSE IF request[r].status = "reserved" /\ request[r].plan.mode = "developer_key"
       THEN HoldUpstream(request[r].plan) ELSE 0

WithinDeveloperBudget(p) ==
  p.mode = "developer_key" =>
    SumFunction([r \in Row |-> BudgetShare(r)]) + HoldUpstream(p) <= DeveloperBudget

-----------------------------------------------------------------------------
Init ==
  /\ balance  = [w \in Wallet |-> IF w \in User THEN Opening ELSE 0]
  /\ reserved = [u \in User |-> 0]
  /\ ledger   = balance
  /\ request  = [r \in Row |-> NoRequest]
  /\ usage    = [r \in Row |-> None]
  /\ call     = [c \in Call |-> Idle]
  /\ live     = Session
  /\ month    = 0
  /\ attempts = [r \in Row |-> 0]
  /\ told     = {}

-----------------------------------------------------------------------------
(* prepareCompletion: one transaction under the row's advisory lock.  The   *)
(* outcomes that change nothing are no steps: an invalid or ended session,  *)
(* a reused key with another fingerprint, a request already in progress or  *)
(* under review, a refused model, limit, budget or balance.                 *)

\* A new request: reserve its worst-case price, insert the row, and go on to
\* call the provider.
Reserve(c, r, b, p) ==
  LET u == UserOfRow(r) IN
  /\ call[c] = Idle
  /\ SessionOf[r] \in live
  /\ IsNew(r)
  /\ WithinMonthlyLimit(p)
  /\ WithinSessionLimit(SessionOf[r], p)
  /\ WithinDeveloperBudget(p)
  /\ Available(u) >= Hold(p)
  /\ reserved' = [reserved EXCEPT ![u] = @ + Hold(p)]
  /\ request'  = [request EXCEPT ![r] = NewRow(b, p)]
  /\ call'     = [call EXCEPT ![c] = [pc |-> "calling", row |-> r, mode |-> p.mode,
                                      answer |-> None]]
  /\ attempts' = [attempts EXCEPT ![r] = @ + 1]
  /\ UNCHANGED <<balance, ledger, usage, live, month, told>>

\* Mutant: the fingerprint is not compared.
MatchesAnyBody(r, b) == SessionOf[r] \in live /\ request[r].body # None

\* Whether a request with body b finds its own row.
Matches(r, b) == SessionOf[r] \in live /\ request[r].body = b

\* A finished row answers from storage: a settled one with its result, a failed
\* one with its failure.
Replay(c, r, b) ==
  /\ call[c] = Idle
  /\ Matches(r, b)
  /\ \/ /\ request[r].status = "settled"
        /\ told' = told \cup {[row |-> r, body |-> b, kind |-> "result"]}
     \/ /\ request[r].status = "failed"
        /\ told' = told \cup {[row |-> r, body |-> b, kind |-> "failure"]}
  /\ UNCHANGED <<wallets, request, usage, call, live, month, attempts>>

\* Mutant: the retry releases the expired reservation.
HoldExpiredReleases(c, r, b) ==
  /\ call[c] = Idle
  /\ Matches(r, b)
  /\ request[r].status = "reserved"
  /\ request[r].expired
  /\ request'  = [request EXCEPT ![r].status = "failed"]
  /\ reserved' = [reserved EXCEPT ![UserOfRow(r)] = @ - Hold(request[r].plan)]
  /\ UNCHANGED <<balance, ledger, usage, call, live, month, history>>

\* Mutant: the retry throws inside its transaction, which undoes the update.
HoldExpiredRolledBack(c, r, b) ==
  /\ call[c] = Idle
  /\ Matches(r, b)
  /\ request[r].status = "reserved"
  /\ request[r].expired
  /\ UNCHANGED vars

\* A retry that finds its reservation past the deadline sets it aside for review.
\* The transaction commits although the client is told an error.
HoldExpired(c, r, b) ==
  /\ call[c] = Idle
  /\ Matches(r, b)
  /\ request[r].status = "reserved"
  /\ request[r].expired
  /\ request' = [request EXCEPT ![r].status = "requires_review"]
  /\ UNCHANGED <<wallets, usage, call, live, month, history>>

-----------------------------------------------------------------------------
(* createProviderCompletion: no transaction is open.                       *)

ProviderAnswers(c, u) ==
  /\ call[c].pc \in {"calling", "fallback"}
  /\ call'   = [call EXCEPT ![c].pc = "settling", ![c].answer = u]
  /\ UNCHANGED <<wallets, request, usage, live, month, attempts, told>>

MayFallBack(c) == call[c].pc = "calling" /\ request[call[c].row].plan.fallback

\* A provider_error with a credential that may fall back: call the platform route
\* under a second provider key.  A failed call may still have done its work: it
\* may have timed out, or its answer may have been lost.
FallBack(c) ==
  LET r == call[c].row IN
  /\ MayFallBack(c)
  /\ call'     = [call EXCEPT ![c].pc = "fallback", ![c].mode = "platform"]
  /\ attempts' = [attempts EXCEPT ![r] = @ + 1]
  /\ UNCHANGED <<wallets, request, usage, live, month, told>>

\* Any other error reaches createMockCompletion, which releases the reservation.
ProviderFails(c) ==
  /\ call[c].pc \in {"calling", "fallback"}
  /\ call'   = [call EXCEPT ![c].pc = "releasing"]
  /\ UNCHANGED <<wallets, request, usage, live, month, attempts, told>>

-----------------------------------------------------------------------------
(* settleCompletion                                                        *)

\* Mutant: neither check is made.
WithinReservationUnchecked(c) == TRUE

\* rateCompletion's cap and settleCompletion's check of the rated price.
WithinReservation(c) ==
  /\ call[c].answer \in WithinCaps
  /\ Retail(Rate(call[c].mode, call[c].answer)) <= Hold(request[call[c].row].plan)

\* The conditional update of the end user's wallet.
WalletCovers(u, retail, hold) == balance[u] >= retail /\ reserved[u] >= hold

\* Mutant: the developer's entry is missing.
EntriesNoChannel(u, b) ==
  [w \in Wallet |-> CASE w = u               -> -Retail(b)
                      [] w = "provider_cost" -> b.upstream
                      [] w = "platform"      -> b.platform
                      [] OTHER               -> 0]

\* The four ledger entries of a settlement, by the wallet they are booked on.
Entries(u, b) ==
  [w \in Wallet |-> CASE w = u               -> -Retail(b)
                      [] w = "provider_cost" -> b.upstream
                      [] w = "developer"     -> b.channel
                      [] w = "platform"      -> b.platform
                      [] OTHER               -> 0]

\* Mutant: the platform is not credited.
SettledNoPlatform(u, b) ==
  [balance EXCEPT ![u] = @ - Retail(b), !["provider_cost"] = @ + b.upstream,
                  !["developer"] = @ + b.channel]

\* The four wallet updates of a settlement.
Settled(u, b) ==
  [balance EXCEPT ![u] = @ - Retail(b), !["provider_cost"] = @ + b.upstream,
                  !["developer"] = @ + b.channel, !["platform"] = @ + b.platform]

\* The settlement commits.  Either the handler learns that and answers its client, or
\* the connection is lost and it takes the settlement for failed.  The early return
\* for a row that is settled already is for a second handler of the row, and there
\* is none (OneProviderCall).
Settle(c) ==
  LET r == call[c].row
      p == request[r].plan
      u == UserOfRow(r)
      b == Rate(call[c].mode, call[c].answer) IN
  /\ call[c].pc = "settling"
  /\ StillReserved(r)
  /\ WithinReservation(c)
  /\ WalletCovers(u, Retail(b), Hold(p))
  /\ ledger'   = [w \in Wallet |-> ledger[w] + Entries(u, b)[w]]
  /\ balance'  = Settled(u, b)
  /\ reserved' = [reserved EXCEPT ![u] = @ - Hold(p)]
  /\ usage'    = [usage EXCEPT ![r] = [mode |-> call[c].mode, shares |-> b, month |-> month]]
  /\ request'  = [request EXCEPT ![r].status = "settled"]
  /\ \/ /\ call' = [call EXCEPT ![c] = Idle]
        /\ told' = told \cup {[row |-> r, body |-> request[r].body, kind |-> "result"]}
     \/ /\ call' = [call EXCEPT ![c].pc = "marking"]
        /\ UNCHANGED told
  /\ UNCHANGED <<live, month, attempts>>

\* The settlement throws and rolls back: usage over the caps, a row no longer
\* reserved, an uncovered wallet, or any database error.
SettleAborts(c) ==
  /\ call[c].pc = "settling"
  /\ call' = [call EXCEPT ![c].pc = "marking"]
  /\ UNCHANGED <<wallets, request, usage, live, month, history>>

-----------------------------------------------------------------------------
(* releaseReservation and markRequiresReview                               *)

\* The release commits, learned or not.  A row that is not reserved any more is
\* left alone, and the client is given the provider's error all the same.
Release(c) ==
  LET r == call[c].row
      u == UserOfRow(r) IN
  /\ call[c].pc = "releasing"
  /\ IF StillReserved(r)
     THEN /\ reserved[u] >= Hold(request[r].plan)
          /\ reserved' = [reserved EXCEPT ![u] = @ - Hold(request[r].plan)]
          /\ request'  = [request EXCEPT ![r].status = "failed"]
     ELSE UNCHANGED <<reserved, request>>
  /\ \/ /\ call' = [call EXCEPT ![c] = Idle]
        /\ told' = told \cup {[row |-> r, body |-> request[r].body, kind |-> "failure"]}
     \/ /\ call' = [call EXCEPT ![c].pc = "marking"]
        /\ UNCHANGED told
  /\ UNCHANGED <<balance, ledger, usage, live, month, attempts>>

ReleaseAborts(c) ==
  /\ call[c].pc = "releasing"
  /\ call' = [call EXCEPT ![c].pc = "marking"]
  /\ UNCHANGED <<wallets, request, usage, live, month, history>>

\* Mutant: a row that is not reserved any more is waited for.
MarkRequiresReviewOnce(c) ==
  /\ call[c].pc = "marking"
  /\ StillReserved(call[c].row)
  /\ request' = [request EXCEPT ![call[c].row].status = "requires_review"]
  /\ call' = [call EXCEPT ![c] = Idle]
  /\ UNCHANGED <<wallets, usage, live, month, history>>

MarkRequiresReview(c) ==
  LET r == call[c].row IN
  /\ call[c].pc = "marking"
  /\ request' = IF StillReserved(r)
                THEN [request EXCEPT ![r].status = "requires_review"]
                ELSE request
  /\ call' = [call EXCEPT ![c] = Idle]
  /\ UNCHANGED <<wallets, usage, live, month, history>>

-----------------------------------------------------------------------------
(* The environment                                                         *)

\* The gateway process dies, the commit of the reservation is lost, or
\* markRequiresReview itself fails.
Crash(c) ==
  /\ call[c] # Idle
  /\ call' = [call EXCEPT ![c] = Idle]
  /\ UNCHANGED <<wallets, request, usage, live, month, history>>

\* reservation_expires_at passes; only a reserved row's deadline is ever read.
Expire(r) ==
  /\ request[r].status = "reserved"
  /\ ~request[r].expired
  /\ request' = [request EXCEPT ![r].expired = TRUE]
  /\ UNCHANGED <<wallets, usage, call, live, month, history>>

\* The session expires or is revoked, or its app or developer is disabled.
EndSession(s) ==
  /\ s \in live
  /\ live' = live \ {s}
  /\ UNCHANGED <<wallets, request, usage, call, month, history>>

NextMonth ==
  /\ month < MaxMonth
  /\ month' = month + 1
  /\ UNCHANGED <<wallets, request, usage, call, live, history>>

\* A Stripe top-up, a test credit or a crediting adjustment of an end user's wallet.
Credit(u, a) ==
  /\ balance[u] + a <= MaxBalance
  /\ balance' = [balance EXCEPT ![u] = @ + a]
  /\ ledger'  = [ledger EXCEPT ![u] = @ + a]
  /\ UNCHANGED <<reserved, request, usage, call, live, month, history>>

\* A debiting adjustment: it may take only what no reservation holds.
Debit(u, a) ==
  /\ Available(u) >= a
  /\ balance' = [balance EXCEPT ![u] = @ - a]
  /\ ledger'  = [ledger EXCEPT ![u] = @ - a]
  /\ UNCHANGED <<reserved, request, usage, call, live, month, history>>

Provider(c) ==
  \/ \E u \in Usage : ProviderAnswers(c, u)
  \/ FallBack(c)
  \/ ProviderFails(c)

\* What a running handler does next.
Handler(c) ==
  \/ Provider(c)
  \/ Settle(c)
  \/ SettleAborts(c)
  \/ Release(c)
  \/ ReleaseAborts(c)
  \/ MarkRequiresReview(c)

Next ==
  \/ \E c \in Call, r \in Row, b \in Body :
       \/ \E p \in Plan : Reserve(c, r, b, p)
       \/ Replay(c, r, b)
       \/ HoldExpired(c, r, b)
  \/ \E c \in Call : Handler(c) \/ Crash(c)
  \/ \E r \in Row : Expire(r)
  \/ \E s \in Session : EndSession(s)
  \/ NextMonth
  \/ \E u \in User, a \in Amount : Credit(u, a) \/ Debit(u, a)

Spec == Init /\ [][Next]_vars

-----------------------------------------------------------------------------
(* Properties                                                              *)

RowRecord ==
  [status : Status, body : Body \cup {None}, plan : Plan \cup {None},
   month : 0..MaxMonth, expired : BOOLEAN]
UsageEvent == [mode : RouteMode, shares : Shares, month : 0..MaxMonth]
CallRecord ==
  [pc : {"idle", "calling", "fallback", "settling", "releasing", "marking"},
   row : Row \cup {None}, mode : RouteMode \cup {None}, answer : Usage \cup {None}]
Outcome == [row : Row, body : Body, kind : {"result", "failure"}]

\* The tables and handlers hold what their columns and fields can hold; a row that
\* exists has a fingerprint and a route, and a handler at work has a row that exists.
TypeOK ==
  /\ balance \in [Wallet -> Nat]
  /\ reserved \in [User -> Nat]
  /\ ledger \in [Wallet -> Int]
  /\ request \in [Row -> RowRecord]
  /\ \A r \in Row : request[r].status # "absent" =>
       request[r].body # None /\ request[r].plan # None
  /\ usage \in [Row -> UsageEvent \cup {None}]
  /\ call \in [Call -> CallRecord]
  /\ \A c \in Call : call[c].pc # "idle" => call[c].row # None /\ call[c].mode # None
  /\ \A c \in Call : call[c].pc = "settling" => call[c].answer # None
  /\ \A c \in Call : call[c].pc # "idle" => request[call[c].row].status # "absent"
  /\ live \subseteq Session
  /\ month \in 0..MaxMonth
  /\ attempts \in [Row -> Nat]
  /\ told \subseteq Outcome

HeldRows(u) == {r \in Row : /\ UserOfRow(r) = u
                            /\ IsHeld(r)
                            /\ ReservesAsPlatform(request[r].plan)}

\* A wallet's reserved balance is exactly what its reserved and under-review rows
\* hold, and the wallet's balance covers it, however handlers, retries, crashes and
\* external debits interleave (the reservation update of prepareCompletion, the
\* decrements of settleCompletion and releaseReservation).
ReservationsBacked ==
  \A u \in User : /\ reserved[u] = ReservedRetail * Cardinality(HeldRows(u))
                  /\ reserved[u] <= balance[u]

\* Every wallet's balance is the sum of its ledger entries: settleCompletion, top-ups
\* and adjustments always write both sides (getLedgerReconciliation and
\* check-beta-operations.mjs report any difference).
LedgerMatches == balance = ledger

\* A handler that comes back with an admissible answer for a row still reserved can
\* always settle: "Unable to settle the reserved end-user wallet balance" is never
\* what sends a request to review.
EveryAnswerIsFunded ==
  \A c \in Call :
    LET r == call[c].row IN
    (call[c].pc = "settling" /\ request[r].status = "reserved" /\ WithinReservation(c))
      => WalletCovers(UserOfRow(r), Retail(Rate(call[c].mode, call[c].answer)),
                      Hold(request[r].plan))

\* The provider-cost, developer and platform wallets hold exactly their shares of the
\* usage events, and usage events belong to settled rows only: nothing is booked
\* twice, lost, or booked for a request that did not settle.
RevenueMatchesUsage ==
  LET Booked(w) == SumFunction([r \in Row |-> IF usage[r] = None THEN 0
                                              ELSE usage[r].shares[w]]) IN
  /\ balance["provider_cost"] = Booked("upstream")
  /\ balance["developer"] = Booked("channel")
  /\ balance["platform"] = Booked("platform")
  /\ \A r \in Row : usage[r] # None <=> request[r].status = "settled"

\* One idempotency key leads to one provider call, or two where the route may fall
\* back to the platform, whatever retries, crashes and lost commits happen; and at
\* most one handler ever works on a row.
OneProviderCall ==
  /\ \A r \in Row :
       attempts[r] <= IF request[r].plan # None /\ request[r].plan.fallback THEN 2 ELSE 1
  /\ \A c, d \in Call : (call[c] # Idle /\ call[c].row = call[d].row) => c = d

\* While a provider is at work for a row its reservation stays in the wallet: no
\* retry or deadline gives the money back under a running call.
CallsAreCovered ==
  \A c \in Call : call[c].pc \in {"calling", "fallback"} => IsHeld(call[c].row)

\* What a client was told stays true: a result was settled for that very request
\* body, and a request reported as failed by its provider, by its first handler or
\* from storage, is never charged afterwards.  (An error of the settlement itself says
\* nothing of the outcome, and the same key retried gives the result if it committed.)
AnswersStand ==
  \A t \in told :
    /\ request[t.row].body = t.body
    /\ t.kind = "result" => request[t.row].status = "settled"
    /\ t.kind = "failure" => request[t.row].status \in {"failed", "requires_review"}

\* Settled, failed and under-review rows never change again: no late handler releases
\* or settles a row an expired retry set aside, and no retry revives a finished one.
FinishedRowsAreFinal ==
  [][\A r \in Row : request[r].status \in {"settled", "failed", "requires_review"}
                      => request'[r] = request[r]]_vars

\* Neither limit is overspent, although the check and the settlement are far apart: what
\* a session has spent plus what its open requests may still spend stays within its
\* limit, and so does what the requests reserved in one month may spend.
SpendLimitsKept ==
  /\ \A s \in Session : SumFunction([r \in Row |-> SessionShare(r, s)]) <= SessionLimit
  /\ \A m \in 0..MaxMonth :
       SumFunction([r \in Row |->
         IF request[r].month # m THEN 0
         ELSE IF usage[r] # None THEN Retail(usage[r].shares)
         ELSE IF IsHeld(r) THEN Hold(request[r].plan) ELSE 0]) <= MonthlyLimit

-----------------------------------------------------------------------------
(* The refinement of Escrow                                                *)

AuthOf(r) == CASE request[r].status = "absent"  -> "none"
               [] request[r].status = "settled" -> "captured"
               [] request[r].status = "failed"  -> "voided"
               [] OTHER                         -> "held"

AmountOf(r) == CASE IsHeld(r)                    -> Hold(request[r].plan)
                 [] request[r].status = "settled" -> Retail(usage[r].shares)
                 [] OTHER                         -> 0

E == INSTANCE Escrow WITH
  OwnerOf <- [r \in Row |-> UserOfRow(r)],
  funds   <- [u \in User |-> Available(u)],
  auth    <- [r \in Row |-> AuthOf(r)],
  amount  <- [r \in Row |-> AmountOf(r)],
  earned  <- balance["provider_cost"] + balance["developer"] + balance["platform"]

\* With every race, crash, lost commit and retry, the wallet behaves as an escrow:
\* set aside once, then captured for at most that amount, returned, or kept.
ImplementsEscrow == E!Spec
-----------------------------------------------------------------------------
(* Liveness                                                                *)

\* A running handler is never suspended for good: a provider call is aborted by its
\* timeout, reading its answer by the runtime's, and every database call returns or
\* throws.  The handler may still crash.
FairSpec == Spec /\ \A c \in Call : WF_vars(Handler(c))

\* Reservations run into their deadline, and a client whose request was not answered
\* keeps retrying with the same key and body.
RetriedSpec ==
  /\ FairSpec
  /\ \A r \in Row : WF_vars(Expire(r))
  /\ \A r \in Row : SF_vars(\E c \in Call, b \in Body : HoldExpired(c, r, b))

\* No request hangs, whichever of its steps fail or lose their race.
EveryHandlerReturns == \A c \in Call : call[c] # Idle ~> call[c] = Idle

\* If the client keeps retrying and its session stays valid, every reservation is
\* settled, released or put under review, even when its handler died.
RetriesResolve ==
  \A r \in Row :
    [](SessionOf[r] \in live)
      => (request[r].status = "reserved" ~> request[r].status # "reserved")

\* Deadlines pass, but nobody needs to retry.
UnattendedSpec == FairSpec /\ \A r \in Row : WF_vars(Expire(r))

\* docs/hosted-beta.md:107: "A timed-out reservation or uncertain settlement is held as
\* requires_review".  A reservation whose deadline passed does not stay reserved.
TimedOutIsReviewed ==
  \A r \in Row : (request[r].status = "reserved" /\ request[r].expired)
                   ~> request[r].status # "reserved"
=============================================================================
