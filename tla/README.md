# ModelFaucet: a verification development

ModelFaucet lets an app developer offer AI features to end users without shipping a
provider key. A short-lived virtual session stands for (app, end user); the gateway turns
an OpenAI-style chat request into a *reservation* on the end user's wallet, a provider
call through LiteLLM, and a *settlement* that splits the price over four wallets. An API
server manages sessions, wallets, Stripe top-ups, adjustments and developer payouts over
the same PostgreSQL tables. What can go wrong is mostly about money: charged twice, charged
after being told "failed", reserved for ever, freed under a running call.

The modules below are written from the code (`src/`), not from the documents. Where a
document says something else, a run of its own shows the difference (see *Findings*), or the
*Remarks* after them quote it.

## 1. Inventory

| Component | State it keeps | Operations | Interacts with |
| --- | --- | --- | --- |
| Gateway completion repository (`apps/gateway/src/repositories/mockCompletionRepository.ts`) | `gateway_completion_requests`, `wallets`, `ledger_entries`, `usage_events`; one running handler per HTTP request | prepare (reserve / replay / set an expired row aside), provider call with fallback, settle, release, mark for review | LiteLLM client, API repositories through the shared tables |
| LiteLLM client (`apps/gateway/src/litellm.ts`) | attempts of one call | call with timeout and retries | gateway repository |
| Pricing (`packages/shared/src/pricing.ts`, `services/rating-worker/src/rateUsage.ts`) | none | token cost, markup, split of the margin | gateway, rating worker |
| Rate limiters (`apps/gateway/src/rateLimit.ts`, `apps/api/src/rateLimit.ts`, `packages/shared/src/observability.ts`) | a counter and a deadline per key, in Redis or in memory | check | both HTTP servers |
| Gateway and API HTTP servers | none beyond metrics; capabilities of the deployment | rate-limit hook, probes, authorisation, error format | limiters, repositories |
| Developer authentication (`developerAuthRepository.ts`) | `developer_api_tokens`, `audit_logs` | create, list, revoke, look up and note the use of a token | every route of the console |
| Stripe top-ups (`paymentRepository.ts`, `stripe.ts`) | `wallet_topups`, wallets, ledger | record a pending checkout, credit it on a webhook | Stripe (redelivers), wallets |
| Adjustments and reconciliation (`settlementRepository.ts`) | `wallet_adjustments`, wallets, ledger | credit / debit under an idempotency key, reports | wallets |
| Payouts (`payoutRepository.ts`) | `payouts`, developer wallets, ledger | create pending, approve, mark paid | wallets |
| Rated-usage ledger (`services/ledger.ts`) | usage events, wallets, ledger | record a rated usage | wallets |
| Sessions, provider keys, console (`sessionRepository.ts`, `providerKeyRepository.ts`, `developerConsoleRepository.ts`, `dashboardRepository.ts`) | `virtual_sessions`, `provider_credentials`, `apps`, `app_features`, `audit_logs` | open a session; store and disable keys; create and change apps and features, each with its audit entry; queries filtered by developer | gateway (reads all of them while it admits a request) |
| Developer dashboard (`apps/dashboard/src/App.tsx`, `api.ts`) | token in `sessionStorage`, rows shown, form, requests that are out | connect, disconnect, load, edit, save, remove | console routes |
| JavaScript SDK (`packages/sdk-js`) | `currentSession`, queue of local usage reports | create session, chat, local chat, flush reports | API, gateway, local bridge |
| React components, website, local bridge, settlement worker, scripts | UI state | rendering, proxying, deployment checks | SDK / API |

**What is hard.** The gateway never holds a transaction open across a provider call, so
between "reserve" and "settle" anything may happen: a retry of the same key, the deadline of
the reservation, the death of the process, a debit of the wallet, a lost commit
acknowledgement, a month boundary. Correctness rests on status checks under row locks in
four different transactions that never see each other. On the API side the same holds for
concurrent payout runs, redelivered webhooks, raced idempotency keys, tokens revoked under a
request and names two developers want at once; in the SDK and the dashboard, for state read
before an `await` and written after it. `PROJECT.json` lists these hazards one by
one, each at its line.

**What makes each component correct.** Gateway: reserved balances are backed, every balance
equals its ledger, a key is called and charged at most once, what a client was told stays
true, limits hold for what is finally spent, every request ends. Top-ups, adjustments,
payouts: an event, key or payout moves money once, and never more than the wallet has. SDK:
a usage report is sent or kept, a session is used only for its feature. Rate limiters: no stretch
of a window's length has room for twice the limit, nobody is locked out for ever, every request is
answered also while Redis is away. Console: a developer is shown and changes rows of that developer
only, each change is on record, an app is usable from its creation on, a revoked token stays out.
Dashboard: what is shown belongs to the token that is connected. Pricing: shares add up to the price, the price of a usage
within the caps is at most the reserved one.

## 2. Modules

| Module | Models |
| --- | --- |
| `Completion` | the completion repository: requests, wallets, ledger, usage events, running handlers, clients, time |
| `Escrow` | the abstract promise: set aside once, then captured for at most that amount, returned, or kept |
| `Pricing` | the arithmetic of prices: token costs, markup, shares, their rounding; the gateway's and the rating worker's use of it |
| `MC_Completion` | the instance TLC checks (four runs of it, one cfg each), with prices computed by `Pricing` |
| `CompletionProofs` | `Completion`: types, backed reservations, funded answers, ledger agreement, finality, revenue, spend limits; one call per key, covered calls, truth of what clients were told; that it implements `Escrow` and keeps to `Funds`. `Pricing`: shares add up, reservations are enough |
| `Funds` | top-ups, adjustments, payouts and recorded usage of the API server, Stripe, and the gateway's reservations on the same wallets |
| `GatewayFunds` | how `Completion` is the gateway in `Funds`: the mapping between them |
| `MC_Funds` | the instance TLC checks (two runs) |
| `FundsProofs` | `Funds`: types, covered wallets, payments that are not lost, balances that agree with the records, reviewed payouts, what the API is to the gateway |
| `SdkClient` | one client of the JavaScript SDK: session cache, chat calls, local usage reports |
| `MC_SdkClient` | the instances TLC checks (two runs) |
| `SdkProofs` | `SdkClient`: types, fitting sessions, no repeated report |
| `Admission` | `prepareCompletion` statement by statement, and the console, session and key transactions it reads behind |
| `MC_Admission` | the instance TLC checks (one run) |
| `AdmissionProofs` | `Admission`: types, active keys, budgets, limits, no deadlock |
| `Access` | the routes of the API server: who is let in, and the console's transactions with their audit entries |
| `MC_Access` | the instance TLC checks (one run) |
| `AccessProofs` | `Access`: types, complete audit, isolation of developers, complete apps, final revocations |
| `Front` | the rate-limit hook, limiters and probes of both servers, and the gateway's client of the provider |
| `MC_Front` | the instance TLC checks (one run) |
| `FrontProofs` | `Front`: types, complete records of attempts, the sliding window |
| `Dashboard` | the developer console in one browser tab |
| `MC_Dashboard` | the instance TLC checks (one run) |
| `DashboardProofs` | `Dashboard`: types, a true screen |
| `Sums` | lemmas about sums over finite sets, for the four modules of proofs that add up |

Composition: `Completion` is the gateway's state machine. `Escrow` is what it promises to the rest;
`Admission` takes its first step apart, `Front` its provider call and what is before its route, and
`Pricing` computes its prices. `Funds` shares its wallets and takes of the gateway only what
`Completion` proves (`GatewayFunds`), and `Completion` of the API only what `Funds` proves. `Access` is in front of everything the API server does, also of what `Funds` and
`Admission` do; `SdkClient` and `Dashboard` are the clients of the two servers.

### Completion

*State.* `request` is the table `gateway_completion_requests`. A row is unique by session and
idempotency-key hash and is never deleted, so the constant `Row` is the set of such pairs and
status `absent` means that no row exists; `request_id` is then the row. `balance` and `reserved`
are the two wallet columns, `ledger` the per-wallet sum of `ledger_entries`, `usage` the usage
event of a row (`usage_events.request_id` is unique). `call[c]` is one running execution of
`createMockCompletion`: the local state it carries across its awaits. `attempts` and
`told` are history: provider calls issued and outcomes clients saw.

*Actions.* `Reserve`, `Replay` and `HoldExpired` are the three outcomes of `prepareCompletion`
that do something (its other outcomes throw and change nothing). `ProviderAnswers`, `FallBack`
and `ProviderFails` are the outcomes of `createProviderCompletion`; a failed call may have done
its work. `Settle`/`SettleAborts` are `settleCompletion`; `Release`/`ReleaseAborts` are
`releaseReservation`; `MarkRequiresReview` is the catch of both. `Settle` and `Release` have a
second outcome in which the commit succeeds and its acknowledgement is lost, so that the handler
goes on as if it had failed. `Crash` is the death of a handler anywhere, a lost commit of the
reservation, or a failing `markRequiresReview`. `Expire`, `EndSession`, `NextMonth`, `Credit` and
`Debit` are the environment: the deadline, the session's validity, the calendar, and the API's
top-ups and adjustments of the same wallet.

*Abstractions.* Each transaction is one step: `prepareCompletion` runs under an advisory lock on
the key (and, when limits are set, on app and session), the others under the row lock of the
request and the wallet; `Admission` takes `prepareCompletion` apart. Money is a natural number of units;
`Cost` prices a usage as three shares and the price at the caps is the constant reservation; the
instance takes both from `Pricing`. Plans (which route and whether it may fall back) are chosen by any request, which covers every
policy, credential and request. One app, one developer and one developer key are modelled; users,
sessions, rows and handlers are sets. Of the calendar only the month is kept, of the deadline only
whether it has passed. That `settleCompletion` may find its row settled already is not modelled:
it takes a second handler for the row, and `OneProviderCall` shows that there is none.

### Pricing

Operators without state, on integers in units of 10^-8 USD: the code's decimal strings are only
notation. `TokenCost` rounds up, `Part` (markup and developer's share) rounds down, and the platform
has the rest. `UsageShares` and `CapShares` are how the gateway prices an answer and a reservation.
`RateUsage` is the rating worker's own: it rounds each kind of token down and takes cached tokens in
addition to the input of which they are a part. The two scales, a million tokens and ten thousand
basis points, are constants, so that small instances round too.

### Funds

*State.* `balance` and `reserved` are the wallet columns, `topup`, `applied`, `payout` and `recorded` the
tables `wallet_topups` (unique by checkout and by event), `wallet_adjustments` (unique by key),
`payouts` and `usage_events` (unique by request id).
`tx[p]` is what the API request `p` has read before the locked part of its transaction. `shown`,
`paid` and `delivered` are Stripe's side: URLs a customer has, checkouts paid, events answered with
a 2xx. `spent` and `earned` are history: what the gateway has charged and credited.

*Actions.* PostgreSQL runs the transactions at READ COMMITTED, and each of them first reads without
holding a lock (the URL of the new Stripe session, "no row for this event", "no row for this key",
the snapshot of a payout run, the wallets of a rated usage) and then locks rows until it commits. So
there are two actions each: `OpenCheckout`/`RecordCheckout`, `Deliver`/`CreditTopup`,
`StartAdjustment`/`ApplyAdjustment`, `StartPayoutRun`/`CreatePayouts`, `StartUsage`/`ChargeUsage`; `ApprovePayout` and `MarkPayoutPaid` lock at once and are one action.
`Abort` is a rollback, a lost connection or the death of the process in between. Answers to the
customer and to Stripe may be lost. `Reserve` and `Settle` are the gateway's effect on the wallets,
reduced to what `Completion` proves about it: a reservation is covered, a settlement takes at most
what was reserved. A payout run reads wallets again after waiting for their locks but not the
payouts, so two runs can each create a payout for one balance; `MarkPayoutPaid` checks the balance again, so
the second of them waits until the developer has earned as much once more. `recordRatedUsage` checks a
balance it has read without a lock, reservations not subtracted, and debits it later; `MayCharge` is the
table's check constraint, which alone refuses to take what is reserved.

*Abstractions.* An adjustment without a key is one whose key is used once. Waiting for locks and
deadlock are not modelled. What `Charged` says of an event may differ from the price of its checkout.

### SdkClient

*State.* `current` is `currentSession`, `queue` is `pendingLocalUsageReports`; `call`, `report` and
`flush` are the calls under way and their local variables. `featureOf` is the server's table of
sessions, `rows` the gateway's charged requests by session and key, `aged` the sessions the client
no longer takes because of their expiry.

*Actions.* A step is what a call does from one `await` to the next, since nothing else runs in
between: `ensureSession` is `UseSession` or `RequestSession`, the answer of the API is
`ReceiveSession`, the request to the gateway `SendChat`; the last report of a flush and the
assignment of the queue are one step of `FlushReport`. Any answer may be lost (`OpenFails`,
`AnswerChat`, `ReportFails`); a chat call that has ended may be made again under its key.

*Abstractions.* The order of the queue is not kept. The gateway is a table of charged requests: how
one is charged is `Completion`.

### Admission

*State.* `app` (status and monthly limit), `feature`, `key` and `session` are the tables the console and
the API write. `chat[c]` is one execution of `prepareCompletion`: the session it has loaded, the limit
it read with it, the key it has chosen, the locks it holds, and, once committed, its row.

*Actions.* A request goes through `LoadSession`, `LockSpend` (twice for an app with limits: first the
app's advisory lock, then the session's), `Route` (feature, then the user's key or the developer's,
`for update`), `CheckLimits`, and `Reserve`, which commits and frees the locks; `Refuse` and `Abort`
undo everything. Each reads what is committed when it starts (READ COMMITTED), so `UpdateApp`,
`CreateFeature`, `DeleteFeature`, `CreateSession`, `EndSession`, `StoreKey` and `DisableKey` fall
anywhere in between. `Finish` is what `Completion` makes of the reservation later.

*Abstractions.* Replays, months, the session's own limit and wallets are left to `Completion`; requests
have idempotency keys of their own, so that lock is never contended. An app has both limits or none.
A request costs what it reserves, which is the most it can. The reads and writes of a console
transaction are one step: what changes between them might as well change before or after. Which route
a request asks for and a feature's policy allows is any choice, which covers `updateFeature`. Of several
active keys of an owner any may be taken, as priorities are not kept.

### Access

*State.* `row` is the committed tables: a developer's wallet, apps with their developer, features, developer
keys, developer tokens. `log` counts the audit entries of each row's creation and end, `expired` is
the tokens past their `expires_at`, `off` the capabilities the deployment switches off. `request[r]` is one
HTTP request: the route, the row it is about, by which credential, the developer its queries are
filtered by, and what its transaction has pending (`new`, `wallet`).

*Actions.* `Receive` is a route's capability check and the look-up of its credential, for every route
(`Demand`); `NoteUse` writes `last_used_at` and checks the scope. Then one action per statement
that writes (`CreateToken`, `RevokeToken`, `InsertWallet`, `InsertApp`, `UpdateApp`, `ArchiveApp`,
`CreateFeature`, `UpdateFeature`, `DeleteFeature`, `CreateKey`, `DisableKey`), which waits for another
transaction that has the row or its unique key pending (`Free`), and `Commit`, which publishes row and
audit entry together; or one or more queries and `Answer`. `Fail` ends a request anywhere and rolls back;
`Expire` and `Restart` are the environment.

*Abstractions.* Names, policies and values of rows are left out, except that an app has its limits or
not and is active or not. `updateFeature` writes what it found. The routes of `Elsewhere` end after
having been let in: their work is in `Funds`, `Completion` or `Admission`. A name is an element of `App`,
so two requests that want one name are about one element. `served` bounds the requests that are let in.

### Front

*State.* `bucket` is the counter and deadline of each rate-limit key, in Redis or in memory; `recent` is
history: what was allowed in each of the last `Window` ticks, and `wiped` how often the counters were lost
in each; neither is ever cleared, only time takes ticks out of them. `request[r]` is one request from the hook
to its answer: which checks it waits for, whether one was refused, the attempt it is at and what is
on record of attempts.

*Actions.* `Check` is one `check` of a limiter and `CheckFails` one that Redis does not answer, before or
after it has counted; `Admit` is the end of the hook, `SecondCheck` the limiter of `POST /v1/sessions`.
`Ask`, `Succeeds`, `Errors`, `Cancel`, `Throws`, `AskAgain`, `Fails` and `Read` are
`fetchChatCompletionWithRetry` and the reading of its body; `Probe`, `Healthy`, `GivesUp` and
`ProbeAnswers` are `GET /ready`. Redis goes and comes back, or has lost its data (`RedisForgets`), a key
loses its expiry, the process restarts, with its counters if they are in memory, others are counted.

*Abstractions.* `MemoryCheck` and `RedisCheck` count up to one more than the limit, since no larger count
is told apart. Both servers are one module, with `server` for what differs. A success of the provider's
client is where `Completion` has `ProviderAnswers` or `ProviderFails`.

### Dashboard

*State.* `stored` and `token` are the tab's token in `sessionStorage` and in React, `build` the one compiled
in; `data`, `list` and `editing` are what is shown and in the form, each by the token it was fetched
with; `request` is what is out, `mounted` whether the component that waits for it still is.

*Actions.* `Open`, `Connect` and `Disconnect`; the three pages' loads, their `Edit`, `Submit...`, `Remove`
actions, and the arrival or failure of each answer. A step is what runs between two awaits. A save
that has succeeded loads the list again, under its own token (`Reload`).

*Abstractions.* Of the rows only their token is kept: which app's features a list holds is not, nor are
values, messages and layout. A page opened anew loads the document, so nothing is left of the old one.

## 3. What the runs check

| Run | Shows |
| --- | --- |
| `completion` | money, idempotency, finality and the refinement of `Escrow`, with two handlers racing over two keys, two bodies and three routes |
| `completion_limits` | session and monthly limits with three requests of two sessions over two months |
| `completion_live` | every handler returns; every reservation is resolved while its client retries |
| `completion_unattended` | finding 1 below |
| `funds` | every record moves its money once, nothing reserved is taken, payouts follow their review, a payment is stored and credited before Stripe may forget it: two API requests at once, one checkout with three events (one for another amount), two keys, two payouts, one rated usage, the gateway beside them |
| `funds_live` | a paid checkout is credited in the end while Stripe redelivers |
| `sdk` | overlapping chat calls, sessions and flushes: fitting sessions, no report sent twice |
| `sdk_reports` | finding 2 |
| `admission` | two requests admitted at once while the console changes what they read: limits and budgets hold, no disabled key is used, the requests do not deadlock |
| `access` | every route, two requests at once, by two developers, an operator, an end user or nobody: audit, isolation, complete apps, final revocations, every request answered |
| `front` | one followed request among any number of others: what windows let through, also when counters are lost, what is recorded of attempts, nobody locked out, every request answered |
| `dashboard` | two developers one after the other in one tab, answers in any order: what is shown is the connected one's, and a busy page has a reason |

*Bounds of `funds`.* The races are between two requests, so `Process` has two elements (the one rated usage
may be recorded by either, beside a reservation of the same wallet); three events
of one checkout cover redelivery, two different events and a wrong amount; the debit takes the whole
opening balance, as does a reservation, so that either makes the other fail; the developer is charged
back while two payouts for one balance may be open. `MaxEarned` bounds what the gateway charges.
*Bounds of `sdk`.* Two chats of different features and an opener without one are the ways a
session can be wrong for a call; two flushes and two reports are what an overlap needs. Deadlock is
not checked in either: all records may be used up and all calls over.

*Fairness of `funds_live`.* A request that has begun ends, by itself or by its death (weak
fairness per process). Stripe redelivers an event it has no 2xx for, and not every handling of it is
aborted (strong fairness per event). The rest of the system is not fair.

*Bounds of `admission`.* A lock, a sum or a budget goes wrong between two requests; they share one
app, session, end user and developer, each of the latter with a key. A request costs 3 against limits
of 3 and 6, so that a limit admits one request or both and is raised and lowered between them, and
1 on the developer's key, whose budget is 1. Requests are symmetric. A chat runs once and ends, so that
TLC's deadlock check says nothing; `SomeRequestCanGoOn` does, of the locks. No fairness is needed: each
request has finitely many statements, and one of them can always be run.

*Bounds and fairness of `access`.* What goes wrong between requests goes wrong between two: two writers of one
row, a name both developers want, a token revoked while a request has it. There is one app, feature and
key, one token of each developer (one with all scopes, one with three), and at most four requests are let
in: to create, use, revoke and look. The deployment is hosted; which capabilities are off may change
with a restart. `FairSpec` is weak fairness of each request's next statement: the server goes on and
PostgreSQL grants a free lock. It does not ask for a failure (`Refused` is only the 404 of a request
that has nothing to wait for). A step of its own at the bound keeps TLC's deadlock check on.

*Bounds and fairness of `front`.* A window of two ticks that takes two requests is the smallest that can be
half over and half full; one retry is the smallest loop; `MaxLosses` 1 is one lost expiry, which is repaired
or not, or one loss of all counters, at any time in a window. `SlidingLimit` is then met with equality, with and
without the loss. One request is
followed: the others (`Others`) may count at any time, as another process would. `FairSpec` says that
time goes on, that Redis comes back, that a request goes on (weak), and that a check which is within
reach again and again is made (strong): the Redis client queues commands while it reconnects.

*Bounds of `dashboard`.* A page has at most two loads to begin with, and needs two more for a save and
a row's button beside them, so `Request` has four elements. One of the two tokens may be in the build.

*Bounds of the completion runs.* Two rows and two handlers are what the races need: a retry against its
first handler, two reservations against one wallet, a settlement against a release. With the scales of
`Pricing` at 2, a usage is rounded at each step: one below the caps costs 2, one at them 4 (the
reservation, of which the developer has 1), one above 6. The wallet opens with 5 units, and credits
of 3 go up to `MaxBalance` 8, so that wallets are too small for the second request, large enough, and
drained by a debit in between. In `completion_limits` the
limits (8 per month, 6 per session) admit two open reservations of different sessions and refuse
a third, and admit a second one in a session only if the first settled low. `MaxMonth` is 1: one
month boundary. Rows, handlers and bodies are symmetric in the safety runs; the liveness run
uses no symmetry. Deadlock is not checked: a gateway with all requests finished, its sessions
over and its calendar at the bound really stops.

*Fairness of `completion_live`.* `FairSpec` is weak fairness of each handler's next step: every await of the handler
ends, because `fetchWithTimeout` aborts a provider call, the runtime's own timeout bounds reading
its body, and database calls return or throw. It does not exclude crashes. `RetriedSpec` adds two
assumptions about the world, named as such: deadlines pass, and the client of an unanswered
request keeps retrying it (strong fairness of `HoldExpired`, as a handler and the session come and
go). `RetriesResolve` is about sessions that stay valid, since `loadSession` refuses the others.
`UnattendedSpec` drops the retry: what is left is what the code itself guarantees.

## 4. What is proved

All theorems are for every value of the constants, under the named assumption of each module.
`CompletionProofs`, under `CompletionAssumption`: rows are finitely
many and each has a session and each session a user, system wallets are not users' wallets, a
platform route has no fallback (`credential !== undefined` in the code), prices are natural numbers, and
so are limits (`0003_hosted_beta_app_policy.sql` checks that they are positive).

* `TypeCorrect`: `TypeOK` is inductive. It carries the facts that a row which exists has a route and
  that a handler at work has such a row.
* `ReservationsAreBacked`: `reserved[u]` is the reserved price times the number of open paying rows of
  `u`, and at most the balance. With `TypeOK` the property is inductive; the argument is a count:
  `HeldAdds` and `HeldDrops` say that one row entering or leaving the set changes the product by one
  hold, everything else leaves the set alone (`HeldSame`).
* `AnswersAreFunded` follows: an open row's hold is part of what is backed, and an admissible answer
  costs at most the hold.
* `LedgerAgrees`: `balance = ledger` is inductive with `TypeOK`.
* `FinishedRowsStay`: an action property, from `TypeOK` alone.
* `RevenueMatches`: `RevenueMatchesUsage` is inductive with `TypeOK`. A settlement is the one step that
  books, on a row without an event, and adds the event's shares to both sides (`EventBooks`).
* `SpendLimitsStay`, from `LimitsInv`: nothing is reserved in a month that has not begun, and a row's
  event is not of an earlier month than its reservation (`MonthsPass`). So what this month's check
  sums (the open reservations and events of the month) is all that was reserved in it, and perhaps more
  (`MonthlyCheckSums`). No step but a reservation raises what a row costs (`SharesDoNotGrow`: a settlement
  is for at most the hold), and a reservation adds its hold to one row (`ReserveAdds`).
* `OneCallPerKey`, `CallsStayCovered`, `ToldIsTrue`: from the inductive
  `HandlerInv`. `OneProviderCall` is not inductive: that no second handler starts on a row rests on the
  row existing as soon as a handler works on it; that no third call is issued rests on where the
  handler of the first one is (`"calling"` has issued exactly one).
* `CompletionImplementsEscrow`: initial states map to initial states, and each action maps to
  `Authorize`, `Capture`, `Void`, `Deposit`, `Withdraw` or a stutter. It needs backed reservations: a
  capture must be covered by the funds that were set aside.
* `GatewayIsFunds`: each step of `Completion` leaves the wallets alone, is a credit or debit of the API, or is
  `Reserve` or `Settle` of `Funds`; a release is a `Settle` of nothing. What the gateway has charged is
  the sum of its usage events, and no row is charged more than the reserved price, so the bound
  `MaxEarned` of `Funds` is one for any number of rows. In return `ApiIsCreditsAndDebits` (`FundsProofs`) says that
  each step of the API is, to users' wallets, nothing or one `Credit` or `Debit` of `Completion`, with any
  amount. So neither module assumes more of the other than the other has been proved to do.

`FundsProofs`, under `FundsAssumption` (user and developer wallets are different, amounts are positive,
checkouts and payouts are finitely many, like the rows of any table):
`FundsInv` adds to `TypeOK` that wallets cover what is reserved, that developer wallets have nothing
reserved, that the event kept with a top-up is one of its checkout, and that a URL given out has its
top-up stored. Each is needed: natural balances rest on covered reservations, a payout's debit on
developers reserving nothing, the early acknowledgement of a known event on events belonging to their
top-up. `FundsTypeCorrect`, `WalletsStayCovered` and `PaymentsAreSafe` follow; `PayoutsAreReviewed` is an
action property that needs the types. `RecordsAgree` is from `RecordsInv`, which adds to the sums that what
is stored is finite and that a usage a process has inserted and not charged yet is inserted by no other
(`UsageInsertedOnce`). Each record that moves money has a lemma about what it adds (`CreditAdds`,
`PaymentAdds`, `AdjustmentAdds`, `UsageAdds`); any other step leaves the sums alone.

`CompletionProofs` also proves about `Pricing`, for every scale, price list, markup, share and count: `SharesAddUp` (no share is negative, and
they add up to cost and margin to the unit), `ReservationIsEnough` (costs and margins grow with the
tokens, because quotients and rounded parts grow with what is divided, so the price within the caps is
at most the price at them), and `WorkerRatesNoHigher`, for usages without cached tokens. The second tells
that the second conjunct of `Completion`'s `WithinReservation` never fails after the first: a settlement is
refused for the caps, not for the price.

`SdkProofs`, under `SdkAssumption`: the invariant has a part about sessions (each call under way
carries a session made for its feature or for any; one the table does not have is not carried, which
is why creating a session disturbs nobody) and a part about reports (each has at most one holder:
its call, the queue, or one flush). The two parts share no variable, and `SdkStep` uses that.

`AdmissionProofs`, under `AdmissionAssumption` (finitely many requests; users are not developers; limits,
prices and budgets are natural numbers): `AdmissionInv` adds that no two requests hold one lock, that a
request holds the lock of the key it has chosen, and that one which has checked a budget still fits in
it. The last is what makes `BudgetKept` inductive: between check and commit nobody else can be counted on
the key, because that takes its lock. `ChatStep` says once what any step of a request must do for this.
`CapStays` is from `CapInv`. `CapKept` is not inductive, since a request held to a large limit may be
released. What is: among any of an app's requests with a limit, one has a limit they all fit in together,
the one checked last (`CapsHold`). A request that has checked fits with all of them until it commits, because it
holds the app's lock (`CheckedWithinCap`, `LimitedHoldLock`). Each step either takes spend away (`CapShrinks`)
or is such a commit (`CapGrows`).
`AdmissionGoesOn` is the argument of ordered locks: the advisory locks a request holds are a prefix of app,
session, key; a request that has its key waits for nothing, else one that holds its app's lock finds its
session's free, since whoever held that would hold the app's too; else no lock is held at all.

`AccessProofs`, under `AccessAssumption` (kinds of rows are told apart, credentials differ): `AccessInv` is
`TypeOK`, `AuditAccountsForRows` and `AppsAreComplete` with three parts that make them inductive. `RowsFit`
says that an app has an owner and that a feature or key is of an app that is there. `Fits` says of each
request that what it has pending is still possible and right: the row it is about to insert is absent, the one it ends exists, an app keeps
its developer, what was shown is the developer's. `OneWriter` says that no two requests have one row
pending; with it, a commit cannot spoil what another has pending. `AuditIsComplete`, `AppsStayComplete`
and `TenantsAreIsolated` follow; `AppsStayPut` and `RevokedIsFinal` are action properties from the same
invariant.

`DashboardProofs`, under `DashboardAssumption`: `DashboardInv` adds to `TypeOK` and `ScreenIsTrue` that a request
whose component is mounted carries the token that is connected (`CountsForToken`), that a save under way
keeps the button disabled (`SavesDisable`), and that only a page with a form has one filled (`FormFits`).
The first is the heart: what arrives late belongs to nobody, because `Disconnect` unmounts what waits.

`FrontProofs`, under `FrontAssumption`: `FrontInv` adds to `TypeOK`, for each request, what is on
record of its attempts at each point of the client's loop. That an attempt is complete before the next one rests on where the client is,
that there are at most two entries of it on how often it can still throw from there (`Fits`). `Grows` is the
lemma about appending to a record. `AttemptsStayRecorded` follows. `SlidingLimitHolds` is from
`WindowInv`, which says what a bucket knows of the recent past (`Covers`): the ticks since its window began,
but for the one it began in, let in less than it counts, because the window's first request lies further back;
a longer stretch lets in no more than it counts, `Most - 1`, and `Most` for each loss of the counters in it.
Time takes the oldest tick away, and when a window ends with it what it let in since is what the next may
be preceded by; a check adds to the newest tick; a loss of the counters (`WipedCovers`) pays with its `Most`
for what they counted; after a lost expiry only the count is known, and that it is repaired with a full window
is enough. The bound is for any number of losses. That they raise it is what the code does: a
restarted process starts with an empty map, so a client may be let in `3 * Most - 1` times around one restart.

`Sums` is what the five totals rest on: a sum over a finite set is an integer, any element may be taken out of it, a changed
value changes it by as much, smaller values and smaller sets have smaller sums. The library's induction
theorems take an operator as a parameter, so the lemmas are by smallest counterexample: some
subsets of a finite set have a minimal one, which is refuted from the sets below it.

Every invariant a run checks is proved, and every action property. Only model-checked is what needs fairness or
ENABLED, which the prover does not reason about: `EveryHandlerReturns`, `RetriesResolve`,
`PaidIsCredited`, `NobodyIsLockedOut` and both `EveryRequestIsAnswered`. What `Admission` promises instead
of liveness, that a request can go on, is stated on locks (`SomeRequestCanGoOn`) and proved.

## 5. Findings

Each is a run whose property quotes a document and which TLC refutes.

1. `completion_unattended`: a timed-out reservation stays `reserved` unless the same session retries
   the same key; `docs/hosted-beta.md:107` says it is held as `requires_review`.
2. `sdk_reports`: `flushUsageReports` assigns the queue what this flush could not send; a report queued
   while it was waiting for the bridge is lost. `docs/sdk-local-bridge.md:105` says failed reports are
   queued for a later flush.

### Remarks

What the modules show of the code and no run refutes, because the documents leave room for it or
no document speaks of it. Gateway:

* A timed-out provider call is released as `failed` although the provider may have done the work
  (`ProviderFails`); "Ambiguous or over-cap outcomes become `requires_review` and keep the reservation held"
  (`docs/billing-settlement.md:65`). The sentence before it has provider failures release their
  reservation; the code counts a timeout as such a failure.
* A request reserved last month and still in flight is counted by neither sum of this month's check; when it
  settles, this month's spend may pass its limit. `SpendLimitsKept` therefore counts a request in the
  month of its reservation. "The monthly and per-session limits are enforced under PostgreSQL
  advisory locks before provider execution" (`docs/operations.md:106`).
* `assertDeveloperBudget` counts reservations only while they are `reserved`, where the wallet and the spend
  limits go on counting `requires_review`. `BudgetKept` speaks of reserved and settled requests.
* A request in flight is still admitted after its app was disabled, since nothing reads the app again
  after `loadSession`.
* When the body of a failed attempt cannot be cancelled (`litellm.ts:363`), the attempt is recorded a second
  time and tried again whatever its status.
* `rateUsage` of the rating worker and `calculateTokenCostUsd` round differently, and the worker adds cached
  tokens to the input they are part of: what a usage is rated at depends on which of them rates it.

SDK: a retry goes out under whatever session is usable by then, and the gateway's idempotency keys are
per session, so a retry after its session was replaced is charged again. "For retry-safe calls, clients
must send the same `Idempotency-Key` with the same request body" (`docs/API_SPEC.md:242`) asks for no more.

Dashboard (`App.tsx`): a list that was loading when another app was chosen, or an older of two loads, may
arrive last and replace the newer rows; the features of one app then stand under the name of another.
Editing an app, archiving it and saving the form sends the old status again. The answer to a save closes
the form also when another row has been put into it. The load after a save goes out with the save's token,
also after the tab was disconnected. A token of the build is taken again when the document is reloaded,
whatever was connected. Saving a provider key whose answer is lost, and again, stores it twice.

## 6. Not modelled

* Configuration and secret encryption (`env.ts`, `crypto.ts`, `secretEncryption.ts`): read once at start, or pure.
* Of the HTTP servers: metrics, headers, CORS, validation of bodies beyond "it fails", wording of errors.
* Decimal notation of amounts; parsing of provider answers beyond the usage they report.
* `walletRepository` and `sessionRepository` beyond the sessions and wallets the modules above take from
  them: one query or one insert each.
* React components, website, examples: they show what the SDK tells them and share no state.
* The local bridge's proxy to a model server; its answer to a report is an outcome in `SdkClient`.
* The settlement worker, a stub.
* The migration runner and the verification scripts, which an operator runs alone, with nothing beside them.

`PROJECT.json` gives the reason for each component.

## 7. Plan

The order the modules were written in is that of what is at stake: `Completion` with `Escrow`, `Funds`,
`SdkClient`, `Admission`, then `Access`, `Front`, `Dashboard` and `Pricing`. What is left:

1. That `Admission`, its locks hidden, implements `Completion`'s one step `Reserve`, with both taking
   apps, keys and limits from one table.
2. The total time a configuration allows for all attempts of a call against the reservation's deadline.
3. Which app's rows the dashboard shows, once its loads are cancelled or numbered.
