------------------------------ MODULE Pricing -------------------------------
(***************************************************************************)
(* What a completion costs and how its price is shared: the arithmetic of   *)
(* packages/shared/src/pricing.ts on bigints, as the gateway uses it for a  *)
(* reservation and for its settlement, and the rating worker's own          *)
(* (services/rating-worker/src/rateUsage.ts).                                *)
(*                                                                         *)
(* Amounts are integers, in units of 10^-8 USD: parseMoneyToUnits and       *)
(* formatMoneyUnits only change their notation.  A usage is a record of     *)
(* token counts of which cached ones are part of the input                  *)
(* (assertTokenCounts), a price list one of prices per TokenScale tokens.   *)
(***************************************************************************)
EXTENDS Integers

CONSTANTS
  TokenScale,   \* the tokens a price is for: a million
  Basis         \* basis points of a whole: ten thousand

ASSUME PricingAssumption == TokenScale \in Nat \ {0} /\ Basis \in Nat \ {0}

TokenCounts == {t \in [input : Nat, output : Nat, cached : Nat] : t.cached <= t.input}
PriceList   == [input : Nat, output : Nat, cached : Nat]
ShareBps    == 0 .. Basis

\* What a gateway bills by: its environment's prices, caps per request and markup (rounded to
\* basis points), and the share of the margin that the session's app gives its developer.
BillingPolicy == [prices : PriceList, maxInput : Nat, maxOutput : Nat,
                  markup : Nat, share : ShareBps]

-----------------------------------------------------------------------------
(* packages/shared/src/pricing.ts                                          *)

\* What the tokens cost, in units of a TokenScale-th.
Weighted(t, p) == p.input * (t.input - t.cached) + p.cached * t.cached + p.output * t.output

\* calculateTokenCostUsd rounds up.
TokenCost(t, p) == (Weighted(t, p) + TokenScale - 1) \div TokenScale

\* Part of an amount, rounded down (splitAmountByBps and the others).
Part(amount, bps) == (amount * bps) \div Basis

Price(s) == s.upstream + s.channel + s.platform

\* Both rounds down what the developer gets of a margin; the rest is the platform's.
SharesOf(upstream, margin, share) ==
  [upstream |-> upstream, channel |-> Part(margin, share),
   platform |-> margin - Part(margin, share)]

\* pricePlatformUsage: a margin on top of the upstream cost.
PlatformShares(upstream, markup, share) == SharesOf(upstream, Part(upstream, markup), share)

\* priceZeroUpstreamUsage: nothing but a fee.
ZeroUpstreamShares(fee, share) == SharesOf(0, fee, share)

-----------------------------------------------------------------------------
(* The gateway                                                             *)

\* calculateUpstreamCost: the gateway knows no cached tokens.
UpstreamCost(policy, input, output) ==
  TokenCost([input |-> input, output |-> output, cached |-> 0], policy.prices)

\* rateCompletion on a route the platform bills.
UsageShares(policy, input, output) ==
  PlatformShares(UpstreamCost(policy, input, output), policy.markup, policy.share)

\* Its check of the caps.
FitsCaps(policy, input, output) == input <= policy.maxInput /\ output <= policy.maxOutput

\* What prepareCompletion reserves: the price at the caps.
CapShares(policy) == UsageShares(policy, policy.maxInput, policy.maxOutput)

-----------------------------------------------------------------------------
(* The rating worker                                                       *)

\* tokenCostUsd rounds down.
WorkerTokenCost(tokens, price) == (tokens * price) \div TokenScale

\* Its calculateUpstreamCost, kind by kind: cached tokens are paid in addition to the
\* input they are part of.
WorkerCost(t, p) ==
  WorkerTokenCost(t.input, p.input) + WorkerTokenCost(t.output, p.output)
    + WorkerTokenCost(t.cached, p.cached)

\* rateUsage.
RateUsage(mode, t, p, rule) ==
  IF mode \in {"platform", "developer_key"}
  THEN PlatformShares(WorkerCost(t, p), rule.markup, rule.share)
  ELSE ZeroUpstreamShares(rule.fee, rule.share)
=============================================================================
