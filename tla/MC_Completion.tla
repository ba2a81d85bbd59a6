--------------------------- MODULE MC_Completion ---------------------------
(* A small gateway: one session, two or three idempotency keys, two handlers. *)
EXTENDS Completion, Pricing, TLC

CONSTANTS u1, s1, s2, r1, r2, r3, c1, c2, f1, f2, small, full, over

MCSessionOf == [r \in Row |-> s1]
MCTwoSessions == [r \in Row |-> IF r = r3 THEN s2 ELSE s1]
MCUserOf    == [s \in Session |-> u1]

\* Rows, handlers and bodies are interchangeable.
Symmetry == Permutations(Row) \cup Permutations(Call) \cup Permutations(Body)

\* With two sessions the rows are told apart by their session.
TwoSessionSymmetry == Permutations({r1, r2}) \cup Permutations(Call)

MCPlan == {[mode |-> "platform",      fallback |-> FALSE],
           [mode |-> "developer_key", fallback |-> TRUE],
           [mode |-> "byok",          fallback |-> FALSE]}

MCPlatformPlan == {[mode |-> "platform", fallback |-> FALSE]}

\* A price list, a markup of the whole cost, and half of it the developer's, at scales small
\* enough for prices to be rounded.
MCPolicy == [prices |-> [input |-> 1, output |-> 2, cached |-> 0], maxInput |-> 2, maxOutput |-> 1,
             markup |-> Basis, share |-> Basis \div 2]

\* A usage below the caps (retail price 2, nothing of it the developer's), one at them (4),
\* and one above (6).
Input(u)  == CASE u = small -> 1 [] u = full -> 2 [] u = over -> 4
Output(u) == IF u = small THEN 0 ELSE 1

MCCost             == [u \in Usage |-> UsageShares(MCPolicy, Input(u), Output(u))]
MCWithinCaps       == {u \in Usage : FitsCaps(MCPolicy, Input(u), Output(u))}
MCReservedRetail   == Price(CapShares(MCPolicy))
MCReservedUpstream == CapShares(MCPolicy).upstream
=============================================================================
