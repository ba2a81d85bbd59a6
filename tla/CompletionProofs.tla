-------------------------- MODULE CompletionProofs --------------------------
(* Theorems about Completion, for every value of its constants.            *)
EXTENDS GatewayFunds, Pricing, Sums

-----------------------------------------------------------------------------
(* Facts about the operators.                                              *)

\* What a usage is rated at, whatever the route, is a triple of natural numbers and
\* so has a natural retail price (rateCompletion).
LEMMA RateType ==
  ASSUME NEW mode, NEW u \in Usage
  PROVE  Rate(mode, u) \in Shares /\ Retail(Rate(mode, u)) \in Nat
<1>1. Rate(mode, u) \in Shares
  BY CompletionAssumption DEF Rate, NoShares, Shares
<1>2. QED
  BY <1>1 DEF Retail, Shares

\* What a plan reserves is a natural number.
LEMMA HoldType == \A p : Hold(p) \in Nat
  BY CompletionAssumption DEF Hold

\* A settlement within the user's balance leaves natural balances.
LEMMA SettledType ==
  ASSUME balance \in [Wallet -> Nat], NEW u \in User, NEW b \in Shares,
         balance[u] >= Retail(b)
  PROVE  Settled(u, b) \in [Wallet -> Nat]
<1>1. /\ u \in Wallet /\ u \notin SystemWallet
      /\ "provider_cost" \in Wallet /\ "developer" \in Wallet /\ "platform" \in Wallet
  BY CompletionAssumption DEF Wallet, SystemWallet
<1>2. b.upstream \in Nat /\ b.channel \in Nat /\ b.platform \in Nat /\ Retail(b) \in Nat
  BY DEF Shares, Retail
<1>3. [balance EXCEPT ![u] = @ - Retail(b)] \in [Wallet -> Nat]
  BY <1>1, <1>2
<1>4. QED
  BY <1>1, <1>2, <1>3 DEF Settled, SystemWallet

\* On the end users' wallets it is a debit of the one who asked.
LEMMA SettledOnUsers ==
  ASSUME balance \in [Wallet -> Nat], NEW u \in User, NEW b, Retail(b) \in Nat
  PROVE  \A v \in User : Settled(u, b)[v] = balance[v] - (IF v = u THEN Retail(b) ELSE 0)
<1>1. \A v \in User : v \in Wallet /\ v # "provider_cost" /\ v # "developer" /\ v # "platform"
  BY CompletionAssumption DEF Wallet, SystemWallet
<1>2. QED
  BY <1>1 DEF Settled

\* The ledger entries of a settlement are integers.
LEMMA EntriesType ==
  ASSUME NEW u, NEW b \in Shares
  PROVE  \A w \in Wallet : Entries(u, b)[w] \in Int
BY DEF Entries, Shares, Retail

\* A row belongs to an end user, who has a wallet.
LEMMA OwnerType == \A r \in Row : UserOfRow(r) \in User /\ UserOfRow(r) \in Wallet
  BY CompletionAssumption DEF UserOfRow, Wallet

-----------------------------------------------------------------------------
(* What the handlers' records are, and the two ways most steps change them.  *)

CallsTyped ==
  /\ call \in [Call -> CallRecord]
  /\ \A d \in Call : call[d].pc # "idle" => call[d].row # None /\ call[d].mode # None
  /\ \A d \in Call : call[d].pc = "settling" => call[d].answer # None

\* A handler that is done becomes idle.
LEMMA CallEnds ==
  ASSUME CallsTyped, NEW c \in Call, call' = [call EXCEPT ![c] = Idle]
  PROVE  CallsTyped'
BY DEF CallsTyped, CallRecord, Idle

\* A handler at work goes on to release its reservation or to set it aside.
LEMMA CallMovesOn ==
  ASSUME CallsTyped, NEW c \in Call, call[c].pc # "idle",
         NEW pc \in {"releasing", "marking"}, call' = [call EXCEPT ![c].pc = pc]
  PROVE  CallsTyped'
<1>1. call' \in [Call -> CallRecord]
  BY DEF CallsTyped, CallRecord
<1>2. QED
  BY <1>1 DEF CallsTyped, CallRecord

-----------------------------------------------------------------------------
(* Type correctness                                                        *)

\* Every reachable state has well-typed tables and handlers.
THEOREM TypeCorrect == Spec => []TypeOK
<1>1. Init => TypeOK
  BY CompletionAssumption
  DEF Init, TypeOK, Wallet, NoRequest, Idle, RowRecord, CallRecord, Status, Shares
<1>2. TypeOK /\ [Next]_vars => TypeOK'
  <2> SUFFICES ASSUME TypeOK, [Next]_vars PROVE TypeOK'
    OBVIOUS
  <2> USE DEF TypeOK, wallets, history
  <2>1. ASSUME NEW c \in Call, NEW r \in Row, NEW b \in Body, NEW p \in Plan,
               Reserve(c, r, b, p)
        PROVE  TypeOK'
    <3>1. NewRow(b, p) \in RowRecord /\ p # None /\ p.mode \in RouteMode /\ b # None
      BY CompletionAssumption DEF NewRow, RowRecord, Status
    <3>2. reserved' \in [User -> Nat]
      BY <2>1, HoldType, OwnerType DEF Reserve
    <3>3. request' \in [Row -> RowRecord]
      BY <2>1, <3>1 DEF Reserve
    <3>4. \A q \in Row : request'[q].status # "absent" =>
            request'[q].body # None /\ request'[q].plan # None
      BY <2>1, <3>1 DEF Reserve, NewRow
    <3>5. call' \in [Call -> CallRecord]
      BY <2>1, <3>1 DEF Reserve, CallRecord
    <3>6. /\ \A d \in Call : call'[d].pc # "idle" => call'[d].row # None /\ call'[d].mode # None
          /\ \A d \in Call : call'[d].pc = "settling" => call'[d].answer # None
      <4> SUFFICES ASSUME NEW d \in Call
                   PROVE  /\ call'[d].pc # "idle" => call'[d].row # None /\ call'[d].mode # None
                          /\ call'[d].pc = "settling" => call'[d].answer # None
        OBVIOUS
      <4>1. CASE d = c
        <5>1. call'[d] = [pc |-> "calling", row |-> r, mode |-> p.mode, answer |-> None]
          BY <2>1, <4>1 DEF Reserve
        <5>2. r # None /\ p.mode # None
          BY <3>1, CompletionAssumption
        <5>3. QED
          BY <5>1, <5>2
      <4>2. CASE d # c
        BY <2>1, <4>2 DEF Reserve
      <4>3. QED
        BY <4>1, <4>2
    <3>7. attempts' \in [Row -> Nat]
      BY <2>1 DEF Reserve
    <3>8. ASSUME NEW d \in Call, call'[d].pc # "idle"
          PROVE  request'[call'[d].row].status # "absent"
      <4>1. request'[r].status # "absent"
        BY <2>1 DEF Reserve, NewRow
      <4>2. CASE d = c
        BY <2>1, <4>1, <4>2 DEF Reserve
      <4>3. CASE d # c
        <5>1. call'[d] = call[d] /\ call[d].row \in Row
          BY <2>1, <3>8, <4>3 DEF Reserve, CallRecord
        <5>2. QED
          BY <2>1, <3>8, <4>1, <5>1 DEF Reserve
      <4>4. QED
        BY <4>2, <4>3
    <3>9. QED
      BY <2>1, <3>2, <3>3, <3>4, <3>5, <3>6, <3>7, <3>8 DEF Reserve
  <2>2. ASSUME NEW c \in Call, NEW r \in Row, NEW b \in Body, Replay(c, r, b)
        PROVE  TypeOK'
    BY <2>2 DEF Replay, Outcome
  <2>3. ASSUME NEW c \in Call, NEW r \in Row, NEW b \in Body, HoldExpired(c, r, b)
        PROVE  TypeOK'
    BY <2>3 DEF HoldExpired, RowRecord, Status
  <2>4. ASSUME NEW c \in Call, NEW u \in Usage, ProviderAnswers(c, u)
        PROVE  TypeOK'
    BY <2>4, CompletionAssumption DEF ProviderAnswers, CallRecord
  <2>5. ASSUME NEW c \in Call, FallBack(c)
        PROVE  TypeOK'
    <3>1. call[c].row \in Row
      BY <2>5 DEF FallBack, MayFallBack, CallRecord
    <3>2. call' \in [Call -> CallRecord]
      <4>1. call' = [call EXCEPT ![c].pc = "fallback", ![c].mode = "platform"]
        BY <2>5 DEF FallBack
      <4>2. call \in [Call -> CallRecord] /\ "platform" \in RouteMode
        BY DEF RouteMode
      <4> HIDE DEF TypeOK
      <4>3. QED BY <4>1, <4>2 DEF CallRecord
    <3>3. ASSUME NEW d \in Call
          PROVE  /\ call'[d].pc # "idle" => call'[d].row # None /\ call'[d].mode # None
                 /\ call'[d].pc = "settling" => call'[d].answer # None
      <4>1. CASE d = c
        <5>1. call'[d].pc = "fallback" /\ call'[d].row = call[c].row
              /\ call'[d].mode = "platform"
          BY <2>5, <4>1 DEF FallBack, CallRecord
        <5>2. call[c].row # None /\ "platform" # None
          BY <2>5, CompletionAssumption DEF FallBack, MayFallBack, RouteMode
        <5>3. QED
          BY <5>1, <5>2
      <4>2. CASE d # c
        BY <2>5, <4>2 DEF FallBack
      <4>3. QED
        BY <4>1, <4>2
    <3>4. attempts' \in [Row -> Nat]
      BY <2>5, <3>1 DEF FallBack
    <3>5. \A d \in Call : call'[d].pc # "idle" => request'[call'[d].row].status # "absent"
      BY <2>5 DEF FallBack, MayFallBack, CallRecord
    <3>6. QED
      BY <2>5, <3>2, <3>3, <3>4, <3>5 DEF FallBack
  <2>6. ASSUME NEW c \in Call, ProviderFails(c)
        PROVE  TypeOK'
    BY <2>6 DEF ProviderFails, CallRecord
  <2>7. ASSUME NEW c \in Call, Settle(c)
        PROVE  TypeOK'
    <3> DEFINE r == call[c].row
               p == request[r].plan
               u == UserOfRow(r)
               b == Rate(call[c].mode, call[c].answer)
    <3>1. /\ r \in Row /\ u \in User /\ u \in Wallet
          /\ call[c].mode \in RouteMode /\ call[c].answer \in Usage
      BY <2>7, OwnerType DEF Settle, CallRecord
    <3>2. b \in Shares /\ Retail(b) \in Nat /\ Hold(p) \in Nat
      BY <3>1, RateType, HoldType
    <3>3. balance' = Settled(u, b) /\ balance[u] >= Retail(b) /\ reserved[u] >= Hold(p)
      BY <2>7 DEF Settle, WalletCovers
    <3>4. balance' \in [Wallet -> Nat]
      BY <3>1, <3>2, <3>3, SettledType
    <3>5. reserved' \in [User -> Nat]
      BY <2>7, <3>1, <3>2, <3>3 DEF Settle
    <3>6. ledger' \in [Wallet -> Int]
      BY <2>7, <3>1, <3>2, EntriesType DEF Settle
    <3>7. /\ request' \in [Row -> RowRecord]
          /\ \A q \in Row : request'[q].status # "absent" =>
               request'[q].body # None /\ request'[q].plan # None
      BY <2>7, <3>1 DEF Settle, StillReserved, RowRecord, Status
    <3>8. usage' \in [Row -> UsageEvent \cup {None}]
      BY <2>7, <3>1, <3>2 DEF Settle, UsageEvent
    <3>9. CallsTyped'
      <4>1. CallsTyped /\ call[c].pc # "idle"
        BY <2>7 DEF CallsTyped, Settle
      <4>2. QED
        BY <2>7, <4>1, CallEnds, CallMovesOn DEF Settle
    <3>10. told' \subseteq Outcome
      <4>1. request[r].body \in Body
        BY <2>7, <3>1 DEF Settle, StillReserved, RowRecord
      <4>2. QED
        BY <2>7, <3>1, <4>1 DEF Settle, Outcome
    <3>11. ASSUME NEW d \in Call, call'[d].pc # "idle"
          PROVE  request'[call'[d].row].status # "absent"
      <4>1. call[d].pc # "idle" /\ call'[d].row = call[d].row /\ call[d].row \in Row
        BY <2>7, <3>11 DEF Settle, Idle, CallRecord
      <4>2. QED
        BY <2>7, <4>1 DEF Settle, StillReserved
    <3>12. QED
      BY <2>7, <3>4, <3>5, <3>6, <3>7, <3>8, <3>9, <3>10, <3>11 DEF Settle, CallsTyped
  <2>8. ASSUME NEW c \in Call, SettleAborts(c)
        PROVE  TypeOK'
    BY <2>8 DEF SettleAborts, CallRecord
  <2>9. ASSUME NEW c \in Call, Release(c)
        PROVE  TypeOK'
    <3>1. /\ call[c].row \in Row /\ UserOfRow(call[c].row) \in User
          /\ Hold(request[call[c].row].plan) \in Nat
      BY <2>9, OwnerType, HoldType DEF Release, CallRecord
    <3>2. reserved' \in [User -> Nat]
      BY <2>9, <3>1 DEF Release
    <3>3. /\ request' \in [Row -> RowRecord]
          /\ \A q \in Row : request'[q].status # "absent" =>
               request'[q].body # None /\ request'[q].plan # None
      <4>1. CASE StillReserved(call[c].row)
        <5>1. request' = [request EXCEPT ![call[c].row].status = "failed"]
          BY <2>9, <4>1 DEF Release
        <5>2. QED
          BY <3>1, <4>1, <5>1 DEF StillReserved, RowRecord, Status
      <4>2. CASE ~StillReserved(call[c].row)
        BY <2>9, <4>2 DEF Release
      <4>3. QED
        BY <4>1, <4>2
    <3>4. CallsTyped'
      <4>1. CallsTyped /\ call[c].pc # "idle"
        BY <2>9 DEF CallsTyped, Release
      <4>2. QED
        BY <2>9, <4>1, CallEnds, CallMovesOn DEF Release
    <3>5. told' \subseteq Outcome
      <4>1. request[call[c].row].body \in Body
        BY <2>9, <3>1 DEF Release, RowRecord
      <4>2. QED
        BY <2>9, <3>1, <4>1 DEF Release, Outcome
    <3>6. ASSUME NEW d \in Call, call'[d].pc # "idle"
          PROVE  request'[call'[d].row].status # "absent"
      <4>1. call[d].pc # "idle" /\ call'[d].row = call[d].row /\ call[d].row \in Row
        <5>1. call' = [call EXCEPT ![c] = Idle] \/ call' = [call EXCEPT ![c].pc = "marking"]
          BY <2>9 DEF Release
        <5>2. call[c].pc # "idle" /\ call \in [Call -> CallRecord]
          BY <2>9 DEF Release
        <5> HIDE DEF TypeOK
        <5>3. call[d].pc # "idle" /\ call'[d].row = call[d].row
          BY <3>6, <5>1, <5>2 DEF Idle, CallRecord
        <5>4. QED
          BY <5>3 DEF TypeOK, CallRecord
      <4>2. QED
        <5>1. CASE StillReserved(call[c].row)
          <6>1. request' = [request EXCEPT ![call[c].row].status = "failed"]
            BY <2>9, <5>1 DEF Release
          <6>2. QED
            BY <3>1, <4>1, <6>1 DEF RowRecord
        <5>2. CASE ~StillReserved(call[c].row)
          BY <2>9, <4>1, <5>2 DEF Release
        <5>3. QED
          BY <5>1, <5>2
    <3>7. QED
      BY <2>9, <3>2, <3>3, <3>4, <3>5, <3>6 DEF Release, CallsTyped
  <2>10. ASSUME NEW c \in Call, ReleaseAborts(c)
         PROVE  TypeOK'
    BY <2>10 DEF ReleaseAborts, CallRecord
  <2>11. ASSUME NEW c \in Call, MarkRequiresReview(c)
         PROVE  TypeOK'
    <3>1. request' \in [Row -> RowRecord] /\ \A q \in Row :
             /\ request'[q].status # "absent" <=> request[q].status # "absent"
             /\ request'[q].body = request[q].body /\ request'[q].plan = request[q].plan
      BY <2>11 DEF MarkRequiresReview, StillReserved, RowRecord, Status, CallRecord
    <3>2. CallsTyped'
      BY <2>11, CallEnds DEF MarkRequiresReview, CallsTyped
    <3>3. ASSUME NEW d \in Call, call'[d].pc # "idle"
          PROVE  request'[call'[d].row].status # "absent"
      BY <2>11, <3>1, <3>3 DEF MarkRequiresReview, Idle, CallRecord
    <3>4. QED
      BY <2>11, <3>1, <3>2, <3>3 DEF MarkRequiresReview, CallsTyped
  <2>12. ASSUME NEW c \in Call, Crash(c)
         PROVE  TypeOK'
    BY <2>12 DEF Crash, CallRecord, Idle
  <2>13. ASSUME NEW r \in Row, Expire(r)
         PROVE  TypeOK'
    <3>1. request' \in [Row -> RowRecord] /\ \A q \in Row :
             /\ request'[q].status = request[q].status
             /\ request'[q].body = request[q].body /\ request'[q].plan = request[q].plan
      BY <2>13 DEF Expire, RowRecord
    <3>2. \A d \in Call : call[d].pc # "idle" => call[d].row \in Row
      BY DEF CallRecord
    <3>3. QED
      BY <2>13, <3>1, <3>2 DEF Expire
  <2>14. ASSUME NEW s \in Session, EndSession(s)
         PROVE  TypeOK'
    BY <2>14 DEF EndSession
  <2>15. ASSUME NextMonth
         PROVE  TypeOK'
    BY <2>15, CompletionAssumption DEF NextMonth
  <2>16. ASSUME NEW u \in User, NEW a \in Amount, Credit(u, a)
         PROVE  TypeOK'
    BY <2>16, CompletionAssumption DEF Credit, Wallet
  <2>17. ASSUME NEW u \in User, NEW a \in Amount, Debit(u, a)
         PROVE  TypeOK'
    BY <2>17, CompletionAssumption DEF Debit, Available, Wallet
  <2>18. CASE UNCHANGED vars
    BY <2>18 DEF vars
  <2>19. QED
    BY <2>1, <2>2, <2>3, <2>4, <2>5, <2>6, <2>7, <2>8, <2>9, <2>10, <2>11, <2>12,
       <2>13, <2>14, <2>15, <2>16, <2>17, <2>18
    DEF Next, Handler, Provider
<1>3. QED
  BY <1>1, <1>2, PTL DEF Spec

-----------------------------------------------------------------------------
(* The rows that hold money of a user, and how steps change them.          *)

\* They are finitely many, so their number can be counted.
LEMMA HeldFinite ==
  \A u : IsFiniteSet(HeldRows(u)) /\ Cardinality(HeldRows(u)) \in Nat
BY CompletionAssumption, FS_Subset, FS_CardinalityType DEF HeldRows

\* A step that leaves every row's status group and route alone leaves them alone.
LEMMA HeldSame ==
  ASSUME \A r \in Row : /\ IsHeld(r)' <=> IsHeld(r)
                        /\ IsHeld(r) => request'[r].plan = request[r].plan
  PROVE  \A u : HeldRows(u)' = HeldRows(u)
BY DEF HeldRows, UserOfRow

\* What a plan holds, counted in worst-case prices: one or none.
LEMMA HoldCount ==
  ASSUME NEW n \in Nat, NEW p
  PROVE  /\ ReservedRetail * (n + 1) = ReservedRetail * n + ReservedRetail
         /\ n > 0 => /\ n - 1 \in Nat
                     /\ ReservedRetail * (n - 1) = ReservedRetail * n - ReservedRetail
                     /\ ReservedRetail <= ReservedRetail * n
<1>1. ReservedRetail \in Nat
  BY CompletionAssumption
<1>2. \A a, m \in Nat : a * (m + 1) = a * m + a
  OBVIOUS
<1>3. \A a, m \in Nat : 0 <= a * m
  OBVIOUS
<1>4. ASSUME n > 0
      PROVE  n - 1 \in Nat /\ ReservedRetail * n = ReservedRetail * (n - 1) + ReservedRetail
  BY <1>1, <1>2, <1>4
<1>5. QED
  BY <1>1, <1>2, <1>3, <1>4

\* A row that begins to hold a plan's price adds exactly that price.
LEMMA HeldAdds ==
  ASSUME NEW r \in Row, NEW p,
         ~IsHeld(r), IsHeld(r)', request'[r].plan = p,
         \A q \in Row \ {r} : request'[q] = request[q]
  PROVE  \A u : ReservedRetail * Cardinality(HeldRows(u)') =
                  ReservedRetail * Cardinality(HeldRows(u))
                    + (IF u = UserOfRow(r) THEN Hold(p) ELSE 0)
<1> SUFFICES ASSUME NEW u
             PROVE  ReservedRetail * Cardinality(HeldRows(u)') =
                      ReservedRetail * Cardinality(HeldRows(u))
                        + (IF u = UserOfRow(r) THEN Hold(p) ELSE 0)
  OBVIOUS
<1>1. r \notin HeldRows(u)
  BY DEF HeldRows
<1>2. \A q \in Row \ {r} : IsHeld(q)' <=> IsHeld(q)
  BY DEF IsHeld
<1>3. CASE u = UserOfRow(r) /\ ReservesAsPlatform(p)
  <2>1. HeldRows(u)' = HeldRows(u) \cup {r}
    BY <1>2, <1>3 DEF HeldRows, UserOfRow
  <2>2. Cardinality(HeldRows(u)') = Cardinality(HeldRows(u)) + 1
    BY <2>1, <1>1, HeldFinite, FS_AddElement
  <2>3. QED
    BY <2>2, <1>3, HeldFinite, HoldCount DEF Hold
<1>4. CASE ~(u = UserOfRow(r) /\ ReservesAsPlatform(p))
  <2>1. HeldRows(u)' = HeldRows(u)
    BY <1>1, <1>2, <1>4 DEF HeldRows, UserOfRow
  <2>2. Cardinality(HeldRows(u)) \in Nat /\ ReservedRetail \in Nat
    BY HeldFinite, CompletionAssumption
  <2>3. (IF u = UserOfRow(r) THEN Hold(p) ELSE 0) = 0
    BY <1>4 DEF Hold
  <2>4. QED
    BY <2>1, <2>2, <2>3
<1>5. QED
  BY <1>3, <1>4

\* A row that no longer holds its price gives exactly that price up.
LEMMA HeldDrops ==
  ASSUME NEW r \in Row, IsHeld(r), ~IsHeld(r)',
         \A q \in Row \ {r} : request'[q] = request[q]
  PROVE  \A u : ReservedRetail * Cardinality(HeldRows(u)') =
                  ReservedRetail * Cardinality(HeldRows(u))
                    - (IF u = UserOfRow(r) THEN Hold(request[r].plan) ELSE 0)
<1> SUFFICES ASSUME NEW u
             PROVE  ReservedRetail * Cardinality(HeldRows(u)') =
                      ReservedRetail * Cardinality(HeldRows(u))
                        - (IF u = UserOfRow(r) THEN Hold(request[r].plan) ELSE 0)
  OBVIOUS
<1>1. \A q \in Row \ {r} : IsHeld(q)' <=> IsHeld(q)
  BY DEF IsHeld
<1>2. HeldRows(u)' = HeldRows(u) \ {r}
  BY <1>1 DEF HeldRows, UserOfRow
<1>3. CASE u = UserOfRow(r) /\ ReservesAsPlatform(request[r].plan)
  <2>1. r \in HeldRows(u)
    BY <1>3 DEF HeldRows
  <2>2. /\ Cardinality(HeldRows(u)') = Cardinality(HeldRows(u)) - 1
        /\ Cardinality(HeldRows(u)) > 0
    BY <1>2, <2>1, HeldFinite, FS_RemoveElement, FS_EmptySet
  <2>3. QED
    BY <2>2, <1>3, HeldFinite, HoldCount DEF Hold
<1>4. CASE ~(u = UserOfRow(r) /\ ReservesAsPlatform(request[r].plan))
  <2>1. r \notin HeldRows(u)
    BY <1>4 DEF HeldRows
  <2>2. HeldRows(u)' = HeldRows(u)
    BY <1>2, <2>1
  <2>3. Cardinality(HeldRows(u)) \in Nat /\ ReservedRetail \in Nat
    BY HeldFinite, CompletionAssumption
  <2>4. (IF u = UserOfRow(r) THEN Hold(request[r].plan) ELSE 0) = 0
    BY <1>4 DEF Hold
  <2>5. QED
    BY <2>2, <2>3, <2>4
<1>5. QED
  BY <1>3, <1>4

-----------------------------------------------------------------------------
(* The wallets back the reservations                                       *)

\* A step that touches neither the reserved balances, nor the end users' balances,
\* nor which rows hold what, keeps the reservations backed.
LEMMA BackedSame ==
  ASSUME ReservationsBacked, reserved' = reserved,
         \A u \in User : balance'[u] = balance[u],
         \A r \in Row : /\ IsHeld(r)' <=> IsHeld(r)
                        /\ IsHeld(r) => request'[r].plan = request[r].plan
  PROVE  ReservationsBacked'
<1>1. \A u : HeldRows(u)' = HeldRows(u)
  BY HeldSame
<1>2. QED
  BY <1>1 DEF ReservationsBacked

\* Whatever handlers, retries, crashes and debits interleave, the reserved balance of
\* a wallet is what its open and under-review requests hold, and it is covered.
THEOREM ReservationsAreBacked == Spec => []ReservationsBacked
<1>1. Init => ReservationsBacked
  <2> SUFFICES ASSUME Init, NEW u \in User
               PROVE  /\ reserved[u] = ReservedRetail * Cardinality(HeldRows(u))
                      /\ reserved[u] <= balance[u]
    BY DEF ReservationsBacked
  <2>1. HeldRows(u) = {}
    BY DEF Init, HeldRows, IsHeld, NoRequest
  <2>2. ReservedRetail * Cardinality(HeldRows(u)) = 0
    BY <2>1, FS_EmptySet, CompletionAssumption
  <2>3. QED
    BY <2>2, CompletionAssumption DEF Init, Wallet
<1>2. TypeOK /\ ReservationsBacked /\ [Next]_vars => ReservationsBacked'
  <2> SUFFICES ASSUME TypeOK, ReservationsBacked, [Next]_vars PROVE ReservationsBacked'
    OBVIOUS
  <2> USE DEF wallets, history
  <2>1. ASSUME NEW c \in Call, NEW r \in Row, NEW b \in Body, NEW p \in Plan,
               Reserve(c, r, b, p)
        PROVE  ReservationsBacked'
    <3>1. \A u : ReservedRetail * Cardinality(HeldRows(u)') =
                   ReservedRetail * Cardinality(HeldRows(u))
                     + (IF u = UserOfRow(r) THEN Hold(p) ELSE 0)
      <4>1. ~IsHeld(r) /\ IsHeld(r)' /\ request'[r].plan = p
        BY <2>1 DEF Reserve, IsNew, IsHeld, NewRow, TypeOK
      <4>2. \A q \in Row \ {r} : request'[q] = request[q]
        BY <2>1 DEF Reserve, TypeOK
      <4>3. QED
        BY <4>1, <4>2, HeldAdds
    <3>2. \A u \in User : /\ reserved'[u] = reserved[u]
                                + (IF u = UserOfRow(r) THEN Hold(p) ELSE 0)
                          /\ balance'[u] = balance[u]
                          /\ u = UserOfRow(r) => reserved[u] + Hold(p) <= balance[u]
                          /\ reserved[u] \in Nat /\ balance[u] \in Nat /\ Hold(p) \in Nat
      BY <2>1, HoldType, OwnerType DEF Reserve, Available, TypeOK, Wallet
    <3>3. QED
      BY <3>1, <3>2 DEF ReservationsBacked
  <2>2. ASSUME NEW c \in Call, NEW r \in Row, NEW b \in Body, Replay(c, r, b)
        PROVE  ReservationsBacked'
    BY <2>2, BackedSame DEF Replay, IsHeld
  <2>3. ASSUME NEW c \in Call, NEW r \in Row, NEW b \in Body, HoldExpired(c, r, b)
        PROVE  ReservationsBacked'
    BY <2>3, BackedSame DEF HoldExpired, IsHeld, TypeOK, RowRecord
  <2>4. ASSUME NEW c \in Call, Provider(c)
        PROVE  ReservationsBacked'
    BY <2>4, BackedSame DEF Provider, ProviderAnswers, FallBack, ProviderFails, IsHeld
  <2>5. ASSUME NEW c \in Call, Settle(c)
        PROVE  ReservationsBacked'
    <3>. PICK r \in Row : r = call[c].row
      BY <2>5 DEF Settle, TypeOK, CallRecord
    <3> DEFINE p == request[r].plan
               b == Rate(call[c].mode, call[c].answer)
    <3>1. UserOfRow(r) \in User /\ call[c].answer \in Usage
      BY <2>5, OwnerType DEF Settle, TypeOK, CallRecord
    <3>2. \A u : ReservedRetail * Cardinality(HeldRows(u)') =
                   ReservedRetail * Cardinality(HeldRows(u))
                     - (IF u = UserOfRow(r) THEN Hold(p) ELSE 0)
      <4>1. IsHeld(r) /\ ~IsHeld(r)'
        BY <2>5, <3>1 DEF Settle, StillReserved, IsHeld, TypeOK, RowRecord
      <4>2. \A q \in Row \ {r} : request'[q] = request[q]
        BY <2>5, <3>1 DEF Settle, TypeOK
      <4>3. QED
        BY <3>1, <4>1, <4>2, HeldDrops
    <3>3. Retail(b) \in Nat /\ Hold(p) \in Nat /\ Retail(b) <= Hold(p)
      BY <2>5, <3>1, RateType, HoldType DEF Settle, WithinReservation
    <3>4. \A u \in User : balance'[u] = balance[u]
                              - (IF u = UserOfRow(r) THEN Retail(b) ELSE 0)
      BY <2>5, <3>1, <3>3, SettledOnUsers DEF Settle, TypeOK
    <3>5. \A u \in User : reserved'[u] = reserved[u]
                              - (IF u = UserOfRow(r) THEN Hold(p) ELSE 0)
      BY <2>5, <3>1, <3>3 DEF Settle, TypeOK
    <3>6. \A u \in User : reserved[u] \in Nat /\ balance[u] \in Nat
      BY DEF TypeOK, Wallet
    <3>7. QED
      BY <3>2, <3>3, <3>4, <3>5, <3>6 DEF ReservationsBacked
  <2>6. ASSUME NEW c \in Call, Release(c)
        PROVE  ReservationsBacked'
    <3>. PICK r \in Row : r = call[c].row
      BY <2>6 DEF Release, TypeOK, CallRecord
    <3> DEFINE p == request[r].plan
    <3>1. CASE ~StillReserved(r)
      BY <2>6, <3>1, BackedSame DEF Release, IsHeld
    <3>2. CASE StillReserved(r)
      <4>1. UserOfRow(r) \in User /\ Hold(p) \in Nat
        BY OwnerType, HoldType
      <4>2. /\ request' = [request EXCEPT ![r].status = "failed"]
            /\ reserved' = [reserved EXCEPT ![UserOfRow(r)] = @ - Hold(p)]
            /\ balance' = balance
        BY <2>6, <3>2 DEF Release
      <4>3. IsHeld(r) /\ ~IsHeld(r)' /\ \A q \in Row \ {r} : request'[q] = request[q]
        BY <3>2, <4>1, <4>2 DEF StillReserved, IsHeld, TypeOK, RowRecord
      <4>4. \A u : ReservedRetail * Cardinality(HeldRows(u)') =
                     ReservedRetail * Cardinality(HeldRows(u))
                       - (IF u = UserOfRow(r) THEN Hold(p) ELSE 0)
        BY <4>1, <4>3, HeldDrops
      <4>5. \A u \in User : /\ reserved[u] \in Nat /\ balance[u] \in Nat
                            /\ reserved'[u] = reserved[u]
                                  - (IF u = UserOfRow(r) THEN Hold(p) ELSE 0)
        BY <4>1, <4>2 DEF TypeOK, Wallet
      <4>6. QED
        BY <4>1, <4>2, <4>4, <4>5 DEF ReservationsBacked
    <3>3. QED
      BY <3>1, <3>2
  <2>7. ASSUME NEW c \in Call, SettleAborts(c) \/ ReleaseAborts(c) \/ Crash(c)
        PROVE  ReservationsBacked'
    BY <2>7, BackedSame DEF SettleAborts, ReleaseAborts, Crash, IsHeld
  <2>8. ASSUME NEW c \in Call, MarkRequiresReview(c)
        PROVE  ReservationsBacked'
    <3>1. \A q \in Row : /\ IsHeld(q)' <=> IsHeld(q)
                         /\ request'[q].plan = request[q].plan
      BY <2>8 DEF MarkRequiresReview, StillReserved, IsHeld, TypeOK, RowRecord
    <3>2. QED
      BY <2>8, <3>1, BackedSame DEF MarkRequiresReview
  <2>9. ASSUME NEW r \in Row, Expire(r)
        PROVE  ReservationsBacked'
    BY <2>9, BackedSame DEF Expire, IsHeld, TypeOK, RowRecord
  <2>10. ASSUME NEW s \in Session, EndSession(s)
         PROVE  ReservationsBacked'
    BY <2>10, BackedSame DEF EndSession, IsHeld
  <2>11. ASSUME NextMonth
         PROVE  ReservationsBacked'
    BY <2>11, BackedSame DEF NextMonth, IsHeld
  <2>12. ASSUME NEW u \in User, NEW a \in Amount, Credit(u, a) \/ Debit(u, a)
         PROVE  ReservationsBacked'
    <3>1. \A v : HeldRows(v)' = HeldRows(v)
      BY <2>12, HeldSame DEF Credit, Debit, IsHeld
    <3>2. \A v \in User : reserved[v] \in Nat /\ balance[v] \in Nat /\ v \in Wallet
      BY DEF TypeOK, Wallet
    <3>3. reserved' = reserved /\ a \in Nat
      BY <2>12, CompletionAssumption DEF Credit, Debit
    <3>4. \A v \in User : reserved[v] <= balance'[v]
      BY <2>12, <3>2, <3>3 DEF Credit, Debit, Available, ReservationsBacked, TypeOK
    <3>5. QED
      BY <3>1, <3>3, <3>4 DEF ReservationsBacked
  <2>13. CASE UNCHANGED vars
    BY <2>13, BackedSame DEF vars, IsHeld
  <2>14. QED
    BY <2>1, <2>2, <2>3, <2>4, <2>5, <2>6, <2>7, <2>8, <2>9, <2>10, <2>11, <2>12, <2>13
    DEF Next, Handler
<1>3. QED
  BY <1>1, <1>2, TypeCorrect, PTL DEF Spec

\* A wallet that backs its reservations covers every admissible answer.
THEOREM AnswersAreFunded == Spec => []EveryAnswerIsFunded
<1>1. TypeOK /\ ReservationsBacked => EveryAnswerIsFunded
  <2> SUFFICES ASSUME TypeOK, ReservationsBacked, NEW c \in Call,
                      call[c].pc = "settling", request[call[c].row].status = "reserved",
                      WithinReservation(c)
               PROVE  WalletCovers(UserOfRow(call[c].row),
                                   Retail(Rate(call[c].mode, call[c].answer)),
                                   Hold(request[call[c].row].plan))
    BY DEF EveryAnswerIsFunded
  <2> DEFINE r == call[c].row
             u == UserOfRow(r)
             p == request[r].plan
             x == Retail(Rate(call[c].mode, call[c].answer))
  <2>1. r \in Row /\ u \in User /\ call[c].answer \in Usage
    BY OwnerType DEF TypeOK, CallRecord
  <2>2. x \in Nat /\ Hold(p) \in Nat /\ x <= Hold(p)
    BY <2>1, RateType, HoldType DEF WithinReservation
  <2>3. Hold(p) <= reserved[u]
    <3>1. CASE ReservesAsPlatform(p)
      <4>1. r \in HeldRows(u)
        BY <2>1, <3>1 DEF HeldRows, IsHeld
      <4>2. Cardinality(HeldRows(u)) > 0
        BY <4>1, HeldFinite, FS_EmptySet
      <4>3. ReservedRetail <= ReservedRetail * Cardinality(HeldRows(u))
        BY <4>2, HeldFinite, HoldCount
      <4>4. QED
        BY <2>1, <3>1, <4>3 DEF ReservationsBacked, Hold
    <3>2. CASE ~ReservesAsPlatform(p)
      BY <2>1, <3>2 DEF Hold, TypeOK
    <3>3. QED
      BY <3>1, <3>2
  <2>4. reserved[u] \in Nat /\ balance[u] \in Nat /\ reserved[u] <= balance[u]
    BY <2>1 DEF ReservationsBacked, TypeOK, Wallet
  <2>5. QED
    BY <2>2, <2>3, <2>4 DEF WalletCovers
<1>2. QED
  BY <1>1, TypeCorrect, ReservationsAreBacked, PTL

-----------------------------------------------------------------------------
(* The ledger, and what is final                                           *)

\* Every balance is the sum of its ledger entries.
THEOREM LedgerAgrees == Spec => []LedgerMatches
<1>1. Init => LedgerMatches
  BY DEF Init, LedgerMatches
<1>2. TypeOK /\ LedgerMatches /\ [Next]_vars => LedgerMatches'
  <2> SUFFICES ASSUME TypeOK, LedgerMatches, [Next]_vars PROVE LedgerMatches'
    OBVIOUS
  <2> USE DEF LedgerMatches, wallets, history
  <2>1. ASSUME NEW c \in Call, Settle(c)
        PROVE  LedgerMatches'
    <3> DEFINE u == UserOfRow(call[c].row)
               b == Rate(call[c].mode, call[c].answer)
    <3>1. u \in User /\ b \in Shares
      BY <2>1, OwnerType, RateType DEF Settle, TypeOK, CallRecord
    <3>2. /\ ledger' = [w \in Wallet |-> ledger[w] + Entries(u, b)[w]]
          /\ balance' = Settled(u, b)
      BY <2>1 DEF Settle
    <3>3. Settled(u, b) = [w \in Wallet |-> balance[w] + Entries(u, b)[w]]
      <4>1. /\ u \in Wallet /\ u # "provider_cost" /\ u # "developer" /\ u # "platform"
            /\ "provider_cost" \in Wallet /\ "developer" \in Wallet /\ "platform" \in Wallet
        BY <3>1, CompletionAssumption DEF Wallet, SystemWallet
      <4>2. /\ Settled(u, b) \in [Wallet -> Int]
            /\ \A w \in Wallet : Settled(u, b)[w] = balance[w] + Entries(u, b)[w]
        BY <3>1, <4>1 DEF Settled, Entries, TypeOK, Shares, Retail
      <4>3. QED
        BY <4>2
    <3>4. QED
      BY <3>2, <3>3
  <2>2. ASSUME NEW u \in User, NEW a \in Amount, Credit(u, a) \/ Debit(u, a)
        PROVE  LedgerMatches'
    BY <2>2 DEF Credit, Debit
  <2>3. CASE UNCHANGED wallets
    BY <2>3
  <2>4. QED
    BY <2>1, <2>2, <2>3
    DEF Next, Handler, Provider, vars, Reserve, Replay, HoldExpired, ProviderAnswers,
        FallBack, ProviderFails, SettleAborts, Release, ReleaseAborts,
        MarkRequiresReview, Crash, Expire, EndSession, NextMonth
<1>3. QED
  BY <1>1, <1>2, TypeCorrect, PTL DEF Spec

\* Settled, failed and under-review rows never change again.
LEMMA FinishedStays ==
  ASSUME TypeOK, [Next]_vars, NEW r \in Row,
         request[r].status \in {"settled", "failed", "requires_review"}
  PROVE  request'[r] = request[r]
<1> USE DEF TypeOK, wallets, history
<1>1. ASSUME NEW c \in Call, NEW q \in Row, NEW b \in Body, NEW p \in Plan,
             Reserve(c, q, b, p)
      PROVE  request'[r] = request[r]
  BY <1>1 DEF Reserve, IsNew
<1>2. ASSUME NEW c \in Call, NEW q \in Row, NEW b \in Body, HoldExpired(c, q, b)
      PROVE  request'[r] = request[r]
  BY <1>2 DEF HoldExpired
<1>3. ASSUME NEW c \in Call, Settle(c)
      PROVE  request'[r] = request[r]
  BY <1>3 DEF Settle, StillReserved
<1>4. ASSUME NEW c \in Call, Release(c)
      PROVE  request'[r] = request[r]
  BY <1>4 DEF Release, StillReserved
<1>5. ASSUME NEW c \in Call, MarkRequiresReview(c)
      PROVE  request'[r] = request[r]
  BY <1>5 DEF MarkRequiresReview, StillReserved
<1>6. ASSUME NEW q \in Row, Expire(q)
      PROVE  request'[r] = request[r]
  BY <1>6 DEF Expire
<1>7. CASE UNCHANGED request
  BY <1>7
<1>8. QED
  BY <1>1, <1>2, <1>3, <1>4, <1>5, <1>6, <1>7
  DEF Next, Handler, Provider, vars, Replay, ProviderAnswers, FallBack, ProviderFails,
      SettleAborts, ReleaseAborts, Crash, EndSession, NextMonth, Credit, Debit

\* No step of any behaviour changes a settled, failed or under-review row: late
\* handlers and retries find it as it is (the status checks of settleCompletion,
\* releaseReservation and markRequiresReview).
THEOREM FinishedRowsStay == Spec => FinishedRowsAreFinal
<1>1. TypeOK /\ [Next]_vars
        => [\A r \in Row : request[r].status \in {"settled", "failed", "requires_review"}
                            => request'[r] = request[r]]_vars
  BY FinishedStays
<1>2. QED
  BY <1>1, TypeCorrect, PTL DEF Spec, FinishedRowsAreFinal

-----------------------------------------------------------------------------
(* What the usage events add up to, and the spend limits.                  *)

\* What a step does to the row q that it neither inserts nor leaves alone.
RowStays(q) == request'[q] = request[q] /\ usage'[q] = usage[q]

RowIsHeldOrFreed(q) ==
  /\ request[q].status = "reserved"
  /\ request'[q].status \in {"reserved", "requires_review", "failed"}
  /\ request'[q].plan = request[q].plan /\ request'[q].month = request[q].month
  /\ usage'[q] = usage[q]

RowIsSettled(q) ==
  /\ request[q].status = "reserved" /\ request'[q].status = "settled"
  /\ request'[q].plan = request[q].plan /\ request'[q].month = request[q].month
  /\ usage'[q] \in UsageEvent /\ usage'[q].month = month
  /\ Retail(usage'[q].shares) <= Hold(request[q].plan)

\* What every step but a reservation does to the rows, and to the revenue.
LEMMA RowSteps ==
  ASSUME TypeOK, [Next]_vars,
         ~\E c \in Call, r \in Row, b \in Body, p \in Plan : Reserve(c, r, b, p)
  PROVE  /\ \A q \in Row : RowStays(q) \/ RowIsHeldOrFreed(q) \/ RowIsSettled(q)
         /\ month' \in Nat /\ month' >= month
<1> USE DEF TypeOK, wallets, history
<1>1. ASSUME NEW c \in Call, NEW r \in Row, NEW b \in Body, HoldExpired(c, r, b)
      PROVE  \A q \in Row : RowStays(q) \/ RowIsHeldOrFreed(q)
  BY <1>1 DEF HoldExpired, RowStays, RowIsHeldOrFreed, RowRecord
<1>2. ASSUME NEW c \in Call, Settle(c)
      PROVE  \A q \in Row : RowStays(q) \/ RowIsSettled(q)
  <2>1. PICK r, e : r = call[c].row
                  /\ e = [mode |-> call[c].mode, shares |-> Rate(call[c].mode, call[c].answer),
                          month |-> month]
    OBVIOUS
  <2>2. r \in Row /\ call[c].mode \in RouteMode /\ call[c].answer \in Usage
    BY <1>2, <2>1 DEF Settle, CallRecord
  <2>3. e \in UsageEvent
    BY <2>1, <2>2, RateType DEF UsageEvent
  <2>4. /\ request[r].status = "reserved"
        /\ request' = [request EXCEPT ![r].status = "settled"]
        /\ usage' = [usage EXCEPT ![r] = e]
        /\ Retail(e.shares) <= Hold(request[r].plan)
        /\ e.month = month
    BY <1>2, <2>1 DEF Settle, StillReserved, WithinReservation
  <2>5. RowIsSettled(r)
    BY <2>2, <2>3, <2>4 DEF RowIsSettled, RowRecord
  <2>6. \A q \in Row : q # r => RowStays(q)
    BY <2>4 DEF RowStays
  <2>7. QED
    BY <2>5, <2>6
<1>3. ASSUME NEW c \in Call, Release(c)
      PROVE  \A q \in Row : RowStays(q) \/ RowIsHeldOrFreed(q)
  <2>1. call[c].row \in Row
    BY <1>3 DEF Release, CallRecord
  <2>2. CASE StillReserved(call[c].row)
    <3>1. /\ request' = [request EXCEPT ![call[c].row].status = "failed"]
          /\ usage' = usage
      BY <1>3, <2>2 DEF Release
    <3>2. QED
      BY <2>1, <2>2, <3>1 DEF StillReserved, RowStays, RowIsHeldOrFreed, RowRecord
  <2>3. CASE ~StillReserved(call[c].row)
    BY <1>3, <2>3 DEF Release, RowStays
  <2>4. QED
    BY <2>2, <2>3
<1>4. ASSUME NEW c \in Call, MarkRequiresReview(c)
      PROVE  \A q \in Row : RowStays(q) \/ RowIsHeldOrFreed(q)
  <2>1. call[c].row \in Row
    BY <1>4 DEF MarkRequiresReview, CallRecord
  <2>2. QED
    BY <1>4, <2>1 DEF MarkRequiresReview, StillReserved, RowStays, RowIsHeldOrFreed, RowRecord
<1>5. ASSUME NEW r \in Row, Expire(r)
      PROVE  \A q \in Row : RowStays(q) \/ RowIsHeldOrFreed(q)
  BY <1>5 DEF Expire, RowStays, RowIsHeldOrFreed, RowRecord
<1>6. ASSUME UNCHANGED <<request, usage>>
      PROVE  \A q \in Row : RowStays(q)
  BY <1>6 DEF RowStays
<1>7. CASE NextMonth
  <2>1. month \in Nat
    BY CompletionAssumption
  <2>2. UNCHANGED <<request, usage>> /\ month' = month + 1
    BY <1>7 DEF NextMonth
  <2>3. month' \in Nat /\ month' >= month
    BY <2>1, <2>2
  <2>4. QED
    BY <1>6, <2>2, <2>3
<1>8. CASE ~NextMonth
  <2>1. month' = month
    BY <1>8
    DEF Next, Handler, Provider, vars, Replay, ProviderAnswers, FallBack, ProviderFails,
        Settle, SettleAborts, Release, ReleaseAborts, MarkRequiresReview, Crash, Expire,
        EndSession, Credit, Debit, HoldExpired
  <2>2. month \in Nat
    BY CompletionAssumption
  <2>3. \A q \in Row : RowStays(q) \/ RowIsHeldOrFreed(q) \/ RowIsSettled(q)
    BY <1>1, <1>2, <1>3, <1>4, <1>5, <1>6, <1>8
    DEF Next, Handler, Provider, vars, Replay, ProviderAnswers, FallBack, ProviderFails,
        SettleAborts, ReleaseAborts, Crash, EndSession, Credit, Debit
  <2>4. QED
    BY <2>1, <2>2, <2>3
<1>9. QED
  BY <1>7, <1>8

BookedOf(w) == SumFunctionOnSet([r \in Row |-> IF usage[r] = None THEN 0
                                               ELSE usage[r].shares[w]], Row)

\* What the revenue wallets hold is what the usage events give them.
BooksAgree ==
  /\ balance["provider_cost"] = BookedOf("upstream")
  /\ balance["developer"] = BookedOf("channel")
  /\ balance["platform"] = BookedOf("platform")
  /\ \A r \in Row : usage[r] # None <=> request[r].status = "settled"

\* The sums over rows are those of the property.
LEMMA BooksAreRevenue == BooksAgree <=> RevenueMatchesUsage
BY DEF BooksAgree, RevenueMatchesUsage, BookedOf, SumFunction

\* A usage event that was not there adds its share.
LEMMA EventBooks ==
  ASSUME usage \in [Row -> UsageEvent \cup {None}], NEW r \in Row, usage[r] = None,
         NEW e \in UsageEvent, usage' = [usage EXCEPT ![r] = e],
         NEW w \in {"upstream", "channel", "platform"}
  PROVE  BookedOf(w)' = BookedOf(w) + e.shares[w]
<1>1. PICK f, g : /\ f = [q \in Row |-> IF usage[q] = None THEN 0 ELSE usage[q].shares[w]]
                  /\ g = [q \in Row |-> IF usage'[q] = None THEN 0 ELSE usage'[q].shares[w]]
  OBVIOUS
<1>2. IsFiniteSet(Row) /\ None \notin UsageEvent
  <2>1. MaxMonth \in Nat /\ IsFiniteSet(Row)
    BY CompletionAssumption
  <2>2. UsageEvent \subseteq [mode : RouteMode, shares : Shares, month : Nat]
    BY <2>1 DEF UsageEvent
  <2>3. QED
    BY <2>1, <2>2, CompletionAssumption
<1>3. \A x \in UsageEvent : x.shares[w] \in Nat
  BY DEF UsageEvent, Shares
<1>4. \A q \in Row : f[q] \in Int /\ g[q] \in Int
  <2>1. \A q \in Row : usage[q] \in UsageEvent \cup {None} /\ usage'[q] \in UsageEvent \cup {None}
    OBVIOUS
  <2>2. QED
    BY <1>1, <1>3, <2>1
<1>5. f[r] = 0 /\ g[r] = e.shares[w] /\ \A q \in Row \ {r} : g[q] = f[q]
  BY <1>1, <1>2
<1>6. SumFunctionOnSet(g, Row) = SumFunctionOnSet(f, Row) - f[r] + g[r]
  <2>1. \A q \in Row \ {r} : g[q] = f[q]
    BY <1>5
  <2>2. QED
    BY <1>2, <1>4, <2>1, SumChange
<1>7. SumFunctionOnSet(f, Row) \in Int /\ e.shares[w] \in Int
  BY <1>2, <1>3, <1>4, SumInt
<1>8. QED
  BY <1>1, <1>5, <1>6, <1>7 DEF BookedOf

\* Nothing is booked at first.
LEMMA BooksInit == Init => BooksAgree
<1> SUFFICES ASSUME Init PROVE BooksAgree
  OBVIOUS
<1>1. /\ balance["provider_cost"] = 0 /\ balance["developer"] = 0 /\ balance["platform"] = 0
  BY CompletionAssumption DEF Init, Wallet, SystemWallet
<1>2. ASSUME NEW w PROVE BookedOf(w) = 0
  <2>1. PICK f : f = [q \in Row |-> IF usage[q] = None THEN 0 ELSE usage[q].shares[w]]
    OBVIOUS
  <2>2. \A q \in Row : f[q] = 0
    BY <2>1 DEF Init
  <2>3. SumFunctionOnSet(f, Row) = 0
    BY <2>2, CompletionAssumption, SumZero
  <2>4. QED
    BY <2>1, <2>3 DEF BookedOf
<1>3. QED
  BY <1>1, <1>2 DEF BooksAgree, Init, NoRequest

\* A settlement books its usage event as it credits the wallets; no other step does
\* either.
LEMMA BooksStep == TypeOK /\ BooksAgree /\ [Next]_vars => BooksAgree'
<1> SUFFICES ASSUME TypeOK, BooksAgree, [Next]_vars PROVE BooksAgree'
  OBVIOUS
<1> USE DEF wallets, history
<1>1. ASSUME NEW c \in Call, Settle(c)
      PROVE  BooksAgree'
  <2>1. PICK r, u, b, e : /\ r = call[c].row /\ u = UserOfRow(r)
                          /\ b = Rate(call[c].mode, call[c].answer)
                          /\ e = [mode |-> call[c].mode, shares |-> b, month |-> month]
    OBVIOUS
  <2>2. /\ r \in Row /\ u \in User /\ b \in Shares
        /\ call[c].mode \in RouteMode /\ month \in 0 .. MaxMonth
    BY <1>1, <2>1, OwnerType, RateType DEF Settle, TypeOK, CallRecord
  <2>3. e \in UsageEvent /\ e.shares = b
    BY <2>1, <2>2 DEF UsageEvent
  <2>4. /\ usage' = [usage EXCEPT ![r] = e] /\ balance' = Settled(u, b)
        /\ request' = [request EXCEPT ![r].status = "settled"]
        /\ request[r].status = "reserved"
    BY <1>1, <2>1 DEF Settle, StillReserved
  <2>5. usage \in [Row -> UsageEvent \cup {None}] /\ usage[r] = None
        /\ request \in [Row -> RowRecord] /\ balance \in [Wallet -> Nat]
    BY <2>2, <2>4 DEF TypeOK, BooksAgree
  <2>6. /\ BookedOf("upstream")' = BookedOf("upstream") + b.upstream
        /\ BookedOf("channel")' = BookedOf("channel") + b.channel
        /\ BookedOf("platform")' = BookedOf("platform") + b.platform
    BY <2>2, <2>3, <2>4, <2>5, EventBooks
  <2>7. /\ balance'["provider_cost"] = balance["provider_cost"] + b.upstream
        /\ balance'["developer"] = balance["developer"] + b.channel
        /\ balance'["platform"] = balance["platform"] + b.platform
    <3>1. /\ u # "provider_cost" /\ u # "developer" /\ u # "platform"
          /\ "provider_cost" \in Wallet /\ "developer" \in Wallet /\ "platform" \in Wallet
      BY <2>2, CompletionAssumption DEF Wallet, SystemWallet
    <3>2. QED
      BY <2>4, <2>5, <3>1 DEF Settled
  <2>8. \A q \in Row : usage'[q] # None <=> request'[q].status = "settled"
    <3>1. e # None
      BY <2>1, <2>2, CompletionAssumption
    <3>2. QED
      BY <2>2, <2>4, <2>5, <3>1 DEF BooksAgree, RowRecord
  <2>9. QED
    BY <2>6, <2>7, <2>8 DEF BooksAgree
<1>2. ASSUME usage' = usage,
             \A w \in SystemWallet : balance'[w] = balance[w],
             \A q \in Row : request'[q].status = "settled" <=> request[q].status = "settled"
      PROVE  BooksAgree'
  <2>1. \A w : BookedOf(w)' = BookedOf(w)
    BY <1>2 DEF BookedOf
  <2>2. QED
    BY <1>2, <2>1 DEF BooksAgree, SystemWallet
<1>3. ASSUME NEW u \in User, NEW a \in Amount, Credit(u, a) \/ Debit(u, a)
      PROVE  BooksAgree'
  <2>1. \A w \in SystemWallet : w # u /\ w \in Wallet
    BY CompletionAssumption DEF Wallet
  <2>2. \A w \in SystemWallet : balance'[w] = balance[w]
    BY <1>3, <2>1 DEF Credit, Debit, TypeOK
  <2>3. usage' = usage /\ request' = request
    BY <1>3 DEF Credit, Debit
  <2>4. QED
    BY <1>2, <2>2, <2>3
<1>4. ASSUME NEW c \in Call, NEW r \in Row, NEW b \in Body, NEW p \in Plan, Reserve(c, r, b, p)
      PROVE  BooksAgree'
  <2>1. \A q \in Row : request'[q].status = "settled" <=> request[q].status = "settled"
    BY <1>4 DEF Reserve, IsNew, NewRow, TypeOK
  <2>2. QED
    BY <1>2, <1>4, <2>1 DEF Reserve
<1>5. ASSUME UNCHANGED <<balance, usage>>,
             ~\E c \in Call, r \in Row, b \in Body, p \in Plan : Reserve(c, r, b, p)
      PROVE  BooksAgree'
  <2>1. \A q \in Row : RowStays(q) \/ RowIsHeldOrFreed(q) \/ RowIsSettled(q)
    BY <1>5, RowSteps
  <2>2. ASSUME NEW q \in Row PROVE ~RowIsSettled(q)
    <3>1. SUFFICES ASSUME RowIsSettled(q) PROVE FALSE
      OBVIOUS
    <3>2. usage[q] = None /\ usage[q] \in UsageEvent
      BY <1>5, <3>1 DEF RowIsSettled, BooksAgree
    <3>3. None \notin UsageEvent
      BY CompletionAssumption DEF UsageEvent
    <3>4. QED
      BY <3>2, <3>3
  <2>3. QED
    BY <1>2, <1>5, <2>1, <2>2 DEF RowStays, RowIsHeldOrFreed
<1>6. QED
  BY <1>1, <1>3, <1>4, <1>5
  DEF Next, Handler, Provider, vars, Replay, HoldExpired, ProviderAnswers, FallBack,
      ProviderFails, SettleAborts, Release, ReleaseAborts, MarkRequiresReview, Crash,
      Expire, EndSession, NextMonth

\* For every number of rows, sessions and wallets and all prices, what the provider, the
\* developer and the platform have earned is the sum of their shares of the usage
\* events, and only settled rows have one (settleCompletion).
THEOREM RevenueMatches == Spec => []RevenueMatchesUsage
BY BooksInit, BooksStep, BooksAreRevenue, TypeCorrect, PTL DEF Spec

\* Months pass: no reservation is of a later month than the current, and no event of an
\* earlier month than its reservation.
MonthsPass ==
  \A r \in Row : /\ request[r].month <= month
                 /\ usage[r] # None => request[r].month <= usage[r].month

\* What a row may cost of what was reserved in month m.
ReservedShare(r, m) ==
  IF request[r].month # m THEN 0
  ELSE IF usage[r] # None THEN Retail(usage[r].shares)
  ELSE IF IsHeld(r) THEN Hold(request[r].plan) ELSE 0

SessionSum(s)  == SumFunctionOnSet([r \in Row |-> SessionShare(r, s)], Row)
ReservedSum(m) == SumFunctionOnSet([r \in Row |-> ReservedShare(r, m)], Row)

\* SpendLimitsKept, with what the monthly check needs: the month it sums from on is not
\* before that of any reservation, so that nothing reserved in it escapes the sum.
LimitsInv ==
  /\ MonthsPass
  /\ \A s \in Session : SessionSum(s) <= SessionLimit
  /\ \A m \in 0 .. MaxMonth : ReservedSum(m) <= MonthlyLimit

\* The limits of the property are those of the invariant.
LEMMA LimitsAreKept == LimitsInv => SpendLimitsKept
BY DEF LimitsInv, SpendLimitsKept, SessionSum, ReservedSum, SumFunction, ReservedShare

\* A usage event has a price.
LEMMA EventType == None \notin UsageEvent /\ \A e \in UsageEvent : Retail(e.shares) \in Nat
<1>1. MaxMonth \in Nat
  BY CompletionAssumption
<1>2. UsageEvent \subseteq [mode : RouteMode, shares : Shares, month : Nat]
  BY <1>1 DEF UsageEvent
<1>3. None \notin UsageEvent
  BY <1>2, CompletionAssumption
<1>4. QED
  BY <1>3 DEF UsageEvent, Shares, Retail

\* What a row costs is a number.
LEMMA ShareType ==
  ASSUME TypeOK, BooksAgree, NEW r \in Row
  PROVE  /\ \A s : SessionShare(r, s) \in Nat
         /\ \A m : ReservedShare(r, m) \in Nat /\ MonthlyShare(r, m) \in Nat
<1>1. usage[r] \in UsageEvent \cup {None}
  BY DEF TypeOK
<1>2. usage[r] # None => Retail(usage[r].shares) \in Nat
  BY <1>1, EventType
<1>3. request[r].status = "settled" => usage[r] # None
  BY DEF BooksAgree
<1>4. QED
  BY <1>2, <1>3, HoldType DEF SessionShare, ReservedShare, MonthlyShare

\* After a step too, a row's shares of the sums are natural numbers.
LEMMA NextShareType ==
  ASSUME TypeOK', BooksAgree', NEW r \in Row
  PROVE  /\ \A s : SessionShare(r, s)' \in Nat
         /\ \A m : ReservedShare(r, m)' \in Nat
<1>1. usage'[r] \in UsageEvent \cup {None}
  BY DEF TypeOK
<1>2. usage'[r] # None => Retail(usage'[r].shares) \in Nat
  BY <1>1, EventType
<1>3. request'[r].status = "settled" => usage'[r] # None
  BY DEF BooksAgree
<1>4. QED
  BY <1>2, <1>3, HoldType DEF SessionShare, ReservedShare

\* No step but a reservation raises what a row costs.
LEMMA SharesDoNotGrow ==
  ASSUME TypeOK, BooksAgree, BooksAgree', TypeOK', NEW r \in Row,
         RowStays(r) \/ RowIsHeldOrFreed(r) \/ RowIsSettled(r)
  PROVE  /\ \A s : SessionShare(r, s)' <= SessionShare(r, s)
         /\ \A m : ReservedShare(r, m)' <= ReservedShare(r, m)
<1>1. /\ \A s : SessionShare(r, s) \in Nat /\ SessionShare(r, s)' \in Nat
      /\ \A m : ReservedShare(r, m) \in Nat /\ ReservedShare(r, m)' \in Nat
  BY ShareType, NextShareType
<1>2. CASE RowStays(r)
  BY <1>1, <1>2 DEF RowStays, SessionShare, ReservedShare, IsHeld
<1>3. CASE RowIsHeldOrFreed(r)
  <2>1. usage[r] = None /\ usage'[r] = None
    BY <1>3 DEF RowIsHeldOrFreed, BooksAgree
  <2>2. QED
    BY <1>1, <1>3, <2>1 DEF RowIsHeldOrFreed, SessionShare, ReservedShare, IsHeld
<1>4. CASE RowIsSettled(r)
  <2>1. usage[r] = None /\ usage'[r] # None
    BY <1>4 DEF RowIsSettled, BooksAgree
  <2>2. QED
    BY <1>1, <1>4, <2>1 DEF RowIsSettled, SessionShare, ReservedShare, IsHeld
<1>5. QED
  BY <1>2, <1>3, <1>4

\* A reservation adds its hold to what its session spends and what its month reserved,
\* and to nothing else.
LEMMA ReserveAdds ==
  ASSUME TypeOK, BooksAgree, NEW c \in Call, NEW r \in Row, NEW b \in Body, NEW p \in Plan,
         Reserve(c, r, b, p)
  PROVE  /\ \A s : SessionShare(r, s) = 0 /\ \A m : ReservedShare(r, m) = 0
         /\ \A s : SessionShare(r, s)' = IF SessionOf[r] = s THEN Hold(p) ELSE 0
         /\ \A m : ReservedShare(r, m)' = IF month = m THEN Hold(p) ELSE 0
         /\ \A q \in Row \ {r} : /\ \A s : SessionShare(q, s)' = SessionShare(q, s)
                                 /\ \A m : ReservedShare(q, m)' = ReservedShare(q, m)
         /\ \A q \in Row \ {r} : request'[q] = request[q]
         /\ request'[r].month = month /\ usage' = usage /\ month' = month
<1>1. /\ request'[r].status = "reserved" /\ request'[r].plan = p /\ request'[r].month = month
      /\ usage' = usage /\ month' = month /\ request[r].status = "absent"
      /\ \A q \in Row \ {r} : request'[q] = request[q]
  BY DEF Reserve, NewRow, IsNew, TypeOK
<1>2. usage[r] = None
  BY <1>1 DEF BooksAgree
<1>3. /\ \A s : SessionShare(r, s) = 0
      /\ \A m : ReservedShare(r, m) = 0
  BY <1>1, <1>2 DEF SessionShare, ReservedShare, IsHeld
<1>4. /\ \A s : SessionShare(r, s)' = IF SessionOf[r] = s THEN Hold(p) ELSE 0
      /\ \A m : ReservedShare(r, m)' = IF month = m THEN Hold(p) ELSE 0
  BY <1>1, <1>2 DEF SessionShare, ReservedShare, IsHeld
<1>5. \A q \in Row \ {r} : /\ \A s : SessionShare(q, s)' = SessionShare(q, s)
                           /\ \A m : ReservedShare(q, m)' = ReservedShare(q, m)
  BY <1>1 DEF SessionShare, ReservedShare, IsHeld
<1>6. QED
  BY <1>1, <1>3, <1>4, <1>5

\* What was reserved in the current month is part of what the monthly check sums.
LEMMA MonthlyCheckSums ==
  ASSUME TypeOK, BooksAgree, MonthsPass
  PROVE  /\ SumFunctionOnSet([r \in Row |-> MonthlyShare(r, month)], Row) \in Int
         /\ ReservedSum(month) \in Int
         /\ ReservedSum(month) <= SumFunctionOnSet([r \in Row |-> MonthlyShare(r, month)], Row)
<1>1. PICK f, g : /\ f = [r \in Row |-> ReservedShare(r, month)]
                  /\ g = [r \in Row |-> MonthlyShare(r, month)]
  OBVIOUS
<1>2. \A r \in Row : f[r] \in Int /\ g[r] \in Int
  BY <1>1, ShareType
<1>3. ASSUME NEW r \in Row PROVE f[r] <= g[r]
  <2>1. CASE request[r].month # month
    BY <1>1, <2>1, ShareType DEF ReservedShare
  <2>2. CASE request[r].month = month
    <3>1. /\ usage[r] # None => usage[r].month >= month
          /\ month >= month
      <4>1. month \in Nat
        BY CompletionAssumption DEF TypeOK
      <4>2. usage[r] # None => usage[r].month \in Nat
        BY CompletionAssumption DEF TypeOK, UsageEvent
      <4>3. QED
        BY <2>2, <4>1, <4>2 DEF MonthsPass
    <3>2. ReservedShare(r, month) = MonthlyShare(r, month)
      BY <2>2, <3>1 DEF ReservedShare, MonthlyShare
    <3>3. QED
      BY <1>1, <3>2, ShareType
  <2>3. QED
    BY <2>1, <2>2
<1>4. IsFiniteSet(Row)
  BY CompletionAssumption
<1>5. SumFunctionOnSet(f, Row) <= SumFunctionOnSet(g, Row)
  BY <1>2, <1>3, <1>4, SumAtMost
<1>6. SumFunctionOnSet(f, Row) \in Int /\ SumFunctionOnSet(g, Row) \in Int
  BY <1>2, <1>4, SumInt
<1>7. QED
  BY <1>1, <1>5, <1>6 DEF ReservedSum

\* At first nothing is spent.
LEMMA LimitsInit == Init => LimitsInv
<1> SUFFICES ASSUME Init PROVE LimitsInv
  OBVIOUS
<1>1. \A r \in Row : /\ \A s : SessionShare(r, s) = 0
                     /\ \A m : ReservedShare(r, m) = 0
  BY DEF Init, NoRequest, SessionShare, ReservedShare, IsHeld
<1>2. IsFiniteSet(Row)
  BY CompletionAssumption
<1>3. ASSUME NEW s PROVE SessionSum(s) = 0
  <2>1. PICK f : f = [r \in Row |-> SessionShare(r, s)]
    OBVIOUS
  <2>2. SumFunctionOnSet(f, Row) = 0
    BY <1>1, <1>2, <2>1, SumZero
  <2>3. QED
    BY <2>1, <2>2 DEF SessionSum
<1>4. ASSUME NEW m PROVE ReservedSum(m) = 0
  <2>1. PICK f : f = [r \in Row |-> ReservedShare(r, m)]
    OBVIOUS
  <2>2. SumFunctionOnSet(f, Row) = 0
    BY <1>1, <1>2, <2>1, SumZero
  <2>3. QED
    BY <2>1, <2>2 DEF ReservedSum
<1>5. MonthsPass
  BY DEF Init, MonthsPass, NoRequest
<1>6. SessionLimit \in Nat /\ MonthlyLimit \in Nat
  BY CompletionAssumption
<1>7. QED
  BY <1>3, <1>4, <1>5, <1>6 DEF LimitsInv

\* A reservation is within both limits with all there is; no other step adds to them.
LEMMA LimitsStep ==
  TypeOK /\ TypeOK' /\ BooksAgree /\ BooksAgree' /\ LimitsInv /\ [Next]_vars => LimitsInv'
<1> SUFFICES ASSUME TypeOK, TypeOK', BooksAgree, BooksAgree', LimitsInv, [Next]_vars
             PROVE  LimitsInv'
  OBVIOUS
<1>0. /\ IsFiniteSet(Row) /\ SessionLimit \in Int /\ MonthlyLimit \in Int
      /\ month \in Nat /\ \A r \in Row : request[r].month \in Nat
      /\ \A r \in Row : usage[r] # None => usage[r].month \in Nat
  BY CompletionAssumption DEF TypeOK, RowRecord, UsageEvent
<1>s. ASSUME NEW s
      PROVE  SessionSum(s) \in Int /\ \A r \in Row : SessionShare(r, s) \in Int
  <2>1. PICK f : f = [r \in Row |-> SessionShare(r, s)]
    OBVIOUS
  <2>2. \A r \in Row : f[r] \in Int
    BY <2>1, ShareType
  <2>3. SumFunctionOnSet(f, Row) \in Int
    BY <1>0, <2>2, SumInt
  <2>4. QED
    BY <2>1, <2>3, ShareType DEF SessionSum
<1>m. ASSUME NEW m
      PROVE  ReservedSum(m) \in Int /\ \A r \in Row : ReservedShare(r, m) \in Int
  <2>1. PICK f : f = [r \in Row |-> ReservedShare(r, m)]
    OBVIOUS
  <2>2. \A r \in Row : f[r] \in Int
    BY <2>1, ShareType
  <2>3. SumFunctionOnSet(f, Row) \in Int
    BY <1>0, <2>2, SumInt
  <2>4. QED
    BY <2>1, <2>3, ShareType DEF ReservedSum
<1>1. ASSUME NEW c \in Call, NEW r \in Row, NEW b \in Body, NEW p \in Plan, Reserve(c, r, b, p)
      PROVE  LimitsInv'
  <2>h. Hold(p) \in Nat
    BY HoldType
  <2>1. MonthsPass'
    <3>1. MonthsPass /\ usage[r] = None
      BY <1>1 DEF LimitsInv, BooksAgree, Reserve, IsNew
    <3>2. /\ request'[r].month = month /\ usage' = usage /\ month' = month
          /\ \A q \in Row \ {r} : request'[q] = request[q]
      BY <1>1, ReserveAdds
    <3>3. QED
      BY <1>0, <3>1, <3>2 DEF MonthsPass
  <2>2. ASSUME NEW s \in Session PROVE SessionSum(s)' <= SessionLimit
    <3>1. PICK f, g : /\ f = [q \in Row |-> SessionShare(q, s)]
                      /\ g = [q \in Row |-> SessionShare(q, s)']
      OBVIOUS
    <3>2. \A q \in Row \ {r} : g[q] = f[q]
      BY <1>1, <3>1, ReserveAdds
    <3>3. f[r] = 0 /\ g[r] = IF SessionOf[r] = s THEN Hold(p) ELSE 0
      BY <1>1, <3>1, ReserveAdds
    <3>4. \A q \in Row : f[q] \in Int /\ g[q] \in Int
      BY <1>s, <2>h, <3>1, <3>2, <3>3
    <3>5. SumFunctionOnSet(g, Row) = SumFunctionOnSet(f, Row) - f[r] + g[r]
      BY <1>0, <3>2, <3>4, SumChange
    <3>6. SessionSum(s)' = SessionSum(s) + g[r]
      BY <1>s, <3>1, <3>3, <3>4, <3>5 DEF SessionSum
    <3>7. CASE SessionOf[r] = s
      <4>1. SessionSum(s) + Hold(p) <= SessionLimit
        BY <1>1, <3>7 DEF Reserve, WithinSessionLimit, SessionSum, SumFunction
      <4>2. QED
        BY <3>3, <3>6, <3>7, <4>1
    <3>8. CASE SessionOf[r] # s
      BY <1>s, <3>3, <3>6, <3>8 DEF LimitsInv
    <3>9. QED
      BY <3>7, <3>8
  <2>3. ASSUME NEW m \in 0 .. MaxMonth PROVE ReservedSum(m)' <= MonthlyLimit
    <3>1. PICK f, g : /\ f = [q \in Row |-> ReservedShare(q, m)]
                      /\ g = [q \in Row |-> ReservedShare(q, m)']
      OBVIOUS
    <3>2. \A q \in Row \ {r} : g[q] = f[q]
      BY <1>1, <3>1, ReserveAdds
    <3>3. f[r] = 0 /\ g[r] = IF month = m THEN Hold(p) ELSE 0
      BY <1>1, <3>1, ReserveAdds
    <3>4. \A q \in Row : f[q] \in Int /\ g[q] \in Int
      BY <1>m, <2>h, <3>1, <3>2, <3>3
    <3>5. SumFunctionOnSet(g, Row) = SumFunctionOnSet(f, Row) - f[r] + g[r]
      <4>1. IsFiniteSet(Row)
        BY <1>0
      <4>2. QED
        BY <3>2, <3>4, <4>1, SumChange
    <3>6. ReservedSum(m)' = ReservedSum(m) + g[r]
      BY <1>m, <3>1, <3>3, <3>4, <3>5 DEF ReservedSum
    <3>7. CASE month = m
      <4>1. SumFunctionOnSet([q \in Row |-> MonthlyShare(q, month)], Row) + Hold(p)
              <= MonthlyLimit
        BY <1>1 DEF Reserve, WithinMonthlyLimit, SumFunction
      <4>2. ReservedSum(month) + Hold(p) <= MonthlyLimit
        BY <1>0, <2>h, <4>1, MonthlyCheckSums DEF LimitsInv
      <4>3. QED
        BY <3>3, <3>6, <3>7, <4>2
    <3>8. CASE month # m
      BY <1>m, <3>3, <3>6, <3>8 DEF LimitsInv
    <3>9. QED
      BY <3>7, <3>8
  <2>4. QED
    BY <2>1, <2>2, <2>3 DEF LimitsInv
<1>2. ASSUME ~\E c \in Call, r \in Row, b \in Body, p \in Plan : Reserve(c, r, b, p)
      PROVE  LimitsInv'
  <2>r. /\ \A r \in Row : RowStays(r) \/ RowIsHeldOrFreed(r) \/ RowIsSettled(r)
        /\ month' \in Nat /\ month' >= month
    BY <1>2, RowSteps
  <2>1. MonthsPass'
    <3>1. SUFFICES ASSUME NEW r \in Row
                   PROVE  /\ request'[r].month <= month'
                          /\ usage'[r] # None => request'[r].month <= usage'[r].month
      BY DEF MonthsPass
    <3>2. request'[r].month = request[r].month /\ request[r].month <= month
      BY <2>r DEF RowStays, RowIsHeldOrFreed, RowIsSettled, LimitsInv, MonthsPass
    <3>3. request'[r].month <= month'
      BY <1>0, <2>r, <3>2
    <3>4. usage'[r] = usage[r] \/ usage'[r].month = month
      BY <2>r DEF RowStays, RowIsHeldOrFreed, RowIsSettled
    <3>5. QED
      BY <3>2, <3>3, <3>4 DEF LimitsInv, MonthsPass
  <2>2. ASSUME NEW s \in Session PROVE SessionSum(s)' <= SessionLimit
    <3>1. PICK f, g : /\ f = [q \in Row |-> SessionShare(q, s)]
                      /\ g = [q \in Row |-> SessionShare(q, s)']
      OBVIOUS
    <3>2. \A q \in Row : f[q] \in Int /\ g[q] \in Int /\ g[q] <= f[q]
      BY <2>r, <3>1, SharesDoNotGrow, ShareType, NextShareType
    <3>3. SumFunctionOnSet(g, Row) <= SumFunctionOnSet(f, Row)
      BY <1>0, <3>2, SumAtMost
    <3>4. SumFunctionOnSet(g, Row) \in Int
      BY <1>0, <3>2, SumInt
    <3>5. SessionSum(s)' <= SessionSum(s) /\ SessionSum(s)' \in Int
      BY <3>1, <3>3, <3>4 DEF SessionSum
    <3>6. QED
      BY <1>0, <1>s, <3>5 DEF LimitsInv
  <2>3. ASSUME NEW m \in 0 .. MaxMonth PROVE ReservedSum(m)' <= MonthlyLimit
    <3>1. PICK f, g : /\ f = [q \in Row |-> ReservedShare(q, m)]
                      /\ g = [q \in Row |-> ReservedShare(q, m)']
      OBVIOUS
    <3>2. \A q \in Row : f[q] \in Int /\ g[q] \in Int /\ g[q] <= f[q]
      BY <2>r, <3>1, SharesDoNotGrow, ShareType, NextShareType
    <3>3. SumFunctionOnSet(g, Row) <= SumFunctionOnSet(f, Row)
      BY <1>0, <3>2, SumAtMost
    <3>4. SumFunctionOnSet(g, Row) \in Int
      BY <1>0, <3>2, SumInt
    <3>5. ReservedSum(m)' <= ReservedSum(m) /\ ReservedSum(m)' \in Int
      BY <3>1, <3>3, <3>4 DEF ReservedSum
    <3>6. QED
      BY <1>0, <1>m, <3>5 DEF LimitsInv
  <2>4. QED
    BY <2>1, <2>2, <2>3 DEF LimitsInv
<1>3. QED
  BY <1>1, <1>2

\* Neither the session's nor the month's limit is overspent, for every number of
\* sessions, rows and handlers and for all limits and prices: a check counts all that is
\* held, and a settlement charges no more than was held (assertHostedSpendLimits).
THEOREM SpendLimitsStay == Spec => []SpendLimitsKept
BY LimitsInit, LimitsStep, LimitsAreKept, BooksInit, BooksStep, TypeCorrect, PTL DEF Spec

-----------------------------------------------------------------------------
(* Handlers: one handler and one provider call per idempotency key, for     *)
(* every number of handlers, keys, sessions and retries.                    *)
(*                                                                         *)
(* The invariant.  OneProviderCall alone is not inductive: that a second    *)
(* handler never starts rests on a handler's row existing (TypeOK), that a  *)
(* second call is never issued on where the handler of the first is.        *)

AtWork(c) == call[c].pc # "idle"

\* The calls a row may lead to.
CallsAllowed(r) == IF request[r].plan # None /\ request[r].plan.fallback THEN 2 ELSE 1

HandlerInv ==
  /\ \A c \in Call : ~AtWork(c) => call[c] = Idle
  /\ \A c, d \in Call : (AtWork(c) /\ AtWork(d) /\ call[c].row = call[d].row) => c = d
  /\ \A c \in Call : call[c].pc \in {"calling", "fallback", "settling", "releasing"}
                       => IsHeld(call[c].row)
  /\ \A c \in Call : call[c].pc = "calling" => attempts[call[c].row] = 1
  /\ \A r \in Row : request[r].status = "absent" => attempts[r] = 0
  /\ \A r \in Row : attempts[r] <= CallsAllowed(r)

\* Steps that start no handler, issue no call and leave every row's route and hold
\* alone keep the invariant.
LEMMA HandlerInvKept ==
  ASSUME TypeOK, HandlerInv, attempts' = attempts,
         \A c \in Call : \/ call'[c] = call[c]
                         \/ call'[c] = Idle
                         \/ /\ AtWork(c) /\ call'[c].row = call[c].row
                            /\ \/ call'[c].pc = "marking"
                               \/ /\ call[c].pc \in {"calling", "fallback"}
                                  /\ call'[c].pc \in {"settling", "releasing"},
         \A r \in Row : /\ request'[r].plan = request[r].plan
                        /\ request'[r].status = "absent" => request[r].status = "absent",
         \A c \in Call : call'[c].pc \in {"calling", "fallback", "settling", "releasing"}
                           => (IsHeld(call[c].row) => request'[call[c].row].status
                                                        \in {"reserved", "requires_review"})
  PROVE  HandlerInv'
<1> USE DEF HandlerInv, AtWork
<1>1. \A c \in Call : ~AtWork(c)' => call'[c] = Idle
  BY DEF Idle
<1>2. \A c \in Call : call'[c].pc # "idle" => call[c].pc # "idle" /\ call'[c].row = call[c].row
  BY DEF Idle
<1>3. \A c, d \in Call : (AtWork(c)' /\ AtWork(d)' /\ call'[c].row = call'[d].row) => c = d
  BY <1>2
<1>4. ASSUME NEW c \in Call, call'[c].pc \in {"calling", "fallback", "settling", "releasing"}
      PROVE  IsHeld(call[c].row)' /\ call'[c].row = call[c].row
  <2>1. IsHeld(call[c].row) /\ call'[c].row = call[c].row
    BY <1>4 DEF Idle
  <2>2. request'[call'[c].row].status \in {"reserved", "requires_review"}
    BY <1>4, <2>1
  <2>3. QED
    BY <2>1, <2>2 DEF IsHeld
<1>5. \A c \in Call : call'[c].pc = "calling" => attempts'[call'[c].row] = 1
  BY DEF Idle
<1>6. \A r \in Row : /\ request'[r].status = "absent" => attempts'[r] = 0
                     /\ attempts'[r] <= CallsAllowed(r)'
  BY DEF CallsAllowed
<1>7. QED
  BY <1>1, <1>3, <1>4, <1>5, <1>6

\* No handler has done anything yet.
LEMMA HandlerInvInit == Init => HandlerInv
BY DEF Init, HandlerInv, AtWork, CallsAllowed, NoRequest, Idle

\* Every step of a handler, a client or the environment keeps it.
LEMMA HandlerInvStep == TypeOK /\ HandlerInv /\ [Next]_vars => HandlerInv'
<1> SUFFICES ASSUME TypeOK, HandlerInv, [Next]_vars PROVE HandlerInv'
  OBVIOUS
<1> USE DEF wallets, history
<1>1. ASSUME NEW c \in Call, NEW r \in Row, NEW b \in Body, NEW p \in Plan,
             Reserve(c, r, b, p)
      PROVE  HandlerInv'
  <2>1. /\ call' = [call EXCEPT ![c] = [pc |-> "calling", row |-> r, mode |-> p.mode,
                                        answer |-> None]]
        /\ request' = [request EXCEPT ![r] = NewRow(b, p)]
        /\ attempts' = [attempts EXCEPT ![r] = @ + 1]
        /\ request[r].status = "absent"
    BY <1>1 DEF Reserve, IsNew
  <2>2. attempts'[r] = 1 /\ \A q \in Row \ {r} : attempts'[q] = attempts[q]
    BY <2>1 DEF HandlerInv, TypeOK
  <2>3. \A d \in Call : AtWork(d) => call[d].row \in Row \ {r}
    BY <2>1 DEF AtWork, TypeOK, CallRecord
  <2>4. request'[r].status = "reserved" /\ \A q \in Row \ {r} : request'[q] = request[q]
    BY <2>1 DEF NewRow, TypeOK
  <2>5. call'[c].pc = "calling" /\ call'[c].row = r /\ \A d \in Call \ {c} : call'[d] = call[d]
    BY <2>1 DEF TypeOK
  <2>6. \A d \in Call : ~AtWork(d)' => call'[d] = Idle
    BY <2>5 DEF HandlerInv, AtWork
  <2>7. \A d, e \in Call : (AtWork(d)' /\ AtWork(e)' /\ call'[d].row = call'[e].row) => d = e
    BY <2>3, <2>5 DEF HandlerInv, AtWork
  <2>8. ASSUME NEW d \in Call, call'[d].pc \in {"calling", "fallback", "settling", "releasing"}
        PROVE  IsHeld(call[d].row)'
    BY <2>3, <2>4, <2>5, <2>8 DEF HandlerInv, AtWork, IsHeld
  <2>9. \A d \in Call : call'[d].pc = "calling" => attempts'[call'[d].row] = 1
    BY <2>2, <2>3, <2>5 DEF HandlerInv, AtWork
  <2>10. \A q \in Row : /\ request'[q].status = "absent" => attempts'[q] = 0
                        /\ attempts'[q] <= CallsAllowed(q)'
    BY <2>2, <2>4 DEF HandlerInv, CallsAllowed
  <2>11. QED
    BY <2>6, <2>7, <2>8, <2>9, <2>10 DEF HandlerInv
<1>2. ASSUME NEW c \in Call, FallBack(c)
      PROVE  HandlerInv'
  <2>. PICK r \in Row : r = call[c].row
    BY <1>2 DEF FallBack, MayFallBack, TypeOK, CallRecord
  <2>1. /\ call[c].pc = "calling" /\ request[r].plan.fallback
        /\ call'[c].pc = "fallback" /\ call'[c].row = r
        /\ \A d \in Call \ {c} : call'[d] = call[d]
        /\ attempts' = [attempts EXCEPT ![r] = @ + 1]
        /\ request' = request
    BY <1>2 DEF FallBack, MayFallBack, TypeOK, CallRecord
  <2>2. attempts[r] = 1 /\ attempts'[r] = 2 /\ \A q \in Row \ {r} : attempts'[q] = attempts[q]
    BY <2>1 DEF HandlerInv, TypeOK
  <2>3. IsHeld(r) /\ request[r].status # "absent" /\ request[r].plan # None
    BY <2>1 DEF HandlerInv, IsHeld, TypeOK
  <2>4. \A d \in Call : ~AtWork(d)' => call'[d] = Idle
    BY <2>1 DEF HandlerInv, AtWork
  <2>5. \A d, e \in Call : (AtWork(d)' /\ AtWork(e)' /\ call'[d].row = call'[e].row) => d = e
    BY <2>1 DEF HandlerInv, AtWork
  <2>6. ASSUME NEW d \in Call, call'[d].pc \in {"calling", "fallback", "settling", "releasing"}
        PROVE  IsHeld(call[d].row)'
    BY <2>1, <2>3, <2>6 DEF HandlerInv, IsHeld
  <2>7. ASSUME NEW d \in Call, call'[d].pc = "calling"
        PROVE  attempts'[call'[d].row] = 1
    <3>1. d # c /\ call'[d] = call[d]
      BY <2>1, <2>7
    <3>2. call[d].row \in Row \ {r}
      BY <2>1, <2>7, <3>1 DEF HandlerInv, AtWork, TypeOK, CallRecord
    <3>3. QED
      BY <2>2, <2>7, <3>1, <3>2 DEF HandlerInv
  <2>8. \A q \in Row : /\ request'[q].status = "absent" => attempts'[q] = 0
                       /\ attempts'[q] <= CallsAllowed(q)'
    BY <2>1, <2>2, <2>3 DEF HandlerInv, CallsAllowed
  <2>9. QED
    BY <2>4, <2>5, <2>6, <2>7, <2>8 DEF HandlerInv
<1>3. ASSUME NEW c \in Call, Settle(c) \/ Release(c) \/ MarkRequiresReview(c)
      PROVE  HandlerInv'
  <2>. PICK r \in Row : r = call[c].row
    BY <1>3 DEF Settle, Release, MarkRequiresReview, TypeOK, CallRecord
  <2>1. /\ AtWork(c) /\ attempts' = attempts
        /\ \A d \in Call \ {c} : call'[d] = call[d]
        /\ call'[c] = Idle \/ (call'[c].pc = "marking" /\ call'[c].row = r)
    BY <1>3 DEF Settle, Release, MarkRequiresReview, AtWork, TypeOK, CallRecord
  <2>2. /\ \A q \in Row \ {r} : request'[q] = request[q]
        /\ request'[r].plan = request[r].plan
        /\ request'[r].status = "absent" => request[r].status = "absent"
    <3>1. \E s \in {"settled", "failed", "requires_review"} :
            request' = [request EXCEPT ![r].status = s] \/ request' = request
      BY <1>3 DEF Settle, Release, MarkRequiresReview
    <3>2. QED
      BY <3>1 DEF TypeOK, RowRecord
  <2>3. ASSUME NEW d \in Call, IsHeld(call[d].row),
               call'[d].pc \in {"calling", "fallback", "settling", "releasing"}
        PROVE  request'[call[d].row].status \in {"reserved", "requires_review"}
    <3>1. d # c /\ call'[d] = call[d]
      BY <2>1, <2>3 DEF Idle
    <3>2. call[d].row \in Row \ {r}
      BY <2>1, <2>3, <3>1 DEF HandlerInv, AtWork, TypeOK, CallRecord
    <3>3. QED
      BY <2>2, <2>3, <3>2 DEF IsHeld
  <2>4. QED
    BY <2>1, <2>2, <2>3, HandlerInvKept
<1>4. ASSUME NEW c \in Call,
             \/ \E u \in Usage : ProviderAnswers(c, u)
             \/ ProviderFails(c)
             \/ SettleAborts(c) \/ ReleaseAborts(c) \/ Crash(c)
      PROVE  HandlerInv'
  <2>1. attempts' = attempts /\ request' = request
    BY <1>4 DEF ProviderAnswers, ProviderFails, SettleAborts, ReleaseAborts, Crash
  <2>2. \A d \in Call : \/ call'[d] = call[d]
                        \/ call'[d] = Idle
                        \/ /\ AtWork(d) /\ call'[d].row = call[d].row
                           /\ \/ call'[d].pc = "marking"
                              \/ /\ call[d].pc \in {"calling", "fallback"}
                                 /\ call'[d].pc \in {"settling", "releasing"}
    BY <1>4 DEF ProviderAnswers, ProviderFails, SettleAborts, ReleaseAborts, Crash,
                AtWork, TypeOK, CallRecord
  <2>3. QED
    BY <2>1, <2>2, HandlerInvKept DEF IsHeld
<1>5. ASSUME NEW r \in Row,
             \/ \E c \in Call, b \in Body : HoldExpired(c, r, b)
             \/ Expire(r)
      PROVE  HandlerInv'
  <2>1. attempts' = attempts /\ call' = call
    BY <1>5 DEF HoldExpired, Expire
  <2>2. \A q \in Row : /\ request'[q].plan = request[q].plan
                       /\ request'[q].status = "absent" <=> request[q].status = "absent"
                       /\ IsHeld(q) => request'[q].status \in {"reserved", "requires_review"}
    <3>1. \/ request' = [request EXCEPT ![r].status = "requires_review"]
          \/ request' = [request EXCEPT ![r].expired = TRUE]
      BY <1>5 DEF HoldExpired, Expire
    <3>2. /\ request \in [Row -> RowRecord]
          /\ request[r].status = "reserved"
      BY <1>5 DEF HoldExpired, Expire, TypeOK
    <3> HIDE DEF TypeOK
    <3>3. QED
      BY <3>1, <3>2 DEF IsHeld, RowRecord
  <2>3. \A c \in Call : call[c].pc \in {"calling", "fallback", "settling", "releasing"}
                           => call[c].row \in Row
    BY DEF TypeOK, CallRecord
  <2>4. QED
    BY <2>1, <2>2, <2>3, HandlerInvKept
<1>6. CASE UNCHANGED <<call, request, attempts>>
  BY <1>6, HandlerInvKept DEF IsHeld
<1>7. QED
  BY <1>1, <1>2, <1>3, <1>4, <1>5, <1>6
  DEF Next, Handler, Provider, vars, Replay, EndSession, NextMonth, Credit, Debit

\* So it holds in every reachable state.
LEMMA HandlersCorrect == Spec => []HandlerInv
BY HandlerInvInit, HandlerInvStep, TypeCorrect, PTL DEF Spec

-----------------------------------------------------------------------------
(* What follows from it.                                                   *)

\* However often a client retries and whatever is lost, a key leads to one provider
\* call (two with a fallback) and one handler.
THEOREM OneCallPerKey == Spec => []OneProviderCall
<1>1. TypeOK /\ HandlerInv => OneProviderCall
  <2> SUFFICES ASSUME TypeOK, HandlerInv PROVE OneProviderCall
    OBVIOUS
  <2>1. ASSUME NEW c \in Call, NEW d \in Call, call[c] # Idle, call[c].row = call[d].row
        PROVE  c = d
    <3>1. AtWork(c) /\ call[c].row # None
      BY <2>1 DEF HandlerInv, AtWork, TypeOK
    <3>2. AtWork(d)
      BY <2>1, <3>1 DEF HandlerInv, Idle
    <3>3. QED
      BY <2>1, <3>1, <3>2 DEF HandlerInv
  <2>2. QED
    BY <2>1 DEF OneProviderCall, HandlerInv, CallsAllowed
<1>2. QED
  BY <1>1, TypeCorrect, HandlersCorrect, PTL

\* No reservation is given back under a running provider call.
THEOREM CallsStayCovered == Spec => []CallsAreCovered
<1>1. HandlerInv => CallsAreCovered
  BY DEF HandlerInv, CallsAreCovered
<1>2. QED
  BY <1>1, HandlersCorrect, PTL

\* What clients were told stays true, although the row and the client's knowledge of
\* it are changed by different handlers.
THEOREM ToldIsTrue == Spec => []AnswersStand
<1>1. Init => AnswersStand
  BY DEF Init, AnswersStand
<1>2. TypeOK /\ HandlerInv /\ AnswersStand /\ [Next]_vars => AnswersStand'
  <2> SUFFICES ASSUME TypeOK, HandlerInv, AnswersStand, [Next]_vars,
                      NEW t \in told'
               PROVE  /\ request'[t.row].body = t.body
                      /\ t.kind = "result" => request'[t.row].status = "settled"
                      /\ t.kind = "failure" =>
                           request'[t.row].status \in {"failed", "requires_review"}
    BY DEF AnswersStand
  <2> USE DEF wallets, history
  <2>1. CASE t \in told
    <3>1. t \in Outcome
      BY <2>1 DEF TypeOK
    <3>2. request[t.row].status \in {"settled", "failed", "requires_review"}
      BY <2>1, <3>1 DEF AnswersStand, Outcome
    <3>3. request'[t.row] = request[t.row]
      BY <3>1, <3>2, FinishedStays DEF Outcome
    <3>4. QED
      BY <2>1, <3>3 DEF AnswersStand
  <2>2. ASSUME NEW c \in Call, NEW r \in Row, NEW b \in Body, Replay(c, r, b), t \notin told
        PROVE  /\ request'[t.row].body = t.body
               /\ t.kind = "result" => request'[t.row].status = "settled"
               /\ t.kind = "failure" =>
                    request'[t.row].status \in {"failed", "requires_review"}
    BY <2>2 DEF Replay, Matches
  <2>3. ASSUME NEW c \in Call, Settle(c), t \notin told
        PROVE  /\ request'[t.row].body = t.body
               /\ t.kind = "result" => request'[t.row].status = "settled"
               /\ t.kind = "failure" =>
                    request'[t.row].status \in {"failed", "requires_review"}
    <3>1. call[c].row \in Row /\ t = [row |-> call[c].row, body |-> request[call[c].row].body,
                                     kind |-> "result"]
      BY <2>3 DEF Settle, TypeOK, CallRecord
    <3>2. request' = [request EXCEPT ![call[c].row].status = "settled"]
      BY <2>3 DEF Settle
    <3>3. QED
      BY <3>1, <3>2 DEF TypeOK, RowRecord
  <2>4. ASSUME NEW c \in Call, Release(c), t \notin told
        PROVE  /\ request'[t.row].body = t.body
               /\ t.kind = "result" => request'[t.row].status = "settled"
               /\ t.kind = "failure" =>
                    request'[t.row].status \in {"failed", "requires_review"}
    <3>1. call[c].row \in Row /\ t = [row |-> call[c].row, body |-> request[call[c].row].body,
                                     kind |-> "failure"]
      BY <2>4 DEF Release, TypeOK, CallRecord
    <3>2. CASE StillReserved(call[c].row)
      <4>1. request' = [request EXCEPT ![call[c].row].status = "failed"]
        BY <2>4, <3>2 DEF Release
      <4>2. QED
        BY <3>1, <4>1 DEF TypeOK, RowRecord
    <3>3. CASE ~StillReserved(call[c].row)
      <4>1. request' = request /\ request[call[c].row].status = "requires_review"
        BY <2>4, <3>3 DEF Release, StillReserved, HandlerInv, IsHeld
      <4>2. QED
        BY <3>1, <4>1
    <3>4. QED
      BY <3>2, <3>3
  <2>5. CASE UNCHANGED told
    BY <2>1, <2>5
  <2>6. QED
    BY <2>1, <2>2, <2>3, <2>4, <2>5
    DEF Next, Handler, Provider, vars, Reserve, HoldExpired, ProviderAnswers, FallBack,
        ProviderFails, SettleAborts, ReleaseAborts, MarkRequiresReview, Crash, Expire,
        EndSession, NextMonth, Credit, Debit
<1>3. QED
  BY <1>1, <1>2, TypeCorrect, HandlersCorrect, PTL DEF Spec

-----------------------------------------------------------------------------
(* The completion state machine implements Escrow.                         *)

\* How a row's abstract amount and authorization follow from its status.
LEMMA AbstractRow ==
  \A r \in Row :
    /\ request[r].status = "absent" => AuthOf(r) = "none" /\ AmountOf(r) = 0
    /\ IsHeld(r) => AuthOf(r) = "held" /\ AmountOf(r) = Hold(request[r].plan)
    /\ request[r].status = "settled" =>
         AuthOf(r) = "captured" /\ AmountOf(r) = Retail(usage[r].shares)
    /\ request[r].status = "failed" => AuthOf(r) = "voided" /\ AmountOf(r) = 0
BY DEF AuthOf, AmountOf, IsHeld

\* A row left alone keeps them.
LEMMA AbstractRowKept ==
  ASSUME NEW r \in Row, usage'[r] = usage[r],
         request'[r] = request[r] \/ (IsHeld(r) /\ IsHeld(r)' /\ request'[r].plan = request[r].plan)
  PROVE  AuthOf(r)' = AuthOf(r) /\ AmountOf(r)' = AmountOf(r)
BY DEF AuthOf, AmountOf, IsHeld

\* A step that moves no money and only sets held rows aside is none of the escrow's.
LEMMA EscrowStutters ==
  ASSUME balance' = balance, reserved' = reserved, usage' = usage,
         \A r \in Row : \/ request'[r] = request[r]
                        \/ IsHeld(r) /\ IsHeld(r)' /\ request'[r].plan = request[r].plan
  PROVE  UNCHANGED E!escrow
<1>1. \A r \in Row : AuthOf(r)' = AuthOf(r) /\ AmountOf(r)' = AmountOf(r)
  BY AbstractRowKept
<1>2. \A u \in User : Available(u)' = Available(u)
  BY DEF Available
<1>3. QED
  BY <1>1, <1>2 DEF E!escrow

\* Every behaviour of the completion state machine is one of the escrow's.
THEOREM CompletionImplementsEscrow == Spec => ImplementsEscrow
<1>1. Init => E!Init
  <2> SUFFICES ASSUME Init PROVE E!Init
    OBVIOUS
  <2>1. \A u \in User : Available(u) = Opening
    BY CompletionAssumption DEF Init, Available, Wallet
  <2>2. \A r \in Row : AuthOf(r) = "none" /\ AmountOf(r) = 0
    BY AbstractRow DEF Init, NoRequest
  <2>3. balance["provider_cost"] + balance["developer"] + balance["platform"] = 0
    BY CompletionAssumption DEF Init, Wallet, SystemWallet
  <2>4. QED
    BY <2>1, <2>2, <2>3 DEF E!Init
<1>2. TypeOK /\ ReservationsBacked /\ [Next]_vars => [E!Next]_(E!escrow)
  <2> SUFFICES ASSUME TypeOK, ReservationsBacked, [Next]_vars
               PROVE  E!Next \/ UNCHANGED E!escrow
    OBVIOUS
  <2> USE DEF wallets, history
  <2>0. /\ \A u \in User : /\ balance[u] \in Nat /\ reserved[u] \in Nat
                           /\ reserved[u] <= balance[u] /\ Available(u) \in Nat
        /\ \A w \in SystemWallet : balance[w] \in Nat
    BY DEF TypeOK, ReservationsBacked, Available, Wallet
  <2>1. ASSUME NEW c \in Call, NEW r \in Row, NEW b \in Body, NEW p \in Plan,
               Reserve(c, r, b, p)
        PROVE  E!Next
    <3>1. /\ request' = [request EXCEPT ![r] = NewRow(b, p)]
          /\ reserved' = [reserved EXCEPT ![UserOfRow(r)] = @ + Hold(p)]
          /\ balance' = balance /\ usage' = usage
          /\ request[r].status = "absent" /\ Available(UserOfRow(r)) >= Hold(p)
      BY <2>1 DEF Reserve, IsNew
    <3>2. UserOfRow(r) \in User /\ Hold(p) \in Nat /\ Hold(p) \in 0..Available(UserOfRow(r))
      BY <2>0, <3>1, OwnerType, HoldType
    <3>3. /\ AuthOf(r) = "none" /\ AuthOf(r)' = "held" /\ AmountOf(r)' = Hold(p)
          /\ \A q \in Row \ {r} : AuthOf(q)' = AuthOf(q) /\ AmountOf(q)' = AmountOf(q)
      <4>1. request'[r] = NewRow(b, p) /\ \A q \in Row \ {r} : request'[q] = request[q]
        BY <3>1 DEF TypeOK
      <4>2. \A q \in Row \ {r} : AuthOf(q)' = AuthOf(q) /\ AmountOf(q)' = AmountOf(q)
        BY <3>1, <4>1, AbstractRowKept
      <4>3. QED
        BY <3>1, <4>1, <4>2 DEF AuthOf, AmountOf, IsHeld, NewRow
    <3>4. \A u \in User : Available(u)' = IF u = UserOfRow(r) THEN Available(u) - Hold(p)
                                          ELSE Available(u)
      BY <2>0, <3>1, <3>2 DEF Available, TypeOK
    <3>5. E!Authorize(r)
      BY <3>1, <3>2, <3>3, <3>4 DEF E!Authorize
    <3>6. QED
      BY <3>5 DEF E!Next
  <2>2. ASSUME NEW c \in Call, Settle(c)
        PROVE  E!Next
    <3>. PICK r \in Row : r = call[c].row
      BY <2>2 DEF Settle, TypeOK, CallRecord
    <3> DEFINE p == request[r].plan
               u == UserOfRow(r)
               b == Rate(call[c].mode, call[c].answer)
               x == Retail(b)
    <3>1. /\ u \in User /\ b \in Shares /\ x \in Nat /\ Hold(p) \in Nat /\ x <= Hold(p)
          /\ x = b.upstream + b.channel + b.platform
      BY <2>2, OwnerType, RateType, HoldType DEF Settle, WithinReservation, TypeOK, CallRecord, Retail
    <3>2. /\ request' = [request EXCEPT ![r].status = "settled"]
          /\ reserved' = [reserved EXCEPT ![u] = @ - Hold(p)]
          /\ balance' = Settled(u, b)
          /\ usage' = [usage EXCEPT ![r] = [mode |-> call[c].mode, shares |-> b, month |-> month]]
          /\ request[r].status = "reserved"
      BY <2>2 DEF Settle, StillReserved
    <3>3. /\ AuthOf(r) = "held" /\ AmountOf(r) = Hold(p)
          /\ AuthOf(r)' = "captured" /\ AmountOf(r)' = x
          /\ \A q \in Row \ {r} : AuthOf(q)' = AuthOf(q) /\ AmountOf(q)' = AmountOf(q)
      <4>1. /\ request'[r].status = "settled" /\ usage'[r].shares = b
            /\ \A q \in Row \ {r} : request'[q] = request[q] /\ usage'[q] = usage[q]
        BY <3>2 DEF TypeOK, RowRecord
      <4>2. \A q \in Row \ {r} : AuthOf(q)' = AuthOf(q) /\ AmountOf(q)' = AmountOf(q)
        BY <4>1, AbstractRowKept
      <4>3. AuthOf(r) = "held" /\ AmountOf(r) = Hold(p)
        BY <3>2, AbstractRow DEF IsHeld
      <4>4. QED
        BY <4>1, <4>2, <4>3 DEF AuthOf, AmountOf, IsHeld
    <3>4. \A v \in User : Available(v)' = IF v = u THEN Available(v) + (Hold(p) - x)
                                          ELSE Available(v)
      <4>1. \A v \in User : balance'[v] = balance[v] - (IF v = u THEN x ELSE 0)
        BY <3>1, <3>2, SettledOnUsers DEF TypeOK
      <4>2. \A v \in User : reserved'[v] = reserved[v] - (IF v = u THEN Hold(p) ELSE 0)
        BY <2>0, <3>1, <3>2 DEF TypeOK
      <4>3. QED
        BY <2>0, <3>1, <4>1, <4>2 DEF Available
    <3>5. balance'["provider_cost"] + balance'["developer"] + balance'["platform"]
            = balance["provider_cost"] + balance["developer"] + balance["platform"] + x
      <4>1. /\ u \in Wallet /\ u # "provider_cost" /\ u # "developer" /\ u # "platform"
            /\ "provider_cost" \in Wallet /\ "developer" \in Wallet /\ "platform" \in Wallet
        BY <3>1, CompletionAssumption DEF Wallet, SystemWallet
      <4>2. /\ balance'["provider_cost"] = balance["provider_cost"] + b.upstream
            /\ balance'["developer"] = balance["developer"] + b.channel
            /\ balance'["platform"] = balance["platform"] + b.platform
        BY <3>2, <4>1 DEF Settled, TypeOK
      <4>3. b.upstream \in Nat /\ b.channel \in Nat /\ b.platform \in Nat
        BY <3>1 DEF Shares
      <4>4. QED
        BY <2>0, <3>1, <4>2, <4>3 DEF SystemWallet
    <3>6. E!Capture(r)
      <4> DEFINE funds  == [v \in User |-> Available(v)]
                 auth   == [q \in Row |-> AuthOf(q)]
                 amount == [q \in Row |-> AmountOf(q)]
      <4>1. auth[r] = "held" /\ amount[r] = Hold(p) /\ x \in 0..amount[r]
        BY <3>1, <3>3
      <4>2. funds' = [funds EXCEPT ![[q \in Row |-> UserOfRow(q)][r]] = @ + (amount[r] - x)]
        BY <3>1, <3>3, <3>4
      <4>3. /\ amount' = [amount EXCEPT ![r] = x]
            /\ auth' = [auth EXCEPT ![r] = "captured"]
        BY <3>3
      <4> HIDE DEF x
      <4>4. QED
        BY <3>5, <4>1, <4>2, <4>3 DEF E!Capture
    <3>7. QED
      BY <3>6 DEF E!Next
  <2>3. ASSUME NEW c \in Call, Release(c)
        PROVE  E!Next \/ UNCHANGED E!escrow
    <3>. PICK r \in Row : r = call[c].row
      BY <2>3 DEF Release, TypeOK, CallRecord
    <3> DEFINE p == request[r].plan
               u == UserOfRow(r)
    <3>1. CASE ~StillReserved(r)
      BY <2>3, <3>1, EscrowStutters DEF Release
    <3>2. CASE StillReserved(r)
      <4>1. /\ request' = [request EXCEPT ![r].status = "failed"]
            /\ reserved' = [reserved EXCEPT ![u] = @ - Hold(p)]
            /\ balance' = balance /\ usage' = usage
        BY <2>3, <3>2 DEF Release
      <4>2. u \in User /\ Hold(p) \in Nat
        BY OwnerType, HoldType
      <4>3. /\ AuthOf(r) = "held" /\ AmountOf(r) = Hold(p)
            /\ AuthOf(r)' = "voided" /\ AmountOf(r)' = 0
            /\ \A q \in Row \ {r} : AuthOf(q)' = AuthOf(q) /\ AmountOf(q)' = AmountOf(q)
        <5>1. /\ request'[r].status = "failed"
              /\ \A q \in Row \ {r} : request'[q] = request[q]
          BY <4>1 DEF TypeOK, RowRecord
        <5>2. \A q \in Row \ {r} : AuthOf(q)' = AuthOf(q) /\ AmountOf(q)' = AmountOf(q)
          BY <4>1, <5>1, AbstractRowKept
        <5>3. AuthOf(r) = "held" /\ AmountOf(r) = Hold(p)
          BY <3>2, AbstractRow DEF IsHeld, StillReserved
        <5>4. QED
          BY <5>1, <5>2, <5>3 DEF AuthOf, AmountOf, IsHeld
      <4>4. \A v \in User : Available(v)' = IF v = u THEN Available(v) + Hold(p)
                                            ELSE Available(v)
        BY <2>0, <4>1, <4>2 DEF Available, TypeOK
      <4>5. E!Void(r)
        BY <4>1, <4>2, <4>3, <4>4 DEF E!Void
      <4>6. QED
        BY <4>5 DEF E!Next
    <3>3. QED
      BY <3>1, <3>2
  <2>4. ASSUME NEW u \in User, NEW a \in Amount, Credit(u, a) \/ Debit(u, a)
        PROVE  E!Next
    <3>1. /\ reserved' = reserved /\ usage' = usage /\ request' = request
          /\ \A r \in Row : AuthOf(r)' = AuthOf(r) /\ AmountOf(r)' = AmountOf(r)
      BY <2>4, AbstractRowKept DEF Credit, Debit
    <3>2. \A w \in SystemWallet : balance'[w] = balance[w]
      BY <2>4, CompletionAssumption DEF Credit, Debit, TypeOK, Wallet
    <3>3. a \in Nat /\ u \in Wallet
      BY CompletionAssumption DEF Wallet
    <3>4. CASE Credit(u, a)
      <4>1. \A v \in User : Available(v)' = IF v = u THEN Available(v) + a ELSE Available(v)
        BY <2>0, <3>3, <3>4 DEF Credit, Available, TypeOK
      <4>2. E!Deposit(u)
        BY <3>1, <3>2, <4>1 DEF E!Deposit, SystemWallet
      <4>3. QED
        BY <4>2 DEF E!Next
    <3>5. CASE Debit(u, a)
      <4>1. /\ \A v \in User : Available(v)' = IF v = u THEN Available(v) - a ELSE Available(v)
            /\ a \in 0..Available(u)
        BY <2>0, <3>3, <3>5 DEF Debit, Available, TypeOK
      <4>2. E!Withdraw(u)
        BY <3>1, <3>2, <4>1 DEF E!Withdraw, SystemWallet
      <4>3. QED
        BY <4>2 DEF E!Next
    <3>6. QED
      BY <2>4, <3>4, <3>5
  <2>5. ASSUME NEW r \in Row, (\E c \in Call, b \in Body : HoldExpired(c, r, b)) \/ Expire(r)
        PROVE  UNCHANGED E!escrow
    <3>1. balance' = balance /\ reserved' = reserved /\ usage' = usage
      BY <2>5 DEF HoldExpired, Expire
    <3>2. /\ IsHeld(r) /\ IsHeld(r)' /\ request'[r].plan = request[r].plan
          /\ \A q \in Row \ {r} : request'[q] = request[q]
      BY <2>5 DEF HoldExpired, Expire, IsHeld, TypeOK, RowRecord
    <3>3. QED
      BY <3>1, <3>2, EscrowStutters
  <2>6. ASSUME NEW c \in Call, MarkRequiresReview(c)
        PROVE  UNCHANGED E!escrow
    <3>. PICK r \in Row : r = call[c].row
      BY <2>6 DEF MarkRequiresReview, TypeOK, CallRecord
    <3>1. balance' = balance /\ reserved' = reserved /\ usage' = usage
      BY <2>6 DEF MarkRequiresReview
    <3>2. CASE StillReserved(r)
      <4>1. /\ IsHeld(r) /\ IsHeld(r)' /\ request'[r].plan = request[r].plan
            /\ \A q \in Row \ {r} : request'[q] = request[q]
        BY <2>6, <3>2 DEF MarkRequiresReview, StillReserved, IsHeld, TypeOK, RowRecord
      <4>2. QED
        BY <3>1, <4>1, EscrowStutters
    <3>3. CASE ~StillReserved(r)
      BY <2>6, <3>1, <3>3, EscrowStutters DEF MarkRequiresReview
    <3>4. QED
      BY <3>2, <3>3
  <2>7. CASE UNCHANGED <<balance, reserved, request, usage>>
    BY <2>7, EscrowStutters
  <2>8. ASSUME NEW c \in Call, Handler(c) \/ Crash(c)
        PROVE  E!Next \/ UNCHANGED E!escrow
    BY <2>2, <2>3, <2>6, <2>7, <2>8
    DEF Handler, Provider, ProviderAnswers, FallBack, ProviderFails, SettleAborts,
        ReleaseAborts, Crash
  <2>9. ASSUME NEW c \in Call, NEW r \in Row, NEW b \in Body, Replay(c, r, b)
        PROVE  E!Next \/ UNCHANGED E!escrow
    BY <2>7, <2>9 DEF Replay
  <2>10. ASSUME NEW s \in Session, EndSession(s)
         PROVE  E!Next \/ UNCHANGED E!escrow
    BY <2>7, <2>10 DEF EndSession
  <2>11. CASE NextMonth \/ UNCHANGED vars
    BY <2>7, <2>11 DEF NextMonth, vars
  <2>12. ASSUME NEW c \in Call, NEW r \in Row, NEW b \in Body,
                (\E p \in Plan : Reserve(c, r, b, p)) \/ Replay(c, r, b) \/ HoldExpired(c, r, b)
         PROVE  E!Next \/ UNCHANGED E!escrow
    BY <2>1, <2>5, <2>9, <2>12
  <2>13. ASSUME Next
         PROVE  E!Next \/ UNCHANGED E!escrow
    <3>1. CASE \E c \in Call, r \in Row, b \in Body :
                 (\E p \in Plan : Reserve(c, r, b, p)) \/ Replay(c, r, b) \/ HoldExpired(c, r, b)
      BY <2>12, <3>1
    <3>2. CASE \E c \in Call : Handler(c) \/ Crash(c)
      BY <2>8, <3>2
    <3>3. CASE \E r \in Row : Expire(r)
      BY <2>5, <3>3
    <3>4. CASE (\E s \in Session : EndSession(s)) \/ NextMonth
      BY <2>10, <2>11, <3>4
    <3>5. CASE \E u \in User, a \in Amount : Credit(u, a) \/ Debit(u, a)
      BY <2>4, <3>5
    <3>6. QED
      BY <2>13, <3>1, <3>2, <3>3, <3>4, <3>5 DEF Next
  <2>14. QED
    BY <2>11, <2>13 DEF vars
<1>3. QED
  BY <1>1, <1>2, TypeCorrect, ReservationsAreBacked, PTL DEF Spec, ImplementsEscrow, E!Spec

-----------------------------------------------------------------------------
(* The gateway moves money as Funds says (GatewayFunds).                   *)

\* Only a settlement charges a row, and no more than the row held.
LEMMA ChargesStep == TypeOK /\ ChargesAreSmall /\ [Next]_vars => ChargesAreSmall'
<1> SUFFICES ASSUME TypeOK, ChargesAreSmall, [Next]_vars PROVE ChargesAreSmall'
  OBVIOUS
<1>1. CASE \E c \in Call, r \in Row, b \in Body, p \in Plan : Reserve(c, r, b, p)
  BY <1>1 DEF Reserve, ChargesAreSmall
<1>2. CASE ~\E c \in Call, r \in Row, b \in Body, p \in Plan : Reserve(c, r, b, p)
  <2>1. SUFFICES ASSUME NEW q \in Row, usage'[q] # None
                 PROVE  Retail(usage'[q].shares) <= ReservedRetail
    BY DEF ChargesAreSmall
  <2>2. RowStays(q) \/ RowIsHeldOrFreed(q) \/ RowIsSettled(q)
    BY <1>2, RowSteps
  <2>3. CASE usage'[q] = usage[q]
    BY <2>1, <2>3 DEF ChargesAreSmall
  <2>4. CASE RowIsSettled(q)
    <3>1. usage'[q] \in UsageEvent /\ Retail(usage'[q].shares) <= Hold(request[q].plan)
      BY <2>4 DEF RowIsSettled
    <3>2. Hold(request[q].plan) <= ReservedRetail /\ ReservedRetail \in Nat
      BY CompletionAssumption DEF Hold
    <3>3. QED
      BY <3>1, <3>2, EventType, HoldType
  <2>5. QED
    BY <2>2, <2>3, <2>4 DEF RowStays, RowIsHeldOrFreed
<1>3. QED
  BY <1>1, <1>2

\* What users have paid is a natural number within the bound, before and after a step.
LEMMA PaidType ==
  ASSUME usage \in [Row -> UsageEvent \cup {None}], ChargesAreSmall, NEW u
  PROVE  /\ \A r \in Row : PaidFor(r, u) \in Nat
         /\ PaidBy(u) \in Int /\ MostPaid \in Int /\ PaidBy(u) <= MostPaid
<1>1. PICK f, g : f = [r \in Row |-> PaidFor(r, u)] /\ g = [r \in Row |-> ReservedRetail]
  OBVIOUS
<1>2. ReservedRetail \in Nat /\ IsFiniteSet(Row)
  BY CompletionAssumption
<1>3. ASSUME NEW r \in Row PROVE PaidFor(r, u) \in Nat /\ PaidFor(r, u) <= ReservedRetail
  <2>1. usage[r] # None => Retail(usage[r].shares) \in Nat
    BY EventType
  <2>2. QED
    BY <1>2, <2>1 DEF PaidFor, ChargesAreSmall
<1>4. \A r \in Row : f[r] \in Int /\ g[r] \in Int /\ f[r] <= g[r]
  BY <1>1, <1>2, <1>3
<1>5. SumFunctionOnSet(f, Row) \in Int
  BY <1>2, <1>4, SumInt
<1>6. SumFunctionOnSet(g, Row) \in Int
  BY <1>2, <1>4, SumInt
<1>7. SumFunctionOnSet(f, Row) <= SumFunctionOnSet(g, Row)
  BY <1>2, <1>4, SumAtMost
<1>8. QED
  BY <1>1, <1>3, <1>5, <1>6, <1>7 DEF PaidBy, MostPaid

\* The same after a step.
LEMMA PaidTypeNext ==
  ASSUME usage' \in [Row -> UsageEvent \cup {None}], ChargesAreSmall', NEW u
  PROVE  /\ \A r \in Row : PaidFor(r, u)' \in Nat
         /\ PaidBy(u)' \in Int /\ PaidBy(u)' <= MostPaid
<1>1. PICK f, g : f = [r \in Row |-> PaidFor(r, u)'] /\ g = [r \in Row |-> ReservedRetail]
  OBVIOUS
<1>2. ReservedRetail \in Nat /\ IsFiniteSet(Row)
  BY CompletionAssumption
<1>3. ASSUME NEW r \in Row PROVE PaidFor(r, u)' \in Nat /\ PaidFor(r, u)' <= ReservedRetail
  <2>1. usage'[r] # None => Retail(usage'[r].shares) \in Nat
    BY EventType
  <2>2. usage'[r] # None => Retail(usage'[r].shares) <= ReservedRetail
    BY DEF ChargesAreSmall
  <2>3. QED
    BY <1>2, <2>1, <2>2 DEF PaidFor
<1>4. \A r \in Row : f[r] \in Int /\ g[r] \in Int /\ f[r] <= g[r]
  BY <1>1, <1>2, <1>3
<1>5. SumFunctionOnSet(f, Row) \in Int
  BY <1>2, <1>4, SumInt
<1>6. SumFunctionOnSet(f, Row) <= SumFunctionOnSet(g, Row)
  BY <1>2, <1>4, SumAtMost
<1>7. QED
  BY <1>1, <1>3, <1>5, <1>6 DEF PaidBy, MostPaid

\* A row that is charged adds its price to what its user has paid.
LEMMA ChargeAdds ==
  ASSUME usage \in [Row -> UsageEvent \cup {None}], ChargesAreSmall, ChargesAreSmall',
         NEW r \in Row, usage[r] = None, NEW e \in UsageEvent,
         usage' = [usage EXCEPT ![r] = e], NEW u
  PROVE  PaidBy(u)' = PaidBy(u) + (IF UserOfRow(r) = u THEN Retail(e.shares) ELSE 0)
<1>1. PICK f, g : f = [q \in Row |-> PaidFor(q, u)] /\ g = [q \in Row |-> PaidFor(q, u)']
  OBVIOUS
<1>2. usage' \in [Row -> UsageEvent \cup {None}] /\ IsFiniteSet(Row)
  BY CompletionAssumption
<1>3. \A q \in Row : f[q] \in Int /\ g[q] \in Int
  BY <1>1, <1>2, PaidType, PaidTypeNext
<1>4. \A q \in Row \ {r} : g[q] = f[q]
  BY <1>1 DEF PaidFor
<1>5. f[r] = 0 /\ g[r] = IF UserOfRow(r) = u THEN Retail(e.shares) ELSE 0
  BY <1>1, EventType DEF PaidFor
<1>6. SumFunctionOnSet(g, Row) = SumFunctionOnSet(f, Row) - f[r] + g[r]
  BY <1>2, <1>3, <1>4, SumChange
<1>7. SumFunctionOnSet(f, Row) \in Int /\ g[r] \in Int
  BY <1>2, <1>3, SumInt
<1>8. QED
  BY <1>1, <1>5, <1>6, <1>7 DEF PaidBy

\* A step that touches neither wallets nor usage events is none of Funds'.
LEMMA WalletsKept ==
  ASSUME balance' = balance, reserved' = reserved, usage' = usage
  PROVE  UNCHANGED F!vars
<1>1. \A u : PaidBy(u)' = PaidBy(u)
  BY DEF PaidBy, PaidFor
<1>2. QED
  BY <1>1 DEF F!vars

\* What is given back of a reservation but for x, of which the developer gets y, is one
\* settlement of Funds.
LEMMA SettlesAsFunds ==
  ASSUME TypeOK, NEW u \in User, NEW p \in Plan, NEW x \in Nat, NEW y \in Nat,
         x <= Hold(p), y <= x, reserved[u] >= Hold(p),
         PaidBy(u) \in Int, PaidBy(u) + x <= MostPaid,
         reserved' = [reserved EXCEPT ![u] = @ - Hold(p)],
         \A v \in User : balance'[v] = balance[v] - (IF v = u THEN x ELSE 0),
         balance'["developer"] = balance["developer"] + y,
         \A v \in User : PaidBy(v)' = PaidBy(v) + (IF v = u THEN x ELSE 0),
         \A v \in User : PaidBy(v) \in Int
  PROVE  F!Next
<1> DEFINE bal   == [w \in User \cup {"developer"} |-> balance[w]]
           res   == [w \in User \cup {"developer"} |-> IF w \in User THEN reserved[w] ELSE 0]
           spent == [v \in User |-> PaidBy(v)]
           gain  == [d \in {"developer"} |-> balance[d]]
           a     == Hold(p)
<1>1. "developer" \notin User /\ a \in Nat
  BY CompletionAssumption, HoldType DEF SystemWallet
<1>2. /\ \A v \in User : balance[v] \in Nat /\ reserved[v] \in Nat
      /\ balance["developer"] \in Nat /\ reserved \in [User -> Nat]
  BY DEF TypeOK, Wallet, SystemWallet
<1>3. x \in 0 .. a /\ y \in 0 .. x
  BY <1>1
<1>4. res' = [res EXCEPT ![u] = @ - a]
  BY <1>1, <1>2
<1>5. bal' = [bal EXCEPT ![u] = @ - x, !["developer"] = @ + y]
  <2>1. \A w \in User \cup {"developer"} :
          balance'[w] = CASE w = u -> balance[w] - x
                          [] w = "developer" -> balance[w] + y
                          [] OTHER -> balance[w]
    BY <1>1, <1>2
  <2>2. QED
    BY ONLY <1>1, <2>1
<1>6. spent' = [spent EXCEPT ![u] = @ + x]
  <2>1. \A v \in User : PaidBy(v)' = IF v = u THEN PaidBy(v) + x ELSE PaidBy(v)
    OBVIOUS
  <2>2. QED
    BY ONLY <2>1, u \in User
<1>7. gain' = [gain EXCEPT !["developer"] = @ + y]
  OBVIOUS
<1>8. res[u] >= a /\ spent[u] + x <= MostPaid
  BY <1>1
<1> HIDE DEF a
<1>9. F!Settle(u, "developer", a)
  BY <1>3, <1>4, <1>5, <1>6, <1>7, <1>8 DEF F!Settle, F!stripe
<1>10. QED
  BY <1>9 DEF F!Next, a

\* Every step on the wallets that is not the API's is one Funds has for the gateway: a
\* reservation that is covered, or its end.
LEMMA GatewayStep ==
  ASSUME TypeOK, BooksAgree, ChargesAreSmall, TypeOK', ChargesAreSmall', [Next]_vars
  PROVE  \/ F!Next
         \/ \E u \in User, a \in Amount : Credit(u, a) \/ Debit(u, a)
         \/ UNCHANGED F!vars
<1> DEFINE Goal == \/ F!Next
                   \/ \E u \in User, a \in Amount : Credit(u, a) \/ Debit(u, a)
                   \/ UNCHANGED F!vars
<1> SUFFICES Goal
  OBVIOUS
<1>0. /\ \A u \in User : /\ PaidBy(u) \in Int /\ PaidBy(u) <= MostPaid
                         /\ PaidBy(u)' \in Int /\ PaidBy(u)' <= MostPaid
      /\ MostPaid \in Int
      /\ \A u \in User : balance[u] \in Nat /\ reserved[u] \in Nat
      /\ balance["developer"] \in Nat
  <2>1. \A u \in User : PaidBy(u) \in Int /\ PaidBy(u) <= MostPaid /\ MostPaid \in Int
    BY PaidType DEF TypeOK
  <2>2. \A u \in User : PaidBy(u)' \in Int /\ PaidBy(u)' <= MostPaid
    BY PaidTypeNext DEF TypeOK
  <2>3. MostPaid \in Int
    BY PaidType DEF TypeOK
  <2>4. QED
    BY <2>1, <2>2, <2>3 DEF TypeOK, Wallet, SystemWallet
<1>1. ASSUME NEW c \in Call, NEW r \in Row, NEW b \in Body, NEW p \in Plan, Reserve(c, r, b, p)
      PROVE  F!Next
  <2> DEFINE res == [w \in User \cup {"developer"} |-> IF w \in User THEN reserved[w] ELSE 0]
             u   == UserOfRow(r)
             a   == Hold(p)
  <2>1. u \in User /\ "developer" \notin User /\ a \in Nat
    BY CompletionAssumption, OwnerType, HoldType DEF SystemWallet
  <2>2. /\ reserved' = [reserved EXCEPT ![u] = @ + a] /\ balance' = balance /\ usage' = usage
        /\ balance[u] - reserved[u] >= a
    BY <1>1 DEF Reserve, Available
  <2>3. res' = [res EXCEPT ![u] = @ + a]
    BY <2>1, <2>2 DEF TypeOK
  <2>4. \A v : PaidBy(v)' = PaidBy(v)
    BY <2>2 DEF PaidBy, PaidFor
  <2>5. F!Reserve(u, a)
    BY <2>1, <2>2, <2>3, <2>4 DEF F!Reserve, F!Available, F!stripe
  <2>6. a \in {Hold(q) : q \in Plan}
    OBVIOUS
  <2> HIDE DEF a, u
  <2>7. QED
    BY <2>1, <2>5, <2>6 DEF F!Next
<1>2. ASSUME NEW c \in Call, Settle(c)
      PROVE  F!Next
  <2>1. PICK r, u, b, e, p : /\ r = call[c].row /\ u = UserOfRow(r) /\ p = request[r].plan
                             /\ b = Rate(call[c].mode, call[c].answer)
                             /\ e = [mode |-> call[c].mode, shares |-> b, month |-> month]
    OBVIOUS
  <2>2. /\ r \in Row /\ u \in User /\ b \in Shares /\ Retail(b) \in Nat
        /\ call[c].mode \in RouteMode /\ month \in 0 .. MaxMonth
    BY <1>2, <2>1, OwnerType, RateType DEF Settle, TypeOK, CallRecord
  <2>3. e \in UsageEvent /\ e.shares = b
    BY <2>1, <2>2 DEF UsageEvent
  <2>4. /\ usage' = [usage EXCEPT ![r] = e] /\ balance' = Settled(u, b)
        /\ reserved' = [reserved EXCEPT ![u] = @ - Hold(p)]
        /\ request[r].status = "reserved" /\ reserved[u] >= Hold(p)
        /\ Retail(b) <= Hold(p)
    BY <1>2, <2>1 DEF Settle, StillReserved, WithinReservation, WalletCovers
  <2>5. p \in Plan
    BY <2>1, <2>2, <2>4 DEF TypeOK, RowRecord
  <2>6. usage \in [Row -> UsageEvent \cup {None}] /\ usage[r] = None
    BY <2>2, <2>4 DEF TypeOK, BooksAgree
  <2>7. \A v \in User : PaidBy(v)' = PaidBy(v) + (IF v = u THEN Retail(b) ELSE 0)
    <3>1. ASSUME NEW v \in User
          PROVE  PaidBy(v)' = PaidBy(v) + (IF UserOfRow(r) = v THEN Retail(e.shares) ELSE 0)
      BY <2>2, <2>3, <2>4, <2>6, ChargeAdds
    <3>2. QED
      BY <2>1, <2>3, <3>1
  <2>8. \A v \in User : balance'[v] = balance[v] - (IF v = u THEN Retail(b) ELSE 0)
    BY <2>2, <2>4, SettledOnUsers DEF TypeOK
  <2>9. b.channel \in Nat /\ b.channel <= Retail(b)
    BY <2>2 DEF Shares, Retail
  <2>10. balance'["developer"] = balance["developer"] + b.channel
    <3>1. u # "provider_cost" /\ u # "developer" /\ u # "platform" /\ "developer" \in Wallet
      BY <2>2, CompletionAssumption DEF Wallet, SystemWallet
    <3>2. QED
      BY <2>4, <3>1 DEF Settled, TypeOK
  <2>11. PaidBy(u) + Retail(b) <= MostPaid
    BY <1>0, <2>2, <2>7
  <2>12. QED
    BY <1>0, <2>2, <2>4, <2>5, <2>7, <2>8, <2>9, <2>10, <2>11, SettlesAsFunds
<1>3. ASSUME NEW c \in Call, Release(c)
      PROVE  Goal
  <2>1. PICK r, u, p : r = call[c].row /\ u = UserOfRow(r) /\ p = request[r].plan
    OBVIOUS
  <2>2. r \in Row /\ u \in User
    BY <1>3, <2>1, OwnerType DEF Release, TypeOK, CallRecord
  <2>3. balance' = balance /\ usage' = usage
    BY <1>3 DEF Release
  <2>4. CASE ~StillReserved(r)
    BY <1>3, <2>1, <2>3, <2>4, WalletsKept DEF Release
  <2>5. CASE StillReserved(r)
    <3>1. reserved[u] >= Hold(p) /\ reserved' = [reserved EXCEPT ![u] = @ - Hold(p)]
      BY <1>3, <2>1, <2>5 DEF Release
    <3>2. p \in Plan /\ Hold(p) \in Nat
      BY <2>1, <2>2, <2>5, HoldType DEF StillReserved, TypeOK, RowRecord
    <3>3. PICK z \in Nat : z = 0
      OBVIOUS
    <3>4. \A v \in User : PaidBy(v)' = PaidBy(v) + (IF v = u THEN z ELSE 0)
      BY <1>0, <2>3, <3>3 DEF PaidBy, PaidFor
    <3>5. \A v \in User : balance'[v] = balance[v] - (IF v = u THEN z ELSE 0)
      BY <1>0, <2>3, <3>3
    <3>6. balance'["developer"] = balance["developer"] + z
      BY <1>0, <2>3, <3>3
    <3>7. PaidBy(u) + z <= MostPaid /\ z <= Hold(p) /\ z <= z
      BY <1>0, <2>2, <3>2, <3>3
    <3>8. F!Next
      BY <1>0, <2>2, <3>1, <3>2, <3>4, <3>5, <3>6, <3>7, SettlesAsFunds
    <3>9. QED
      BY <3>8
  <2>6. QED
    BY <2>4, <2>5
<1>4. CASE UNCHANGED <<balance, reserved, usage>>
  BY <1>4, WalletsKept
<1> HIDE DEF Goal
<1>5. F!Next => Goal
  BY DEF Goal
<1>6. ASSUME NEW u \in User, NEW a \in Amount, Credit(u, a) \/ Debit(u, a)
      PROVE  Goal
  BY <1>6 DEF Goal
<1>7. QED
  BY <1>1, <1>2, <1>3, <1>4, <1>5, <1>6
  DEF Next, Handler, Provider, vars, wallets, history, Replay, HoldExpired, ProviderAnswers,
      FallBack, ProviderFails, SettleAborts, ReleaseAborts, MarkRequiresReview, Crash, Expire,
      EndSession, NextMonth

\* Nobody has paid or reserved anything at first.
LEMMA GatewayInit == Init => F!Init /\ ChargesAreSmall
<1> SUFFICES ASSUME Init PROVE F!Init /\ ChargesAreSmall
  OBVIOUS
<1>1. ASSUME NEW u PROVE PaidBy(u) = 0
  <2>1. PICK f : f = [r \in Row |-> PaidFor(r, u)]
    OBVIOUS
  <2>2. \A r \in Row : f[r] = 0
    BY <2>1 DEF Init, PaidFor
  <2>3. IsFiniteSet(Row)
    BY CompletionAssumption
  <2>4. SumFunctionOnSet(f, Row) = 0
    BY <2>2, <2>3, SumZero
  <2>5. QED
    BY <2>1, <2>4 DEF PaidBy
<1>2. "developer" \notin User
  BY CompletionAssumption DEF SystemWallet
<1>3. /\ \A w \in User \cup {"developer"} : balance[w] = IF w \in User THEN Opening ELSE 0
      /\ \A u \in User : reserved[u] = 0
  BY <1>2 DEF Init, Wallet, SystemWallet
<1>4. F!Init
  BY <1>1, <1>2, <1>3 DEF F!Init, F!Wallet, Nothing
<1>5. ChargesAreSmall
  BY DEF Init, ChargesAreSmall
<1>6. QED
  BY <1>4, <1>5

\* With every race, crash and retry, the gateway does to the wallets no more than Funds
\* lets it: what Funds shows of top-ups, adjustments and payouts beside the gateway is so
\* of the gateway there is.
THEOREM GatewayIsFunds == Spec => KeepsToFunds
<1>1. /\ Init => F!Init
      /\ Init => ChargesAreSmall
  BY GatewayInit
<1>2. TypeOK /\ TypeOK' /\ BooksAgree /\ ChargesAreSmall /\ ChargesAreSmall' /\ [Next]_vars
        => [F!Next \/ \E u \in User, a \in Amount : Credit(u, a) \/ Debit(u, a)]_(F!vars)
  BY GatewayStep
<1>3. QED
  BY <1>1, <1>2, BooksInit, BooksStep, ChargesStep, TypeCorrect, PTL DEF Spec, KeepsToFunds

-----------------------------------------------------------------------------
(* Pricing: prices add up and a reservation is enough, for all prices,      *)
(* markups, shares, token counts and scales.                               *)


-----------------------------------------------------------------------------
(* Division of natural numbers.                                            *)

\* The quotient and what it leaves.
LEMMA Quotient ==
  ASSUME NEW a \in Nat, NEW d \in Nat \ {0}
  PROVE  a \div d \in Nat /\ d * (a \div d) <= a /\ a < d * ((a \div d) + 1)
OBVIOUS

\* A product with a positive factor tells its other factors' order.
LEMMA CancelFactor ==
  ASSUME NEW d \in Nat \ {0}, NEW q \in Int, NEW r \in Int, d * q < d * (r + 1)
  PROVE  q <= r
OBVIOUS

\* A product grows with its factor.
LEMMA ProductGrows ==
  ASSUME NEW k \in Nat, NEW q \in Nat, NEW r \in Nat, q <= r
  PROVE  k * q \in Nat /\ k * r \in Nat /\ k * q <= k * r
OBVIOUS

\* A quotient grows with what is divided.
LEMMA QuotientGrows ==
  ASSUME NEW a \in Nat, NEW b \in Nat, NEW d \in Nat \ {0}, a <= b
  PROVE  a \div d <= b \div d
<1>1. d * (a \div d) < d * ((b \div d) + 1)
  BY Quotient
<1>2. QED
  BY <1>1, CancelFactor, Quotient

\* Part of an amount grows with the amount, and is the amount or less.
LEMMA PartType ==
  ASSUME NEW a \in Nat, NEW bps \in Nat
  PROVE  Part(a, bps) \in Nat
BY ProductGrows, Quotient, PricingAssumption DEF Part

\* A part of more is no less (calculateBasisPointsAmount).
LEMMA PartGrows ==
  ASSUME NEW a \in Nat, NEW b \in Nat, NEW bps \in Nat, a <= b
  PROVE  Part(a, bps) <= Part(b, bps)
<1>1. a * bps \in Nat /\ b * bps \in Nat /\ a * bps <= b * bps
  OBVIOUS
<1>2. QED
  BY <1>1, QuotientGrows, PricingAssumption DEF Part

\* A developer's share is no more than the margin it is taken of (validateShareBps).
LEMMA PartIsSmaller ==
  ASSUME NEW a \in Nat, NEW bps \in ShareBps
  PROVE  Part(a, bps) <= a
<1>1. bps \in Nat /\ bps <= Basis /\ Basis \in Nat \ {0}
  BY PricingAssumption DEF ShareBps
<1>2. a * bps \in Nat /\ a * bps <= Basis * a
  BY <1>1
<1>3. Basis * Part(a, bps) < Basis * (a + 1)
  <2>1. Basis * Part(a, bps) <= a * bps
    BY <1>1, <1>2, Quotient DEF Part
  <2>2. Basis * (a + 1) = Basis * a + Basis
    BY <1>1
  <2>3. Part(a, bps) \in Nat
    BY <1>1, PartType
  <2>4. Basis * Part(a, bps) \in Nat /\ Basis * a \in Nat
    BY <1>1, <2>3
  <2>5. QED
    BY <1>1, <1>2, <2>1, <2>2, <2>4
<1>4. QED
  BY <1>1, <1>3, CancelFactor, PartType

-----------------------------------------------------------------------------
(* Costs                                                                   *)

\* Tokens cost a natural number of units.
LEMMA WeightedType ==
  ASSUME NEW t \in TokenCounts, NEW p \in PriceList
  PROVE  Weighted(t, p) \in Nat
<1>1. /\ t.input \in Nat /\ t.output \in Nat /\ t.cached \in Nat /\ t.input - t.cached \in Nat
      /\ p.input \in Nat /\ p.output \in Nat /\ p.cached \in Nat
  BY DEF TokenCounts, PriceList
<1>2. /\ p.input * (t.input - t.cached) \in Nat /\ p.cached * t.cached \in Nat
      /\ p.output * t.output \in Nat
  BY <1>1
<1>3. QED
  BY <1>2 DEF Weighted

\* A token cost is a natural number (calculateTokenCostUsd).
LEMMA TokenCostType ==
  ASSUME NEW t \in TokenCounts, NEW p \in PriceList
  PROVE  TokenCost(t, p) \in Nat
<1>1. Weighted(t, p) + TokenScale - 1 \in Nat
  BY WeightedType, PricingAssumption
<1>2. QED
  BY <1>1, Quotient, PricingAssumption DEF TokenCost

\* The gateway counts no cached tokens, so more tokens of either kind cost no less.
LEMMA UpstreamGrows ==
  ASSUME NEW policy \in BillingPolicy, NEW i \in Nat, NEW j \in Nat, NEW o \in Nat, NEW q \in Nat,
         i <= j, o <= q
  PROVE  /\ UpstreamCost(policy, i, o) \in Nat /\ UpstreamCost(policy, j, q) \in Nat
         /\ UpstreamCost(policy, i, o) <= UpstreamCost(policy, j, q)
<1> DEFINE p == policy.prices
           s == [input |-> i, output |-> o, cached |-> 0]
           t == [input |-> j, output |-> q, cached |-> 0]
<1>1. p \in PriceList /\ s \in TokenCounts /\ t \in TokenCounts
  BY DEF BillingPolicy, TokenCounts
<1>2. p.input \in Nat /\ p.output \in Nat /\ p.cached \in Nat
  BY <1>1 DEF PriceList
<1>3. Weighted(s, p) = p.input * i + p.output * o /\ Weighted(t, p) = p.input * j + p.output * q
  BY <1>2 DEF Weighted
<1>4. Weighted(s, p) <= Weighted(t, p)
  <2>1. p.input * i <= p.input * j /\ p.input * i \in Nat /\ p.input * j \in Nat
    BY <1>2, ProductGrows
  <2>2. p.output * o <= p.output * q /\ p.output * o \in Nat /\ p.output * q \in Nat
    BY <1>2, ProductGrows
  <2>3. QED
    BY <1>3, <2>1, <2>2
<1>5. /\ Weighted(s, p) + TokenScale - 1 \in Nat /\ Weighted(t, p) + TokenScale - 1 \in Nat
      /\ Weighted(s, p) + TokenScale - 1 <= Weighted(t, p) + TokenScale - 1
  BY <1>1, <1>4, WeightedType, PricingAssumption
<1>6. TokenCost(s, p) <= TokenCost(t, p)
  BY <1>5, QuotientGrows, PricingAssumption DEF TokenCost
<1>7. QED
  BY <1>1, <1>6, TokenCostType DEF UpstreamCost

-----------------------------------------------------------------------------
(* The theorems                                                            *)

\* What SharesOf makes of a cost and a margin is a triple of natural numbers.
LEMMA SharesType ==
  ASSUME NEW upstream \in Nat, NEW margin \in Nat, NEW share \in ShareBps
  PROVE  /\ SharesOf(upstream, margin, share) \in [upstream : Nat, channel : Nat, platform : Nat]
         /\ Price(SharesOf(upstream, margin, share)) = upstream + margin
<1>1. Part(margin, share) \in Nat /\ Part(margin, share) <= margin
  BY PartType, PartIsSmaller, PricingAssumption DEF ShareBps
<1>2. QED
  BY <1>1 DEF SharesOf, Price

\* However prices are rounded, nobody's share is negative and the shares of upstream,
\* developer and platform are the upstream cost and its margin, to the unit: nothing is lost
\* and nothing made (pricePlatformUsage; the wallets of a settlement rely on it).
THEOREM SharesAddUp ==
  ASSUME NEW upstream \in Nat, NEW markup \in Nat, NEW share \in ShareBps
  PROVE  /\ PlatformShares(upstream, markup, share)
              \in [upstream : Nat, channel : Nat, platform : Nat]
         /\ Price(PlatformShares(upstream, markup, share)) = upstream + Part(upstream, markup)
BY PartType, SharesType DEF PlatformShares

\* A completion within the caps costs no more than was reserved for it, upstream and in all,
\* so that settleCompletion's check of the rated price never fails where rateCompletion's
\* check of the caps has passed, and a wallet that covers the reservation covers the price.
THEOREM ReservationIsEnough ==
  ASSUME NEW policy \in BillingPolicy, NEW input \in Nat, NEW output \in Nat,
         FitsCaps(policy, input, output)
  PROVE  /\ UpstreamCost(policy, input, output)
              <= UpstreamCost(policy, policy.maxInput, policy.maxOutput)
         /\ Price(UsageShares(policy, input, output)) <= Price(CapShares(policy))
<1> DEFINE a == UpstreamCost(policy, input, output)
           b == UpstreamCost(policy, policy.maxInput, policy.maxOutput)
<1>1. /\ policy.maxInput \in Nat /\ policy.maxOutput \in Nat /\ policy.markup \in Nat
      /\ policy.share \in ShareBps
  BY DEF BillingPolicy
<1>2. a \in Nat /\ b \in Nat /\ a <= b
  BY <1>1, UpstreamGrows DEF FitsCaps
<1>3. Part(a, policy.markup) <= Part(b, policy.markup)
  BY <1>1, <1>2, PartGrows
<1>4. /\ Part(a, policy.markup) \in Nat /\ Part(b, policy.markup) \in Nat
  BY <1>1, <1>2, PartType
<1>5. /\ Price(UsageShares(policy, input, output)) = a + Part(a, policy.markup)
      /\ Price(CapShares(policy)) = b + Part(b, policy.markup)
  BY <1>1, <1>2, SharesAddUp DEF UsageShares, CapShares
<1>6. QED
  BY <1>2, <1>3, <1>4, <1>5

\* The rating worker, which rounds each kind of token down, rates a usage without cached
\* tokens no higher than the gateway, which rounds their sum up.  (With cached tokens it may
\* rate it higher, as it takes them for more than a part of the input.)
THEOREM WorkerRatesNoHigher ==
  ASSUME NEW t \in TokenCounts, NEW p \in PriceList, t.cached = 0
  PROVE  WorkerCost(t, p) <= TokenCost(t, p)
<1> DEFINE n == t.input * p.input
           m == t.output * p.output
           x == n \div TokenScale
           y == m \div TokenScale
           z == TokenCost(t, p)
<1>1. n \in Nat /\ m \in Nat /\ TokenScale \in Nat \ {0} /\ z \in Nat
  BY TokenCostType, PricingAssumption DEF TokenCounts, PriceList
<1>2. /\ x \in Nat /\ TokenScale * x <= n
      /\ y \in Nat /\ TokenScale * y <= m
  BY <1>1, Quotient
<1>3. Weighted(t, p) = n + m
  BY <1>1 DEF Weighted, TokenCounts, PriceList
<1>4. WorkerCost(t, p) = x + y
  <2>1. p.cached \in Nat /\ (0 * p.cached) \div TokenScale = 0
    BY <1>1 DEF PriceList
  <2>2. QED
    BY <1>2, <2>1 DEF WorkerCost, WorkerTokenCost
<1>5. n + m + TokenScale - 1 < TokenScale * (z + 1)
  BY <1>1, <1>3, Quotient DEF TokenCost
<1>6. TokenScale * (x + y) < TokenScale * (z + 1)
  <2>1. TokenScale * (x + y) = TokenScale * x + TokenScale * y
    BY <1>1, <1>2
  <2>2. TokenScale * x \in Nat /\ TokenScale * y \in Nat /\ TokenScale * (z + 1) \in Nat
    BY <1>1, <1>2
  <2>3. QED
    BY <1>1, <1>2, <1>5, <2>1, <2>2
<1>7. QED
  BY <1>1, <1>2, <1>4, <1>6, CancelFactor
=============================================================================
