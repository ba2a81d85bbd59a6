----------------------------- MODULE FrontProofs ------------------------------
(* Types, the record of a completion's attempts and what a stretch of a     *)
(* window's length has room for, for every number of requests, every limit  *)
(* and window, and every number of retries.                                 *)
EXTENDS Front, Sums

-----------------------------------------------------------------------------
(* The inductive invariant.  AttemptsAreRecorded alone is not: that the      *)
(* record of an attempt is complete before the next rests on where the       *)
(* client is in its loop, and that an attempt is there at most twice on how  *)
(* often it may throw from there.                                          *)

RequestType ==
  [pc : {"idle", "checking", "admitted", "second", "asking", "canceling", "pausing",
         "failed", "reading", "probing"},
   kind : {"none", "chat", "stranger", "session", "other", "ready"},
   waits : SUBSET (Bucket \cup {"limiter", "others"}), bad : BOOLEAN,
   retry : BOOLEAN, attempt : 0 .. Attempts, record : Seq(1 .. Attempts)]

BucketType == [count : 0 .. Most + 1, ttl : {NoTtl} \cup 0 .. Window]

PastType == [1 .. Window -> Nat]

\* The attempts that are over.
Over(q) == IF q.pc = "asking" THEN q.attempt - 1 ELSE q.attempt

Ordered(s) == \A i, j \in DOMAIN s : i < j => s[i] <= s[j]

Fits(q) ==
  /\ ToSet(q.record) = 1 .. Over(q)
  /\ Ordered(q.record)
  /\ Len(q.record) <= 2 * q.attempt
  /\ q.pc \in {"idle", "checking", "admitted", "second", "probing"} => q.attempt = 0
  /\ q.pc = "asking" => q.attempt >= 1 /\ Len(q.record) <= 2 * (q.attempt - 1)
  /\ q.pc = "canceling" => q.attempt >= 1 /\ Len(q.record) <= 2 * q.attempt - 1
  /\ q.pc = "pausing" => q.attempt >= 1 /\ q.attempt < Attempts

FrontInv == TypeOK /\ \A r \in Request : Fits(request[r])

\* What a bucket counts, as far as the limit.
Capped(b) == IF b.count <= Most THEN b.count ELSE Most

\* How many of the past f are of the n most recent ticks.
Upto(f, n) == SumFunctionOnSet(f, 1 .. n)

\* What a bucket knows of the recent past f, in which the counters were lost as w says.
\* The ticks since its window began, but for the one it began in, let in less than it
\* counts: its first request lies further back.  A longer stretch lets in at most
\* Most - 1 more, what is left of the window before, and Most for each loss in it.  After
\* a lost expiry it is not known when the window began, only what it counts.
Covers(b, f, w) ==
  /\ b.ttl = 0 <=> b.count = 0
  /\ \A n \in 1 .. Window : Upto(f, n) <= Most - 1 + Capped(b) + Most * Upto(w, n)
  /\ b.ttl \in 1 .. Window => \A n \in 1 .. Window - b.ttl : Upto(f, n) <= Capped(b) - 1

WindowInv == \A k \in Bucket : Covers(bucket[k], recent[k], wiped)

-----------------------------------------------------------------------------
(* Lemmas                                                                  *)

\* There is at least one attempt (litellm.ts: maxRetries + 1).
LEMMA AttemptsType == Attempts \in Nat /\ Attempts >= 1
BY FrontAssumption DEF Attempts

\* The smaller of two numbers.
LEMMA MinOfTwo ==
  ASSUME NEW m \in Int, NEW n \in Int
  PROVE  Min({m, n}) \in {m, n} /\ Min({m, n}) <= m /\ Min({m, n}) <= n
<1>1. \E x \in {m, n} : \A y \in {m, n} : x <= y
  OBVIOUS
<1>2. Min({m, n}) \in {m, n} /\ \A y \in {m, n} : Min({m, n}) <= y
  BY <1>1 DEF Min
<1>3. QED
  BY <1>2

\* Whichever limiter counts a check, its count goes no further than one past the limit
\* (InMemoryRateLimiter.check, fixedWindowScript).
LEMMA CountedType ==
  ASSUME NEW b \in BucketType
  PROVE  Counted(b) \in BucketType
<1>1. /\ b.count \in 0 .. Most + 1 /\ b.ttl \in {NoTtl} \cup 0 .. Window
      /\ Most \in Nat \ {0} /\ Window \in Nat \ {0}
  BY FrontAssumption DEF BucketType
<1>2. MemoryCheck(b) \in BucketType
  BY <1>1 DEF MemoryCheck, BucketType, NoTtl
<1>3. RedisCheck(b) \in BucketType
  <2> DEFINE n == IF b.ttl = 0 THEN 1 ELSE Min({b.count + 1, Most + 1})
  <2>1. n \in 0 .. Most + 1
    BY <1>1, MinOfTwo
  <2>2. (IF n = 1 \/ b.ttl = NoTtl THEN Window ELSE b.ttl) \in {NoTtl} \cup 0 .. Window
    BY <1>1
  <2>3. RedisCheck(b) = [count |-> n, ttl |-> IF n = 1 \/ b.ttl = NoTtl THEN Window ELSE b.ttl]
    BY DEF RedisCheck
  <2>4. QED
    BY <2>1, <2>2, <2>3 DEF BucketType
<1>4. QED
  BY <1>2, <1>3 DEF Counted

\* A check keeps the buckets and what is known of the past well typed.
LEMMA CountType ==
  ASSUME TypeOK, NEW k \in Bucket, Count(k)
  PROVE  bucket' \in [Bucket -> BucketType] /\ recent' \in [Bucket -> [1 .. Window -> Nat]]
<1>1. bucket \in [Bucket -> BucketType] /\ recent \in [Bucket -> [1 .. Window -> Nat]]
  BY DEF TypeOK, BucketType
<1>2. bucket' \in [Bucket -> BucketType]
  BY <1>1, CountedType DEF Count
<1>3. recent' \in [Bucket -> [1 .. Window -> Nat]]
  <2>1. recent[k] \in [1 .. Window -> Nat] /\ 1 \in 1 .. Window
    BY <1>1, FrontAssumption
  <2>2. recent[k][1] + (IF Allows(bucket[k]) THEN 1 ELSE 0) \in Nat
    <3>1. recent[k][1] \in Nat
      BY <2>1
    <3>2. recent[k][1] + 1 \in Nat /\ recent[k][1] + 0 \in Nat
      BY <3>1
    <3>3. QED
      BY <3>2
  <2>3. recent' = [recent EXCEPT ![k] =
                     [recent[k] EXCEPT ![1] = recent[k][1] + (IF Allows(bucket[k]) THEN 1 ELSE 0)]]
    BY <1>1 DEF Count
  <2>4. QED
    BY <1>1, <2>1, <2>2, <2>3
<1>4. QED
  BY <1>2, <1>3

\* Another entry for an attempt keeps the record complete and in order.
LEMMA Grows ==
  ASSUME NEW s \in Seq(1 .. Attempts), NEW n \in 1 .. Attempts, NEW d \in {n - 1, n},
         ToSet(s) = 1 .. d, Ordered(s)
  PROVE  /\ Append(s, n) \in Seq(1 .. Attempts)
         /\ ToSet(Append(s, n)) = 1 .. n
         /\ Ordered(Append(s, n))
         /\ Len(Append(s, n)) = Len(s) + 1
<1> DEFINE t == Append(s, n)
<1>1. /\ t \in Seq(1 .. Attempts) /\ Len(t) = Len(s) + 1 /\ Len(s) \in Nat
      /\ DOMAIN t = 1 .. Len(s) + 1 /\ DOMAIN s = 1 .. Len(s)
      /\ \A i \in 1 .. Len(s) : t[i] = s[i]
      /\ t[Len(s) + 1] = n
  OBVIOUS
<1>2. ToSet(t) = ToSet(s) \cup {n}
  BY <1>1 DEF ToSet
<1>3. n \in Int /\ d \in Int /\ n >= 1
  BY AttemptsType
<1>4. ToSet(t) = 1 .. n
  BY <1>2, <1>3
<1>5. \A i \in DOMAIN s : s[i] <= n
  <2>1. \A i \in DOMAIN s : s[i] \in 1 .. d
    BY DEF ToSet
  <2>2. QED
    BY <1>3, <2>1
<1>6. Ordered(t)
  BY <1>1, <1>3, <1>5 DEF Ordered
<1>7. QED
  BY <1>1, <1>4, <1>6

\* A request that has just begun, or is over.
LEMMA FreshFits ==
  ASSUME NEW q \in RequestType, q.attempt = 0, q.record = <<>>,
         q.pc \in {"idle", "checking", "probing"}
  PROVE  Fits(q)
BY DEF Fits, Over, Ordered, ToSet

\* One request moves on and the others stay.
LEMMA OneMoves ==
  ASSUME FrontInv, NEW r \in Request, NEW q \in RequestType, Fits(q),
         request' = [request EXCEPT ![r] = q]
  PROVE  request' \in [Request -> RequestType] /\ \A s \in Request : Fits(request'[s])
BY DEF FrontInv, TypeOK, RequestType

-----------------------------------------------------------------------------
(* Init and Next                                                           *)

\* A request that has not begun is as it should be.
LEMMA IdleType == Idle \in RequestType /\ Fits(Idle)
<1>1. Idle \in RequestType
  BY AttemptsType DEF Idle, RequestType
<1>2. QED
  BY <1>1, FreshFits DEF Idle

\* Nothing has begun at first.
LEMMA FrontInit == Init => FrontInv
BY FrontAssumption, IdleType DEF Init, FrontInv, TypeOK, RequestType

\* Where a step leaves requests right, and the rest well typed, the invariant holds.
LEMMA Reassembled ==
  ASSUME FrontInv,
         request' \in [Request -> RequestType], \A s \in Request : Fits(request'[s]),
         bucket' \in [Bucket -> BucketType], recent' \in [Bucket -> [1 .. Window -> Nat]],
         server' = server, limiter' = limiter, up' \in BOOLEAN,
         wiped' \in PastType, losses' \in 0 .. MaxLosses
  PROVE  FrontInv'
BY DEF FrontInv, TypeOK, RequestType, BucketType, PastType, Fits, Over, Ordered

\* A step of one request that leaves limiters and time alone.
LEMMA RequestStep ==
  ASSUME FrontInv, NEW r \in Request, NEW q \in RequestType, Fits(q),
         request' = [request EXCEPT ![r] = q],
         UNCHANGED <<server, limiter, up, bucket, recent, wiped, losses>>
  PROVE  FrontInv'
<1>1. request' \in [Request -> RequestType] /\ \A s \in Request : Fits(request'[s])
  BY OneMoves
<1>2. /\ bucket' \in [Bucket -> BucketType] /\ recent' \in [Bucket -> [1 .. Window -> Nat]]
      /\ up' \in BOOLEAN /\ wiped' \in PastType /\ losses' \in 0 .. MaxLosses
  BY DEF FrontInv, TypeOK, BucketType, PastType
<1>3. QED
  BY <1>1, <1>2, Reassembled

\* A step of one request that a limiter may have counted.
LEMMA CheckStep ==
  ASSUME FrontInv, NEW r \in Request, NEW q \in RequestType, Fits(q), NEW k \in Bucket,
         request' = [request EXCEPT ![r] = q],
         Count(k) \/ UNCHANGED <<bucket, recent>>,
         UNCHANGED <<server, limiter, up, wiped, losses>>
  PROVE  FrontInv'
<1>1. request' \in [Request -> RequestType] /\ \A s \in Request : Fits(request'[s])
  BY OneMoves
<1>2. bucket' \in [Bucket -> BucketType] /\ recent' \in [Bucket -> [1 .. Window -> Nat]]
  BY CountType DEF FrontInv, TypeOK, BucketType
<1>3. up' \in BOOLEAN /\ wiped' \in PastType /\ losses' \in 0 .. MaxLosses
  BY DEF FrontInv, TypeOK, PastType
<1>4. QED
  BY <1>1, <1>2, <1>3, Reassembled

\* A step that leaves all requests alone, or starts them anew.
LEMMA OutsideStep ==
  ASSUME FrontInv,
         request' = request \/ request' = [r \in Request |-> Idle],
         bucket' \in [Bucket -> BucketType], recent' \in [Bucket -> [1 .. Window -> Nat]],
         server' = server, limiter' = limiter, up' \in BOOLEAN,
         wiped' \in PastType, losses' \in 0 .. MaxLosses
  PROVE  FrontInv'
<1>1. request' \in [Request -> RequestType] /\ \A s \in Request : Fits(request'[s])
  BY IdleType DEF FrontInv, TypeOK, RequestType
<1>2. QED
  BY <1>1, Reassembled

\* No step of one request disturbs the invariant: each action of it in turn.
LEMMA GoStep ==
  ASSUME FrontInv, NEW r \in Request,
         \/ Start(r) \/ Probe(r) \/ Go(r)
         \/ \E k \in Bucket : CheckFails(r, k)
         \/ \E d \in {"limiter", "others"} : Healthy(r, d)
  PROVE  FrontInv'
<1> DEFINE q == request[r]
<1>1. q \in RequestType /\ Fits(q)
  BY DEF FrontInv, TypeOK, RequestType
<1>2. /\ q.attempt \in Nat /\ q.attempt <= Attempts /\ q.record \in Seq(1 .. Attempts)
      /\ Attempts \in Nat /\ Attempts >= 1 /\ Len(q.record) \in Nat
  BY <1>1, AttemptsType DEF RequestType
<1>3. ASSUME Leave(r), UNCHANGED <<server, limiter, up, bucket, recent, wiped, losses>>
      PROVE  FrontInv'
  BY <1>3, IdleType, RequestStep DEF Leave
<1>4. CASE Start(r)
  <2>1. PICK kind \in Kinds \ {"ready"} :
          request' = [request EXCEPT ![r] = [Idle EXCEPT !.pc = "checking", !.kind = kind,
                                                       !.waits = HookBuckets(kind)]]
    BY <1>4 DEF Start
  <2> DEFINE n == [Idle EXCEPT !.pc = "checking", !.kind = kind, !.waits = HookBuckets(kind)]
  <2>2. n \in RequestType
    BY IdleType DEF RequestType, Idle, Kinds, HookBuckets, Bucket
  <2>3. n.attempt = 0 /\ n.record = <<>> /\ n.pc = "checking"
    BY DEF Idle
  <2>4. QED
    BY <1>4, <2>1, <2>2, <2>3, FreshFits, RequestStep DEF Start
<1>5. CASE Probe(r)
  <2> DEFINE n == [Idle EXCEPT !.pc = "probing", !.kind = "ready", !.waits = {"limiter", "others"}]
  <2>1. n \in RequestType
    BY IdleType DEF RequestType, Idle
  <2>2. n.attempt = 0 /\ n.record = <<>> /\ n.pc = "probing"
    BY DEF Idle
  <2>3. QED
    BY <1>5, <2>1, <2>2, FreshFits, RequestStep DEF Probe
<1>6. ASSUME NEW k \in Bucket, Check(r, k) \/ CheckFails(r, k)
      PROVE  FrontInv'
  <2>1. PICK b \in BOOLEAN :
          request' = [request EXCEPT ![r] = [q EXCEPT !.waits = q.waits \ {k}, !.bad = b]]
    <3>1. Check(r, k) => request' = [request EXCEPT ![r] =
                           [q EXCEPT !.waits = q.waits \ {k}, !.bad = q.bad \/ ~Allows(bucket[k])]]
      BY DEF Check, FrontInv, TypeOK
    <3>2. CheckFails(r, k) => request' = [request EXCEPT ![r] =
                                [q EXCEPT !.waits = q.waits \ {k}, !.bad = TRUE]]
      BY DEF CheckFails, FrontInv, TypeOK
    <3>3. (q.bad \/ ~Allows(bucket[k])) \in BOOLEAN
      OBVIOUS
    <3>4. QED
      BY <1>6, <3>1, <3>2, <3>3
  <2> DEFINE n == [q EXCEPT !.waits = q.waits \ {k}, !.bad = b]
  <2>2. n \in RequestType
    BY <1>1 DEF RequestType
  <2>3. n.pc = q.pc /\ n.attempt = q.attempt /\ n.record = q.record
    BY <1>1 DEF RequestType
  <2>4. Fits(n)
    BY <1>1, <2>3 DEF Fits, Over
  <2>5. (Count(k) \/ UNCHANGED <<bucket, recent>>) /\ UNCHANGED <<server, limiter, up, wiped, losses>>
    BY <1>6 DEF Check, CheckFails
  <2>6. QED
    BY <2>1, <2>2, <2>4, <2>5, CheckStep
<1>7. CASE Admit(r)
  <2>1. CASE q.bad
    BY <1>3, <1>7, <2>1 DEF Admit
  <2>2. CASE ~q.bad
    <3> DEFINE n == [q EXCEPT !.pc = "admitted"]
    <3>1. n \in RequestType /\ n.pc = "admitted" /\ n.attempt = q.attempt /\ n.record = q.record
      BY <1>1 DEF RequestType
    <3>2. q.attempt = 0 /\ Fits(n)
      BY <1>1, <1>7, <3>1 DEF Fits, Over, Admit, At
    <3>3. QED
      BY <1>7, <2>2, <3>1, <3>2, RequestStep DEF Admit
  <2>3. QED
    BY <2>1, <2>2
<1>8. CASE SecondCheck(r)
  <2> DEFINE n == [q EXCEPT !.pc = "second", !.waits = {Party}]
  <2>1. n \in RequestType /\ n.pc = "second" /\ n.attempt = q.attempt /\ n.record = q.record
    BY <1>1 DEF RequestType, Bucket
  <2>2. Fits(n)
    BY <1>1, <1>8, <2>1 DEF Fits, Over, SecondCheck, At
  <2>3. request' = [request EXCEPT ![r] = n]
    BY <1>8 DEF SecondCheck, FrontInv, TypeOK
  <2>4. QED
    BY <1>8, <2>1, <2>2, <2>3, RequestStep DEF SecondCheck
<1>9. CASE Respond(r) \/ Fails(r) \/ Read(r) \/ ProbeAnswers(r)
  BY <1>3, <1>9 DEF Respond, Fails, Read, ProbeAnswers
<1>10. CASE Ask(r)
  <2> DEFINE n == [q EXCEPT !.pc = "asking", !.attempt = 1]
  <2>1. n \in RequestType /\ n.pc = "asking" /\ n.attempt = 1 /\ n.record = q.record
    <3>1. 1 \in 0 .. Attempts
      BY AttemptsType
    <3>2. QED
      BY <1>1, <3>1 DEF RequestType
  <2>2. Fits(n)
    BY <1>1, <1>2, <1>10, <2>1 DEF Fits, Over, Ask, At
  <2>3. request' = [request EXCEPT ![r] = n]
    BY <1>10 DEF Ask, FrontInv, TypeOK
  <2>4. QED
    BY <1>10, <2>1, <2>2, <2>3, RequestStep DEF Ask
<1>11. CASE Succeeds(r) \/ Errors(r) \/ Throws(r)
  <2>1. /\ q.pc \in {"asking", "canceling"} /\ q.attempt \in 1 .. Attempts
        /\ Succeeds(r) \/ Errors(r) => q.pc = "asking"
    BY <1>1, <1>2, <1>11 DEF Succeeds, Errors, Throws, At, Fits
  <2>2. /\ Recorded(r) \in Seq(1 .. Attempts) /\ ToSet(Recorded(r)) = 1 .. q.attempt
        /\ Ordered(Recorded(r)) /\ Len(Recorded(r)) = Len(q.record) + 1
    <3>1. Over(q) \in {q.attempt - 1, q.attempt}
      BY DEF Over
    <3>2. QED
      BY <1>1, <1>2, <2>1, <3>1, Grows DEF Recorded, Fits
  <2>3. /\ Len(Recorded(r)) <= 2 * q.attempt
        /\ q.pc = "asking" => Len(Recorded(r)) <= 2 * q.attempt - 1
    <3> DEFINE m == Len(q.record)
               a == q.attempt
    <3>1. m \in Int /\ a \in Int
      BY <1>2
    <3>2. /\ q.pc = "asking" => m <= 2 * (a - 1)
          /\ q.pc = "canceling" => m <= 2 * a - 1
      BY <1>1 DEF Fits
    <3>3. Len(Recorded(r)) = m + 1
      BY <2>2
    <3> HIDE DEF m, a
    <3>4. /\ q.pc = "asking" => m + 1 <= 2 * a - 1
          /\ m + 1 <= 2 * a
      BY <2>1, <3>1, <3>2
    <3>5. QED
      BY <3>3, <3>4 DEF a
  <2>4. ASSUME NEW pc \in {"reading", "canceling", "pausing", "failed"}, NEW retry \in BOOLEAN,
               pc = "canceling" => q.pc = "asking",
               pc = "pausing" => q.attempt < Attempts,
               request' = [request EXCEPT ![r] =
                             [q EXCEPT !.pc = pc, !.record = Recorded(r), !.retry = retry]]
        PROVE  FrontInv'
    <3> DEFINE n == [q EXCEPT !.pc = pc, !.record = Recorded(r), !.retry = retry]
    <3>1. /\ n \in RequestType /\ n.pc = pc /\ n.attempt = q.attempt
          /\ n.record = Recorded(r)
      BY <1>1, <2>2 DEF RequestType
    <3>2. Fits(n)
      BY <2>1, <2>2, <2>3, <2>4, <3>1 DEF Fits, Over
    <3>3. UNCHANGED <<server, limiter, up, bucket, recent, wiped, losses>>
      BY <1>11 DEF Succeeds, Errors, Throws
    <3>4. QED
      BY <2>4, <3>1, <3>2, <3>3, RequestStep
  <2>5. /\ q.retry \in BOOLEAN
        /\ \A pc : [q EXCEPT !.pc = pc, !.record = Recorded(r)]
                    = [q EXCEPT !.pc = pc, !.record = Recorded(r), !.retry = q.retry]
    BY <1>1 DEF RequestType
  <2>6. CASE Succeeds(r)
    <3>1. request' = [request EXCEPT ![r] = [q EXCEPT !.pc = "reading", !.record = Recorded(r)]]
      BY <2>6 DEF Succeeds, FrontInv, TypeOK
    <3>2. QED
      BY <2>4, <2>5, <3>1
  <2>7. CASE Errors(r)
    BY <2>1, <2>4, <2>7 DEF Errors, FrontInv, TypeOK
  <2>8. CASE Throws(r)
    <3> DEFINE pc == IF q.attempt < Attempts THEN "pausing" ELSE "failed"
    <3>1. request' = [request EXCEPT ![r] = [q EXCEPT !.pc = pc, !.record = Recorded(r)]]
      BY <2>8 DEF Throws, FrontInv, TypeOK
    <3>2. pc \in {"pausing", "failed"} /\ (pc = "pausing" => q.attempt < Attempts)
      OBVIOUS
    <3> HIDE DEF pc
    <3>3. QED
      BY <2>4, <2>5, <3>1, <3>2
  <2>9. QED
    BY <1>11, <2>6, <2>7, <2>8
<1>12. CASE Cancel(r)
  <2> DEFINE pc == IF q.retry /\ q.attempt < Attempts THEN "pausing" ELSE "failed"
             n == [q EXCEPT !.pc = pc]
  <2>1. pc \in {"pausing", "failed"} /\ (pc = "pausing" => q.attempt < Attempts)
    OBVIOUS
  <2>2. request' = [request EXCEPT ![r] = n]
    BY <1>12 DEF Cancel, FrontInv, TypeOK
  <2> HIDE DEF pc
  <2>3. n \in RequestType /\ n.pc = pc /\ n.attempt = q.attempt /\ n.record = q.record
    BY <1>1, <2>1 DEF RequestType
  <2>4. Fits(n)
    BY <1>1, <1>2, <1>12, <2>1, <2>3 DEF Fits, Over, Cancel, At
  <2>5. QED
    BY <1>12, <2>2, <2>3, <2>4, RequestStep DEF Cancel
<1>13. CASE AskAgain(r)
  <2> DEFINE n == [q EXCEPT !.pc = "asking", !.attempt = q.attempt + 1]
  <2>1. q.pc = "pausing" /\ q.attempt >= 1 /\ q.attempt < Attempts
    BY <1>1, <1>13 DEF AskAgain, At, Fits
  <2>2. /\ n \in RequestType /\ n.pc = "asking" /\ n.attempt = q.attempt + 1
        /\ n.record = q.record
    <3>1. q.attempt + 1 \in 0 .. Attempts
      BY <1>2, <2>1
    <3>2. QED
      BY <1>1, <3>1 DEF RequestType
  <2>3. Fits(n)
    BY <1>1, <1>2, <2>1, <2>2 DEF Fits, Over
  <2>4. request' = [request EXCEPT ![r] = n]
    BY <1>13 DEF AskAgain, FrontInv, TypeOK
  <2>5. QED
    BY <1>13, <2>2, <2>3, <2>4, RequestStep DEF AskAgain
<1>14. ASSUME NEW d \in {"limiter", "others"}, Healthy(r, d) \/ GivesUp(r, d)
       PROVE  FrontInv'
  <2>1. PICK b \in BOOLEAN :
          request' = [request EXCEPT ![r] = [q EXCEPT !.waits = q.waits \ {d}, !.bad = b]]
    <3>1. CASE Healthy(r, d)
      <4>1. request' = [request EXCEPT ![r] = [q EXCEPT !.waits = q.waits \ {d}]]
        BY <3>1 DEF Healthy, FrontInv, TypeOK
      <4>2. /\ q.bad \in BOOLEAN
            /\ [q EXCEPT !.waits = q.waits \ {d}]
                 = [q EXCEPT !.waits = q.waits \ {d}, !.bad = q.bad]
        BY <1>1 DEF RequestType
      <4>3. QED
        BY <4>1, <4>2
    <3>2. CASE GivesUp(r, d)
      BY <3>2 DEF GivesUp, FrontInv, TypeOK
    <3>3. QED
      BY <1>14, <3>1, <3>2
  <2> DEFINE n == [q EXCEPT !.waits = q.waits \ {d}, !.bad = b]
  <2>2. n \in RequestType /\ n.pc = q.pc /\ n.attempt = q.attempt /\ n.record = q.record
    BY <1>1 DEF RequestType
  <2>3. Fits(n)
    BY <1>1, <2>2 DEF Fits, Over
  <2>4. QED
    BY <1>14, <2>1, <2>2, <2>3, RequestStep DEF Healthy, GivesUp
<1>15. QED
  BY <1>4, <1>5, <1>6, <1>7, <1>8, <1>9, <1>10, <1>11, <1>12, <1>13, <1>14 DEF Go

\* The invariant is inductive.
LEMMA FrontStep == FrontInv /\ [Next]_vars => FrontInv'
<1> SUFFICES ASSUME FrontInv, [Next]_vars PROVE FrontInv'
  OBVIOUS
<1>1. /\ bucket \in [Bucket -> BucketType] /\ recent \in [Bucket -> [1 .. Window -> Nat]]
      /\ up \in BOOLEAN /\ wiped \in PastType /\ losses \in 0 .. MaxLosses
      /\ Window \in Nat \ {0} /\ Most \in Nat \ {0} /\ MaxLosses \in Nat
  BY FrontAssumption DEF FrontInv, TypeOK, BucketType, PastType
<1>2. ASSUME NEW r \in Request,
             \/ Start(r) \/ Probe(r) \/ Go(r)
             \/ \E k \in Bucket : CheckFails(r, k)
             \/ \E d \in {"limiter", "others"} : Healthy(r, d)
      PROVE  FrontInv'
  BY <1>2, GoStep
<1>3. ASSUME NEW k \in Bucket, Others(k) PROVE FrontInv'
  <2>1. bucket' \in [Bucket -> BucketType] /\ recent' \in [Bucket -> [1 .. Window -> Nat]]
    BY <1>3, CountType DEF Others, FrontInv
  <2>2. QED
    BY <1>1, <1>3, <2>1, OutsideStep DEF Others
<1>4. ASSUME NEW k \in Bucket, LoseExpiry(k) PROVE FrontInv'
  <2>1. bucket' \in [Bucket -> BucketType]
    BY <1>1, <1>4 DEF LoseExpiry, BucketType
  <2>2. QED
    BY <1>1, <1>4, <2>1, OutsideStep DEF LoseExpiry
<1>5. CASE Tick
  <2>1. ASSUME NEW k \in Bucket
        PROVE  /\ bucket'[k] \in BucketType
               /\ recent'[k] \in [1 .. Window -> Nat]
    <3>1. /\ bucket[k].count \in 0 .. Most + 1 /\ bucket[k].ttl \in {NoTtl} \cup 0 .. Window
          /\ recent[k] \in [1 .. Window -> Nat]
      BY <1>1 DEF BucketType
    <3>2. /\ (IF bucket[k].ttl > 0 THEN bucket[k].ttl - 1 ELSE bucket[k].ttl)
               \in {NoTtl} \cup 0 .. Window
          /\ (IF bucket[k].ttl = 1 THEN 0 ELSE bucket[k].count) \in 0 .. Most + 1
      BY <1>1, <3>1 DEF NoTtl
    <3>3. bucket'[k] = [bucket[k] EXCEPT
                          !.ttl = IF bucket[k].ttl > 0 THEN bucket[k].ttl - 1 ELSE bucket[k].ttl,
                          !.count = IF bucket[k].ttl = 1 THEN 0 ELSE bucket[k].count]
      BY <1>1, <1>5 DEF Tick, BucketType
    <3>4. bucket'[k] \in BucketType
      <4>1. bucket[k] \in BucketType
        BY <1>1
      <4>2. \A t \in {NoTtl} \cup 0 .. Window, n \in 0 .. Most + 1 :
              [bucket[k] EXCEPT !.ttl = t, !.count = n] \in BucketType
        BY <4>1 DEF BucketType
      <4> DEFINE t == IF bucket[k].ttl > 0 THEN bucket[k].ttl - 1 ELSE bucket[k].ttl
                 n == IF bucket[k].ttl = 1 THEN 0 ELSE bucket[k].count
      <4>3. t \in {NoTtl} \cup 0 .. Window /\ n \in 0 .. Most + 1
        BY <3>2
      <4>4. bucket'[k] = [bucket[k] EXCEPT !.ttl = t, !.count = n]
        BY <3>3
      <4> HIDE DEF t, n
      <4>5. QED
        BY <4>2, <4>3, <4>4
    <3>5. recent'[k] = [age \in 1 .. Window |-> IF age = 1 THEN 0 ELSE recent[k][age - 1]]
      BY <1>5 DEF Tick
    <3>6. recent'[k] \in [1 .. Window -> Nat]
      BY <1>1, <3>1, <3>5
    <3>7. QED
      BY <3>4, <3>6
  <2>2. bucket' \in [Bucket -> BucketType] /\ recent' \in [Bucket -> [1 .. Window -> Nat]]
    <3>1. bucket' = [k \in Bucket |-> bucket'[k]] /\ recent' = [k \in Bucket |-> recent'[k]]
      BY <1>5 DEF Tick
    <3>2. QED
      BY <2>1, <3>1
  <2>3. wiped' \in PastType
    <3>1. wiped' = [age \in 1 .. Window |-> IF age = 1 THEN 0 ELSE wiped[age - 1]]
      BY <1>5 DEF Tick
    <3>2. \A age \in 1 .. Window : (IF age = 1 THEN 0 ELSE wiped[age - 1]) \in Nat
      BY <1>1 DEF PastType
    <3>3. QED
      BY <3>1, <3>2 DEF PastType
  <2>4. QED
    BY <1>1, <1>5, <2>2, <2>3, OutsideStep DEF Tick
<1>6. CASE RedisDown \/ RedisUp
  BY <1>1, <1>6, OutsideStep DEF RedisDown, RedisUp
<1>7. CASE RedisForgets \/ Restart
  <2>1. /\ bucket' \in [Bucket -> BucketType] /\ recent' \in [Bucket -> [1 .. Window -> Nat]]
        /\ wiped' \in PastType /\ losses' \in 0 .. MaxLosses
    <3>1. Wipe => /\ bucket' \in [Bucket -> BucketType]
                  /\ wiped' \in PastType /\ losses' \in 0 .. MaxLosses
      <4>1. [count |-> 0, ttl |-> 0] \in BucketType
        <5>1. 0 \in 0 .. Most + 1 /\ 0 \in {NoTtl} \cup 0 .. Window
          BY <1>1
        <5>2. QED
          BY <5>1 DEF BucketType
      <4>2. 1 \in 1 .. Window /\ wiped[1] + 1 \in Nat
        BY <1>1 DEF PastType
      <4>3. QED
        BY <1>1, <4>1, <4>2 DEF Wipe, PastType
    <3>2. Wipe \/ UNCHANGED <<bucket, wiped, losses>>
      BY <1>7 DEF RedisForgets, Restart
    <3>3. QED
      BY <1>1, <1>7, <3>1, <3>2 DEF RedisForgets, Restart
  <2>2. QED
    BY <1>1, <1>7, <2>1, OutsideStep DEF RedisForgets, Restart
<1>8. CASE UNCHANGED vars
  BY <1>1, <1>8, OutsideStep DEF vars
<1>9. QED
  BY <1>2, <1>3, <1>4, <1>5, <1>6, <1>7, <1>8 DEF Next

\* The invariant holds in every state.
LEMMA FrontAlways == Spec => []FrontInv
BY FrontInit, FrontStep, PTL DEF Spec

-----------------------------------------------------------------------------
(* The sliding window                                                      *)

\* What a check does to a bucket: it starts a window, counts in the one there is, or
\* refuses (InMemoryRateLimiter.check, fixedWindowScript).
LEMMA CountedCases ==
  ASSUME NEW b \in BucketType, b.ttl = 0 <=> b.count = 0
  PROVE  LET c == Counted(b) IN
         /\ Allows(b) => c.count = b.count + 1 /\ c.count <= Most
         /\ ~Allows(b) => c.count >= b.count /\ c.count >= Most
         /\ b.ttl = 0 => Allows(b) /\ c.ttl = Window
         /\ b.ttl = NoTtl => \/ c.ttl = NoTtl
                             \/ c.ttl = Window /\ (~Allows(b) => c.count > Most)
         /\ b.ttl \in 1 .. Window => c.ttl = b.ttl
<1>1. /\ b.count \in 0 .. Most + 1 /\ b.ttl \in {NoTtl} \cup 0 .. Window
      /\ Most \in Nat \ {0} /\ Window \in Nat \ {0} /\ NoTtl = -1
  BY FrontAssumption DEF BucketType, NoTtl
<1>2. CASE limiter = "redis"
  <2> DEFINE n == Min({b.count + 1, Most + 1})
             k == IF b.ttl = 0 THEN 1 ELSE n
  <2>1. n \in {b.count + 1, Most + 1} /\ n <= b.count + 1 /\ n <= Most + 1
    <3>1. PICK i \in Int, j \in Int : i = b.count + 1 /\ j = Most + 1
      BY <1>1
    <3>2. Min({i, j}) \in {i, j} /\ Min({i, j}) <= i /\ Min({i, j}) <= j
      BY MinOfTwo
    <3>3. QED
      BY <3>1, <3>2
  <2> HIDE DEF n
  <2>2. RedisCheck(b) = [count |-> k, ttl |-> IF k = 1 \/ b.ttl = NoTtl THEN Window ELSE b.ttl]
    BY DEF RedisCheck, n
  <2>3. RedisCheck(b).count = k /\ Counted(b).count = k
    BY <1>2, <2>2 DEF Counted
  <2>4. Counted(b).ttl = IF k = 1 \/ b.ttl = NoTtl THEN Window ELSE b.ttl
    BY <1>2, <2>2 DEF Counted
  <2>5. Allows(b) <=> k <= Most
    BY <1>2, <2>3 DEF Allows
  <2>6. QED
    BY <1>1, <2>1, <2>3, <2>4, <2>5
<1>3. CASE limiter # "redis"
  <2>1. Counted(b) = MemoryCheck(b) /\ (Allows(b) <=> b.ttl = 0 \/ b.count < Most)
    BY <1>3 DEF Counted, Allows
  <2>2. CASE b.ttl = 0
    <3>1. Counted(b).count = 1 /\ Counted(b).ttl = Window
      BY <2>1, <2>2 DEF MemoryCheck
    <3>2. QED
      BY <1>1, <2>1, <2>2, <3>1
  <2>3. CASE b.ttl # 0 /\ b.count >= Most
    <3>1. Counted(b) = b
      BY <2>1, <2>3 DEF MemoryCheck
    <3>2. QED
      BY <1>1, <2>1, <2>3, <3>1
  <2>4. CASE b.ttl # 0 /\ ~(b.count >= Most)
    <3>1. Counted(b).count = b.count + 1 /\ Counted(b).ttl = b.ttl
      BY <2>1, <2>4 DEF MemoryCheck, BucketType
    <3>2. QED
      BY <1>1, <2>1, <2>4, <3>1
  <2>5. QED
    BY <2>2, <2>3, <2>4
<1>4. QED
  BY <1>2, <1>3

\* The sums over the most recent ticks, before and after some more in the newest.
LEMMA NewestSums ==
  ASSUME NEW f \in PastType, NEW a \in {0, 1}, NEW n \in 1 .. Window
  PROVE  /\ Upto(f, n) \in Int
         /\ Upto([f EXCEPT ![1] = @ + a], n) = Upto(f, n) + a
<1>1. Window \in Nat \ {0} /\ n \in Nat /\ n >= 1
  BY FrontAssumption
<1>2. PICK S, r : S = 1 .. n /\ r = 1
  OBVIOUS
<1>3. IsFiniteSet(S) /\ r \in S
  BY <1>1, <1>2, FS_Interval
<1>4. PICK g : g = [f EXCEPT ![1] = @ + a]
  OBVIOUS
<1>5. /\ \A x \in S : f[x] \in Int /\ g[x] \in Int
      /\ \A x \in S \ {r} : g[x] = f[x]
      /\ g[r] = f[r] + a
  BY <1>1, <1>2, <1>4 DEF PastType
<1>6. SumFunctionOnSet(f, S) \in Int
  BY <1>3, <1>5, SumInt
<1>7. SumFunctionOnSet(g, S) = SumFunctionOnSet(f, S) - f[r] + g[r]
  BY <1>3, <1>5, SumChange
<1>8. f[r] \in Int /\ a \in Int
  BY <1>3, <1>5
<1>9. QED
  BY <1>2, <1>4, <1>5, <1>6, <1>7, <1>8 DEF Upto

\* What is known of a bucket after a check, and in particular of one whose window is new.
LEMMA CountedCovers ==
  ASSUME NEW b \in BucketType, NEW f \in PastType, NEW w \in PastType, Covers(b, f, w)
  PROVE  Covers(Counted(b), [f EXCEPT ![1] = @ + IF Allows(b) THEN 1 ELSE 0], w)
<1> DEFINE c == Counted(b)
           a == IF Allows(b) THEN 1 ELSE 0
           g == [f EXCEPT ![1] = @ + a]
<1>1. /\ b.count \in 0 .. Most + 1 /\ b.ttl \in {NoTtl} \cup 0 .. Window
      /\ c.count \in 0 .. Most + 1 /\ c.ttl \in {NoTtl} \cup 0 .. Window
      /\ Most \in Nat \ {0} /\ Window \in Nat \ {0} /\ NoTtl = -1
  BY CountedType, FrontAssumption DEF BucketType, NoTtl
<1>2. b.ttl = 0 <=> b.count = 0
  BY DEF Covers
<1>3. /\ Allows(b) => c.count = b.count + 1 /\ c.count <= Most
      /\ ~Allows(b) => c.count >= b.count /\ c.count >= Most
      /\ b.ttl = 0 => Allows(b) /\ c.ttl = Window
      /\ b.ttl = NoTtl => c.ttl \in {NoTtl, Window}
      /\ b.ttl \in 1 .. Window => c.ttl = b.ttl
  BY <1>2, CountedCases
<1>4. a \in {0, 1} /\ (Allows(b) <=> a = 1)
  OBVIOUS
<1> HIDE DEF a
<1>5. Capped(c) \in Nat /\ Capped(b) \in Nat /\ Capped(b) + a <= Capped(c)
  <2> HIDE DEF c
  <2>1. QED
    BY <1>1, <1>3, <1>4 DEF Capped
<1>6. \A n \in 1 .. Window :
        /\ Upto(f, n) \in Int /\ Upto(w, n) \in Int
        /\ Upto(g, n) = Upto(f, n) + a
  BY <1>4, NewestSums
<1> HIDE DEF c, g
<1>7. c.ttl = 0 <=> c.count = 0
  BY <1>1, <1>2, <1>3
<1>8. ASSUME NEW n \in 1 .. Window
      PROVE  Upto(g, n) <= Most - 1 + Capped(c) + Most * Upto(w, n)
  <2>1. PICK more : more = Most * Upto(w, n)
    OBVIOUS
  <2>2. more \in Int
    BY <1>1, <1>6, <2>1
  <2>3. Upto(f, n) <= Most - 1 + Capped(b) + more
    BY <2>1 DEF Covers
  <2>4. QED
    BY <1>1, <1>4, <1>5, <1>6, <2>1, <2>2, <2>3
<1>9. ASSUME c.ttl \in 1 .. Window, NEW n \in 1 .. Window - c.ttl
      PROVE  Upto(g, n) <= Capped(c) - 1
  <2>1. c.ttl # Window
    BY <1>1
  <2>2. b.ttl \in 1 .. Window /\ c.ttl = b.ttl
    BY <1>1, <1>3, <1>9, <2>1
  <2>3. Upto(f, n) <= Capped(b) - 1 /\ n \in 1 .. Window
    BY <1>1, <2>2 DEF Covers
  <2>4. QED
    BY <1>4, <1>5, <1>6, <2>3
<1>10. Covers(c, g, w)
  BY <1>7, <1>8, <1>9 DEF Covers
<1>11. QED
  BY <1>10 DEF c, g, a

\* A past after a tick.
Later(f, g) == \A age \in 1 .. Window : g[age] = IF age = 1 THEN 0 ELSE f[age - 1]

\* What a tick makes of a bucket.
Ticked(b, c) ==
  /\ c.ttl = IF b.ttl > 0 THEN b.ttl - 1 ELSE b.ttl
  /\ c.count = IF b.ttl = 1 THEN 0 ELSE b.count

\* After a tick the newest n ticks are the newest n - 1 of before, and an empty one.
LEMMA LaterSums ==
  ASSUME NEW f \in PastType, NEW g \in PastType, Later(f, g), NEW n \in 1 .. Window
  PROVE  /\ Upto(g, n) \in Int
         /\ n = 1 => Upto(g, n) = 0
         /\ n > 1 => Upto(g, n) = Upto(f, n - 1)
<1>1. Window \in Nat \ {0} /\ n \in Nat /\ n >= 1 /\ n <= Window
  BY FrontAssumption
<1>2. Upto(g, n) \in Int
  <2>1. 0 \in {0, 1}
    OBVIOUS
  <2>2. QED
    BY <2>1, NewestSums
<1>3. PICK m \in Nat : n = m + 1
  <2>1. n - 1 \in Nat /\ n = (n - 1) + 1
    BY <1>1
  <2>2. QED
    BY <2>1
<1>4. SumFunctionOnSet(g, 1 .. m + 1) = SumFunctionOnSet(f, 1 .. m)
  <2>1. /\ \A x \in 1 .. m : f[x] \in Int
        /\ g[1] = 0
        /\ \A x \in 1 .. m : g[x + 1] = f[x]
    BY <1>1, <1>3 DEF PastType, Later
  <2>2. QED
    BY <2>1, SumShifted
<1>5. CASE n = 1
  <2>1. m = 0 /\ 1 .. m = {}
    BY <1>3, <1>5
  <2>2. QED
    BY <1>2, <1>3, <1>4, <1>5, <2>1, SumEmpty DEF Upto
<1>6. CASE n # 1
  <2>1. n - 1 = m
    BY <1>1, <1>3
  <2>2. QED
    BY <1>1, <1>2, <1>3, <1>4, <1>6, <2>1 DEF Upto
<1>7. QED
  BY <1>5, <1>6

\* A sum over the recent past is a natural number.
LEMMA UptoNat ==
  ASSUME NEW f \in PastType, NEW n \in 1 .. Window
  PROVE  Upto(f, n) \in Nat
<1>1. Window \in Nat \ {0} /\ n \in Nat /\ n >= 1
  BY FrontAssumption
<1>2. PICK S, T : S = 1 .. n /\ T = {}
  OBVIOUS
<1>3. /\ IsFiniteSet(S) /\ T \in SUBSET S
      /\ \A x \in S : f[x] \in Int
      /\ \A x \in S \ T : f[x] >= 0
  <2>1. IsFiniteSet(S)
    BY <1>1, <1>2, FS_Interval
  <2>2. \A x \in S : f[x] \in Nat
    BY <1>1, <1>2 DEF PastType
  <2>3. QED
    BY <1>2, <2>1, <2>2
<1>4. SumFunctionOnSet(f, T) <= SumFunctionOnSet(f, S)
  BY <1>3, SumPart
<1>5. SumFunctionOnSet(f, S) \in Int
  BY <1>3, SumInt
<1>6. SumFunctionOnSet(f, T) = 0
  BY <1>2, SumEmpty
<1>7. QED
  BY <1>2, <1>4, <1>5, <1>6 DEF Upto

\* A tick keeps what is known of a bucket: a window that ends leaves less than the limit in
\* the ticks that are still recent.
LEMMA TickedCovers ==
  ASSUME NEW b \in BucketType, NEW f \in PastType, NEW w \in PastType, Covers(b, f, w),
         NEW c \in BucketType, NEW g \in PastType, NEW v \in PastType,
         Ticked(b, c), Later(f, g), Later(w, v)
  PROVE  Covers(c, g, v)
<1>1. /\ b.count \in 0 .. Most + 1 /\ b.ttl \in {NoTtl} \cup 0 .. Window
      /\ Most \in Nat \ {0} /\ Window \in Nat \ {0} /\ NoTtl = -1
  BY FrontAssumption DEF BucketType, NoTtl
<1>2. /\ b.ttl = 0 <=> b.count = 0
      /\ c.ttl = IF b.ttl > 0 THEN b.ttl - 1 ELSE b.ttl
      /\ c.count = IF b.ttl = 1 THEN 0 ELSE b.count
  BY DEF Covers, Ticked
<1>3. Capped(b) \in 0 .. Most /\ Capped(c) \in 0 .. Most /\ (b.ttl # 1 => Capped(c) = Capped(b))
  BY <1>1, <1>2 DEF Capped
<1>4. b.ttl \in 1 .. Window => Capped(b) >= 1
  BY <1>1, <1>2 DEF Capped
<1>5. \A n \in 1 .. Window :
        /\ Upto(g, n) \in Int /\ Upto(v, n) \in Nat
        /\ n = 1 => Upto(g, n) = 0
        /\ n > 1 => Upto(g, n) = Upto(f, n - 1) /\ Upto(v, n) = Upto(w, n - 1)
  BY LaterSums, UptoNat
<1>6. c.ttl = 0 <=> c.count = 0
  BY <1>1, <1>2
<1>7. ASSUME NEW n \in 1 .. Window
      PROVE  Upto(g, n) <= Most - 1 + Capped(c) + Most * Upto(v, n)
  <2>1. PICK more : more = Most * Upto(v, n)
    OBVIOUS
  <2>2. more \in Int /\ more >= 0
    <3>1. \A x, y \in Nat : x * y \in Nat
      OBVIOUS
    <3>2. QED
      BY <1>1, <1>5, <2>1, <3>1
  <2>3. CASE n = 1
    BY <1>1, <1>3, <1>5, <2>1, <2>2, <2>3
  <2>4. CASE n > 1
    <3>1. /\ n - 1 \in 1 .. Window
          /\ Upto(g, n) = Upto(f, n - 1) /\ more = Most * Upto(w, n - 1)
      BY <1>1, <1>5, <2>1, <2>4
    <3>2. CASE b.ttl = 1
      <4>1. n - 1 \in 1 .. Window - b.ttl /\ b.ttl \in 1 .. Window
        BY <1>1, <2>4, <3>2
      <4>2. Upto(f, n - 1) <= Capped(b) - 1
        BY <4>1 DEF Covers
      <4>3. QED
        BY <1>1, <1>3, <1>5, <2>1, <2>2, <3>1, <4>2
    <3>3. CASE b.ttl # 1
      <4>1. Upto(f, n - 1) <= Most - 1 + Capped(b) + more
        BY <3>1 DEF Covers
      <4>2. QED
        BY <1>3, <2>1, <3>1, <3>3, <4>1
    <3>4. QED
      BY <3>2, <3>3
  <2>5. QED
    BY <2>3, <2>4
<1>8. ASSUME c.ttl \in 1 .. Window, NEW n \in 1 .. Window - c.ttl
      PROVE  Upto(g, n) <= Capped(c) - 1
  <2>1. b.ttl \in 2 .. Window /\ c.ttl = b.ttl - 1 /\ n \in 1 .. Window
    BY <1>1, <1>2, <1>8
  <2>2. Capped(c) = Capped(b) /\ Capped(b) >= 1
    BY <1>1, <1>3, <1>4, <2>1
  <2>3. CASE n = 1
    BY <1>3, <1>5, <2>1, <2>2, <2>3
  <2>4. CASE n > 1
    <3>1. n - 1 \in 1 .. Window - b.ttl /\ b.ttl \in 1 .. Window
      BY <1>1, <2>1, <2>4
    <3>2. Upto(f, n - 1) <= Capped(b) - 1
      BY <3>1 DEF Covers
    <3>3. QED
      BY <1>5, <2>1, <2>2, <2>4, <3>2
  <2>5. QED
    BY <2>1, <2>3, <2>4
<1>9. QED
  BY <1>6, <1>7, <1>8 DEF Covers

\* When the counters are lost, what they let through counts as a loss's.
LEMMA WipedCovers ==
  ASSUME NEW b \in BucketType, NEW f \in PastType, NEW w \in PastType, Covers(b, f, w)
  PROVE  Covers([count |-> 0, ttl |-> 0], f, [w EXCEPT ![1] = @ + 1])
<1> DEFINE c == [count |-> 0, ttl |-> 0]
           v == [w EXCEPT ![1] = @ + 1]
<1>1. Most \in Nat \ {0} /\ Window \in Nat \ {0} /\ b.count \in 0 .. Most + 1
  BY FrontAssumption DEF BucketType
<1>2. Capped(b) \in 0 .. Most /\ Capped(c) = 0
  BY <1>1 DEF Capped
<1>3. ASSUME NEW n \in 1 .. Window
      PROVE  Upto(f, n) <= Most - 1 + Capped(c) + Most * Upto(v, n)
  <2>1. 1 \in {0, 1}
    OBVIOUS
  <2>2. Upto(f, n) \in Int /\ Upto(w, n) \in Int /\ Upto(v, n) = Upto(w, n) + 1
    BY <2>1, NewestSums
  <2>3. PICK i \in Int : i = Upto(w, n)
    BY <2>2
  <2>4. Most * (i + 1) = Most * i + Most /\ Most * i \in Int
    BY <1>1
  <2>5. Upto(f, n) <= Most - 1 + Capped(b) + Most * i
    BY <2>3 DEF Covers
  <2>6. PICK more \in Int : more = Most * i
    BY <2>4
  <2>7. Most * Upto(v, n) = more + Most
    BY <2>2, <2>3, <2>4, <2>6
  <2>8. QED
    BY <1>1, <1>2, <2>2, <2>5, <2>6, <2>7
<1>4. c.ttl = 0 /\ c.count = 0 /\ 0 \notin 1 .. Window
  OBVIOUS
<1> HIDE DEF c, v
<1>5. Covers(c, f, v)
  BY <1>3, <1>4 DEF Covers
<1>6. QED
  BY <1>5 DEF c, v

\* Buckets, past and losses are well typed.
LEMMA PastTyped ==
  TypeOK => /\ bucket \in [Bucket -> BucketType]
            /\ recent \in [Bucket -> PastType] /\ wiped \in PastType
BY DEF TypeOK, BucketType, PastType

\* One more check of a bucket keeps what is known of every bucket.
LEMMA CountKeeps ==
  ASSUME TypeOK, WindowInv, NEW k \in Bucket, Count(k), wiped' = wiped
  PROVE  WindowInv'
<1>1. /\ bucket \in [Bucket -> BucketType]
      /\ recent \in [Bucket -> PastType] /\ wiped \in PastType
  BY PastTyped
<1>2. /\ bucket' = [bucket EXCEPT ![k] = Counted(bucket[k])]
      /\ recent' = [recent EXCEPT ![k] =
                      [recent[k] EXCEPT ![1] = @ + IF Allows(bucket[k]) THEN 1 ELSE 0]]
  BY <1>1 DEF Count
<1>3. ASSUME NEW j \in Bucket PROVE Covers(bucket'[j], recent'[j], wiped)
  <2>1. CASE j = k
    <3>1. /\ bucket'[j] = Counted(bucket[k])
          /\ recent'[j] = [recent[k] EXCEPT ![1] = @ + IF Allows(bucket[k]) THEN 1 ELSE 0]
      BY <1>1, <1>2, <2>1
    <3>2. /\ Covers(bucket[k], recent[k], wiped)
          /\ bucket[k] \in BucketType /\ recent[k] \in PastType
      BY <1>1 DEF WindowInv
    <3>3. QED
      BY <1>1, <3>1, <3>2, CountedCovers
  <2>2. CASE j # k
    <3>1. bucket'[j] = bucket[j] /\ recent'[j] = recent[j]
      BY <1>1, <1>2, <2>2
    <3>2. QED
      BY <3>1 DEF WindowInv
  <2>3. QED
    BY <2>1, <2>2
<1>4. QED
  BY <1>3 DEF WindowInv

\* Of the steps, those that count, lose an expiry or all counters, or tick touch the buckets
\* and the past.
LEMMA BucketSteps ==
  ASSUME [Next]_vars
  PROVE  \/ \E k \in Bucket : Count(k) /\ wiped' = wiped
         \/ \E k \in Bucket : LoseExpiry(k)
         \/ Tick
         \/ Wipe /\ recent' = recent
         \/ UNCHANGED <<bucket, recent, wiped>>
<1>1. ASSUME NEW r \in Request,
             \/ Start(r) \/ Probe(r) \/ Go(r)
             \/ \E k \in Bucket : CheckFails(r, k)
             \/ \E d \in {"limiter", "others"} : Healthy(r, d)
      PROVE  \/ \E k \in Bucket : Count(k) /\ wiped' = wiped
             \/ UNCHANGED <<bucket, recent, wiped>>
  <2>1. CASE Start(r) \/ Probe(r) \/ \E d \in {"limiter", "others"} : Healthy(r, d)
    BY <2>1 DEF Start, Probe, Healthy
  <2>2. CASE \E k \in Bucket : CheckFails(r, k)
    BY <2>2 DEF CheckFails
  <2>3. CASE Go(r)
    BY <2>3 DEF Go, Check, Admit, SecondCheck, Respond, Ask, Succeeds, Errors, Cancel, Throws,
               AskAgain, Fails, Read, GivesUp, ProbeAnswers
  <2>4. QED
    BY <1>1, <2>1, <2>2, <2>3
<1>2. QED
  BY <1>1 DEF Next, Others, RedisDown, RedisUp, RedisForgets, Restart, vars

\* At first nothing is counted, nothing was let in and nothing lost.
LEMMA WindowInit == Init => WindowInv
<1> SUFFICES ASSUME Init, NEW k \in Bucket PROVE Covers(bucket[k], recent[k], wiped)
  BY DEF WindowInv
<1>1. /\ bucket[k].count = 0 /\ bucket[k].ttl = 0
      /\ recent[k] = [age \in 1 .. Window |-> 0] /\ wiped = recent[k]
      /\ Most \in Nat \ {0} /\ Window \in Nat \ {0}
  BY FrontAssumption DEF Init
<1>2. ASSUME NEW n \in 1 .. Window PROVE Upto(recent[k], n) = 0
  <2>1. PICK S : S = 1 .. n
    OBVIOUS
  <2>2. IsFiniteSet(S) /\ \A x \in S : recent[k][x] = 0
    BY <1>1, <2>1, FS_Interval
  <2>3. QED
    BY <2>1, <2>2, SumZero DEF Upto
<1>3. Capped(bucket[k]) = 0 /\ 0 \notin 1 .. Window
  BY <1>1 DEF Capped
<1>4. \A n \in 1 .. Window :
        Upto(recent[k], n) <= Most - 1 + Capped(bucket[k]) + Most * Upto(wiped, n)
  BY <1>1, <1>2, <1>3
<1>5. QED
  BY <1>1, <1>3, <1>4 DEF Covers

\* With the types, what the buckets know is inductive.
LEMMA WindowStep == TypeOK /\ TypeOK' /\ WindowInv /\ [Next]_vars => WindowInv'
<1> SUFFICES ASSUME TypeOK, TypeOK', WindowInv, [Next]_vars PROVE WindowInv'
  OBVIOUS
<1>1. /\ bucket \in [Bucket -> BucketType] /\ recent \in [Bucket -> PastType]
      /\ bucket' \in [Bucket -> BucketType] /\ recent' \in [Bucket -> PastType]
      /\ wiped \in PastType /\ wiped' \in PastType
  BY DEF TypeOK, BucketType, PastType
<1>2. ASSUME NEW k \in Bucket, Count(k), wiped' = wiped PROVE WindowInv'
  BY <1>2, CountKeeps
<1>3. ASSUME NEW k \in Bucket, LoseExpiry(k) PROVE WindowInv'
  <2>1. ASSUME NEW j \in Bucket PROVE Covers(bucket'[j], recent'[j], wiped')
    <3>1. Covers(bucket[j], recent[j], wiped) /\ recent'[j] = recent[j] /\ wiped' = wiped
      BY <1>3 DEF WindowInv, LoseExpiry
    <3>2. CASE j = k
      <4>1. bucket[k].ttl > 0 /\ bucket[k].ttl \in Int
        BY <1>1, <1>3, FrontAssumption DEF LoseExpiry, BucketType, NoTtl
      <4>2. bucket'[j].count = bucket[j].count /\ bucket'[j].ttl = NoTtl
        BY <1>1, <1>3, <3>2 DEF LoseExpiry, BucketType
      <4>3. NoTtl # 0 /\ NoTtl \notin 1 .. Window /\ bucket[k].ttl # 0
        BY <4>1 DEF NoTtl
      <4>4. Capped(bucket'[j]) = Capped(bucket[j])
        BY <4>2 DEF Capped
      <4>5. QED
        BY <3>1, <3>2, <4>2, <4>3, <4>4 DEF Covers
    <3>3. CASE j # k
      BY <1>1, <1>3, <3>1, <3>3 DEF LoseExpiry
    <3>4. QED
      BY <3>2, <3>3
  <2>2. QED
    BY <2>1 DEF WindowInv
<1>4. CASE Tick
  <2>1. ASSUME NEW j \in Bucket PROVE Covers(bucket'[j], recent'[j], wiped')
    <3>1. Covers(bucket[j], recent[j], wiped)
      BY DEF WindowInv
    <3>2. /\ bucket[j] \in BucketType /\ recent[j] \in PastType
          /\ bucket'[j] \in BucketType /\ recent'[j] \in PastType
      BY <1>1
    <3>3. Ticked(bucket[j], bucket'[j])
      BY <1>4, <3>2 DEF Tick, Ticked, BucketType
    <3>4. Later(recent[j], recent'[j]) /\ Later(wiped, wiped')
      BY <1>4 DEF Tick, Later
    <3>5. QED
      BY <1>1, <3>1, <3>2, <3>3, <3>4, TickedCovers
  <2>2. QED
    BY <2>1 DEF WindowInv
<1>5. CASE Wipe /\ recent' = recent
  <2>1. ASSUME NEW j \in Bucket PROVE Covers(bucket'[j], recent'[j], wiped')
    <3>1. /\ Covers(bucket[j], recent[j], wiped)
          /\ bucket[j] \in BucketType /\ recent[j] \in PastType
      BY <1>1 DEF WindowInv
    <3>2. /\ bucket'[j] = [count |-> 0, ttl |-> 0] /\ recent'[j] = recent[j]
          /\ wiped' = [wiped EXCEPT ![1] = @ + 1]
      BY <1>5 DEF Wipe
    <3>3. QED
      BY <1>1, <3>1, <3>2, WipedCovers
  <2>2. QED
    BY <2>1 DEF WindowInv
<1>6. CASE UNCHANGED <<bucket, recent, wiped>>
  BY <1>6 DEF WindowInv
<1>7. QED
  BY <1>2, <1>3, <1>4, <1>5, <1>6, BucketSteps

\* The windows' invariant holds in every state.
LEMMA WindowAlways == Spec => []WindowInv
<1>1. FrontInv => TypeOK
  BY DEF FrontInv
<1>2. QED
  BY <1>1, FrontAlways, WindowInit, WindowStep, PTL DEF Spec

-----------------------------------------------------------------------------
(* The theorems                                                            *)

\* Counters stay within their limit, expiries within the window, and the provider's client
\* within its attempts, however many requests there are (fixedWindowScript,
\* InMemoryRateLimiter.check, fetchChatCompletionWithRetry).
THEOREM FrontTypeCorrect == Spec => []TypeOK
BY FrontAlways, PTL DEF FrontInv

\* What the attempts of a completion were is on record, complete and in order, whatever
\* combination of error statuses, time-outs and failing cancels they ended with, for every
\* number of retries (fetchChatCompletionWithRetry).
THEOREM AttemptsStayRecorded == Spec => []AttemptsAreRecorded
<1>1. FrontInv => AttemptsAreRecorded
  BY DEF FrontInv, Fits, Over, Ordered, AttemptsAreRecorded
<1>2. QED
  BY <1>1, FrontAlways, PTL

\* In a stretch as long as a window less than twice the limit is let in, and once more the
\* limit for each loss of the counters in it, for every limit and length of the window, any
\* number of requests and of losses, with either limiter, and also when a key loses its
\* expiry and is repaired (fixedWindowScript, InMemoryRateLimiter.check).
THEOREM SlidingLimitHolds == Spec => []SlidingLimit
<1>1. ASSUME TypeOK, WindowInv PROVE SlidingLimit
  <2>1. ASSUME NEW k \in Bucket
        PROVE  Total(recent[k]) <= 2 * Most - 1 + Most * Total(wiped)
    <3>1. bucket[k] \in BucketType /\ recent[k] \in PastType /\ wiped \in PastType
      BY <1>1, PastTyped
    <3>2. Total(recent[k]) = Upto(recent[k], Window) /\ Total(wiped) = Upto(wiped, Window)
      <4>1. DOMAIN recent[k] = 1 .. Window /\ DOMAIN wiped = 1 .. Window
        BY <3>1 DEF PastType
      <4>2. QED
        BY <4>1 DEF Total, Upto, FoldFunction, SumFunctionOnSet
    <3>3. Window \in 1 .. Window /\ Most \in Nat
      BY FrontAssumption
    <3>4. Upto(recent[k], Window) \in Int /\ Most * Upto(wiped, Window) \in Int
      BY <3>1, <3>3, UptoNat
    <3>5. Capped(bucket[k]) \in 0 .. Most
      BY <3>1, <3>3 DEF Capped, BucketType
    <3>6. Upto(recent[k], Window)
            <= Most - 1 + Capped(bucket[k]) + Most * Upto(wiped, Window)
      BY <1>1, <3>3 DEF WindowInv, Covers
    <3>7. PICK more \in Int : more = Most * Upto(wiped, Window)
      BY <3>4
    <3>8. QED
      BY <3>2, <3>3, <3>4, <3>5, <3>6, <3>7
  <2>2. QED
    BY <2>1 DEF SlidingLimit
<1>2. FrontInv => TypeOK
  BY DEF FrontInv
<1>3. QED
  BY <1>1, <1>2, FrontAlways, WindowAlways, PTL
=============================================================================
