------------------------------- MODULE Front --------------------------------
(***************************************************************************)
(* What stands before and behind the repositories: the onRequest hook, the  *)
(* rate limiters and the readiness probe of both servers                    *)
(* (apps/gateway/src/server.ts, apps/api/src/server.ts, rateLimit.ts of     *)
(* both, packages/shared/src/observability.ts), and the gateway's client of *)
(* the provider with its timeouts and retries (apps/gateway/src/litellm.ts).*)
(*                                                                         *)
(* Time is a tick, of which a window has Window.  A limiter is Redis, which *)
(* several processes share and which may be out of reach or lose its data,  *)
(* or the memory of one process, lost when that restarts.  One request      *)
(* stands for one of any process that has the limiter; the checks of those  *)
(* not followed are Others.                                                *)
(*                                                                         *)
(* External: Redis, the provider and fetch are modelled from how they are   *)
(* used.  The Redis client queues commands while it reconnects; fetch ends  *)
(* a body that stalls.                                                     *)
(***************************************************************************)
EXTENDS Integers, Sequences, SequencesExt, FiniteSetsExt

CONSTANTS
  Request,     \* requests in progress
  Source,      \* the bucket of an address and a route
  Party,       \* the bucket of a session token (gateway), of an app and address (API)
  Most,        \* maxRequests of a window
  Window,      \* ticks of a window
  MaxRetries,  \* PROVIDER_MAX_RETRIES
  MaxLosses    \* bound: how often an expiry or all counters are lost

Bucket == {Source, Party}
NoTtl  == -1   \* PTTL of a key without expiry

ASSUME FrontAssumption ==
  /\ Source # Party
  /\ Most \in Nat \ {0} /\ Window \in Nat \ {0}
  /\ MaxRetries \in Nat /\ MaxLosses \in Nat

VARIABLES
  server,   \* "gateway" or "api"
  limiter,  \* "redis" or "memory"
  up,       \* Redis is within reach
  bucket,   \* each bucket's count and the ticks until it is reset
  recent,   \* how many checks each bucket allowed in each of the last Window ticks
  wiped,    \* how often the counters were lost in each of the last Window ticks
  losses,   \* how often an expiry or all counters were lost, for the bound
  request

vars == <<server, limiter, up, bucket, recent, wiped, losses, request>>

Idle == [pc |-> "idle", kind |-> "none", waits |-> {}, bad |-> FALSE,
         retry |-> FALSE, attempt |-> 0, record |-> <<>>]

Init ==
  /\ server  \in {"gateway", "api"}
  /\ limiter \in {"redis", "memory"}
  /\ up      = TRUE
  /\ bucket  = [k \in Bucket |-> [count |-> 0, ttl |-> 0]]
  /\ recent  = [k \in Bucket |-> [age \in 1 .. Window |-> 0]]
  /\ wiped   = [age \in 1 .. Window |-> 0]
  /\ losses  = 0
  /\ request = [r \in Request |-> Idle]

At(r, pc) == request[r].pc = pc
Leave(r)  == request' = [request EXCEPT ![r] = Idle]
InReach   == limiter = "redis" => up

-----------------------------------------------------------------------------
(* The limiters                                                            *)

\* InMemoryRateLimiter.check: a refused request is not counted.
MemoryCheck(b) ==
  IF b.ttl = 0 THEN [count |-> 1, ttl |-> Window]
  ELSE IF b.count >= Most THEN b
  ELSE [b EXCEPT !.count = b.count + 1]

\* Mutant: only the first request of a window sets the expiry.
RedisCheckUnrepaired(b) ==
  LET count == IF b.ttl = 0 THEN 1 ELSE Min({b.count + 1, Most + 1}) IN
  [count |-> count, ttl |-> IF count = 1 THEN Window ELSE b.ttl]

\* Mutant: the expiry is set to what is left of it.
RedisCheckShort(b) ==
  LET count == IF b.ttl = 0 THEN 1 ELSE Min({b.count + 1, Most + 1}) IN
  [count |-> count,
   ttl |-> IF count = 1 \/ b.ttl = NoTtl THEN Max({Window - 1, 1}) ELSE b.ttl]

\* fixedWindowScript: every request is counted (beyond Most + 1 it makes no difference),
\* and a key that has no expiry is given one.
RedisCheck(b) ==
  LET count == IF b.ttl = 0 THEN 1 ELSE Min({b.count + 1, Most + 1}) IN
  [count |-> count,
   ttl |-> IF count = 1 \/ b.ttl = NoTtl THEN Window ELSE b.ttl]

Counted(b) == IF limiter = "redis" THEN RedisCheck(b) ELSE MemoryCheck(b)

\* Whether the check of a bucket allows the request.
Allows(b) ==
  IF limiter = "redis" THEN RedisCheck(b).count <= Most
  ELSE b.ttl = 0 \/ b.count < Most

Count(k) ==
  /\ bucket' = [bucket EXCEPT ![k] = Counted(bucket[k])]
  /\ recent' = [recent EXCEPT ![k][1] = @ + IF Allows(bucket[k]) THEN 1 ELSE 0]

-----------------------------------------------------------------------------
(* The onRequest hook, and the second limiter of POST /v1/sessions         *)

Kinds == IF server = "gateway" THEN {"chat", "stranger", "ready"}
         ELSE {"session", "other", "ready"}

\* The buckets the hook asks for: all at once.  A stranger sends no bearer token.
HookBuckets(kind) == IF kind = "chat" THEN {Source, Party} ELSE {Source}

Start(r) ==
  /\ At(r, "idle")
  /\ \E kind \in Kinds \ {"ready"} :
       request' = [request EXCEPT ![r] =
                     [Idle EXCEPT !.pc = "checking", !.kind = kind,
                                  !.waits = HookBuckets(kind)]]
  /\ UNCHANGED <<server, limiter, up, bucket, recent, wiped, losses>>

\* A check of a bucket, once Redis is within reach.
Check(r, k) ==
  /\ request[r].pc \in {"checking", "second"}
  /\ k \in request[r].waits
  /\ InReach
  /\ Count(k)
  /\ request' = [request EXCEPT ![r].waits = @ \ {k},
                               ![r].bad = @ \/ ~Allows(bucket[k])]
  /\ UNCHANGED <<server, limiter, up, wiped, losses>>

\* The connection breaks before or after Redis has counted: the request fails (500).  The
\* other check goes on.
CheckFails(r, k) ==
  /\ limiter = "redis"
  /\ request[r].pc \in {"checking", "second"}
  /\ k \in request[r].waits
  /\ Count(k) \/ UNCHANGED <<bucket, recent>>
  /\ request' = [request EXCEPT ![r].waits = @ \ {k}, ![r].bad = TRUE]
  /\ UNCHANGED <<server, limiter, up, wiped, losses>>

\* Refused (429, 500) unless all allow it.
Admit(r) ==
  /\ At(r, "checking")
  /\ request[r].waits = {}
  /\ IF request[r].bad THEN Leave(r) ELSE request' = [request EXCEPT ![r].pc = "admitted"]
  /\ UNCHANGED <<server, limiter, up, bucket, recent, wiped, losses>>

\* The handler of POST /v1/sessions asks for its own bucket, once the body is parsed.
SecondCheck(r) ==
  /\ At(r, "admitted")
  /\ request[r].kind = "session"
  /\ request' = [request EXCEPT ![r].pc = "second", ![r].waits = {Party}]
  /\ UNCHANGED <<server, limiter, up, bucket, recent, wiped, losses>>

\* An answer: of the API's handler, or an error of the chat route's (no bearer token, a
\* body that is not valid, a stream, no Idempotency-Key, or what prepareCompletion says).
Respond(r) ==
  /\ \/ At(r, "admitted")
     \/ At(r, "second") /\ request[r].waits = {}
  /\ Leave(r)
  /\ UNCHANGED <<server, limiter, up, bucket, recent, wiped, losses>>

-----------------------------------------------------------------------------
(* Asking the provider: fetchChatCompletionWithRetry                       *)

Attempts == MaxRetries + 1
Recorded(r) == Append(request[r].record, request[r].attempt)

Ask(r) ==
  /\ At(r, "admitted")
  /\ request[r].kind = "chat"
  /\ request' = [request EXCEPT ![r].pc = "asking", ![r].attempt = 1]
  /\ UNCHANGED <<server, limiter, up, bucket, recent, wiped, losses>>

\* A success, whose body is read next; it is read without a timeout of the gateway's.
Succeeds(r) ==
  /\ At(r, "asking")
  /\ request' = [request EXCEPT ![r].pc = "reading", ![r].record = Recorded(r)]
  /\ UNCHANGED <<server, limiter, up, bucket, recent, wiped, losses>>

\* An error status, of which 408, 429 and 5xx are worth another attempt.
Errors(r) ==
  /\ At(r, "asking")
  /\ \E retryable \in BOOLEAN :
       request' = [request EXCEPT ![r].pc = "canceling", ![r].record = Recorded(r),
                                  ![r].retry = retryable]
  /\ UNCHANGED <<server, limiter, up, bucket, recent, wiped, losses>>

\* Mutant: the number of attempts is not looked at.
CancelAlways(r) ==
  /\ At(r, "canceling")
  /\ request' = [request EXCEPT ![r].pc = IF request[r].retry THEN "pausing" ELSE "failed"]
  /\ UNCHANGED <<server, limiter, up, bucket, recent, wiped, losses>>

\* The error's body is canceled, and the loop goes on or ends.
Cancel(r) ==
  /\ At(r, "canceling")
  /\ request' = [request EXCEPT ![r].pc =
                   IF request[r].retry /\ request[r].attempt < Attempts
                   THEN "pausing" ELSE "failed"]
  /\ UNCHANGED <<server, limiter, up, bucket, recent, wiped, losses>>

\* Mutant: the loop ends before the last attempt is recorded.
ThrowsEarly(r) ==
  /\ request[r].pc \in {"asking", "canceling"}
  /\ IF request[r].attempt < Attempts
     THEN request' = [request EXCEPT ![r].pc = "pausing", ![r].record = Recorded(r)]
     ELSE request' = [request EXCEPT ![r].pc = "failed"]
  /\ UNCHANGED <<server, limiter, up, bucket, recent, wiped, losses>>

\* No response before the timeout, or none at all; or the body cannot be canceled, which
\* is recorded as another error of the same attempt and tried again whatever the status.
Throws(r) ==
  /\ request[r].pc \in {"asking", "canceling"}
  /\ request' = [request EXCEPT
                   ![r].pc = IF request[r].attempt < Attempts THEN "pausing" ELSE "failed",
                   ![r].record = Recorded(r)]
  /\ UNCHANGED <<server, limiter, up, bucket, recent, wiped, losses>>

\* After retryDelayMs.
AskAgain(r) ==
  /\ At(r, "pausing")
  /\ request' = [request EXCEPT ![r].pc = "asking", ![r].attempt = @ + 1]
  /\ UNCHANGED <<server, limiter, up, bucket, recent, wiped, losses>>

\* The error is thrown with what is on record of the attempts: Completion's ProviderFails.
Fails(r) ==
  /\ At(r, "failed")
  /\ Leave(r)
  /\ UNCHANGED <<server, limiter, up, bucket, recent, wiped, losses>>

\* The body arrives, or it is not JSON, or fetch gives it up: the completion succeeds or
\* fails, which is Completion's ProviderAnswers and ProviderFails.
Read(r) ==
  /\ At(r, "reading")
  /\ Leave(r)
  /\ UNCHANGED <<server, limiter, up, bucket, recent, wiped, losses>>

-----------------------------------------------------------------------------
(* GET /ready, which the hook lets pass                                    *)

\* It asks for the limiter, and for the others (database, provider), all at once.
Probe(r) ==
  /\ At(r, "idle")
  /\ request' = [request EXCEPT ![r] =
                   [Idle EXCEPT !.pc = "probing", !.kind = "ready",
                                !.waits = {"limiter", "others"}]]
  /\ UNCHANGED <<server, limiter, up, bucket, recent, wiped, losses>>

Healthy(r, d) ==
  /\ At(r, "probing") /\ d \in request[r].waits
  /\ d = "limiter" => InReach
  /\ request' = [request EXCEPT ![r].waits = @ \ {d}]
  /\ UNCHANGED <<server, limiter, up, bucket, recent, wiped, losses>>

\* Mutant: the probe has no timeout.
GivesUpUntimed(r, d) ==
  /\ At(r, "probing") /\ d \in request[r].waits
  /\ d = "limiter" => InReach
  /\ request' = [request EXCEPT ![r].waits = @ \ {d}, ![r].bad = TRUE]
  /\ UNCHANGED <<server, limiter, up, bucket, recent, wiped, losses>>

\* It fails, or two seconds are over, whatever it is waiting for.
GivesUp(r, d) ==
  /\ At(r, "probing") /\ d \in request[r].waits
  /\ request' = [request EXCEPT ![r].waits = @ \ {d}, ![r].bad = TRUE]
  /\ UNCHANGED <<server, limiter, up, bucket, recent, wiped, losses>>

\* 200, or 503 if any of them is unavailable.
ProbeAnswers(r) ==
  /\ At(r, "probing") /\ request[r].waits = {}
  /\ Leave(r)
  /\ UNCHANGED <<server, limiter, up, bucket, recent, wiped, losses>>

-----------------------------------------------------------------------------
(* What is around                                                          *)

Tick ==
  /\ bucket' = [k \in Bucket |-> [bucket[k] EXCEPT !.ttl = IF @ > 0 THEN @ - 1 ELSE @,
                                                  !.count = IF bucket[k].ttl = 1 THEN 0 ELSE @]]
  /\ recent' = [k \in Bucket |->
                 [age \in 1 .. Window |-> IF age = 1 THEN 0 ELSE recent[k][age - 1]]]
  /\ wiped' = [age \in 1 .. Window |-> IF age = 1 THEN 0 ELSE wiped[age - 1]]
  /\ UNCHANGED <<server, limiter, up, losses, request>>

\* A request of another process, or one that is not followed, is counted.
Others(k) ==
  /\ InReach
  /\ Count(k)
  /\ UNCHANGED <<server, limiter, up, wiped, losses, request>>

\* A key of Redis is there without an expiry (a restored dump, an older script).
LoseExpiry(k) ==
  /\ limiter = "redis"
  /\ losses < MaxLosses
  /\ bucket[k].ttl > 0
  /\ bucket' = [bucket EXCEPT ![k].ttl = NoTtl]
  /\ losses' = losses + 1
  /\ UNCHANGED <<server, limiter, up, recent, wiped, request>>

RedisDown ==
  /\ limiter = "redis" /\ up
  /\ up' = FALSE
  /\ UNCHANGED <<server, limiter, bucket, recent, wiped, losses, request>>

RedisUp ==
  /\ ~up
  /\ up' = TRUE
  /\ UNCHANGED <<server, limiter, bucket, recent, wiped, losses, request>>

Total(f) == FoldFunction(+, 0, f)

\* All counters are gone; what they have let through has been let through.
Wipe ==
  /\ losses < MaxLosses
  /\ bucket' = [k \in Bucket |-> [count |-> 0, ttl |-> 0]]
  /\ wiped'  = [wiped EXCEPT ![1] = @ + 1]
  /\ losses' = losses + 1

\* Redis is started anew, without the data it had.
RedisForgets ==
  /\ limiter = "redis"
  /\ Wipe
  /\ UNCHANGED <<server, limiter, up, recent, request>>

\* The process goes down with its requests, and with its memory.
Restart ==
  /\ request' = [r \in Request |-> Idle]
  /\ IF limiter = "memory" THEN Wipe ELSE UNCHANGED <<bucket, wiped, losses>>
  /\ UNCHANGED <<server, limiter, up, recent>>

Go(r) ==
  \/ \E k \in Bucket : Check(r, k)
  \/ Admit(r) \/ SecondCheck(r) \/ Respond(r)
  \/ Ask(r) \/ Succeeds(r) \/ Errors(r) \/ Cancel(r) \/ Throws(r) \/ AskAgain(r)
  \/ Fails(r) \/ Read(r)
  \/ \E d \in {"limiter", "others"} : GivesUp(r, d)
  \/ ProbeAnswers(r)

Next ==
  \/ \E r \in Request :
       \/ Start(r) \/ Probe(r) \/ Go(r)
       \/ \E k \in Bucket : CheckFails(r, k)
       \/ \E d \in {"limiter", "others"} : Healthy(r, d)
  \/ \E k \in Bucket : Others(k) \/ LoseExpiry(k)
  \/ Tick \/ RedisDown \/ RedisUp \/ RedisForgets \/ Restart

Spec == Init /\ [][Next]_vars

\* Node goes on with what is ready and timers run out; the Redis client reconnects and
\* then sends what it has queued.
FairSpec ==
  /\ Spec
  /\ WF_vars(Tick) /\ WF_vars(RedisUp)
  /\ \A r \in Request : WF_vars(Go(r)) /\ SF_vars(\E k \in Bucket : Check(r, k))

-----------------------------------------------------------------------------
(* Properties                                                              *)

TypeOK ==
  /\ server \in {"gateway", "api"} /\ limiter \in {"redis", "memory"} /\ up \in BOOLEAN
  /\ bucket \in [Bucket -> [count : 0 .. Most + 1, ttl : {NoTtl} \cup 0 .. Window]]
  /\ recent \in [Bucket -> [1 .. Window -> Nat]]
  /\ wiped \in [1 .. Window -> Nat] /\ losses \in 0 .. MaxLosses
  /\ request \in [Request ->
       [pc : {"idle", "checking", "admitted", "second", "asking", "canceling", "pausing",
              "failed", "reading", "probing"},
        kind : {"none", "chat", "stranger", "session", "other", "ready"},
        waits : SUBSET (Bucket \cup {"limiter", "others"}), bad : BOOLEAN,
        retry : BOOLEAN, attempt : 0 .. Attempts, record : Seq(1 .. Attempts)]]

\* In a stretch of time as long as a window a bucket lets less than twice the limit
\* through, and once more the limit for each time that the counters were lost in it (a
\* restart with the limiter in memory, a Redis without its data).  So it is whichever
\* limiter counts, however requests interleave, and also when a key loses its expiry and
\* is repaired: each window takes Most, and two windows of one set of counters start at
\* least Window apart ("Atomic fixed-window implementation":
\* docs/capability-matrix.md:43).
SlidingLimit ==
  \A k \in Bucket : Total(recent[k]) <= 2 * Most - 1 + Most * Total(wiped)

\* What the attempts of a completion were is all on record, in order, at the end and
\* before each further attempt: "Retry attempts are recorded as sanitized metadata"
\* (docs/provider-routing.md:8).  An attempt whose error body cannot be canceled is there
\* twice.
AttemptsAreRecorded ==
  \A r \in Request :
    LET q == request[r]
        done == IF q.pc = "asking" THEN q.attempt - 1 ELSE q.attempt IN
    /\ ToSet(q.record) = 1 .. done
    /\ \A i, j \in DOMAIN q.record : i < j => q.record[i] <= q.record[j]
    /\ Len(q.record) <= 2 * q.attempt

\* No check of the bucket would be allowed.
Full(k) == ~Allows(bucket[k])

\* A bucket that is checked again and again is not full for ever: its window ends, also
\* if its key has lost its expiry ("lost-expiry repair": docs/capability-matrix.md:43).
NobodyIsLockedOut ==
  \A k \in Bucket : []<><<Others(k) \/ \E r \in Request : Check(r, k)>>_vars => []<>~Full(k)

\* Every request gets its answer: from the hook, once Redis is back; from a probe, also
\* while Redis is away; from the provider's client after so many attempts.
EveryRequestIsAnswered == \A r \in Request : ~At(r, "idle") ~> At(r, "idle")
=============================================================================
