---------------------------- MODULE Coordination ----------------------------
(***************************************************************************)
(* The coordination primitives a service builds on klauthed-data: locks,   *)
(* idempotency keys and rate limits.  They share the clock and the backend *)
(* the service is configured with and nothing else, so a behaviour         *)
(* exercises one of them (focus) while the others rest.                    *)
(***************************************************************************)
EXTENDS Locks

CONSTANTS Requests, Callers, requests, Window, MaxCalls

VARIABLES
  focus,
  record, pc, replay, claims, expiries,
  preemption, stamp, window, counter, bucket, hash, answer, promise, admitted, calls

Keys == INSTANCE Idempotency
Rates == INSTANCE RateLimit WITH call <- stamp

lockVars == <<entry, call, guard, offset, minted>>
keyVars == <<record, pc, replay, claims, expiries>>
rateVars == <<preemption, stamp, window, counter, bucket, hash, answer, promise, admitted, calls>>
allVars == <<focus, backend, clock, lockVars, keyVars, rateVars>>

\* What a primitive leaves to chance at the start is fixed while it rests.
CInit ==
  /\ focus \in {"locks", "idempotency", "rate limits"}
  /\ Init /\ Keys!Init /\ Rates!Init
  /\ focus # "locks" => offset = [c \in Clients |-> 0]
  /\ focus # "rate limits" => ~preemption
  /\ focus = "rate limits" => backend = "memory"

OnKeys(A) == focus = "idempotency" /\ A /\ UNCHANGED <<focus, clock, lockVars, rateVars>>

CNext ==
  \/ focus = "locks" /\ Next /\ UNCHANGED <<focus, keyVars, rateVars>>
  \/ OnKeys(Keys!Next)
  \/ focus = "rate limits" /\ Rates!Next /\ UNCHANGED <<focus, backend, lockVars, keyVars>>

\* Requests that are not dropped go on, and the server's clock lets keys expire.
CSpec ==
  /\ CInit /\ [][CNext]_allVars
  /\ WF_allVars(OnKeys(Keys!expire))
  /\ \A r \in Requests : WF_allVars(OnKeys(Keys!Proceed(r)))
-----------------------------------------------------------------------------
\* The state of the three primitives is well formed.
AllTypesOK == TypeOK /\ Keys!TypeOK /\ Rates!TypeOK

\* An operation runs once per life of its key (idempotency/mod.rs).
OneClaimPerLife == Keys!OneClaimPerLife

\* A response that was replayed stays the stored one (idempotency/mod.rs).
ReplaysAgree == Keys!ReplaysAgree

\* A request that keeps asking Redis is answered (idempotency/redis.rs).
EveryRequestEnds == focus = "idempotency" => Keys!EveryRequestEnds

\* MongoDB forgets keys (idempotency/mongo.rs).
KeysExpire == Keys!KeysExpire

\* A fixed window admits no more than two budgets in a window's time.
WindowBudget == Rates!WindowBudget

\* A token bucket admits no more than its burst and its refill.
BucketBudget == Rates!BucketBudget

\* The in-memory token bucket keeps to its rate, however its checks interleave.
MemoryBucketBudget == Rates!MemoryBucketBudget

\* The in-memory and the Redis limiter of a kind are interchangeable.
SameAnswers == Rates!SameAnswers

\* A caller that waited for retry_after is admitted.
RetryAfterIsKept == Rates!RetryAfterIsKept

\* Until a record expires, the commands of the Redis store (and the updates of
\* MongoDB) implement the atomic begin and complete of the in-memory store.
Memory == INSTANCE Idempotency WITH
  backend <- "memory",
  record <- [record EXCEPT !.expires_at = "none"],
  pc <- [r \in Requests |-> CASE pc[r] = "inspecting" -> "start"
                              [] pc[r] = "completing" -> "working"
                              [] OTHER -> pc[r]]
ImplementsMemory == [][expiries' = 0 => Memory!Next \/ UNCHANGED Memory!vars]_keyVars
=============================================================================
