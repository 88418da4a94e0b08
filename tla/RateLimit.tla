------------------------------ MODULE RateLimit ------------------------------
(***************************************************************************)
(* The four rate limiters of klauthed-data (rate_limit/), offered the same *)
(* requests for one key: the fixed windows InMemoryRateLimiter and         *)
(* RedisRateLimiter, and the token buckets InMemoryTokenBucket and         *)
(* RedisTokenBucket.  The in-memory limiters read the clock before they    *)
(* lock their map, so a check may work with an old time; the scripts of    *)
(* Redis run with the time of the server.  Keys do not interact.           *)
(*                                                                         *)
(* A token is counted as Window units, of which max arrive per tick: the   *)
(* fractions of the code are exact here.                                   *)
(***************************************************************************)
EXTENDS Integers, FiniteSetsExt

CONSTANTS
  Callers,
  requests,  \* the max argument of check
  Window,    \* the window argument, in ticks
  MaxTime,   \* the clock stops here
  MaxCalls   \* bound on the number of checks

VARIABLES
  preemption,  \* whether time may pass between reading the clock and the lock
  clock,
  call,        \* the time each caller has read, or -1
  window,      \* InMemoryRateLimiter: [started, count]
  counter,     \* RedisRateLimiter: [count, expires]
  bucket,      \* InMemoryTokenBucket: [tokens, at]
  hash,        \* RedisTokenBucket: [tokens, at, expires]
  answer,      \* what each limiter said to the last request
  promise,     \* history: when a limiter said to come back, or -1
  admitted,    \* history: admissions of each limiter at each time
  calls        \* history: the number of checks

vars == <<preemption, clock, call, window, counter, bucket, hash, answer, promise, admitted, calls>>

max == IF requests < 1 THEN 1 ELSE requests
Capacity == max * Window
Limiters == {"window", "counter", "bucket", "hash"}
None == [none |-> TRUE]

TypeOK ==
  /\ preemption \in BOOLEAN
  /\ clock \in 0..MaxTime
  /\ call \in [Callers -> -1..MaxTime]
  /\ window = None \/ (window.started \in 0..clock /\ window.count \in 1..max)
  /\ counter = None \/ (counter.count \in 1..MaxCalls /\ counter.expires <= clock + Window)
  /\ bucket = None \/ (bucket.tokens \in 0..Capacity - 1 /\ bucket.at \in 0..clock)
  /\ hash = None \/ (hash.tokens \in 0..Capacity - 1 /\ hash.at \in 0..clock)
  /\ answer \in [Limiters -> [allowed : BOOLEAN, remaining : 0..max, retry_after : Nat]]
  /\ promise \in [Limiters -> Nat \cup {-1}]
  /\ admitted \in [Limiters -> [0..MaxTime -> 0..MaxCalls]]
  /\ calls \in 0..MaxCalls
-----------------------------------------------------------------------------
Allowed(remaining) == [allowed |-> TRUE, remaining |-> remaining, retry_after |-> 0]
Limited(retry_after) == [allowed |-> FALSE, remaining |-> 0, retry_after |-> retry_after]

\* Faulty variant: the window is kept for one tick too long.
opened_late(now) ==
  IF window = None \/ now - window.started > Window
  THEN [started |-> now, count |-> 0] ELSE window

\* The window a request at time now falls into: a new one if the last elapsed.
Opened(now) ==
  IF window = None \/ now - window.started >= Window
  THEN [started |-> now, count |-> 0] ELSE window

\* Faulty variant: one request too many.
window_check_one_more(now) ==
  LET w == Opened(now) IN
    IF w.count > max THEN [state |-> w, answer |-> Limited(Window - (now - w.started))]
    ELSE [state |-> [w EXCEPT !.count = @ + 1],
          answer |-> Allowed(IF w.count < max THEN max - (w.count + 1) ELSE 0)]

\* InMemoryRateLimiter::check: the window it leaves and its answer.
window_check(now) ==
  LET w == Opened(now) IN
    IF w.count >= max THEN [state |-> w, answer |-> Limited(Window - (now - w.started))]
    ELSE [state |-> [w EXCEPT !.count = @ + 1], answer |-> Allowed(max - (w.count + 1))]

\* Faulty variant: every hit extends the window.
counter_check_rearms ==
  LET c == [count |-> IF counter = None \/ counter.expires <= clock THEN 1 ELSE counter.count + 1,
            expires |-> clock + Window]
  IN  [state |-> c, answer |-> IF c.count <= max THEN Allowed(max - c.count) ELSE Limited(Window)]

\* CHECK_SCRIPT: INCR, PEXPIRE on the first hit, PTTL.
counter_check ==
  LET c == IF counter = None \/ counter.expires <= clock
           THEN [count |-> 1, expires |-> clock + Window]
           ELSE [counter EXCEPT !.count = @ + 1]
  IN  [state |-> c,
       answer |-> IF c.count <= max THEN Allowed(max - c.count) ELSE Limited(c.expires - clock)]

\* Faulty variant: the refill is not capped at the capacity.
refilled_uncapped(b, now) == b.tokens + max * (IF now > b.at THEN now - b.at ELSE 0)

\* The tokens of a bucket at time now; a clock that went back adds nothing.
Refilled(b, now) ==
  LET tokens == b.tokens + max * (IF now > b.at THEN now - b.at ELSE 0)
  IN  IF tokens > Capacity THEN Capacity ELSE tokens

\* A token is spent, or the caller is told when the next one is there.
Full(now) == [tokens |-> Capacity, at |-> now]
Spent(tokens) == IF tokens >= Window THEN tokens - Window ELSE tokens
Answered(tokens) ==
  IF tokens >= Window THEN Allowed((tokens - Window) \div Window)
  ELSE Limited((Window - tokens + max - 1) \div max)

\* InMemoryTokenBucket::check.
bucket_check(now) ==
  LET tokens == Refilled(IF bucket = None THEN Full(now) ELSE bucket, now)
  IN  [state |-> [tokens |-> Spent(tokens), at |-> now], answer |-> Answered(tokens)]

\* TOKEN_BUCKET_SCRIPT: an idle bucket is forgotten after a window.
hash_check ==
  LET known == hash # None /\ clock < hash.expires
      tokens == Refilled(IF known THEN hash ELSE Full(clock), clock)
  IN  [state |-> [tokens |-> Spent(tokens), at |-> clock, expires |-> clock + Window],
       answer |-> Answered(tokens)]
-----------------------------------------------------------------------------
Init ==
  /\ preemption \in BOOLEAN
  /\ clock = 0
  /\ call = [c \in Callers |-> -1]
  /\ window = None /\ counter = None /\ bucket = None /\ hash = None
  /\ answer = [l \in Limiters |-> Allowed(0)]
  /\ promise = [l \in Limiters |-> -1]
  /\ admitted = [l \in Limiters |-> [t \in 0..MaxTime |-> 0]]
  /\ calls = 0

read_clock(c) ==
  /\ call[c] = -1 /\ calls < MaxCalls
  /\ call' = [call EXCEPT ![c] = clock]
  /\ calls' = calls + 1
  /\ UNCHANGED <<preemption, clock, window, counter, bucket, hash, answer, promise, admitted>>

\* The rest of the call, in each of the limiters.
check(c) ==
  /\ call[c] # -1
  /\ window' = window_check(call[c]).state /\ counter' = counter_check.state
  /\ bucket' = bucket_check(call[c]).state /\ hash' = hash_check.state
  /\ answer' = [l \in Limiters |-> CASE l = "window" -> window_check(call[c]).answer
                                     [] l = "counter" -> counter_check.answer
                                     [] l = "bucket" -> bucket_check(call[c]).answer
                                     [] l = "hash" -> hash_check.answer]
  /\ call' = [call EXCEPT ![c] = -1]
  /\ promise' = [l \in Limiters |-> IF answer'[l].allowed THEN -1
                                    ELSE clock + answer'[l].retry_after]
  /\ admitted' = [l \in Limiters |-> IF answer'[l].allowed
                                     THEN [admitted[l] EXCEPT ![clock] = @ + 1] ELSE admitted[l]]
  /\ UNCHANGED <<preemption, clock, calls>>

tick ==
  /\ clock < MaxTime
  /\ preemption \/ \A c \in Callers : call[c] = -1
  /\ clock' = clock + 1
  /\ UNCHANGED <<preemption, call, window, counter, bucket, hash, answer, promise, admitted, calls>>

Next ==
  \/ \E c \in Callers : read_clock(c) \/ check(c)
  \/ tick

Spec == Init /\ [][Next]_vars
-----------------------------------------------------------------------------
Admissions(l, times) == MapThenSumSet(LAMBDA t : admitted[l][t], times)

\* "Permitting up to max per window" (mod.rs): a fixed window admits at most
\* max requests from its start on, so no stretch of Window ticks sees more
\* than two windows' worth.
WindowBudget ==
  \A l \in {"window", "counter"}, t \in 0..MaxTime :
    Admissions(l, {s \in 0..MaxTime : t <= s /\ s < t + Window}) <= 2 * max

\* The bucket "holds up to max tokens (the burst size) and refills at
\* max / window" (memory.rs): between any two times no more are admitted than
\* a full bucket and its refill allow.  A check of the in-memory bucket that
\* works with an old time sets refilled_at back, and the time since then is
\* refilled again: see MemoryBucketBudget.
BucketRate(l) ==
  \A t \in 0..clock : Window * Admissions(l, t..clock) <= Capacity + max * (clock - t)
BucketBudget == BucketRate("hash") /\ (preemption \/ BucketRate("bucket"))

\* The same of the in-memory bucket under preemption, from the start on, so
\* that it does not matter when exactly a check is taken to have happened.
MemoryBucketBudget == Window * Admissions("bucket", 0..clock) <= Capacity + max * clock

\* "They're interchangeable behind Arc<dyn RateLimiter>" (mod.rs): without
\* preemption the in-memory and the Redis limiter of a kind give the same
\* answer to every request of any sequence.
SameAnswers ==
  preemption \/ (answer["window"] = answer["counter"] /\ answer["bucket"] = answer["hash"])

\* The first check after the retry_after of a refusal has passed is admitted,
\* not told to wait again.
RetryAfterIsKept ==
  [][\A c \in Callers, l \in Limiters :
       /\ ~preemption /\ promise[l] # -1 /\ clock >= promise[l]
       /\ call[c] # -1 /\ call'[c] = -1
       => answer'[l].allowed]_vars
=============================================================================
