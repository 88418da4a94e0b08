---------------------------- MODULE RedisJobQueue ----------------------------
(***************************************************************************)
(* RedisJobQueue (jobs/redis.rs) drained by the same workers as JobQueue.  *)
(* A job is a hash plus at most one member of each of two sorted sets, due *)
(* and run.  The Lua scripts and the MULTI of insert are atomic; a claimed *)
(* job whose hash could not be loaded is an abandoned claim.               *)
(***************************************************************************)
EXTENDS Naturals, FiniteSets

CONSTANTS Jobs, Workers, MaxAttempts, BatchSize, StallAfter,
          MaxTime   \* the clock stops here

VARIABLES
  hash,        \* the hash of the job: status, run_at and attempts
  due, run,    \* the sorted sets: member |-> score
  now, batch,
  recoveries,  \* history: how often RECOVER_SCRIPT re-queued the job
  last_score   \* history: the last score the job had in due or run

vars == <<hash, due, run, now, batch, recoveries, last_score>>

NoHash == [status |-> "absent"]
Members(zset) == DOMAIN zset
ZADD(zset, id, score) == [i \in Members(zset) \cup {id} |-> IF i = id THEN score ELSE zset[i]]
ZREM(zset, ids) == [i \in Members(zset) \ ids |-> zset[i]]

TypeOK ==
  /\ hash \in [Jobs -> [status : {"Queued", "Running", "Succeeded", "Failed"},
                        run_at : Nat, attempts : Nat] \cup {NoHash}]
  /\ Members(due) \subseteq Jobs /\ Members(run) \subseteq Jobs
  /\ \A j \in Members(due) : due[j] \in Nat
  /\ \A j \in Members(run) : run[j] \in 0..now
  /\ now \in 0..MaxTime
  /\ batch \in [Workers -> SUBSET [id : Jobs, run_at : Nat]]
  /\ recoveries \in [Jobs -> Nat]
  /\ last_score \in [Jobs -> Nat]

-----------------------------------------------------------------------------
\* Faulty variant: the first retry already waits two seconds.
Backoff_starts_at_two(attempts) == IF attempts > 12 THEN 3600 ELSE 2 ^ attempts

\* 2 ^ min(attempts - 1, 12) seconds, capped at an hour, as Lua computes it.
Backoff(attempts) ==
  LET exp == IF attempts > 13 THEN 12 ELSE attempts - 1
  IN  IF 2 ^ exp < 3600 THEN 2 ^ exp ELSE 3600

\* ZRANGEBYSCORE orders by score, then by member.
Before(a, b) == \/ a.run_at < b.run_at
                \/ a.run_at = b.run_at /\ a.id < b.id
Keyed(j) == [id |-> j, run_at |-> due[j]]
Due == {j \in Members(due) : due[j] <= now}
\* Faulty variant: the upper bound of the range is forgotten.
FirstDue_ignores_time(limit) ==
  {j \in Members(due) :
     Cardinality({i \in Members(due) : Before(Keyed(i), Keyed(j))}) < limit}

FirstDue(limit) ==
  {j \in Due : Cardinality({i \in Due : Before(Keyed(i), Keyed(j))}) < limit}

Stalled == {j \in Members(run) : run[j] + StallAfter < now}
IsNext(w, c) == c \in batch[w] /\ \A d \in batch[w] \ {c} : Before(c, d)
Drop(w, c) == batch' = [batch EXCEPT ![w] = @ \ {c}]
-----------------------------------------------------------------------------
Init ==
  /\ hash = [j \in Jobs |-> NoHash]
  /\ due = [j \in {} |-> 0] /\ run = [j \in {} |-> 0]
  /\ now = 0
  /\ batch = [w \in Workers |-> {}]
  /\ recoveries = [j \in Jobs |-> 0] /\ last_score = [j \in Jobs |-> 0]

\* enqueue (run_at = now) and schedule (any run_at): MULTI HSET, ZADD.
insert(j, run_at) ==
  /\ hash[j] = NoHash
  /\ hash' = [hash EXCEPT ![j] = [status |-> "Queued", run_at |-> run_at, attempts |-> 0]]
  /\ due' = ZADD(due, j, run_at)
  /\ last_score' = [last_score EXCEPT ![j] = run_at]
  /\ UNCHANGED <<run, now, batch, recoveries>>

\* Faulty variant: the claim leaves the job in due.
dequeue_due_keeps_due(w) ==
  /\ batch[w] = {} /\ Due # {}
  /\ LET claimed == FirstDue(BatchSize) IN
     /\ run' = [j \in Members(run) \cup claimed |-> IF j \in claimed THEN due[j] ELSE run[j]]
     /\ hash' = [j \in Jobs |-> IF j \in claimed
                                THEN [hash[j] EXCEPT !.status = "Running", !.attempts = @ + 1]
                                ELSE hash[j]]
     /\ batch' = [batch EXCEPT ![w] = {Keyed(j) : j \in claimed}]
  /\ UNCHANGED <<due, now, recoveries, last_score>>

\* CLAIM_SCRIPT: whatever is in due is claimed, the status is not looked at.
dequeue_due(w) ==
  /\ batch[w] = {} /\ Due # {}
  /\ LET claimed == FirstDue(BatchSize) IN
     /\ due' = ZREM(due, claimed)
     /\ run' = [j \in Members(run) \cup claimed |-> IF j \in claimed THEN due[j] ELSE run[j]]
     /\ hash' = [j \in Jobs |-> IF j \in claimed
                                THEN [hash[j] EXCEPT !.status = "Running", !.attempts = @ + 1]
                                ELSE hash[j]]
     /\ batch' = [batch EXCEPT ![w] = {Keyed(j) : j \in claimed}]
     /\ last_score' = [j \in Jobs |-> IF j \in claimed THEN due[j] ELSE last_score[j]]
  /\ UNCHANGED <<now, recoveries>>

\* Faulty variant: the job is left in run.
mark_succeeded_keeps_run(w) ==
  \E c \in batch[w] :
    /\ IsNext(w, c)
    /\ hash' = [hash EXCEPT ![c.id].status = "Succeeded"]
    /\ Drop(w, c)
    /\ UNCHANGED <<due, run, now, recoveries, last_score>>

\* SUCCEED_SCRIPT: removes the job from run, not from due.
mark_succeeded(w) ==
  \E c \in batch[w] :
    /\ IsNext(w, c)
    /\ hash' = [hash EXCEPT ![c.id].status = "Succeeded"]
    /\ run' = ZREM(run, {c.id})
    /\ Drop(w, c)
    /\ UNCHANGED <<due, now, recoveries, last_score>>

\* FAIL_SCRIPT: on the last attempt the job is removed from run, not from due;
\* on a retry the new time is the score alone, the field run_at stays.
mark_failed(w) ==
  \E c \in batch[w] :
    /\ IsNext(w, c)
    /\ LET attempts == hash[c.id].attempts
           score == now + Backoff(attempts)
       IN  \/ /\ attempts >= MaxAttempts
              /\ hash' = [hash EXCEPT ![c.id].status = "Failed"]
              /\ UNCHANGED <<due, last_score>>
           \/ /\ attempts < MaxAttempts
              /\ hash' = [hash EXCEPT ![c.id].status = "Queued"]
              /\ due' = ZADD(due, c.id, score)
              /\ last_score' = [last_score EXCEPT ![c.id] = score]
    /\ run' = ZREM(run, {c.id})
    /\ Drop(w, c)
    /\ UNCHANGED <<now, recoveries>>

\* run_once panics, is dropped, or load_jobs fails after the claim.
abandon(w) ==
  /\ batch[w] # {}
  /\ batch' = [batch EXCEPT ![w] = {}]
  /\ UNCHANGED <<hash, due, run, now, recoveries, last_score>>

\* RECOVER_SCRIPT.
dequeue_stalled ==
  /\ Stalled # {}
  /\ run' = ZREM(run, Stalled)
  /\ due' = [j \in Members(due) \cup Stalled |-> IF j \in Stalled THEN now ELSE due[j]]
  /\ hash' = [j \in Jobs |-> IF j \in Stalled
                             THEN [hash[j] EXCEPT !.status = "Queued", !.run_at = now]
                             ELSE hash[j]]
  /\ recoveries' = [j \in Jobs |-> recoveries[j] + (IF j \in Stalled THEN 1 ELSE 0)]
  /\ last_score' = [j \in Jobs |-> IF j \in Stalled THEN now ELSE last_score[j]]
  /\ UNCHANGED <<now, batch>>

tick ==
  /\ now < MaxTime
  /\ now' = now + 1
  /\ UNCHANGED <<hash, due, run, batch, recoveries, last_score>>

Next ==
  \/ \E j \in Jobs, t \in 0..MaxTime : insert(j, t)
  \/ \E w \in Workers : dequeue_due(w) \/ mark_succeeded(w) \/ mark_failed(w) \/ abandon(w)
  \/ dequeue_stalled
  \/ tick

Spec == Init /\ [][Next]_vars
-----------------------------------------------------------------------------
\* The two sorted sets never lose a job and never hold it twice: a Queued job
\* can be claimed (due), a Running one can be recovered (run), whatever late
\* marks of workers that lost the job do to the hash.
IndexesLoseNothing ==
  /\ \A j \in Jobs : hash[j].status = "Queued" => j \in Members(due)
  /\ \A j \in Jobs : hash[j].status = "Running" <=> j \in Members(run)
  /\ Members(due) \cap Members(run) = {}

\* Concurrent workers never double-claim (header of redis.rs): a job has at
\* most one worker, or waits in due, for every time it was recovered plus one.
NoDoubleClaim ==
  \A j \in Jobs :
    LET holders == {w \in Workers : \E c \in batch[w] : c.id = j}
        waiting == IF j \in Members(due) THEN 1 ELSE 0
    IN  Cardinality(holders) + waiting <= 1 + recoveries[j]

\* The in-memory queue as the Redis queue implements it: the stored job is the
\* hash with the score it last had.  The scores never overflow here, so the
\* abstract clock has room for the longest backoff.
InMemory == INSTANCE JobQueue WITH
  jobs <- [j \in Jobs |-> IF hash[j] = NoHash THEN hash[j]
                          ELSE [status |-> hash[j].status, run_at |-> last_score[j],
                                attempts |-> hash[j].attempts]],
  MaxTime <- MaxTime + Backoff(MaxAttempts),
  LastAbandon <- MaxTime

\* "Matching InMemoryJobQueue" (header of redis.rs): until a recovery takes a
\* job from its worker, every step of the Redis queue is a step of the
\* in-memory queue.
ImplementsInMemoryQueue ==
  /\ InMemory!Init
  /\ [][(\A j \in Jobs : recoveries'[j] = 0) => InMemory!Next]_vars
=============================================================================
