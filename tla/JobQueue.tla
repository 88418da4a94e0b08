------------------------------ MODULE JobQueue ------------------------------
(***************************************************************************)
(* The in-memory job queue of klauthed-platform (jobs/queue.rs), the       *)
(* workers that drain it (jobs/worker.rs) and the periodic caller of       *)
(* dequeue_stalled.  Every method of InMemoryJobQueue takes the mutex once *)
(* and reads the clock once, just before, so each is one atomic action.    *)
(* run_once is not atomic: it claims a batch, then handles and marks the   *)
(* jobs of that batch one at a time, while other workers and the recovery  *)
(* run.  Time is counted in seconds.                                       *)
(***************************************************************************)
EXTENDS Naturals, FiniteSets

CONSTANTS
  Jobs,          \* job ids; JobId is ordered, and the order breaks ties
  Workers,       \* concurrent callers of JobWorker::run_once
  MaxAttempts,   \* default_max_attempts, clamped to at least 1 by the code
  BatchSize,     \* JobWorker::batch_size, clamped to at least 1 by the code
  StallAfter,    \* the argument of dequeue_stalled, in seconds
  MaxTime,       \* the greatest representable Timestamp, in seconds
  LastAbandon    \* run_once is dropped or panics only up to this time

ASSUME JobQueueAssumption ==
  /\ Jobs \subseteq Nat
  /\ IsFiniteSet(Workers)
  /\ MaxAttempts \in Nat \ {0}
  /\ BatchSize \in Nat \ {0}
  /\ StallAfter \in Nat
  /\ MaxTime \in Nat
  /\ LastAbandon \in Nat

VARIABLES
  jobs,        \* the map behind the mutex
  now,         \* the injected clock
  batch,       \* the jobs a worker's run_once has claimed and not yet marked
  recoveries   \* history: how often dequeue_stalled re-queued the job

vars == <<jobs, now, batch, recoveries>>

Time == 0..MaxTime
JobStatus == {"Queued", "Running", "Succeeded", "Failed"}
is_terminal(status) == status \in {"Succeeded", "Failed"}

\* EnqueuedJob without kind, payload, created_at and last_error, which no
\* decision reads; max_attempts is the same for every job of a queue.
EnqueuedJob == [status : JobStatus, run_at : Time, attempts : Nat]
NoJob == [status |-> "absent"]
Present(j) == jobs[j] # NoJob

\* A job as the claim returned it to the worker: a clone, never refreshed, of
\* which only the id and the place in the batch are used.
Claim == [id : Jobs, run_at : Time]
Holds(w, j) == \E c \in batch[w] : c.id = j

TypeOK ==
  /\ jobs \in [Jobs -> EnqueuedJob \cup {NoJob}]
  /\ now \in Time
  /\ batch \in [Workers -> SUBSET Claim]
  /\ recoveries \in [Jobs -> Nat]

-----------------------------------------------------------------------------
\* Faulty variant (the faulty variants show that the properties can fail).
unchecked_add(t, delta) == t + delta

\* now.checked_add(delta).unwrap_or(now)
CheckedAdd(t, delta) == IF t + delta \in Time THEN t + delta ELSE t

\* 1s, doubling with every attempt made, capped at an hour.
backoff_for_attempt(attempts) ==
  LET exp == IF attempts = 0 THEN 0 ELSE IF attempts > 13 THEN 12 ELSE attempts - 1
  IN  IF 2 ^ exp < 3600 THEN 2 ^ exp ELSE 3600

Started(job) == [status |-> "Running", run_at |-> job.run_at, attempts |-> job.attempts + 1]
Requeued(job, run_at) == [status |-> "Queued", run_at |-> run_at, attempts |-> job.attempts]

\* Oldest run_at first, the id breaks ties: the order of dequeue_due.
Before(a, b) == \/ a.run_at < b.run_at
                \/ a.run_at = b.run_at /\ a.id < b.id

Keyed(j) == [id |-> j, run_at |-> jobs[j].run_at]

Due == {j \in Jobs : jobs[j].status = "Queued" /\ jobs[j].run_at <= now}

\* The first `limit` due jobs in that order.
FirstDue(limit) ==
  {j \in Due : Cardinality({i \in Due : Before(Keyed(i), Keyed(j))}) < limit}

\* The claim a worker handles next: its batch is a vector in claim order.
IsNext(w, c) == c \in batch[w] /\ \A d \in batch[w] \ {c} : Before(c, d)

\* Faulty variant: the recovery forgets to skip jobs that are not Running.
Stalled_any_status == {j \in Jobs : Present(j) /\ now > jobs[j].run_at + StallAfter}

Stalled == {j \in Jobs : /\ jobs[j].status = "Running"
                         /\ now > jobs[j].run_at + StallAfter}
-----------------------------------------------------------------------------
Init ==
  /\ jobs = [j \in Jobs |-> NoJob]
  /\ now = 0
  /\ batch = [w \in Workers |-> {}]
  /\ recoveries = [j \in Jobs |-> 0]

insert(j, run_at) ==
  /\ ~Present(j)
  /\ jobs' = [jobs EXCEPT ![j] = [status |-> "Queued", run_at |-> run_at, attempts |-> 0]]
  /\ UNCHANGED <<now, batch, recoveries>>

enqueue(j) == insert(j, now)

schedule(j, run_at) == insert(j, run_at)

\* Faulty variant: the claim does not move the job out of Queued.
dequeue_due_leaves_queued(w) ==
  /\ batch[w] = {}
  /\ Due # {}
  /\ LET claimed == FirstDue(BatchSize) IN
     batch' = [batch EXCEPT ![w] = {Keyed(j) : j \in claimed}]
  /\ UNCHANGED <<jobs, now, recoveries>>

\* The first step of run_once: claim up to BatchSize due jobs.
dequeue_due(w) ==
  /\ batch[w] = {}
  /\ Due # {}
  /\ LET claimed == FirstDue(BatchSize) IN
     /\ jobs' = [j \in Jobs |-> IF j \in claimed THEN Started(jobs[j]) ELSE jobs[j]]
     /\ batch' = [batch EXCEPT ![w] = {Keyed(j) : j \in claimed}]
  /\ UNCHANGED <<now, recoveries>>

\* The handler returned Ok: the mark looks at nothing but the id.
mark_succeeded(w) ==
  \E c \in batch[w] :
    /\ IsNext(w, c)
    /\ jobs' = [jobs EXCEPT ![c.id].status = "Succeeded"]
    /\ batch' = [batch EXCEPT ![w] = @ \ {c}]
    /\ UNCHANGED <<now, recoveries>>

\* Faulty variant: the budget test of mark_failed is off by one.
mark_failed_one_more(w) ==
  \E c \in batch[w] :
    /\ IsNext(w, c)
    /\ jobs' = [jobs EXCEPT ![c.id] =
                 IF @.attempts > MaxAttempts
                 THEN [@ EXCEPT !.status = "Failed"]
                 ELSE Requeued(@, CheckedAdd(now, backoff_for_attempt(@.attempts)))]
    /\ batch' = [batch EXCEPT ![w] = @ \ {c}]
    /\ UNCHANGED <<now, recoveries>>

\* The handler returned Err: the attempts compared are those in the map.
mark_failed(w) ==
  \E c \in batch[w] :
    /\ IsNext(w, c)
    /\ jobs' = [jobs EXCEPT ![c.id] =
                 IF @.attempts >= MaxAttempts
                 THEN [@ EXCEPT !.status = "Failed"]
                 ELSE Requeued(@, CheckedAdd(now, backoff_for_attempt(@.attempts)))]
    /\ batch' = [batch EXCEPT ![w] = @ \ {c}]
    /\ UNCHANGED <<now, recoveries>>

\* The handler panics or the future of run_once is dropped: the claimed jobs
\* of the batch stay Running and nobody holds them any more.
abandon(w) ==
  /\ batch[w] # {}
  /\ now <= LastAbandon
  /\ batch' = [batch EXCEPT ![w] = {}]
  /\ UNCHANGED <<jobs, now, recoveries>>

\* Faulty variant: the recovery never finds an abandoned job.
dequeue_stalled_finds_none ==
  /\ Stalled # {}
  /\ UNCHANGED vars

dequeue_stalled ==
  /\ Stalled # {}
  /\ jobs' = [j \in Jobs |-> IF j \in Stalled THEN Requeued(jobs[j], now) ELSE jobs[j]]
  /\ recoveries' = [j \in Jobs |-> recoveries[j] + (IF j \in Stalled THEN 1 ELSE 0)]
  /\ UNCHANGED <<now, batch>>

tick ==
  /\ now < MaxTime
  /\ now' = now + 1
  /\ UNCHANGED <<jobs, batch, recoveries>>

Next ==
  \/ \E j \in Jobs : enqueue(j)
  \/ \E j \in Jobs, t \in Time : schedule(j, t)
  \/ \E w \in Workers : dequeue_due(w)
  \/ \E w \in Workers : mark_succeeded(w)
  \/ \E w \in Workers : mark_failed(w)
  \/ \E w \in Workers : abandon(w)
  \/ dequeue_stalled
  \/ tick

Spec == Init /\ [][Next]_vars

\* Workers are driven by the scheduler for ever, a handler that does not
\* panic returns, and somebody keeps calling dequeue_stalled.
Fairness ==
  /\ \A w \in Workers : WF_vars(dequeue_due(w))
  /\ \A w \in Workers : WF_vars(mark_succeeded(w) \/ mark_failed(w))
  /\ WF_vars(dequeue_stalled)
  /\ WF_vars(tick)

FairSpec == Spec /\ Fairness
-----------------------------------------------------------------------------
\* A job is never handled by more workers at once than one plus the number of
\* times dequeue_stalled gave it away, and a Queued job counts as one of them:
\* the next dequeue_due will hand it out (worker.rs run_once with queue.rs).
OverlapNeedsRecovery ==
  \A j \in Jobs :
    LET holders == {w \in Workers : Holds(w, j)}
        waiting == IF jobs[j].status = "Queued" THEN 1 ELSE 0
    IN  Cardinality(holders) + waiting <= 1 + recoveries[j]

\* The attempt budget: a job is started at most max_attempts times, plus once
\* for every stall recovery (dequeue_stalled does not look at the budget), and
\* a job still waiting has budget left for its next start.
AttemptsWithinBudget ==
  \A j \in Jobs : Present(j) =>
    /\ jobs[j].attempts <= MaxAttempts + recoveries[j]
    /\ jobs[j].status = "Queued" => jobs[j].attempts < MaxAttempts + recoveries[j]

\* Succeeded and Failed are final for a job that was never taken from its
\* worker by dequeue_stalled: no mark, claim or recovery changes it again.
FinishedStaysFinished ==
  [][\A j \in Jobs :
        is_terminal(jobs[j].status) /\ recoveries[j] = 0 => jobs'[j] = jobs[j]]_vars

\* What model.rs says of JobStatus::Succeeded, "Completed successfully
\* (terminal)": no step takes a Succeeded job out of that state.
SucceededIsTerminal ==
  [][\A j \in Jobs : jobs[j].status = "Succeeded" => jobs'[j].status = "Succeeded"]_vars

\* A Running job that nobody holds any more (its run_once panicked or was
\* dropped) is not lost, and every retry ends: each enqueued job is in the end
\* Succeeded or Failed for good.
EveryJobSettles ==
  \A j \in Jobs : Present(j) ~> [](Present(j) /\ is_terminal(jobs[j].status))
=============================================================================
