--------------------------- MODULE JobQueueProofs ---------------------------
(***************************************************************************)
(* Proofs about JobQueue, for any set of jobs, any finite set of workers   *)
(* and all values of the other constants.                                  *)
(***************************************************************************)
EXTENDS JobQueue, FiniteSetTheorems, TLAPS

\* now.checked_add(delta).unwrap_or(now) stays in the range of Timestamp.
LEMMA CheckedAddType ==
  ASSUME NEW t \in Time, NEW d PROVE CheckedAdd(t, d) \in Time
BY DEF CheckedAdd

\* The claims and the recovery only touch jobs that are there.
LEMMA DueFacts ==
  ASSUME TypeOK, NEW limit
  PROVE  /\ Due \subseteq Jobs /\ FirstDue(limit) \subseteq Due
         /\ \A j \in Due : jobs[j] \in EnqueuedJob /\ jobs[j].status = "Queued"
         /\ Stalled \subseteq Jobs
         /\ \A j \in Stalled : jobs[j] \in EnqueuedJob /\ jobs[j].status = "Running"
BY DEF TypeOK, Due, FirstDue, Stalled, NoJob

\* What the marks rely on: a claim a worker still holds names a job of the
\* queue (jobs are never removed from the map).
HeldJobsExist == \A w \in Workers : \A c \in batch[w] : jobs[c.id] \in EnqueuedJob

TypeInv == TypeOK /\ HeldJobsExist

\* A claimed job is one of the queue.
LEMMA HeldIds == TypeOK => \A w \in Workers : \A c \in batch[w] : c.id \in Jobs
BY DEF TypeOK, Claim

\* An empty queue is well typed.
LEMMA TypeInit == Init => TypeInv
BY JobQueueAssumption DEF Init, TypeInv, TypeOK, HeldJobsExist, Time, NoJob

\* Every operation keeps the queue well typed.
LEMMA TypeStep == TypeInv /\ [Next]_vars => TypeInv'
<1> SUFFICES ASSUME TypeInv, [Next]_vars PROVE TypeInv'
  OBVIOUS
<1> USE JobQueueAssumption DEF TypeInv, TypeOK, HeldJobsExist
<1>1. ASSUME NEW j \in Jobs, NEW t \in Time, insert(j, t) PROVE TypeInv'
  <2>1. [status |-> "Queued", run_at |-> t, attempts |-> 0] \in EnqueuedJob
    BY DEF EnqueuedJob, JobStatus
  <2>2. QED
    BY <1>1, <2>1 DEF insert, Claim
<1>2. ASSUME NEW w \in Workers, dequeue_due(w) PROVE TypeInv'
  <2> DEFINE claimed == FirstDue(BatchSize)
  <2>1. claimed \subseteq Jobs /\ \A j \in claimed : jobs[j] \in EnqueuedJob
    BY DueFacts
  <2>2. \A j \in claimed : Started(jobs[j]) \in EnqueuedJob
    BY <2>1 DEF EnqueuedJob, JobStatus, Started
  <2>3. \A j \in claimed : Keyed(j) \in Claim /\ Keyed(j).id = j
    BY <2>1 DEF Keyed, Claim, EnqueuedJob
  <2> HIDE DEF claimed
  <2>4. jobs' \in [Jobs -> EnqueuedJob \cup {NoJob}]
    BY <1>2, <2>1, <2>2 DEF dequeue_due, claimed
  <2>5. \A j \in Jobs : jobs[j] \in EnqueuedJob => jobs'[j] \in EnqueuedJob
    BY <1>2, <2>1, <2>2 DEF dequeue_due, claimed
  <2>6. batch' = [batch EXCEPT ![w] = {Keyed(j) : j \in claimed}]
    BY <1>2 DEF dequeue_due, claimed
  <2>9. {Keyed(j) : j \in claimed} \in SUBSET Claim
    BY <2>3
  <2>10. batch' \in [Workers -> SUBSET Claim]
    BY <2>6, <2>9
  <2>7. HeldJobsExist'
    <3> SUFFICES ASSUME NEW v \in Workers, NEW c \in batch'[v] PROVE jobs'[c.id] \in EnqueuedJob
      OBVIOUS
    <3>1. CASE v = w
      <4>1. PICK j \in claimed : c = Keyed(j)
        BY <2>6, <3>1
      <4>2. QED
        BY <2>1, <2>3, <2>5, <4>1
    <3>2. CASE v # w
      <4>1. c \in batch[v]
        BY <2>6, <3>2
      <4>2. QED
        BY <2>5, <4>1, HeldIds
    <3>3. QED
      BY <3>1, <3>2
  <2>8. QED
    BY <1>2, <2>4, <2>10, <2>7 DEF dequeue_due
<1>3. ASSUME NEW w \in Workers, mark_succeeded(w) PROVE TypeInv'
  <2>1. PICK c \in batch[w] :
          /\ jobs' = [jobs EXCEPT ![c.id].status = "Succeeded"]
          /\ batch' = [batch EXCEPT ![w] = @ \ {c}]
          /\ UNCHANGED <<now, recoveries>>
    BY <1>3 DEF mark_succeeded
  <2>2. c.id \in Jobs /\ jobs[c.id] \in EnqueuedJob
    BY DEF Claim
  <2>3. [jobs[c.id] EXCEPT !.status = "Succeeded"] \in EnqueuedJob
    BY <2>2 DEF EnqueuedJob, JobStatus
  <2>4. QED
    BY <2>1, <2>2, <2>3 DEF Claim
<1>4. ASSUME NEW w \in Workers, mark_failed(w) PROVE TypeInv'
  <2> DEFINE again(c) == Requeued(jobs[c.id], CheckedAdd(now, backoff_for_attempt(jobs[c.id].attempts)))
             failed(c) == [jobs[c.id] EXCEPT !.status = "Failed"]
  <2>1. PICK c \in batch[w] :
          /\ jobs' = [jobs EXCEPT ![c.id] =
                        IF jobs[c.id].attempts >= MaxAttempts THEN failed(c) ELSE again(c)]
          /\ batch' = [batch EXCEPT ![w] = @ \ {c}]
          /\ UNCHANGED <<now, recoveries>>
    BY <1>4 DEF mark_failed
  <2>2. c.id \in Jobs /\ jobs[c.id] \in EnqueuedJob
    BY DEF Claim
  <2>3. failed(c) \in EnqueuedJob /\ again(c) \in EnqueuedJob
    BY <2>2, CheckedAddType DEF EnqueuedJob, JobStatus, Requeued
  <2> HIDE DEF failed, again
  <2>4. QED
    BY <2>1, <2>2, <2>3 DEF Claim
<1>5. ASSUME NEW w \in Workers, abandon(w) PROVE TypeInv'
  BY <1>5 DEF abandon
<1>6. ASSUME dequeue_stalled PROVE TypeInv'
  <2>1. \A j \in Stalled : j \in Jobs /\ Requeued(jobs[j], now) \in EnqueuedJob
    BY DueFacts DEF Requeued, EnqueuedJob, JobStatus
  <2>2. jobs' \in [Jobs -> EnqueuedJob \cup {NoJob}]
    BY <1>6, <2>1 DEF dequeue_stalled
  <2>3. \A j \in Jobs : jobs[j] \in EnqueuedJob => jobs'[j] \in EnqueuedJob
    BY <1>6, <2>1 DEF dequeue_stalled
  <2>4. recoveries' \in [Jobs -> Nat]
    BY <1>6 DEF dequeue_stalled
  <2>5. UNCHANGED <<now, batch>>
    BY <1>6 DEF dequeue_stalled
  <2>6. HeldJobsExist'
    BY <2>3, <2>5, HeldIds
  <2>7. QED
    BY <2>2, <2>4, <2>5, <2>6
<1>7. ASSUME tick PROVE TypeInv'
  BY <1>7 DEF tick, Time
<1>8. ASSUME UNCHANGED vars PROVE TypeInv'
  BY <1>8 DEF vars
<1>9. QED
  BY <1>1, <1>2, <1>3, <1>4, <1>5, <1>6, <1>7, <1>8 DEF Next, enqueue, schedule

\* Type correctness of the in-memory queue and its workers: timestamps stay
\* representable and every mark finds its job (no JobNotFound in run_once).
THEOREM TypeCorrect == Spec => []TypeOK
<1>1. Spec => []TypeInv
  BY TypeInit, TypeStep, PTL DEF Spec
<1>2. TypeInv => TypeOK
  BY DEF TypeInv
<1>3. QED
  BY <1>1, <1>2, PTL
-----------------------------------------------------------------------------
\* Everything one step can do to one job and to its recovery count.
JobStep(j) ==
  \/ jobs'[j] = jobs[j] /\ recoveries'[j] = recoveries[j]
  \/ /\ ~Present(j) /\ jobs'[j].status = "Queued" /\ jobs'[j].attempts = 0
     /\ recoveries'[j] = recoveries[j]
  \/ /\ jobs[j] \in EnqueuedJob /\ jobs[j].status = "Queued"
     /\ jobs'[j] = Started(jobs[j]) /\ recoveries'[j] = recoveries[j]
  \/ /\ jobs[j] \in EnqueuedJob /\ jobs'[j].attempts = jobs[j].attempts
     /\ is_terminal(jobs'[j].status) /\ recoveries'[j] = recoveries[j]
  \/ /\ jobs[j] \in EnqueuedJob /\ jobs'[j].attempts = jobs[j].attempts
     /\ jobs[j].attempts < MaxAttempts /\ jobs'[j].status = "Queued"
     /\ recoveries'[j] = recoveries[j]
  \/ /\ jobs[j] \in EnqueuedJob /\ jobs[j].status = "Running"
     /\ jobs'[j].attempts = jobs[j].attempts /\ recoveries'[j] = recoveries[j] + 1

\* What one step of the queue may do to one job.
LEMMA StepOfJob == TypeInv /\ [Next]_vars => \A j \in Jobs : JobStep(j)
<1> SUFFICES ASSUME TypeInv, [Next]_vars, NEW j \in Jobs PROVE JobStep(j)
  OBVIOUS
<1> USE DEF TypeInv, TypeOK, JobStep
<1>1. ASSUME NEW i \in Jobs, NEW t \in Time, insert(i, t) PROVE JobStep(j)
  BY <1>1 DEF insert
<1>2. ASSUME NEW w \in Workers, dequeue_due(w) PROVE JobStep(j)
  <2>1. \A i \in FirstDue(BatchSize) : jobs[i] \in EnqueuedJob /\ jobs[i].status = "Queued"
    BY DueFacts
  <2>2. QED
    BY <1>2, <2>1 DEF dequeue_due
<1>3. ASSUME NEW w \in Workers, mark_succeeded(w) PROVE JobStep(j)
  <2>1. PICK c \in batch[w] : jobs' = [jobs EXCEPT ![c.id].status = "Succeeded"]
                              /\ recoveries' = recoveries
    BY <1>3 DEF mark_succeeded
  <2>2. c.id \in Jobs /\ jobs[c.id] \in EnqueuedJob
    BY HeldIds DEF HeldJobsExist
  <2>3. QED
    BY <2>1, <2>2 DEF EnqueuedJob, is_terminal
<1>4. ASSUME NEW w \in Workers, mark_failed(w) PROVE JobStep(j)
  <2>1. PICK c \in batch[w] :
          /\ jobs' = [jobs EXCEPT ![c.id] =
                        IF jobs[c.id].attempts >= MaxAttempts
                        THEN [jobs[c.id] EXCEPT !.status = "Failed"]
                        ELSE Requeued(jobs[c.id],
                               CheckedAdd(now, backoff_for_attempt(jobs[c.id].attempts)))]
          /\ recoveries' = recoveries
    BY <1>4 DEF mark_failed
  <2>2. c.id \in Jobs /\ jobs[c.id] \in EnqueuedJob
    BY HeldIds DEF HeldJobsExist
  <2>3. CASE j # c.id
    BY <2>1, <2>3
  <2>4. CASE j = c.id /\ jobs[j].attempts >= MaxAttempts
    BY <2>1, <2>2, <2>4 DEF EnqueuedJob, is_terminal
  <2>5. CASE j = c.id /\ ~(jobs[j].attempts >= MaxAttempts)
    <3>1. jobs'[j] = Requeued(jobs[j], CheckedAdd(now, backoff_for_attempt(jobs[j].attempts)))
      BY <2>1, <2>5
    <3>2. jobs'[j].status = "Queued" /\ jobs'[j].attempts = jobs[j].attempts
      BY <3>1 DEF Requeued
    <3>3. jobs[j].attempts < MaxAttempts
      BY <2>2, <2>5, JobQueueAssumption DEF EnqueuedJob
    <3>4. QED
      BY <2>1, <2>2, <2>5, <3>2, <3>3
  <2>6. QED
    BY <2>3, <2>4, <2>5
<1>5. ASSUME NEW w \in Workers, abandon(w) PROVE JobStep(j)
  BY <1>5 DEF abandon
<1>6. ASSUME dequeue_stalled PROVE JobStep(j)
  <2>1. CASE j \in Stalled
    <3>1. jobs'[j] = Requeued(jobs[j], now) /\ recoveries'[j] = recoveries[j] + 1
      BY <1>6, <2>1 DEF dequeue_stalled
    <3>2. QED
      BY <2>1, <3>1, DueFacts DEF Requeued
  <2>2. CASE j \notin Stalled
    BY <1>6, <2>2 DEF dequeue_stalled
  <2>3. QED
    BY <2>1, <2>2
<1>7. ASSUME tick PROVE JobStep(j)
  BY <1>7 DEF tick
<1>8. ASSUME UNCHANGED vars PROVE JobStep(j)
  BY <1>8 DEF vars
<1>9. QED
  BY <1>1, <1>2, <1>3, <1>4, <1>5, <1>6, <1>7, <1>8 DEF Next, enqueue, schedule

\* No operation starts a job beyond its budget.
LEMMA BudgetStep == TypeInv /\ TypeInv' /\ AttemptsWithinBudget /\ [Next]_vars => AttemptsWithinBudget'
<1> SUFFICES ASSUME TypeInv, TypeInv', AttemptsWithinBudget, [Next]_vars, NEW j \in Jobs,
                    Present(j)'
             PROVE  /\ jobs'[j].attempts <= MaxAttempts + recoveries'[j]
                    /\ jobs'[j].status = "Queued" =>
                         jobs'[j].attempts < MaxAttempts + recoveries'[j]
  BY DEF AttemptsWithinBudget
<1>1. JobStep(j)
  BY StepOfJob
<1>2. /\ recoveries[j] \in Nat /\ MaxAttempts \in Nat \ {0}
      /\ jobs'[j] \in EnqueuedJob /\ jobs[j] \in EnqueuedJob \cup {NoJob}
  BY JobQueueAssumption DEF TypeInv, TypeOK, Present
<1>3. CASE jobs[j] \in EnqueuedJob
  <2>1. /\ jobs[j].attempts <= MaxAttempts + recoveries[j]
        /\ jobs[j].status = "Queued" => jobs[j].attempts < MaxAttempts + recoveries[j]
    BY <1>3 DEF AttemptsWithinBudget, Present, NoJob, EnqueuedJob, JobStatus
  <2>2. jobs[j].attempts \in Nat /\ Present(j)
    BY <1>3 DEF EnqueuedJob, Present, NoJob, JobStatus
  <2>3. QED
    BY <1>1, <1>2, <2>1, <2>2 DEF JobStep, Started, is_terminal
<1>4. CASE ~Present(j)
  BY <1>1, <1>2, <1>4 DEF JobStep, Present, NoJob, EnqueuedJob, JobStatus
<1>5. QED
  BY <1>2, <1>3, <1>4 DEF Present

\* The attempt budget: whatever the interleaving of workers, panics and
\* recoveries, a job is started at most max_attempts times plus once for every
\* time dequeue_stalled took it from its worker.
THEOREM BudgetHolds == Spec => []AttemptsWithinBudget
<1>1. Init => AttemptsWithinBudget
  BY DEF Init, AttemptsWithinBudget, Present
<1>2. QED
  BY <1>1, TypeInit, TypeStep, BudgetStep, PTL DEF Spec
-----------------------------------------------------------------------------
Holders(j) == {w \in Workers : Holds(w, j)}
Waiting(j) == IF jobs[j].status = "Queued" THEN 1 ELSE 0

\* A batch names a job once.
OneClaimPerJob ==
  \A w \in Workers : \A c, d \in batch[w] : c.id = d.id => c = d

\* As long as it was not recovered, a job somebody holds is Running.
HeldIsRunning ==
  \A j \in Jobs : recoveries[j] = 0 =>
    \A w \in Workers : Holds(w, j) => jobs[j].status = "Running"

IInv == TypeInv /\ OneClaimPerJob /\ OverlapNeedsRecovery /\ HeldIsRunning

\* OverlapNeedsRecovery in terms of the set of holders.
LEMMA OverlapAsHolders ==
  OverlapNeedsRecovery <=>
    \A j \in Jobs : Cardinality(Holders(j)) + Waiting(j) <= 1 + recoveries[j]
BY DEF OverlapNeedsRecovery, Holders, Waiting

\* The same for the next state.
LEMMA OverlapAsHoldersNext ==
  OverlapNeedsRecovery' <=>
    \A j \in Jobs : Cardinality(Holders(j)') + Waiting(j)' <= 1 + recoveries'[j]
BY DEF OverlapNeedsRecovery, Holders, Waiting

\* Cardinalities of the sets of holders: they are finite, and they compare as
\* the sets do.
LEMMA HoldersFinite ==
  \A j : IsFiniteSet(Holders(j)) /\ IsFiniteSet(Holders(j)')
          /\ Cardinality(Holders(j)) \in Nat /\ Cardinality(Holders(j)') \in Nat
BY JobQueueAssumption, FS_Subset, FS_CardinalityType DEF Holders

\* What a step does to the set of workers that hold a job.
HolderStep(j) ==
  \/ Holders(j)' \subseteq Holders(j) /\ jobs'[j] = jobs[j]
  \/ /\ \E w \in Workers : Holders(j)' = Holders(j) \cup {w}
     /\ jobs[j].status = "Queued" /\ jobs'[j].status = "Running"
  \/ \E w \in Holders(j) : Holders(j)' = Holders(j) \ {w}
  \/ /\ ~Present(j) /\ Holders(j)' = Holders(j) /\ Holders(j) = {}
  \/ Holders(j)' = Holders(j) /\ recoveries'[j] = recoveries[j] + 1

\* What one step may do to the holders of a job.
LEMMA StepOfHolders ==
  TypeInv /\ OneClaimPerJob /\ [Next]_vars => OneClaimPerJob' /\ \A j \in Jobs : HolderStep(j)
<1> SUFFICES ASSUME TypeInv, OneClaimPerJob, [Next]_vars
             PROVE  OneClaimPerJob' /\ \A j \in Jobs : HolderStep(j)
  OBVIOUS
<1> USE DEF TypeInv, TypeOK
<1>1. ASSUME NEW i \in Jobs, NEW t \in Time, insert(i, t)
      PROVE  OneClaimPerJob' /\ \A j \in Jobs : HolderStep(j)
  <2>1. \A j \in Jobs : Holders(j)' = Holders(j)
    BY <1>1 DEF insert, Holders, Holds
  <2>2. \A w \in Workers : ~Holds(w, i)
    <3> SUFFICES ASSUME NEW w \in Workers, NEW c \in batch[w], c.id = i PROVE FALSE
      BY DEF Holds
    <3>1. jobs[i] \in EnqueuedJob
      BY DEF HeldJobsExist
    <3>2. QED
      BY <1>1, <3>1 DEF insert, Present, NoJob, EnqueuedJob, JobStatus
  <2>3. \A j \in Jobs : j # i => jobs'[j] = jobs[j]
    BY <1>1 DEF insert
  <2>4. ~Present(i) /\ Holders(i) = {}
    BY <1>1, <2>2 DEF insert, Holders
  <2>5. \A j \in Jobs : HolderStep(j)
    BY <2>1, <2>3, <2>4 DEF HolderStep
  <2>6. QED
    BY <1>1, <2>5 DEF insert, OneClaimPerJob
<1>2. ASSUME NEW w \in Workers, dequeue_due(w)
      PROVE  OneClaimPerJob' /\ \A j \in Jobs : HolderStep(j)
  <2> DEFINE claimed == FirstDue(BatchSize)
  <2>1. batch[w] = {} /\ batch' = [batch EXCEPT ![w] = {Keyed(j) : j \in claimed}]
    BY <1>2 DEF dequeue_due
  <2>2. \A j \in claimed : j \in Jobs /\ jobs[j].status = "Queued"
    BY DueFacts
  <2>3. \A j : Keyed(j).id = j
    BY DEF Keyed
  <2>4. jobs' = [j \in Jobs |-> IF j \in claimed THEN Started(jobs[j]) ELSE jobs[j]]
    BY <1>2 DEF dequeue_due
  <2> HIDE DEF claimed
  <2>5. OneClaimPerJob'
    BY <2>1, <2>3 DEF OneClaimPerJob
  <2>6. ASSUME NEW j \in Jobs PROVE HolderStep(j)
    <3>1. \A v \in Workers : v # w => (Holds(v, j)' <=> Holds(v, j))
      BY <2>1 DEF Holds
    <3>2. ~Holds(w, j)
      BY <2>1 DEF Holds
    <3>3. Holds(w, j)' <=> j \in claimed
      BY <2>1, <2>3 DEF Holds
    <3>4. CASE j \in claimed
      <4>1. Holders(j)' = Holders(j) \cup {w}
        BY <3>1, <3>3, <3>4 DEF Holders
      <4>2. jobs'[j].status = "Running"
        BY <2>4, <3>4 DEF Started
      <4>3. QED
        BY <2>2, <3>4, <4>1, <4>2 DEF HolderStep
    <3>5. CASE j \notin claimed
      <4>1. Holders(j)' = Holders(j)
        BY <3>1, <3>2, <3>3, <3>5 DEF Holders
      <4>2. QED
        BY <2>4, <3>5, <4>1 DEF HolderStep
    <3>6. QED
      BY <3>4, <3>5
  <2>7. QED
    BY <2>5, <2>6
<1>3. ASSUME NEW w \in Workers, NEW c \in batch[w],
             batch' = [batch EXCEPT ![w] = @ \ {c}],
             \A j \in Jobs : j # c.id => jobs'[j] = jobs[j]
      PROVE  OneClaimPerJob' /\ \A j \in Jobs : HolderStep(j)
  <2>1. OneClaimPerJob'
    BY <1>3 DEF OneClaimPerJob
  <2>2. ASSUME NEW j \in Jobs PROVE HolderStep(j)
    <3>1. \A v \in Workers : v # w => (Holds(v, j)' <=> Holds(v, j))
      BY <1>3 DEF Holds
    <3>2. CASE j = c.id
      <4>1. Holds(w, j) /\ ~Holds(w, j)'
        BY <1>3, <3>2 DEF Holds, OneClaimPerJob
      <4>2. Holders(j)' = Holders(j) \ {w} /\ w \in Holders(j)
        BY <3>1, <4>1 DEF Holders
      <4>3. QED
        BY <4>2 DEF HolderStep
    <3>3. CASE j # c.id
      <4>1. Holds(w, j)' => Holds(w, j)
        BY <1>3 DEF Holds
      <4>2. Holders(j)' \subseteq Holders(j)
        BY <3>1, <4>1 DEF Holders
      <4>3. QED
        BY <1>3, <3>3, <4>2 DEF HolderStep
    <3>4. QED
      BY <3>2, <3>3
  <2>3. QED
    BY <2>1, <2>2
<1>4. ASSUME NEW w \in Workers, mark_succeeded(w) \/ mark_failed(w)
      PROVE  \E c \in batch[w] : /\ batch' = [batch EXCEPT ![w] = @ \ {c}]
                                 /\ \A j \in Jobs : j # c.id => jobs'[j] = jobs[j]
  BY <1>4 DEF mark_succeeded, mark_failed
<1>5. ASSUME NEW w \in Workers, abandon(w)
      PROVE  OneClaimPerJob' /\ \A j \in Jobs : HolderStep(j)
  <2>1. \A v \in Workers : batch'[v] \subseteq batch[v]
    BY <1>5 DEF abandon
  <2>2. \A j \in Jobs : Holders(j)' \subseteq Holders(j)
    BY <2>1 DEF Holders, Holds
  <2>3. QED
    BY <1>5, <2>1, <2>2 DEF abandon, OneClaimPerJob, HolderStep
<1>6. ASSUME dequeue_stalled PROVE OneClaimPerJob' /\ \A j \in Jobs : HolderStep(j)
  <2>1. \A j \in Jobs : Holders(j)' = Holders(j)
    BY <1>6 DEF dequeue_stalled, Holders, Holds
  <2>2. \A j \in Jobs : \/ jobs'[j] = jobs[j]
                        \/ recoveries'[j] = recoveries[j] + 1
    BY <1>6 DEF dequeue_stalled
  <2>3. QED
    BY <1>6, <2>1, <2>2 DEF dequeue_stalled, OneClaimPerJob, HolderStep
<1>7. ASSUME tick \/ UNCHANGED vars PROVE OneClaimPerJob' /\ \A j \in Jobs : HolderStep(j)
  <2>1. batch' = batch /\ jobs' = jobs
    BY <1>7 DEF tick, vars
  <2>2. QED
    BY <2>1 DEF OneClaimPerJob, HolderStep, Holders, Holds
<1>8. QED
  BY <1>1, <1>2, <1>3, <1>4, <1>5, <1>6, <1>7 DEF Next, enqueue, schedule

\* dequeue_stalled counts the recoveries of a job up.
LEMMA RecoveriesGrow ==
  TypeInv /\ [Next]_vars => \A j \in Jobs : /\ recoveries[j] \in Nat /\ recoveries'[j] \in Nat
                                           /\ recoveries'[j] >= recoveries[j]
<1> SUFFICES ASSUME TypeInv, [Next]_vars, NEW j \in Jobs
             PROVE  /\ recoveries[j] \in Nat /\ recoveries'[j] \in Nat
                    /\ recoveries'[j] >= recoveries[j]
  OBVIOUS
<1>1. JobStep(j) /\ recoveries[j] \in Nat
  BY StepOfJob DEF TypeInv, TypeOK
<1>2. QED
  BY <1>1 DEF JobStep

\* No operation gives a job to one worker too many.
LEMMA OverlapStep ==
  IInv /\ TypeInv' /\ [Next]_vars => OverlapNeedsRecovery'
<1> SUFFICES ASSUME IInv, TypeInv', [Next]_vars, NEW j \in Jobs
             PROVE  Cardinality(Holders(j)') + Waiting(j)' <= 1 + recoveries'[j]
  BY OverlapAsHoldersNext
<1>1. HolderStep(j)
  BY StepOfHolders DEF IInv
<1>2. /\ IsFiniteSet(Holders(j)) /\ Cardinality(Holders(j)) \in Nat
      /\ Cardinality(Holders(j)') \in Nat
  BY HoldersFinite
<1>3. /\ recoveries[j] \in Nat /\ recoveries'[j] \in Nat
      /\ recoveries'[j] >= recoveries[j]
  BY RecoveriesGrow DEF IInv
<1>4. Cardinality(Holders(j)) + Waiting(j) <= 1 + recoveries[j]
  BY OverlapAsHolders DEF IInv
<1>5. /\ Waiting(j) \in {0, 1} /\ Waiting(j)' \in {0, 1}
      /\ jobs'[j].status = "Running" => Waiting(j)' = 0
      /\ jobs[j].status = "Queued" => Waiting(j) = 1
      /\ jobs'[j] = jobs[j] => Waiting(j)' = Waiting(j)
  BY DEF Waiting
<1>6. CASE Holders(j)' \subseteq Holders(j) /\ jobs'[j] = jobs[j]
  <2>1. Cardinality(Holders(j)') <= Cardinality(Holders(j))
    BY <1>2, <1>6, FS_Subset
  <2>2. QED
    BY <1>2, <1>3, <1>4, <1>5, <1>6, <2>1
<1>7. ASSUME NEW w \in Workers, Holders(j)' = Holders(j) \cup {w},
             jobs[j].status = "Queued", jobs'[j].status = "Running"
      PROVE  Cardinality(Holders(j)') + Waiting(j)' <= 1 + recoveries'[j]
  <2>1. Cardinality(Holders(j)') <= Cardinality(Holders(j)) + 1
    <3>1. Cardinality(Holders(j) \cup {w}) =
            IF w \in Holders(j) THEN Cardinality(Holders(j)) ELSE Cardinality(Holders(j)) + 1
      BY <1>2, FS_AddElement
    <3>2. QED
      BY <1>2, <1>7, <3>1
  <2>2. QED
    BY <1>2, <1>3, <1>4, <1>5, <1>7, <2>1
<1>8. ASSUME NEW w \in Holders(j), Holders(j)' = Holders(j) \ {w}
      PROVE  Cardinality(Holders(j)') + Waiting(j)' <= 1 + recoveries'[j]
  <2>1. Cardinality(Holders(j)') = Cardinality(Holders(j)) - 1
    BY <1>2, <1>8, FS_RemoveElement
  <2>2. QED
    BY <1>2, <1>3, <1>4, <1>5, <2>1
<1>9. CASE Holders(j)' = Holders(j) /\ Holders(j) = {}
  BY <1>2, <1>3, <1>5, <1>9, FS_EmptySet
<1>10. CASE Holders(j)' = Holders(j) /\ recoveries'[j] = recoveries[j] + 1
  BY <1>2, <1>3, <1>4, <1>5, <1>10
<1>11. QED
  BY <1>1, <1>6, <1>7, <1>8, <1>9, <1>10 DEF HolderStep

\* A job that was never recovered has at most one worker.
LEMMA SingleHolder ==
  ASSUME IInv, NEW j \in Jobs, recoveries[j] = 0,
         NEW v \in Holders(j), NEW w \in Holders(j)
  PROVE  v = w
<1>1. IsFiniteSet(Holders(j)) /\ Cardinality(Holders(j)) \in Nat
  BY HoldersFinite
<1>2. Cardinality(Holders(j)) <= 1
  BY <1>1, OverlapAsHolders DEF IInv, Waiting
<1>3. Cardinality(Holders(j)) # 0
  BY <1>1, FS_EmptySet
<1>4. Cardinality(Holders(j)) = 1
  BY <1>1, <1>2, <1>3
<1>5. \E x : Holders(j) = {x}
  BY <1>1, <1>4, FS_Singleton
<1>6. QED
  BY <1>5

\* A job that was never recovered is Running while it is held.
LEMMA HeldIsRunningStep ==
  IInv /\ TypeInv' /\ [Next]_vars => HeldIsRunning'
<1> SUFFICES ASSUME IInv, TypeInv', [Next]_vars, NEW j \in Jobs, recoveries'[j] = 0,
                    NEW w \in Workers, Holds(w, j)'
             PROVE  jobs'[j].status = "Running"
  BY DEF HeldIsRunning
<1>1. recoveries[j] = 0
  BY RecoveriesGrow DEF IInv
<1>2. HolderStep(j) /\ w \in Holders(j)'
  BY StepOfHolders DEF IInv, Holders
<1>3. \A v \in Holders(j) : jobs[j].status = "Running"
  BY <1>1 DEF IInv, HeldIsRunning, Holders
<1>4. CASE Holders(j)' \subseteq Holders(j) /\ jobs'[j] = jobs[j]
  BY <1>2, <1>3, <1>4
<1>5. ASSUME NEW v \in Holders(j), Holders(j)' = Holders(j) \ {v} PROVE FALSE
  BY <1>1, <1>2, <1>5, SingleHolder
<1>6. QED
  BY <1>1, <1>2, <1>4, <1>5 DEF HolderStep

\* Every operation preserves the inductive invariant.
LEMMA IInvStep == IInv /\ [Next]_vars => IInv'
<1> SUFFICES ASSUME IInv, [Next]_vars PROVE IInv'
  OBVIOUS
<1>1. TypeInv'
  BY TypeStep DEF IInv
<1>2. OneClaimPerJob'
  BY StepOfHolders DEF IInv
<1>3. QED
  BY <1>1, <1>2, OverlapStep, HeldIsRunningStep DEF IInv

\* The inductive invariant holds of an empty queue.
LEMMA IInvInit == Init => IInv
<1> SUFFICES ASSUME Init PROVE IInv
  OBVIOUS
<1>1. \A j \in Jobs : Holders(j) = {} /\ Waiting(j) = 0 /\ recoveries[j] = 0
  BY DEF Init, Holders, Holds, Waiting, NoJob
<1>2. OverlapNeedsRecovery
  BY <1>1, FS_EmptySet, OverlapAsHolders
<1>3. OneClaimPerJob /\ HeldIsRunning
  BY DEF Init, OneClaimPerJob, HeldIsRunning, Holds
<1>4. QED
  BY <1>2, <1>3, TypeInit DEF IInv

\* Workers overlap on a job only as far as dequeue_stalled made them: at any
\* time the workers that hold a job, and the job itself while it waits in the
\* queue, number at most one more than its recoveries.
THEOREM OverlapBounded == Spec => []OverlapNeedsRecovery
<1>1. IInv => OverlapNeedsRecovery
  BY DEF IInv
<1>2. QED
  BY <1>1, IInvInit, IInvStep, PTL DEF Spec

\* Succeeded and Failed are final for a job that was never recovered: no late
\* mark_succeeded or mark_failed, claim or recovery changes it.
THEOREM FinishedIsFinal == Spec => FinishedStaysFinished
<1>1. ASSUME IInv, [Next]_vars, NEW j \in Jobs, is_terminal(jobs[j].status), recoveries[j] = 0
      PROVE  jobs'[j] = jobs[j]
  <2>1. JobStep(j) /\ HolderStep(j)
    BY <1>1, StepOfJob, StepOfHolders DEF IInv
  <2>2. Holders(j) = {}
    BY <1>1 DEF IInv, HeldIsRunning, Holders, is_terminal
  <2>3. Present(j) /\ jobs[j].status # "Queued" /\ jobs[j].status # "Running"
    BY <1>1 DEF Present, NoJob, is_terminal
  <2>4. recoveries'[j] # recoveries[j] + 1 \/ jobs'[j] = jobs[j]
    BY <1>1, <2>1, <2>3 DEF JobStep
  <2>5. QED
    BY <2>1, <2>2, <2>3, <2>4 DEF HolderStep
<1>2. IInv /\ [Next]_vars =>
        [\A j \in Jobs : is_terminal(jobs[j].status) /\ recoveries[j] = 0
                            => jobs'[j] = jobs[j]]_vars
  BY <1>1
<1>3. QED
  BY <1>2, IInvInit, IInvStep, PTL DEF Spec, FinishedStaysFinished
=============================================================================
