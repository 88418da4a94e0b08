----------------------------- MODULE SqlJobQueue -----------------------------
(***************************************************************************)
(* SqlJobQueue (jobs/sql.rs) under concurrent workers and one caller of    *)
(* dequeue_stalled.  Claiming, failing and recovering are transactions of  *)
(* several statements.  A SELECT sees the committed rows and takes no lock *)
(* (unless it says SKIP LOCKED); an UPDATE waits for the lock of its row,  *)
(* works on the row as committed by then and keeps the lock to the end of  *)
(* the transaction: the read-committed behaviour of PostgreSQL, which the  *)
(* UPDATEs of MySQL share.  A failing statement, a deadlock found by the   *)
(* server or a dropped future rolls the transaction back.                  *)
(***************************************************************************)
EXTENDS Naturals, FiniteSets

CONSTANTS
  Jobs, Workers, MaxAttempts, BatchSize, StallAfter, MaxTime,
  Recovery   \* the process that calls dequeue_stalled

VARIABLES
  skip_locked, \* whether workers claim with dequeue_due_skip_locked
  rows,        \* the committed table
  tx,          \* the open transaction of each process
  batch,       \* what a worker's run_once has claimed and not yet marked
  now,
  claims,      \* history: committed claims of the job
  recoveries   \* history: committed recoveries of the job

vars == <<skip_locked, rows, tx, batch, now, claims, recoveries>>

Time == 0..MaxTime
Procs == Workers \cup {Recovery}
Row == [status : {"Queued", "Running", "Succeeded", "Failed"}, run_at : Time, attempts : Nat]
NoRow == [status |-> "absent"]

\* A transaction: the clock read at its start, the rows its SELECT returned,
\* the rows it has updated and locked, and the attempts mark_failed read.
NoTx == [kind |-> "none", at |-> 0, sel |-> {}, locks |-> {}, attempts |-> 0]
Open(p) == tx[p] # NoTx

TypeOK ==
  /\ skip_locked \in BOOLEAN
  /\ rows \in [Jobs -> Row \cup {NoRow}]
  /\ tx \in [Procs -> [kind : {"none", "claim", "fail", "recover"}, at : Time,
                       sel : SUBSET [id : Jobs, run_at : Time],
                       locks : SUBSET Jobs, attempts : Nat]]
  /\ \A p, q \in Procs : p # q => tx[p].locks \cap tx[q].locks = {}
  /\ batch \in [Workers -> SUBSET [id : Jobs, run_at : Time]]
  /\ now \in Time
  /\ claims \in [Jobs -> Nat] /\ recoveries \in [Jobs -> Nat]
-----------------------------------------------------------------------------
CheckedAdd(t, delta) == IF t + delta \in Time THEN t + delta ELSE t

backoff_for_attempt(attempts) ==
  LET exp == IF attempts = 0 THEN 0 ELSE IF attempts > 13 THEN 12 ELSE attempts - 1
  IN  IF 2 ^ exp < 3600 THEN 2 ^ exp ELSE 3600

Keyed(j) == [id |-> j, run_at |-> rows[j].run_at]
Before(a, b) == \/ a.run_at < b.run_at
                \/ a.run_at = b.run_at /\ a.id < b.id
IsFirst(c, S) == \A d \in S \ {c} : Before(c, d)
First(S, limit) == {j \in S : Cardinality({i \in S : Before(Keyed(i), Keyed(j))}) < limit}

\* Faulty variant: UPDATE does not wait for the row lock.
LockedByOther_never(p, j) == FALSE

LockedByOther(p, j) == \E q \in Procs \ {p} : j \in tx[q].locks
Locked(j) == \E q \in Procs : j \in tx[q].locks
-----------------------------------------------------------------------------
Init ==
  /\ skip_locked \in BOOLEAN
  /\ rows = [j \in Jobs |-> NoRow]
  /\ tx = [p \in Procs |-> NoTx]
  /\ batch = [w \in Workers |-> {}]
  /\ now = 0
  /\ claims = [j \in Jobs |-> 0] /\ recoveries = [j \in Jobs |-> 0]

\* enqueue (run_at = now) and schedule (any run_at): one INSERT.
insert(j, run_at) ==
  /\ rows[j] = NoRow
  /\ rows' = [rows EXCEPT ![j] = [status |-> "Queued", run_at |-> run_at, attempts |-> 0]]
  /\ UNCHANGED <<skip_locked, tx, batch, now, claims, recoveries>>

\* Faulty variant: dequeue_due_skip_locked forgets the FOR UPDATE clause.
claim_select_plain(w) ==
  LET due == {j \in Jobs : rows[j].status = "Queued" /\ rows[j].run_at <= now}
      picked == First(due, BatchSize)
  IN  /\ ~Open(w) /\ batch[w] = {} /\ picked # {}
      /\ tx' = [tx EXCEPT ![w] = [kind |-> "claim", at |-> now, attempts |-> 0,
                                  sel |-> {Keyed(j) : j \in picked}, locks |-> {}]]
      /\ UNCHANGED <<skip_locked, rows, batch, now, claims, recoveries>>

\* The SELECT of claim: due rows in order, up to the limit; SKIP LOCKED passes
\* over locked rows and locks what it returns.
claim_select(w) ==
  LET due == {j \in Jobs : /\ rows[j].status = "Queued" /\ rows[j].run_at <= now
                           /\ skip_locked => ~Locked(j)}
      picked == First(due, BatchSize)
  IN  /\ ~Open(w) /\ batch[w] = {} /\ picked # {}
      /\ tx' = [tx EXCEPT ![w] = [kind |-> "claim", at |-> now, attempts |-> 0,
                                  sel |-> {Keyed(j) : j \in picked},
                                  locks |-> IF skip_locked THEN picked ELSE {}]]
      /\ UNCHANGED <<skip_locked, rows, batch, now, claims, recoveries>>

\* The UPDATE of the next row the transaction selected (WHERE id = ?): a claim
\* goes through its rows in order, dequeue_stalled has no ORDER BY.
update_row(p) ==
  LET todo == {c \in tx[p].sel : c.id \notin tx[p].locks}
  IN  \E c \in todo :
        /\ tx[p].kind = "claim" => IsFirst(c, todo)
        /\ ~LockedByOther(p, c.id)
        /\ tx' = [tx EXCEPT ![p].locks = @ \cup {c.id}]
        /\ UNCHANGED <<skip_locked, rows, batch, now, claims, recoveries>>

Updated(p, kind) == /\ tx[p].kind = kind
                    /\ tx[p].locks = {c.id : c \in tx[p].sel}

\* Faulty variant: a row that another worker claimed meanwhile is taken, but
\* its attempt is not counted.
claim_commit_counts_queued(w) ==
  /\ Updated(w, "claim")
  /\ rows' = [j \in Jobs |-> IF j \in tx[w].locks
                             THEN [rows[j] EXCEPT !.status = "Running",
                                     !.attempts = IF rows[j].status = "Queued" THEN @ + 1 ELSE @]
                             ELSE rows[j]]
  /\ batch' = [batch EXCEPT ![w] = tx[w].sel]
  /\ claims' = [j \in Jobs |-> claims[j] + (IF j \in tx[w].locks THEN 1 ELSE 0)]
  /\ tx' = [tx EXCEPT ![w] = NoTx]
  /\ UNCHANGED <<skip_locked, now, recoveries>>

\* The effect of SET status = 'running', attempts = attempts + 1, committed.
claim_commit(w) ==
  /\ Updated(w, "claim")
  /\ rows' = [j \in Jobs |-> IF j \in tx[w].locks
                             THEN [rows[j] EXCEPT !.status = "Running", !.attempts = @ + 1]
                             ELSE rows[j]]
  /\ batch' = [batch EXCEPT ![w] = tx[w].sel]
  /\ claims' = [j \in Jobs |-> claims[j] + (IF j \in tx[w].locks THEN 1 ELSE 0)]
  /\ tx' = [tx EXCEPT ![w] = NoTx]
  /\ UNCHANGED <<skip_locked, now, recoveries>>

\* One UPDATE outside any transaction.
mark_succeeded(w) ==
  \E c \in batch[w] :
    /\ ~Open(w) /\ IsFirst(c, batch[w]) /\ ~Locked(c.id)
    /\ rows' = [rows EXCEPT ![c.id].status = "Succeeded"]
    /\ batch' = [batch EXCEPT ![w] = @ \ {c}]
    /\ UNCHANGED <<skip_locked, tx, now, claims, recoveries>>

\* mark_failed reads the attempts with a plain SELECT ...
fail_select(w) ==
  \E c \in batch[w] :
    /\ ~Open(w) /\ IsFirst(c, batch[w])
    /\ tx' = [tx EXCEPT ![w] = [kind |-> "fail", at |-> now, sel |-> {c}, locks |-> {},
                                attempts |-> rows[c.id].attempts]]
    /\ UNCHANGED <<skip_locked, rows, batch, now, claims, recoveries>>

\* Faulty variant: the budget test is off by one.
fail_commit_one_more(w) ==
  /\ Updated(w, "fail")
  /\ \E c \in tx[w].sel :
       /\ rows' = [rows EXCEPT ![c.id] =
                    IF tx[w].attempts > MaxAttempts
                    THEN [@ EXCEPT !.status = "Failed"]
                    ELSE [@ EXCEPT !.status = "Queued",
                           !.run_at = CheckedAdd(tx[w].at, backoff_for_attempt(tx[w].attempts))]]
       /\ batch' = [batch EXCEPT ![w] = @ \ {c}]
  /\ tx' = [tx EXCEPT ![w] = NoTx]
  /\ UNCHANGED <<skip_locked, now, claims, recoveries>>

\* ... and decides by what it read, whatever the row says by now.
fail_commit(w) ==
  /\ Updated(w, "fail")
  /\ \E c \in tx[w].sel :
       /\ rows' = [rows EXCEPT ![c.id] =
                    IF tx[w].attempts >= MaxAttempts
                    THEN [@ EXCEPT !.status = "Failed"]
                    ELSE [@ EXCEPT !.status = "Queued",
                           !.run_at = CheckedAdd(tx[w].at, backoff_for_attempt(tx[w].attempts))]]
       /\ batch' = [batch EXCEPT ![w] = @ \ {c}]
  /\ tx' = [tx EXCEPT ![w] = NoTx]
  /\ UNCHANGED <<skip_locked, now, claims, recoveries>>

\* dequeue_stalled: the SELECT of running rows with run_at < now - stall_after.
recover_select ==
  LET stalled == {j \in Jobs : /\ rows[j].status = "Running"
                               /\ rows[j].run_at + StallAfter < now}
  IN  /\ ~Open(Recovery) /\ stalled # {}
      /\ tx' = [tx EXCEPT ![Recovery] = [kind |-> "recover", at |-> now, locks |-> {},
                                         sel |-> {Keyed(j) : j \in stalled}, attempts |-> 0]]
      /\ UNCHANGED <<skip_locked, rows, batch, now, claims, recoveries>>

\* Its UPDATEs name the id only: the status is not looked at again.
recover_commit ==
  /\ Updated(Recovery, "recover")
  /\ rows' = [j \in Jobs |-> IF j \in tx[Recovery].locks
                             THEN [rows[j] EXCEPT !.status = "Queued", !.run_at = tx[Recovery].at]
                             ELSE rows[j]]
  /\ recoveries' = [j \in Jobs |-> recoveries[j] + (IF j \in tx[Recovery].locks THEN 1 ELSE 0)]
  /\ tx' = [tx EXCEPT ![Recovery] = NoTx]
  /\ UNCHANGED <<skip_locked, batch, now, claims>>

\* A failed statement, a deadlock victim or a dropped future: the transaction
\* is rolled back; in run_once the error also ends the batch.
rollback(p) ==
  /\ Open(p)
  /\ tx' = [tx EXCEPT ![p] = NoTx]
  /\ batch' = [w \in Workers |-> IF w = p THEN {} ELSE batch[w]]
  /\ UNCHANGED <<skip_locked, rows, now, claims, recoveries>>

\* The worker's process dies, or run_once panics or is dropped, in a handler.
abandon(w) ==
  /\ ~Open(w) /\ batch[w] # {}
  /\ batch' = [batch EXCEPT ![w] = {}]
  /\ UNCHANGED <<skip_locked, rows, tx, now, claims, recoveries>>

tick ==
  /\ now < MaxTime
  /\ now' = now + 1
  /\ UNCHANGED <<skip_locked, rows, tx, batch, claims, recoveries>>

Next ==
  \/ \E j \in Jobs, t \in Time : insert(j, t)
  \/ \E w \in Workers : \/ claim_select(w) \/ claim_commit(w)
                        \/ mark_succeeded(w)
                        \/ fail_select(w) \/ fail_commit(w)
                        \/ abandon(w)
  \/ recover_select \/ recover_commit
  \/ \E p \in Procs : update_row(p) \/ rollback(p)
  \/ tick

Spec == Init /\ [][Next]_vars
-----------------------------------------------------------------------------
\* With SKIP LOCKED "each worker gets a disjoint batch" (header of sql.rs): two
\* workers hold a job, or one holds it while it waits, only if dequeue_stalled
\* gave it away, once for each such extra.
DisjointBatches ==
  skip_locked => \A j \in Jobs :
    LET holders == {w \in Workers : \E c \in batch[w] : c.id = j}
        waiting == IF rows[j].status = "Queued" THEN 1 ELSE 0
    IN  Cardinality(holders) + waiting <= 1 + recoveries[j]

\* No attempt is lost, even when two workers claim one row at the same time:
\* the attempts of a row count its committed claims.
EveryClaimCounts ==
  \A j \in Jobs : rows[j] # NoRow => rows[j].attempts = claims[j]

\* The attempt budget of mark_failed survives deciding by an earlier read: with
\* disjoint batches a job is started at most max_attempts times plus once for
\* every recovery.
AttemptsWithinBudget ==
  skip_locked => \A j \in Jobs : rows[j] # NoRow => rows[j].attempts <= MaxAttempts + recoveries[j]
=============================================================================
