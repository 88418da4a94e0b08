------------------------------ MODULE Resilience ------------------------------
(***************************************************************************)
(* The resilience helpers of klauthed-web (resilience/): callers that run  *)
(* an operation through RetryPolicy::retry and one shared CircuitBreaker.  *)
(* The breaker is locked for allow and for the record of the outcome; in   *)
(* between the operation runs, and other calls start and end.              *)
(*                                                                         *)
(* Times are kept as what is left of them: an Open breaker has cooling     *)
(* ticks to go until opened_at + cooldown, a sleeping retry sleep ticks.   *)
(***************************************************************************)
EXTENDS Naturals

CONSTANTS
  Callers,
  failure_threshold, cooldown,                   \* CircuitBreaker::new
  max_attempts, base, multiplier, max_backoff    \* RetryPolicy

ASSUME ResilienceAssumption ==
  /\ failure_threshold \in Nat /\ cooldown \in Nat
  /\ max_attempts \in Nat \ {0}
  /\ base \in Nat /\ multiplier \in Nat /\ max_backoff \in Nat

VARIABLES
  state, failures, cooling,  \* the State of the breaker
  pc, attempt, sleep,        \* where each retry is
  healthy,                   \* whether the dependency answers
  streak,                    \* history: failures recorded since the last success
  promised                   \* history: ticks left of the cooldown of the last trip

vars == <<state, failures, cooling, pc, attempt, sleep, healthy, streak, promised>>
breaker == <<state, failures, cooling, streak, promised>>

threshold == IF failure_threshold < 1 THEN 1 ELSE failure_threshold

TypeOK ==
  /\ state \in {"Closed", "Open", "HalfOpen"}
  /\ failures \in 0..threshold - 1
  /\ cooling \in 0..cooldown
  /\ pc \in [Callers -> {"idle", "calling", "running", "failed", "sleeping"}]
  /\ attempt \in [Callers -> 1..max_attempts]
  /\ sleep \in [Callers -> 0..max_backoff]
  /\ healthy \in BOOLEAN
  /\ streak \in 0..threshold
  /\ promised \in 0..cooldown

Init ==
  /\ state = "Closed" /\ failures = 0 /\ cooling = 0
  /\ pc = [c \in Callers |-> "idle"]
  /\ attempt = [c \in Callers |-> 1]
  /\ sleep = [c \in Callers |-> 0]
  /\ healthy \in BOOLEAN
  /\ streak = 0 /\ promised = 0
-----------------------------------------------------------------------------
retry(c) ==
  /\ pc[c] = "idle"
  /\ pc' = [pc EXCEPT ![c] = "calling"]
  /\ attempt' = [attempt EXCEPT ![c] = 1]
  /\ UNCHANGED <<breaker, sleep, healthy>>

\* A call is permitted; one that finds the breaker cooled down is a trial.
allow(c) ==
  /\ pc[c] = "calling"
  /\ state = "Open" => cooling = 0
  /\ state' = IF state = "Open" THEN "HalfOpen" ELSE state
  /\ pc' = [pc EXCEPT ![c] = "running"]
  /\ UNCHANGED <<failures, cooling, attempt, sleep, healthy, streak, promised>>

\* CircuitError::Open, an error like any other to the retry.
reject(c) ==
  /\ pc[c] = "calling" /\ state = "Open" /\ cooling > 0
  /\ pc' = [pc EXCEPT ![c] = "failed"]
  /\ UNCHANGED <<breaker, attempt, sleep, healthy>>

\* Faulty variant: the failure count is kept.
record_success_keeps_count(c) ==
  /\ pc[c] = "running"
  /\ state' = "Closed" /\ cooling' = 0 /\ streak' = 0
  /\ pc' = [pc EXCEPT ![c] = "idle"]
  /\ UNCHANGED <<failures, attempt, sleep, healthy, promised>>

\* Faulty variant: a trial that succeeds does not close the breaker.
record_success_of_trial_lost(c) ==
  /\ pc[c] = "running"
  /\ state' = (IF state = "HalfOpen" THEN "HalfOpen" ELSE "Closed")
  /\ failures' = 0 /\ cooling' = 0 /\ streak' = 0
  /\ pc' = [pc EXCEPT ![c] = "idle"]
  /\ UNCHANGED <<attempt, sleep, healthy, promised>>

\* The operation succeeds: the breaker is closed, whatever it was.
record_success(c) ==
  /\ pc[c] = "running"
  /\ state' = "Closed" /\ failures' = 0 /\ cooling' = 0 /\ streak' = 0
  /\ pc' = [pc EXCEPT ![c] = "idle"]
  /\ UNCHANGED <<attempt, sleep, healthy, promised>>

tripped == state = "Closed" => failures + 1 >= threshold

\* The operation fails.
record_failure(c) ==
  /\ pc[c] = "running" /\ ~healthy
  /\ IF tripped
     THEN state' = "Open" /\ failures' = 0 /\ cooling' = cooldown /\ promised' = cooldown
     ELSE failures' = failures + 1 /\ UNCHANGED <<state, cooling, promised>>
  /\ streak' = IF streak < threshold THEN streak + 1 ELSE streak
  /\ pc' = [pc EXCEPT ![c] = "failed"]
  /\ UNCHANGED <<attempt, sleep, healthy>>

backoff(n) ==
  LET scaled == base * multiplier^(n - 1) IN IF scaled < max_backoff THEN scaled ELSE max_backoff

\* Faulty variant: the attempts are not counted.
give_up_or_sleep_uncounted(c) ==
  /\ pc[c] = "failed"
  /\ IF attempt[c] >= max_attempts
     THEN pc' = [pc EXCEPT ![c] = "idle"] /\ UNCHANGED <<attempt, sleep>>
     ELSE /\ pc' = [pc EXCEPT ![c] = "sleeping"]
          /\ sleep' = [sleep EXCEPT ![c] = backoff(attempt[c])]
          /\ UNCHANGED attempt
  /\ UNCHANGED <<breaker, healthy>>

\* Faulty variant: one attempt too many.
give_up_or_sleep_one_more(c) ==
  /\ pc[c] = "failed"
  /\ IF attempt[c] > max_attempts
     THEN pc' = [pc EXCEPT ![c] = "idle"] /\ UNCHANGED <<attempt, sleep>>
     ELSE /\ pc' = [pc EXCEPT ![c] = "sleeping"]
          /\ sleep' = [sleep EXCEPT ![c] = backoff(attempt[c])]
          /\ attempt' = [attempt EXCEPT ![c] = @ + 1]
  /\ UNCHANGED <<breaker, healthy>>

\* The error of an attempt: the last one is returned, else the retry sleeps.
give_up_or_sleep(c) ==
  /\ pc[c] = "failed"
  /\ IF attempt[c] >= max_attempts
     THEN pc' = [pc EXCEPT ![c] = "idle"] /\ UNCHANGED <<attempt, sleep>>
     ELSE /\ pc' = [pc EXCEPT ![c] = "sleeping"]
          /\ sleep' = [sleep EXCEPT ![c] = backoff(attempt[c])]
          /\ attempt' = [attempt EXCEPT ![c] = attempt[c] + 1]
  /\ UNCHANGED <<breaker, healthy>>

wake(c) ==
  /\ pc[c] = "sleeping" /\ sleep[c] = 0
  /\ pc' = [pc EXCEPT ![c] = "calling"]
  /\ UNCHANGED <<breaker, attempt, sleep, healthy>>

\* The caller drops the future: the breaker hears nothing of it.
cancel(c) ==
  /\ pc[c] \in {"running", "sleeping"}
  /\ pc' = [pc EXCEPT ![c] = "idle"]
  /\ sleep' = [sleep EXCEPT ![c] = 0]
  /\ UNCHANGED <<breaker, attempt, healthy>>

dependency ==
  /\ healthy' = ~healthy
  /\ UNCHANGED <<breaker, pc, attempt, sleep>>

Passed(ticks) == IF ticks > 0 THEN ticks - 1 ELSE 0

tick ==
  /\ cooling' = Passed(cooling)
  /\ promised' = Passed(promised)
  /\ sleep' = [c \in Callers |-> Passed(sleep[c])]
  /\ UNCHANGED <<state, failures, pc, attempt, healthy, streak>>

Step(c) ==
  \/ retry(c) \/ allow(c) \/ reject(c) \/ record_success(c) \/ record_failure(c)
  \/ give_up_or_sleep(c) \/ wake(c)

Next == (\E c \in Callers : Step(c) \/ cancel(c)) \/ dependency \/ tick

Spec == Init /\ [][Next]_vars

\* Time passes, operations end, retries go on and calls keep arriving; with a
\* dependency that answers, not every call of a caller is cancelled.
FairSpec ==
  /\ Spec
  /\ WF_vars(tick)
  /\ \A c \in Callers : WF_vars(Step(c)) /\ SF_vars(healthy /\ record_success(c))
-----------------------------------------------------------------------------
\* "After failure_threshold consecutive failures the breaker opens"
\* (circuit_breaker.rs): it is closed exactly as long as fewer outcomes than
\* that in a row were failures, however late the outcomes of overlapping calls
\* are recorded.
TripsAtThreshold == state = "Closed" <=> streak < threshold

\* Success closes the breaker: when the dependency has recovered the breaker
\* closes and stays closed, although trials are cancelled.
ClosesAfterRecovery == <>[]healthy => <>[](state = "Closed")

\* A retry returns, with the breaker open and the dependency down too.
EveryRetryReturns == \A c \in Callers : (pc[c] # "idle") ~> (pc[c] = "idle")

\* "The breaker opens and rejects calls with CircuitError::Open for cooldown"
\* (circuit_breaker.rs): no call runs in the cooldown ticks after a trip.
CooldownIsKept ==
  [][\A c \in Callers : pc[c] = "calling" /\ pc'[c] = "running" => promised = 0]_vars
=============================================================================
