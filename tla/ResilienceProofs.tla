--------------------------- MODULE ResilienceProofs ---------------------------
(***************************************************************************)
(* Proofs about Resilience, for any callers, threshold and retry policy.   *)
(***************************************************************************)
EXTENDS Resilience, TLAPS

\* The type of the breaker.
BreakerType ==
  /\ state \in {"Closed", "Open", "HalfOpen"}
  /\ failures \in 0..threshold - 1
  /\ streak \in 0..threshold

\* While the breaker is closed its count is the number of failures in a row.
CountIsStreak == state = "Closed" => failures = streak

IInv == BreakerType /\ TripsAtThreshold /\ CountIsStreak

\* The threshold is at least one (CircuitBreaker::new).
LEMMA ThresholdIsPositive == threshold \in Nat /\ threshold >= 1
BY ResilienceAssumption DEF threshold

\* The new breaker is closed and has counted nothing.
LEMMA InitBreaker == Init => IInv
BY ThresholdIsPositive DEF Init, IInv, BreakerType, TripsAtThreshold, CountIsStreak

\* Every step of every caller keeps count and state in step.
LEMMA NextBreaker == IInv /\ [Next]_vars => IInv'
<1> SUFFICES ASSUME IInv, [Next]_vars PROVE IInv'
  OBVIOUS
<1> USE ThresholdIsPositive
<1>1. CASE UNCHANGED <<state, failures, streak>>
  BY <1>1 DEF IInv, BreakerType, TripsAtThreshold, CountIsStreak
<1>2. ASSUME NEW c \in Callers, allow(c)
      PROVE  IInv'
  <2>1. failures' = failures /\ streak' = streak /\ (state' = state \/ (state = "Open" /\ state' = "HalfOpen"))
    BY <1>2 DEF allow
  <2> QED
    BY <2>1 DEF IInv, BreakerType, TripsAtThreshold, CountIsStreak
<1>3. ASSUME NEW c \in Callers, record_success(c)
      PROVE  IInv'
  BY <1>3 DEF record_success, IInv, BreakerType, TripsAtThreshold, CountIsStreak
<1>4. ASSUME NEW c \in Callers, record_failure(c)
      PROVE  IInv'
  <2>1. CASE tripped
    <3>1. state' = "Open" /\ failures' = 0
      BY <1>4, <2>1 DEF record_failure
    <3>2. streak' = threshold
      BY <1>4, <2>1 DEF record_failure, tripped, IInv, BreakerType, TripsAtThreshold, CountIsStreak
    <3> QED
      BY <3>1, <3>2 DEF IInv, BreakerType, TripsAtThreshold, CountIsStreak
  <2>2. CASE ~tripped
    <3>1. state = "Closed" /\ failures + 1 < threshold
      BY <2>2 DEF tripped, IInv, BreakerType
    <3>2. state' = "Closed" /\ failures' = failures + 1 /\ streak' = streak + 1
      BY <1>4, <2>2, <3>1 DEF record_failure, IInv, BreakerType, CountIsStreak
    <3> QED
      BY <3>1, <3>2 DEF IInv, BreakerType, TripsAtThreshold, CountIsStreak
  <2> QED
    BY <2>1, <2>2
<1> QED
  BY <1>1, <1>2, <1>3, <1>4
  DEF Next, Step, retry, reject, give_up_or_sleep, wake, cancel, dependency, tick, breaker, vars

\* The breaker is closed exactly while fewer than failure_threshold outcomes in
\* a row were failures (CircuitBreaker::record_failure, record_success, allow).
THEOREM BreakerTripsAtThreshold == Spec => []TripsAtThreshold
BY InitBreaker, NextBreaker, PTL DEF Spec, IInv
=============================================================================
