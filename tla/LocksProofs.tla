----------------------------- MODULE LocksProofs -----------------------------
(***************************************************************************)
(* A lease with more than the clocks' distance to run is owned, for any    *)
(* number of clients, any ttls and any skew.                               *)
(***************************************************************************)
EXTENDS Locks, TLAPS

\* A call was stamped at or before the present of its client's clock, and
\* checked_add accepted its ttl.
CallsArePast ==
  \A c \in Clients : call[c] # NoCall =>
    /\ call[c].now <= now(c)
    /\ call[c].ttl \in Ttls
    /\ backend # "redis" => call[c].now + call[c].ttl <= MaxTimestamp

\* A token belongs to one acquire call, which is pending, held or forgotten.
TokensAreUnique ==
  \A c, d \in Clients :
    /\ call[c] # NoCall => call[c].token \in 1..minted
    /\ guard[c] # None => guard[c].token \in 1..minted
    /\ call[c] # NoCall /\ guard[d] # None => call[c].token # guard[d].token
    /\ c # d /\ guard[c] # None /\ guard[d] # None => guard[c].token # guard[d].token
    /\ c # d /\ call[c] # NoCall /\ call[d] # NoCall => call[c].token # call[d].token

IInv == TypeOK /\ CallsArePast /\ TokensAreUnique /\ LeaseIsOwned

\* An unused lock has no calls and no guards.
LEMMA IInvInit == Init => IInv
BY LocksAssumption
DEF Init, IInv, TypeOK, CallsArePast, TokensAreUnique, LeaseIsOwned, None, NoCall, Held, now, Distance

\* No step of an operation breaks the invariant.
LEMMA IInvStep == IInv /\ [Next]_vars => IInv'
<1> SUFFICES ASSUME IInv, [Next]_vars PROVE IInv'
  OBVIOUS
<1> USE LocksAssumption DEF IInv, TypeOK, Held
<1>0. Distance \in Nat /\ (UNCHANGED backend => Distance' = Distance)
  BY DEF Distance
<1>1. ASSUME NEW c \in Clients, NEW ttl \in Ttls, acquire(c, ttl) PROVE IInv'
  BY <1>0, <1>1 DEF acquire, CallsArePast, TokensAreUnique, LeaseIsOwned, None, NoCall, now
<1>2. ASSUME NEW c \in Clients, acquire_granted(c) PROVE IInv'
  <2> DEFINE won == [token |-> call[c].token, expires |-> Reference(c) + call[c].ttl]
  <2>0. Distance \in Nat /\ Distance' = Distance
    BY <1>0, <1>2 DEF acquire_granted
  <2>1. /\ call[c] # NoCall /\ takeable(c)
        /\ entry' = won /\ guard' \in {guard, [guard EXCEPT ![c] = won]}
        /\ call' = [call EXCEPT ![c] = NoCall]
        /\ UNCHANGED <<backend, offset, clock, minted>>
    BY <1>2 DEF acquire_granted
  <2>2. /\ won \in Held /\ won.token \in 1..minted
        /\ won.token = call[c].token /\ won.expires = Reference(c) + call[c].ttl
        /\ backend # "redis" => won.expires <= MaxTimestamp
        /\ Reference(c) \in Int /\ Reference(c) <= now(c)
        /\ Reference(c) <= clock + Distance
    <3>1. call[c].token \in 1..minted /\ call[c].ttl \in Int /\ call[c].now \in Int
      <4>1. call[c].token \in 1..minted
        BY <2>1 DEF TokensAreUnique
      <4>2. call[c].ttl \in Int
        BY <2>1 DEF CallsArePast
      <4>3. call[c] \in [token : 0..MaxTokens, now : Nat, ttl : Ttls \cup {0}]
        OBVIOUS
      <4> QED
        BY <4>1, <4>2, <4>3
    <3>2. /\ Reference(c) \in Int /\ Reference(c) <= now(c) /\ Reference(c) <= clock + Distance
          /\ backend # "redis" => Reference(c) + call[c].ttl <= MaxTimestamp
      BY <2>0, <2>1, <3>1 DEF Reference, CallsArePast, now
    <3> QED
      BY <3>1, <3>2
  <2> HIDE DEF won
  <2>3. TypeOK'
    <3>1. guard' \in [Clients -> Held]
      BY <2>1, <2>2
    <3>2. call' \in [Clients -> [token : 0..MaxTokens, now : Nat, ttl : Ttls \cup {0}]]
      BY <2>1 DEF NoCall
    <3> QED
      BY <2>0, <2>1, <2>2, <3>1, <3>2
  <2>4. CallsArePast'
    BY <2>1 DEF CallsArePast, NoCall, now
  <2>5. TokensAreUnique'
    BY <2>1, <2>2 DEF TokensAreUnique, NoCall, None
  <2>6. LeaseIsOwned'
    <3> SUFFICES ASSUME NEW d \in Clients, guard'[d] # None, now(d)' + Distance < guard'[d].expires
                 PROVE  guard'[d] = won
      BY <2>0, <2>1 DEF LeaseIsOwned
    <3>1. CASE guard'[d] = guard[d]
      <4>1. entry = guard[d] /\ now(d) + Distance < entry.expires /\ clock + Distance < entry.expires
        BY <3>1, <2>0, <2>1 DEF LeaseIsOwned, now
      <4>2. Present
        BY <4>1, <3>1, <2>0 DEF Present, TokensAreUnique
      <4> QED
        BY <4>1, <4>2, <2>0, <2>1, <2>2 DEF takeable
    <3> QED
      BY <3>1, <2>1
  <2> QED
    BY <2>3, <2>4, <2>5, <2>6
<1>3. ASSUME NEW c \in Clients, acquire_contended(c) PROVE IInv'
  BY <1>0, <1>3 DEF acquire_contended, CallsArePast, TokensAreUnique, LeaseIsOwned, None, NoCall, now
<1>4. ASSUME NEW c \in Clients, release(c) PROVE IInv'
  BY <1>0, <1>4 DEF release, Freed, CallsArePast, TokensAreUnique, LeaseIsOwned, None, NoCall, now
<1>5. ASSUME NEW c \in Clients, drop(c) PROVE IInv'
  BY <1>0, <1>5 DEF drop, Freed, CallsArePast, TokensAreUnique, LeaseIsOwned, None, NoCall, now
<1>6. CASE tick
  BY <1>0, <1>6 DEF tick, CallsArePast, TokensAreUnique, LeaseIsOwned, None, NoCall, now
<1>7. CASE UNCHANGED vars
  BY <1>0, <1>7 DEF vars, CallsArePast, TokensAreUnique, LeaseIsOwned, None, NoCall, now
<1> QED
  BY <1>1, <1>2, <1>3, <1>4, <1>5, <1>6, <1>7 DEF Next

\* Mutual exclusion of the lock managers: a guard whose lease has more than
\* the clocks' distance to run owns the key, on every backend.
THEOREM LeasesAreOwned == Spec => []LeaseIsOwned
<1>1. IInv => LeaseIsOwned
  BY DEF IInv
<1> QED
  BY IInvInit, IInvStep, <1>1, PTL DEF Spec
=============================================================================
