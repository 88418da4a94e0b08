-------------------------------- MODULE Locks --------------------------------
(***************************************************************************)
(* The lock managers of klauthed-data (locks/): one key of                 *)
(* InMemoryLockManager, RedisLockManager or MongoLockManager, whose keys   *)
(* do not interact.  An acquire reads its clock first and reaches the      *)
(* table later, when other clients have moved; Redis keeps the time        *)
(* itself.  MongoDB clients use their own clocks, Skew apart at most.      *)
(***************************************************************************)
EXTENDS Integers

CONSTANTS
  Clients,
  Ttls,          \* the ttl arguments of acquire, zero and negative ones too
  Skew,          \* the greatest distance of the clocks of two MongoDB clients
  Lossy,         \* whether calls to Redis and MongoDB may fail
  MaxTimestamp,  \* checked_add fails beyond it
  MaxTime,       \* the clock stops here
  MaxTokens      \* bound on the number of acquire calls

ASSUME LocksAssumption ==
  /\ Ttls \subseteq Int
  /\ Skew \in Nat
  /\ Lossy \in BOOLEAN
  /\ MaxTimestamp \in Nat
  /\ MaxTime \in Nat
  /\ MaxTokens \in Nat

VARIABLES
  backend, \* the lock manager in use
  entry,   \* the table's entry for the key
  call,    \* the acquire call of each client that has read its clock
  guard,   \* the LockGuard of each client
  offset,  \* how far each client's clock is ahead of the slowest one
  clock,
  minted   \* the number of tokens made so far

vars == <<backend, entry, call, guard, offset, clock, minted>>

\* A token is a random UUID, here a number; 0 says that there is nothing.
None == [token |-> 0, expires |-> 0]
NoCall == [token |-> 0, now |-> 0, ttl |-> 0]
Held == [token : 0..MaxTokens, expires : Int]

\* How far two clocks that judge the same lease can be apart.
Distance == IF backend = "mongo" THEN Skew ELSE 0

TypeOK ==
  /\ backend \in {"memory", "redis", "mongo"}
  /\ entry \in Held
  /\ backend # "redis" => entry.expires <= MaxTimestamp
  /\ call \in [Clients -> [token : 0..MaxTokens, now : Nat, ttl : Ttls \cup {0}]]
  /\ guard \in [Clients -> Held]
  /\ offset \in [Clients -> 0..Distance]
  /\ clock \in 0..MaxTime
  /\ minted \in 0..MaxTokens

now(c) == clock + offset[c]

\* A key of Redis is gone when its PX has run out.
Present == entry.token # 0 /\ (backend = "redis" => clock < entry.expires)
-----------------------------------------------------------------------------
Init ==
  /\ backend \in {"memory", "redis", "mongo"}
  /\ entry = None
  /\ call = [c \in Clients |-> NoCall]
  /\ guard = [c \in Clients |-> None]
  /\ offset \in [Clients -> 0..Distance]
  /\ clock = 0
  /\ minted = 0

\* Faulty variant: an expiry that no Timestamp can hold is not refused.
acquire_unchecked(c, ttl) ==
  /\ call[c] = NoCall /\ guard[c] = None /\ minted < MaxTokens
  /\ backend = "redis" => ttl > 0
  /\ minted' = minted + 1
  /\ call' = [call EXCEPT ![c] = [token |-> minted + 1, now |-> now(c), ttl |-> ttl]]
  /\ UNCHANGED <<backend, entry, guard, offset, clock>>

\* acquire up to the lock or the request: the clock is read, the ttl is
\* checked and the token made.
acquire(c, ttl) ==
  /\ call[c] = NoCall /\ guard[c] = None /\ minted < MaxTokens
  /\ IF backend = "redis" THEN ttl > 0 ELSE now(c) + ttl <= MaxTimestamp
  /\ minted' = minted + 1
  /\ call' = [call EXCEPT ![c] = [token |-> minted + 1, now |-> now(c), ttl |-> ttl]]
  /\ UNCHANGED <<backend, entry, guard, offset, clock>>

\* The time by which an acquire judges the holder and sets the expiry.
Reference(c) == IF backend = "redis" THEN clock ELSE call[c].now

takeable(c) == ~Present \/ entry.expires <= Reference(c)

\* The key is free or its holder has expired; the answer may get lost.
acquire_granted(c) ==
  /\ call[c] # NoCall /\ takeable(c)
  /\ LET won == [token |-> call[c].token, expires |-> Reference(c) + call[c].ttl] IN
       /\ entry' = won
       /\ \/ guard' = [guard EXCEPT ![c] = won]
          \/ Lossy /\ backend # "memory" /\ UNCHANGED guard
  /\ call' = [call EXCEPT ![c] = NoCall]
  /\ UNCHANGED <<backend, offset, clock, minted>>

\* A live holder owns it: Ok(None).
acquire_contended(c) ==
  /\ call[c] # NoCall /\ ~takeable(c)
  /\ call' = [call EXCEPT ![c] = NoCall]
  /\ UNCHANGED <<backend, entry, guard, offset, clock, minted>>

\* Faulty variant: deletes the key without comparing the token.
freed_by_anyone(token) == None

\* Compare-and-delete.
Freed(token) == IF Present /\ entry.token = token THEN None ELSE entry

\* release consumes the guard even when the request is lost.
release(c) ==
  /\ guard[c] # None
  /\ \/ entry' = Freed(guard[c].token)
     \/ Lossy /\ backend # "memory" /\ UNCHANGED entry
  /\ guard' = [guard EXCEPT ![c] = None]
  /\ UNCHANGED <<backend, call, offset, clock, minted>>

\* Faulty variant: every backend leaves the entry to its ttl.
drop_leaves_entry(c) ==
  /\ guard[c] # None
  /\ guard' = [guard EXCEPT ![c] = None]
  /\ UNCHANGED <<backend, entry, call, offset, clock, minted>>

\* The guard goes out of scope, or its owner dies.
drop(c) ==
  /\ guard[c] # None
  /\ entry' = IF backend = "memory" THEN Freed(guard[c].token) ELSE entry
  /\ guard' = [guard EXCEPT ![c] = None]
  /\ UNCHANGED <<backend, call, offset, clock, minted>>

tick ==
  /\ clock < MaxTime
  /\ clock' = clock + 1
  /\ UNCHANGED <<backend, entry, call, guard, offset, minted>>

Next ==
  \/ \E c \in Clients : \/ \E ttl \in Ttls : acquire(c, ttl)
                        \/ acquire_granted(c) \/ acquire_contended(c)
                        \/ release(c) \/ drop(c)
  \/ tick

Spec == Init /\ [][Next]_vars
-----------------------------------------------------------------------------
\* "Grants mutual exclusion on a string key with a time-to-live" (mod.rs): a
\* guard whose lease has more than the clocks' distance to run owns the key,
\* however late the calls of other clients arrive and whatever stale guards
\* they release.
LeaseIsOwned ==
  \A c \in Clients : guard[c] # None /\ now(c) + Distance < guard[c].expires => entry = guard[c]

\* "The LockGuard releases the lock when dropped" (mod.rs), as far as it goes:
\* a client of the in-memory manager that let go of its guard does not own
\* the key any more.
DropReleases ==
  [][\A c \in Clients : backend = "memory" /\ guard[c] # None /\ guard'[c] = None => entry'.token # guard[c].token]_vars
=============================================================================
