------------------------------- MODULE Outbox -------------------------------
(***************************************************************************)
(* The transactional outbox of klauthed-data (outbox/) and the relays that *)
(* drain it (outbox/relay.rs).  The store is one of InMemoryOutbox,        *)
(* SqlOutbox and MongoOutbox, which differ in the order of a fetch, in     *)
(* what a failed enqueue leaves behind and in what mark_published does to  *)
(* entries that are already published.  A drain is a fetch, one publish    *)
(* per entry up to the first error, and one mark; relays interleave at     *)
(* each of these, and a drain can be dropped between any two.              *)
(***************************************************************************)
EXTENDS Naturals, FiniteSets

CONSTANTS
  Entries,     \* outbox ids: UUID v7, so ordered by the time they were minted
  aggregate,   \* the aggregate an entry belongs to
  sequence,    \* its sequence number within that aggregate
  Relays,      \* concurrent callers of OutboxRelay::drain
  BatchSize,   \* OutboxRelay::batch_size, clamped to at least 1 by the code
  MaxTime,     \* the clock stops here
  LastAbandon  \* drains are dropped, and marks fail, only up to this time

\* An aggregate numbers and mints its events in one order (drain_envelopes).
ASSUME OutboxAssumption ==
  /\ Entries \subseteq Nat
  /\ BatchSize \in Nat \ {0}
  /\ MaxTime \in Nat \ {0}
  /\ sequence \in [Entries -> Nat]
  /\ \A d, e \in Entries : aggregate[d] = aggregate[e] => (d < e <=> sequence[d] < sequence[e])

VARIABLES
  backend,       \* the store the relays were built with
  enqueued,      \* the entries in the store
  published_at,  \* 0 while an entry is unpublished, else the time of the mark
  relay,         \* the drain in progress of each relay
  delivered,     \* history: the entries the destination has received
  now

vars == <<backend, enqueued, published_at, relay, delivered, now>>

\* fetched: still to publish; published: the ids to mark; an idle relay has none.
Idle == [state |-> "idle", fetched |-> {}, published |-> {}]
Drain == [state : {"idle", "publishing", "marking"},
          fetched : SUBSET Entries, published : SUBSET Entries]

TypeOK ==
  /\ backend \in {"memory", "sql", "mongo"}
  /\ enqueued \subseteq Entries
  /\ published_at \in [Entries -> 0..MaxTime]
  /\ relay \in [Relays -> Drain]
  /\ delivered \subseteq Entries
  /\ now \in 1..MaxTime

Earlier(e) == {d \in Entries : aggregate[d] = aggregate[e] /\ d < e}
Unpublished == {e \in enqueued : published_at[e] = 0}

\* Faulty variant: every store orders by the sequence of the aggregate.
before_by_sequence(d, e) == sequence[d] < sequence[e]

\* sort_by_key(id) in memory, ORDER BY sequence (of all aggregates) elsewhere;
\* the databases break ties as they like.
Before(d, e) == IF backend = "memory" THEN d < e ELSE sequence[d] < sequence[e]
IsFirst(e, S) == \A d \in S : ~Before(d, e)
-----------------------------------------------------------------------------
Init ==
  /\ backend \in {"memory", "sql", "mongo"}
  /\ enqueued = {}
  /\ published_at = [e \in Entries |-> 0]
  /\ relay = [r \in Relays |-> Idle]
  /\ delivered = {}
  /\ now = 1

\* A batch of one aggregate, in its order.  The in-memory and the SQL store
\* take it whole; insert_many of MongoDB may stop after the first few.
enqueue(batch) ==
  /\ batch # {} /\ batch \cap enqueued = {}
  /\ \A d, e \in batch : aggregate[d] = aggregate[e]
  /\ \A e \in batch : Earlier(e) \subseteq enqueued \cup batch
  /\ \E landed \in SUBSET batch :
       /\ backend = "mongo" \/ landed = batch
       /\ \A e \in landed : Earlier(e) \cap batch \subseteq landed
       /\ enqueued' = enqueued \cup landed
  /\ UNCHANGED <<backend, published_at, relay, delivered, now>>

\* The first BatchSize unpublished entries.
fetch_unpublished(r) ==
  /\ relay[r] = Idle /\ Unpublished # {}
  /\ \E S \in SUBSET Unpublished :
       /\ Cardinality(S) <= BatchSize
       /\ Cardinality(S) = BatchSize \/ S = Unpublished
       /\ \A e \in S, d \in Unpublished \ S : ~Before(d, e)
       /\ relay' = [relay EXCEPT ![r] = [state |-> "publishing", fetched |-> S, published |-> {}]]
  /\ UNCHANGED <<backend, enqueued, published_at, delivered, now>>

\* publisher.publish(entry) returned Ok: on to the next, or to the mark.
publish_ok(r) ==
  \E e \in relay[r].fetched :
    /\ relay[r].state = "publishing" /\ IsFirst(e, relay[r].fetched)
    /\ delivered' = delivered \cup {e}
    /\ relay' = [relay EXCEPT ![r] =
                  [state |-> IF @.fetched = {e} THEN "marking" ELSE "publishing",
                   fetched |-> @.fetched \ {e}, published |-> @.published \cup {e}]]
    /\ UNCHANGED <<backend, enqueued, published_at, now>>

\* Faulty variant: a failed publish is skipped instead of ending the pass.
publish_err_continues(r) ==
  \E e \in relay[r].fetched :
    /\ relay[r].state = "publishing" /\ IsFirst(e, relay[r].fetched)
    /\ delivered' \in {delivered, delivered \cup {e}}
    /\ relay' = [relay EXCEPT ![r] =
                  [state |-> IF @.fetched = {e} THEN "marking" ELSE "publishing",
                   fetched |-> @.fetched \ {e}, published |-> @.published]]
    /\ UNCHANGED <<backend, enqueued, published_at, now>>

\* Faulty variant: the entry that failed is marked with the others.
publish_err_is_marked(r) ==
  \E e \in relay[r].fetched :
    /\ relay[r].state = "publishing" /\ IsFirst(e, relay[r].fetched)
    /\ delivered' \in {delivered, delivered \cup {e}}
    /\ relay' = [relay EXCEPT ![r] =
                  [state |-> "marking", fetched |-> {}, published |-> @.published \cup {e}]]
    /\ UNCHANGED <<backend, enqueued, published_at, now>>

\* It returned Err, with or without the entry having arrived: the pass ends.
publish_err(r) ==
  \E e \in relay[r].fetched :
    /\ relay[r].state = "publishing" /\ IsFirst(e, relay[r].fetched)
    /\ delivered' \in {delivered, delivered \cup {e}}
    /\ relay' = [relay EXCEPT ![r] =
                  IF @.published = {} THEN Idle
                  ELSE [state |-> "marking", fetched |-> {}, published |-> @.published]]
    /\ UNCHANGED <<backend, enqueued, published_at, now>>

\* Faulty variant: the last id of the pass is left out.
marks_all_but_last(r, e) ==
  e \in relay[r].published /\ \E d \in relay[r].published : e < d

Marks(r, e) == e \in relay[r].published

\* Faulty variant: marks whatever the state of the entry.
mark_published_again(r) ==
  /\ relay[r].state = "marking"
  /\ published_at' = [e \in Entries |-> IF Marks(r, e) THEN now ELSE published_at[e]]
  /\ relay' = [relay EXCEPT ![r] = Idle]
  /\ UNCHANGED <<backend, enqueued, delivered, now>>

\* Faulty variant: the stamp is one tick ahead of the clock.
mark_published_ahead(r) ==
  /\ relay[r].state = "marking"
  /\ published_at' = [e \in Entries |->
                        IF Marks(r, e) /\ published_at[e] = 0 THEN now + 1 ELSE published_at[e]]
  /\ relay' = [relay EXCEPT ![r] = Idle]
  /\ UNCHANGED <<backend, enqueued, delivered, now>>

\* One locked loop, one transaction or one update_many; only MongoDB's filter
\* does not ask for published = false.
mark_published(r) ==
  /\ relay[r].state = "marking"
  /\ published_at' = [e \in Entries |->
                        IF Marks(r, e) /\ (backend = "mongo" \/ published_at[e] = 0)
                        THEN now ELSE published_at[e]]
  /\ relay' = [relay EXCEPT ![r] = Idle]
  /\ UNCHANGED <<backend, enqueued, delivered, now>>

\* The drain is dropped, its process dies, or mark_published fails.
abandon(r) ==
  /\ relay[r] # Idle /\ now <= LastAbandon
  /\ relay' = [relay EXCEPT ![r] = Idle]
  /\ UNCHANGED <<backend, enqueued, published_at, delivered, now>>

tick ==
  /\ now < MaxTime
  /\ now' = now + 1
  /\ UNCHANGED <<backend, enqueued, published_at, relay, delivered>>

Next ==
  \/ \E batch \in SUBSET Entries : enqueue(batch)
  \/ \E r \in Relays : \/ fetch_unpublished(r)
                       \/ publish_ok(r) \/ publish_err(r)
                       \/ mark_published(r)
                       \/ abandon(r)
  \/ tick

Spec == Init /\ [][Next]_vars

\* One relay is polled for ever, a drain goes on until it ends, and a
\* destination that is tried again and again accepts in the end.
FairSpec ==
  /\ Spec /\ WF_vars(tick)
  /\ \E r \in Relays : /\ WF_vars(fetch_unpublished(r))
                       /\ SF_vars(publish_ok(r))
                       /\ WF_vars(mark_published(r))
-----------------------------------------------------------------------------
\* At-least-once (relay.rs): an entry marked published has reached the
\* destination, however drains interleave, fail or are dropped.
PublishedWasDelivered ==
  \A e \in Entries : published_at[e] # 0 => e \in delivered

\* "Publishing stops at the first failure so ordering is preserved" (relay.rs):
\* with any number of relays, no event of an aggregate reaches the destination
\* for the first time before the earlier events of that aggregate.
FirstDeliveryInOrder ==
  \A e \in delivered : Earlier(e) \subseteq delivered

\* mark_published is a "no-op for ids that are absent or already published"
\* (mod.rs): the in-memory and the SQL store keep the time of the first mark,
\* though another relay marks the same entries later.
MarkedOnce ==
  [][\A e \in Entries :
       published_at[e] # 0 /\ backend # "mongo" => published_at'[e] = published_at[e]]_vars

\* What mod.rs says of fetch_unpublished, "oldest first", of the in-memory
\* store: a fetch never returns an entry and leaves out an older one.
OldestFirst ==
  [][\A r \in Relays : backend = "memory" /\ relay[r] = Idle /\ relay'[r].state = "publishing" =>
       \A e \in relay'[r].fetched, d \in Unpublished \ relay'[r].fetched : e < d]_vars

\* Every entry that was stored is published in the end.
EveryEntryPublished == \A e \in Entries : (e \in enqueued) ~> (published_at[e] # 0)
=============================================================================
