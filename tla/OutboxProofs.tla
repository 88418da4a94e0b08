---------------------------- MODULE OutboxProofs ----------------------------
(***************************************************************************)
(* Proofs about Outbox: at-least-once delivery and the order of the first  *)
(* deliveries, for any number of entries, aggregates and relays and for    *)
(* each of the three stores.                                               *)
(***************************************************************************)
EXTENDS Outbox, TLAPS

\* What a relay is about to mark has been delivered.
MarksDelivered == \A r \in Relays : relay[r].published \subseteq delivered

\* The store holds a prefix of every aggregate's events.
StoreIsPrefix == \A e \in enqueued : Earlier(e) \subseteq enqueued

\* A drain misses no predecessor of what it is going to publish.
DrainMissesNothing ==
  \A r \in Relays : \A e \in relay[r].fetched : Earlier(e) \subseteq delivered \cup relay[r].fetched

IInv ==
  /\ TypeOK
  /\ PublishedWasDelivered
  /\ FirstDeliveryInOrder
  /\ MarksDelivered
  /\ StoreIsPrefix
  /\ DrainMissesNothing

\* In each of the stores, the events of one aggregate are fetched in order.
LEMMA EarlierIsBefore ==
  \A e \in Entries : \A d \in Earlier(e) : d \in Entries /\ Before(d, e)
BY OutboxAssumption DEF Earlier, Before

\* The inductive invariant holds of an empty outbox.
LEMMA IInvInit == Init => IInv
BY OutboxAssumption DEF Init, IInv, TypeOK, PublishedWasDelivered, FirstDeliveryInOrder,
   MarksDelivered, StoreIsPrefix, DrainMissesNothing, Idle, Drain

\* Every operation of the store and of a relay preserves the invariant.
LEMMA IInvStep == IInv /\ [Next]_vars => IInv'
<1> SUFFICES ASSUME IInv, [Next]_vars PROVE IInv'
  OBVIOUS
<1> USE OutboxAssumption
<1> USE DEF IInv, TypeOK
<1>0. \A r \in Relays : relay[r] \in Drain
  OBVIOUS
<1>i. Idle \in Drain /\ Idle.fetched = {} /\ Idle.published = {}
  BY DEF Idle, Drain
<1>e. \A e \in Entries : Earlier(e) \subseteq Entries
  BY DEF Earlier
<1>1. ASSUME NEW batch \in SUBSET Entries, enqueue(batch) PROVE IInv'
  <2>1. PICK landed \in SUBSET batch :
          /\ \A e \in landed : Earlier(e) \cap batch \subseteq landed
          /\ enqueued' = enqueued \cup landed
    BY <1>1 DEF enqueue
  <2>2. UNCHANGED <<backend, published_at, relay, delivered, now>>
    BY <1>1 DEF enqueue
  <2>3. \A e \in batch : Earlier(e) \subseteq enqueued \cup batch
    BY <1>1 DEF enqueue
  <2>4. StoreIsPrefix'
    BY <2>1, <2>3 DEF StoreIsPrefix
  <2>5. QED
    BY <2>1, <2>2, <2>4 DEF PublishedWasDelivered, FirstDeliveryInOrder, MarksDelivered,
       DrainMissesNothing
<1>2. ASSUME NEW r \in Relays, fetch_unpublished(r) PROVE IInv'
  <2>1. PICK S \in SUBSET Unpublished :
          /\ \A e \in S, d \in Unpublished \ S : ~Before(d, e)
          /\ relay' = [relay EXCEPT ![r] =
                         [state |-> "publishing", fetched |-> S, published |-> {}]]
    BY <1>2 DEF fetch_unpublished
  <2>2. UNCHANGED <<backend, enqueued, published_at, delivered, now>>
    BY <1>2 DEF fetch_unpublished
  <2>3. S \subseteq Entries /\ S \subseteq enqueued
    BY DEF Unpublished
  <2>4. [state |-> "publishing", fetched |-> S, published |-> {}] \in Drain
    BY <2>3 DEF Drain
  <2>5. relay' \in [Relays -> Drain]
    BY <2>1, <2>4
  <2>6. \A e \in S : Earlier(e) \subseteq delivered \cup S
    <3> SUFFICES ASSUME NEW e \in S, NEW d \in Earlier(e), d \notin S PROVE d \in delivered
      OBVIOUS
    <3>1. d \in Entries /\ d \in enqueued /\ Before(d, e)
      BY <2>3, EarlierIsBefore DEF StoreIsPrefix
    <3>2. d \notin Unpublished
      BY <2>1, <3>1
    <3>3. QED
      BY <3>1, <3>2 DEF Unpublished, PublishedWasDelivered
  <2>7. relay'[r].fetched = S /\ relay'[r].published = {}
    BY <2>1
  <2>8. \A q \in Relays : q # r => relay'[q] = relay[q]
    BY <2>1
  <2>9. DrainMissesNothing'
    BY <2>2, <2>6, <2>7, <2>8 DEF DrainMissesNothing, Earlier
  <2>10. MarksDelivered'
    BY <2>2, <2>7, <2>8 DEF MarksDelivered
  <2>11. QED
    BY <2>2, <2>5, <2>9, <2>10 DEF PublishedWasDelivered, FirstDeliveryInOrder, StoreIsPrefix
<1>3. ASSUME NEW r \in Relays, NEW e \in relay[r].fetched, IsFirst(e, relay[r].fetched),
             delivered' \in {delivered, delivered \cup {e}},
             UNCHANGED <<backend, enqueued, published_at, now>>,
             NEW drain \in Drain, relay' = [relay EXCEPT ![r] = drain],
             drain.fetched \subseteq relay[r].fetched,
             drain.fetched = {} \/ e \in delivered',
             \A d \in relay[r].fetched \ drain.fetched : drain.fetched # {} => d = e,
             drain.published \subseteq delivered'
      PROVE  IInv'
  <2>1. e \in Entries
    BY <1>0 DEF Drain
  <2>2. Earlier(e) \subseteq delivered
    BY <1>3, <2>1, EarlierIsBefore DEF DrainMissesNothing, IsFirst
  <2>3. delivered \subseteq delivered' /\ delivered' \subseteq delivered \cup {e}
    BY <1>3
  <2>4. relay' \in [Relays -> Drain] /\ relay'[r] = drain /\ \A q \in Relays : q # r => relay'[q] = relay[q]
    BY <1>3
  <2>5. FirstDeliveryInOrder'
    BY <2>2, <2>3 DEF FirstDeliveryInOrder, Earlier
  <2>6. PublishedWasDelivered'
    BY <1>3, <2>3 DEF PublishedWasDelivered
  <2>7. MarksDelivered'
    BY <1>3, <2>3, <2>4 DEF MarksDelivered
  <2>8. DrainMissesNothing'
    <3> SUFFICES ASSUME NEW q \in Relays, NEW f \in relay'[q].fetched, NEW d \in Earlier(f)
                 PROVE  d \in delivered' \cup relay'[q].fetched
      BY DEF DrainMissesNothing, Earlier
    <3>1. CASE q # r
      BY <2>3, <2>4, <3>1 DEF DrainMissesNothing
    <3>2. CASE q = r
      <4>1. f \in relay[r].fetched /\ d \in delivered \cup relay[r].fetched
        BY <1>3, <2>4, <3>2 DEF DrainMissesNothing
      <4>2. QED
        BY <1>3, <2>3, <2>4, <3>2, <4>1
    <3>3. QED
      BY <3>1, <3>2
  <2>9. StoreIsPrefix'
    BY <1>3 DEF StoreIsPrefix, Earlier
  <2>10. QED
    BY <1>3, <2>1, <2>3, <2>4, <2>5, <2>6, <2>7, <2>8, <2>9
<1>4. ASSUME NEW r \in Relays, publish_ok(r) PROVE IInv'
  <2>1. PICK e \in relay[r].fetched :
          /\ IsFirst(e, relay[r].fetched)
          /\ delivered' = delivered \cup {e}
          /\ relay' = [relay EXCEPT ![r] =
                        [state |-> IF relay[r].fetched = {e} THEN "marking" ELSE "publishing",
                         fetched |-> relay[r].fetched \ {e},
                         published |-> relay[r].published \cup {e}]]
          /\ UNCHANGED <<backend, enqueued, published_at, now>>
    BY <1>4 DEF publish_ok
  <2> DEFINE drain == [state |-> IF relay[r].fetched = {e} THEN "marking" ELSE "publishing",
                       fetched |-> relay[r].fetched \ {e},
                       published |-> relay[r].published \cup {e}]
  <2>2. drain \in Drain
    BY <1>0 DEF Drain
  <2>3. drain.fetched = relay[r].fetched \ {e} /\ drain.published = relay[r].published \cup {e}
    OBVIOUS
  <2>4. relay' = [relay EXCEPT ![r] = drain]
    BY <2>1
  <2>5. drain.published \subseteq delivered'
    BY <2>1, <2>3 DEF MarksDelivered
  <2> HIDE DEF drain
  <2>6. QED
    BY <1>3, <2>1, <2>2, <2>3, <2>4, <2>5
<1>5. ASSUME NEW r \in Relays, publish_err(r) PROVE IInv'
  <2>1. PICK e \in relay[r].fetched :
          /\ IsFirst(e, relay[r].fetched)
          /\ delivered' \in {delivered, delivered \cup {e}}
          /\ relay' = [relay EXCEPT ![r] =
                        IF relay[r].published = {} THEN Idle
                        ELSE [state |-> "marking", fetched |-> {}, published |-> relay[r].published]]
          /\ UNCHANGED <<backend, enqueued, published_at, now>>
    BY <1>5 DEF publish_err
  <2> DEFINE drain == IF relay[r].published = {} THEN Idle
                      ELSE [state |-> "marking", fetched |-> {}, published |-> relay[r].published]
  <2>2. drain \in Drain /\ drain.fetched = {} /\ drain.published \subseteq relay[r].published
    BY <1>0, <1>i DEF Drain
  <2>3. drain.published \subseteq delivered'
    BY <2>1, <2>2 DEF MarksDelivered
  <2>4. relay' = [relay EXCEPT ![r] = drain]
    BY <2>1
  <2> HIDE DEF drain
  <2>5. QED
    BY <1>3, <2>1, <2>2, <2>3, <2>4
<1>6. ASSUME NEW r \in Relays, mark_published(r) \/ abandon(r) PROVE IInv'
  <2>1. relay' = [relay EXCEPT ![r] = Idle] /\ UNCHANGED <<backend, enqueued, delivered, now>>
    BY <1>6 DEF mark_published, abandon
  <2>2. relay' \in [Relays -> Drain] /\ relay'[r] = Idle /\ \A q \in Relays : q # r => relay'[q] = relay[q]
    BY <1>i, <2>1
  <2>3. published_at' \in [Entries -> 0..MaxTime] /\ PublishedWasDelivered'
    <3>1. CASE abandon(r)
      BY <3>1 DEF abandon, PublishedWasDelivered
    <3>2. CASE mark_published(r)
      <4>1. \A e \in Entries : Marks(r, e) => e \in delivered
        BY DEF Marks, MarksDelivered
      <4>2. published_at' = [e \in Entries |->
                               IF Marks(r, e) /\ (backend = "mongo" \/ published_at[e] = 0)
                               THEN now ELSE published_at[e]]
        BY <3>2 DEF mark_published
      <4>3. QED
        BY <2>1, <4>1, <4>2 DEF PublishedWasDelivered
    <3>3. QED
      BY <1>6, <3>1, <3>2
  <2>4. MarksDelivered' /\ DrainMissesNothing'
    BY <1>i, <2>1, <2>2 DEF MarksDelivered, DrainMissesNothing, Earlier
  <2>5. QED
    BY <2>1, <2>2, <2>3, <2>4 DEF FirstDeliveryInOrder, StoreIsPrefix
<1>7. ASSUME tick PROVE IInv'
  BY <1>7 DEF tick, PublishedWasDelivered, FirstDeliveryInOrder, MarksDelivered, StoreIsPrefix,
     DrainMissesNothing
<1>8. ASSUME UNCHANGED vars PROVE IInv'
  BY <1>8 DEF vars, PublishedWasDelivered, FirstDeliveryInOrder, MarksDelivered, StoreIsPrefix,
     DrainMissesNothing
<1>9. QED
  BY <1>1, <1>2, <1>4, <1>5, <1>6, <1>7, <1>8 DEF Next

\* At-least-once: whatever the relays, their failures and their crashes do, no
\* entry is marked published that the destination has not received.
THEOREM AtLeastOnce == Spec => []PublishedWasDelivered
<1>1. IInv => PublishedWasDelivered
  BY DEF IInv
<1>2. QED
  BY <1>1, IInvInit, IInvStep, PTL DEF Spec

\* Ordering: with any number of concurrent relays, the events of an aggregate
\* reach the destination for the first time in their order.
THEOREM OrderPreserved == Spec => []FirstDeliveryInOrder
<1>1. IInv => FirstDeliveryInOrder
  BY DEF IInv
<1>2. QED
  BY <1>1, IInvInit, IInvStep, PTL DEF Spec
=============================================================================
