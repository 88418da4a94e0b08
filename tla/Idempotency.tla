----------------------------- MODULE Idempotency -----------------------------
(***************************************************************************)
(* The idempotency stores of klauthed-data (idempotency/): one key of      *)
(* InMemoryIdempotencyStore, RedisIdempotencyStore or                      *)
(* MongoIdempotencyStore, whose keys do not interact, and the requests     *)
(* that carry it.  A request begins, runs the operation if it is told New, *)
(* and completes; one that finds the key in progress may begin again.      *)
(* begin and complete of Redis are two commands each.                      *)
(***************************************************************************)
EXTENDS Naturals, FiniteSets

CONSTANT Requests

VARIABLES
  backend,  \* "memory", "redis" or "mongo"
  record,   \* the stored record of the key
  pc,       \* where each request is
  replay,   \* the response a request was given instead of running
  claims,   \* history: how many requests were told New
  expiries  \* history: how often a record ran out

vars == <<backend, record, pc, replay, claims, expiries>>

\* A response is named by the request that produced it.  expires_at is the
\* kind of value the expiry is stored as.
Record == [status : {"InProgress", "Completed"}, response : Requests \cup {"none"},
           expires_at : {"PX", "string", "none"}]
NoRecord == [status |-> "none", response |-> "none", expires_at |-> "none"]

TypeOK ==
  /\ backend \in {"memory", "redis", "mongo"}
  /\ record \in Record \cup {NoRecord}
  /\ record.status = "Completed" <=> record.response # "none"
  /\ pc \in [Requests -> {"start", "inspecting", "working", "completing", "done"}]
  /\ replay \in [Requests -> Requests \cup {"none"}]
  /\ claims \in Nat
  /\ expiries \in Nat

\* Redis counts the PX down; MongoDB holds the RFC 3339 text of the instant.
ExpiresAt == CASE backend = "redis" -> "PX" [] backend = "mongo" -> "string" [] OTHER -> "none"
InProgress == [status |-> "InProgress", response |-> "none", expires_at |-> ExpiresAt]

Completed(r) == [status |-> "Completed", response |-> r, expires_at |-> ExpiresAt]
-----------------------------------------------------------------------------
Init ==
  /\ backend \in {"memory", "redis", "mongo"}
  /\ record = NoRecord
  /\ pc = [r \in Requests |-> "start"]
  /\ replay = [r \in Requests |-> "none"]
  /\ claims = 0
  /\ expiries = 0

\* The key was free and is claimed: Outcome::New.
begin_new(r) ==
  /\ pc[r] = "start" /\ record = NoRecord
  /\ record' = InProgress
  /\ pc' = [pc EXCEPT ![r] = "working"]
  /\ claims' = claims + 1
  /\ UNCHANGED <<backend, replay, expiries>>

\* Faulty variant: SET without NX.
begin_taken_overwrites(r) ==
  /\ backend = "redis" /\ pc[r] = "start" /\ record # NoRecord
  /\ record' = InProgress
  /\ pc' = [pc EXCEPT ![r] = "working"]
  /\ claims' = claims + 1
  /\ UNCHANGED <<backend, replay, expiries>>

\* SET NX of Redis failed; the record is read next.
begin_taken(r) ==
  /\ backend = "redis" /\ pc[r] = "start" /\ record # NoRecord
  /\ pc' = [pc EXCEPT ![r] = "inspecting"]
  /\ UNCHANGED <<backend, record, replay, claims, expiries>>

\* Faulty variant: a request in progress does not keep others out.
begin_existing_in_progress_is_new(r) ==
  /\ pc[r] = IF backend = "redis" THEN "inspecting" ELSE "start"
  /\ record # NoRecord
  /\ IF record.status = "InProgress"
     THEN /\ pc' = [pc EXCEPT ![r] = "working"] /\ UNCHANGED replay
     ELSE /\ pc' = [pc EXCEPT ![r] = "done"]
          /\ replay' = [replay EXCEPT ![r] = record.response]
  /\ claims' = claims + (IF record.status = "InProgress" THEN 1 ELSE 0)
  /\ UNCHANGED <<backend, record, expiries>>

\* The state of an existing record is reported.
begin_existing(r) ==
  /\ pc[r] = IF backend = "redis" THEN "inspecting" ELSE "start"
  /\ record # NoRecord
  /\ IF record.status = "InProgress"
     THEN /\ pc' = [pc EXCEPT ![r] = "start"] /\ UNCHANGED replay
     ELSE /\ pc' = [pc EXCEPT ![r] = "done"]
          /\ replay' = [replay EXCEPT ![r] = record.response]
  /\ UNCHANGED <<backend, record, claims, expiries>>

\* The record of Redis is gone by the time of the GET: New as well.
begin_expired(r) ==
  /\ pc[r] = "inspecting" /\ record = NoRecord
  /\ pc' = [pc EXCEPT ![r] = "working"]
  /\ claims' = claims + 1
  /\ UNCHANGED <<backend, record, replay, expiries>>

\* The operation is done, but there is no record to complete.
complete_unknown(r) ==
  /\ pc[r] = "working" /\ record = NoRecord
  /\ pc' = [pc EXCEPT ![r] = "done"]
  /\ UNCHANGED <<backend, record, replay, claims, expiries>>

\* The GET of Redis found one.
complete_found(r) ==
  /\ backend = "redis" /\ pc[r] = "working" /\ record # NoRecord
  /\ pc' = [pc EXCEPT ![r] = "completing"]
  /\ UNCHANGED <<backend, record, replay, claims, expiries>>

\* The record is completed, whoever claimed it; the SET of Redis does not ask
\* whether it still exists.
complete(r) ==
  /\ IF backend = "redis" THEN pc[r] = "completing" ELSE pc[r] = "working" /\ record # NoRecord
  /\ record' = Completed(r)
  /\ pc' = [pc EXCEPT ![r] = "done"]
  /\ UNCHANGED <<backend, replay, claims, expiries>>

\* The request is dropped, or a call to the store fails.
abandon(r) ==
  /\ pc[r] # "done"
  /\ pc' = [pc EXCEPT ![r] = "done"]
  /\ UNCHANGED <<backend, record, replay, claims, expiries>>

\* Faulty variant: the claim of Redis is written without PX.
CanExpire_completed_only == record.expires_at = "PX" /\ record.status = "Completed"

\* The server forgets a key with PX; a TTL index of MongoDB removes documents
\* whose indexed field is a date.
CanExpire == record.expires_at \in {"PX", "date"}
expire ==
  /\ record # NoRecord /\ CanExpire
  /\ record' = NoRecord
  /\ expiries' = expiries + 1
  /\ UNCHANGED <<backend, pc, replay, claims>>

Next ==
  \/ \E r \in Requests :
       \/ begin_new(r) \/ begin_taken(r) \/ begin_existing(r) \/ begin_expired(r)
       \/ complete_unknown(r) \/ complete_found(r) \/ complete(r)
       \/ abandon(r)
  \/ expire

Spec == Init /\ [][Next]_vars

\* What a request that is not dropped does next; it begins again while it is
\* told InProgress.
Proceed(r) ==
  \/ begin_new(r) \/ begin_taken(r) \/ begin_existing(r) \/ begin_expired(r)
  \/ complete_unknown(r) \/ complete_found(r) \/ complete(r)
-----------------------------------------------------------------------------
\* The operation of a key runs once per life of its record (mod.rs): the atomic
\* stores answer New at most once more often than the record expired.
OneClaimPerLife == backend # "redis" => claims <= 1 + expiries

\* While a record lives, a response that was replayed stays the stored one,
\* whatever the interleaving of begin and complete: later requests are given
\* the same response, and no late complete replaces it.
ReplaysAgree ==
  expiries = 0 => \A r \in Requests : replay[r] # "none" => replay[r] = record.response

\* A request that keeps asking Redis is answered, even if the request that
\* claimed the key died.
EveryRequestEnds == \A r \in Requests : (backend = "redis") ~> (pc[r] = "done")

\* "A TTL index on expires_at auto-expires keys" (mongo.rs).
KeysExpire == (backend = "mongo" /\ record # NoRecord) ~> (record = NoRecord)
=============================================================================
