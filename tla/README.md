# Birb Nest: TLA+ models, checks and proofs

Birb Nest is a two-level cache: a Fiber API over Redis (fast, may forget) and
PostgreSQL (durable), split into *instances*, with a Go SDK. This directory
holds TLA+ models of its core logic, TLC runs on small instances and TLAPS
proofs for all values of the constants. Every definition is translated from
the code; `PROJECT.json` (`map`) names the lines.

## 1. The system

| Part | State | Operations | Interacts with |
|---|---|---|---|
| Write-behind queue, `internal/api/async_writer.go` | bounded channel, worker goroutines, requests in their hands | `Write`, `worker`, `Shutdown` | called by the handlers; calls PostgreSQL |
| Primary handlers, `internal/api/handlers_instance.go` | one goroutine per request | `Set`, `Get`, `Delete`, `Health` | Redis, queue, PostgreSQL, registry |
| Replica handlers, same file | the same, and goroutines that forward | `forwardWriteToPrimary`, `forwardDeleteToPrimary`, `queryPrimary`, `BatchGet` | local Redis; the primary over HTTP |
| Instance registry, `internal/instance/registry.go` | contexts in Redis (24 h) and in memory (5 min), `lastActivity` | `Get`, `GetOrCreate`, `Register`, `Update`, `Delete`, `UpdateLastActive`, `refreshTTL` | Redis; called by middleware, handlers, operations |
| Instance middleware, `internal/api/middleware/instance.go` | none of its own | `Handle` | registry; runs before every cache handler |
| Instance operations, `internal/operations/instance_ops.go` | none of its own | `LoadInstance`, `DeleteInstance`, `BackupInstance`, `RestoreInstance` | registry, Redis, PostgreSQL |
| Redis cache, `internal/cache` | keys of all instances | `Get`, `Set`, `Delete`, batches | Redis |
| Repository, `internal/database` | table `cache_entries`, keyed by (instance, key) | upsert, delete, batches, expiry clean-up | PostgreSQL |
| API server, `cmd/api/main.go` | process lifetime | start, signal handler, deferred shutdown | everything above |
| Circuit breaker, `sdk/circuit_breaker.go` | state and three counters under a mutex | `Execute`, `State`, `Reset` | wraps SDK calls |
| Retry executor, `sdk/retry.go`, `sdk/errors.go` | attempt counters | `Execute`, hedged requests | wraps SDK calls |
| Observer, `sdk/observer.go` | metrics, last seen breaker state | hooks | breaker, client |
| SDK client, `sdk/client.go`, `native.go`, `wasm.go` | closed or not, breakers per endpoint | `Set`, `Get`, `Delete`, `Exists`, `GetMultiple`, `Ping`, `Close` | retry executor, breaker; the API over HTTP |
| Key builder, `internal/instance/keys.go` | none | `BuildKey`, `ParseKey`, `StripInstance` | names the entries in Redis |
| Serialisation, telemetry, object storage | little or none | encoding, logging | |

What makes it hard:

* *Concurrency.* Every request is a goroutine that makes several calls to
  Redis, the queue, the registry and PostgreSQL without holding a lock over
  them. Workers race with each other on PostgreSQL. Activity updates, TTL
  refreshes and row deletions run in goroutines that outlive their request.
* *Failure.* A PostgreSQL call can fail, or time out and still take effect.
  Redis can fail, evict and expire. The process can be killed; what it owned is
  lost, what it sent to PostgreSQL is not.
* *Ordering.* Retries go to the tail of the queue; deletes bypass it; results
  of protected calls arrive in later periods of the breaker.
* *Limits.* The queue drops when it is full; the breaker counts its test calls
  and never gives them back.

* *Two stores and many names.* An entry is a row under ⟨instance, key⟩ and a
  Redis name that a key builder made; batches, loads, restores and a clean-up
  by key alone cross from one to the other. The parts of a name are joined with
  ":", which an identifier or a key may contain.
* *No one is told.* A replica never hears of a write made elsewhere; the SDK
  never hears of an attempt whose answer was lost.

What makes each part correct: an accepted write is never forgotten without
being counted, never in two places and never sent twice as the same attempt; a
row holds an accepted write to its own key; the handlers never wait for
PostgreSQL; a key that is gone, with nothing in flight, stays gone; an instance
that refuses requests goes on refusing until someone asks otherwise; the
breaker blocks while it is open, limits test traffic, carries no count from one
period into the next, and closes again over a healthy service; versions of a row
only grow, batches, loads and restores take no value to another entry, instances
whose names do not run into each other are kept apart, and reads, listings and
clean-up agree about expiry; a value a replica shows was set on that key, and its
own writes stay until it is told otherwise; a caller of the SDK is told what
happened to its call. `PROJECT.json`
(`hazards`) lists, line by line, what could break these and is hard to test.

## 2. Modules

| Module | Models |
|---|---|
| `WriteBehind` | abstract: what the write-behind path promises about a write |
| `AsyncWriter` | the queue, its workers, shutdown, process end and restart, PostgreSQL as environment |
| `PrimaryNode` | `Set`/`Get`/`Delete` of a primary over Redis; composes `AsyncWriter` (`INSTANCE`) and is shown to implement `ValueFlow` |
| `ValueFlow` | abstract: what a node, or a tree of them, promises about the values in it |
| `ReplicaCluster` | a primary and its replicas: forwards, queries, `BatchGet` |
| `InstanceKeys` | the names of entries in Redis, as operators on sequences of segments |
| `InstanceStore` | table and Redis of all instances: repository, client, caches, load, backup, restore; extends `InstanceKeys` |
| `Registry` | registry, middleware, and the registry steps of the instance operations |
| `CircuitBreaker` | the SDK's breaker |
| `SDKClient` | the SDK's calls over its transports; composes `CircuitBreaker` (`INSTANCE`) and is shown to implement it |
| `AsyncWriterProofs`, `PrimaryNodeProofs`, `CircuitBreakerProofs`, `InstanceKeysProofs`, `InstanceStoreProofs`, `RegistryProofs`, `ReplicaClusterProofs`, `SDKClientProofs` | theorems |
| `MC...` | instances for TLC (symmetry, small sets) |

`AsyncWriter`. A write is named by the number of its `Write` call, which also
stands for `Timestamp`; `keyOf` gives its key, an ⟨instance, key⟩ pair, the
primary key of `cache_entries`. `queue`, `closed`, `hand[w]` (the request of a
worker) and `pc[w]` are the program's state. `fate` records what became of each
write under the very labels the code counts losses by (`queue_full`,
`requeue_failed`, `max_retries_exceeded`), plus `pending`, `confirmed`,
`panicked` (a send on the closed channel), `exit` and `killed`. The actions:

| Action | Code |
|---|---|
| `Write` = `Enqueue` / `DropFull` / `PanicSend` | the `select` of `Write` |
| `Dequeue` | `range aw.queue` up to the call of `SetWithInstance` |
| `SetOk`, `SetErr` = `Backoff` / `GiveUp` | its result |
| `Requeue` | after the sleep: back to the tail, or dropped |
| `RequeuePanic` | the same send after `Shutdown`: nobody recovers it |
| `Stop` | the end of the `range` |
| `Shutdown`, `ShutdownAgain` | `close(aw.queue)` from the signal handler, and again from the deferred call in `main` |
| `Kill`, `Restart` | the end and the start of the process |
| `Execute`, `Reject` | PostgreSQL executes a statement it was sent, at any moment, or never |

`PrimaryNode` adds Redis, the steps of the handlers and the goroutines of
`Delete`. A Set is two steps (Redis, then queue), a Get three (miss, row,
repopulation); a hit changes nothing and is left out. `intent` is what clients
last asked of a key, in the order Redis saw it; `setKey` the key a value was
set on: both exist for the properties only. `Somewhere` lists where the value of a
Set can be, stored or on its way; it is what `ValueFlow` sees of the node.

`ReplicaCluster`. Every node has a `cache`; `forwards` are the goroutines that
pass a replica's Sets and Deletes on (once, in any order), `query` the lookup a
node is making after a miss. The primary is coarser than in `PrimaryNode`: its Set
is one step and what it writes behind is a set of statements (`pending`) that are
executed in any order, repeated or lost. `Cut(v)` is the part of a body that
`BatchGet` reads after it has cancelled its request. `own` exists for
`OwnWritesStay` only.

`InstanceStore`. A row has a value, version, TTL and `updated_at`; a statement
or a transaction is one step, two statements of one call are two (the expired row
that `GetWithInstance` finds and deletes later: `FindExpired`, `Reap`). `Trigger` is what the
triggers of `init-db.sql` do to every UPDATE, whatever the statement sets.
`Resolve` is the rule by which the repository, the client, `InstanceCache` and
`ContextCache` choose the instance of a call. Redis is a function from names, and
`InstanceKeys` makes the names: sequences of segments, the parts between two ":".
Identifiers are such sequences, too, as the middleware takes whatever the header
brings, so that two entries may have one name; `ParseKey` takes the first segment for the
identifier, as the code does. (What a glob metacharacter in an identifier
matches in the pattern of `BuildPattern` is left out.) `addressed` records the entries each
value was meant for by its caller, the rows a caller happened to hit not among them,
and `versioned` which values came with `SetWithVersion`: both exist for the properties
only. `Wrap` is what
`json.Marshal` does to bytes that are no JSON. `CleanupExpired` reads and deletes
in one step, and its deletion by key alone is kept. TTLs come from callers of the
repository; `PostgreSQLClient` passes nil. A TTL of 0 never expires for
`IsExpired` and is expired for SQL: the models keep both. Expiry and eviction of
Redis are in `PrimaryNode` and `ReplicaCluster` instead. `DeleteInstance` leaves the
entries of the instance in Redis, as the code does.

`Registry` follows one instance (instances share nothing: their Redis keys and
map entries differ). A goroutine is a record: its job, its next step, the
context it holds (`own`), one it has read and will cache (`got`), and the
statuses it is still to register (`todo`). `Got`, `Registered`, `Failed`,
`Enter`, `Serve` and `Change` say what it does next; the actions are the calls
to Redis (`Fetch`, `Missing`, `Save`, `Drop`, `Reread`, `Rewrite`), the critical
sections of the memory cache (`Hit`, `Keep`, `Publish`, `Forget`), the activity
throttle, their errors, and time. Of a context only the `NewContext` that made it,
`Status` and `IsPermanent` are kept. `Forget` takes the two adjacent critical
sections at the end of `Registry.Delete` as one step. Who changes a status
(`SetStatus`) is any caller of `Registry.Update`, as the tests of the package do.
A `BatchGet` passes two middlewares: two requests here.

`CircuitBreaker`. Admission and recording are separate actions, as the mutex is
released while the call runs. Time is reduced to `elapsed`: has `Timeout` passed
since `lastFailureTime`? `call[c]` says whether a running call was admitted in
the current period (`normal`, `test`) or an earlier one (`stale`).

`SDKClient`. A caller is a goroutine with one call. Phases follow the code:
`begun` (arguments checked), `create` (about to take the write lock of
`getOrCreate`), `attempt`, `failed` (between two attempts), `done` (the retry loop
is left), `returned` (the breaker has recorded the result). `transport` is chosen
initially: native with one breaker, with one per endpoint, without any, native with
`NoRetryStrategy`, and WebAssembly with its own loop. `sent`, `served` and `doubt`
count attempts sent, carried out by the server, and answered unclearly. `Budget` is
the `MaxAttempts` the loop of each transport counts with: `MaxRetries + 1` for the default
strategy and WebAssembly, one for `NoRetryStrategy`, and for a strategy of the user's
its own, of which 0 (or less) is unlimited; `MaxRetries` then plays no part. The linear
strategy and the constant one stand for those; a `RetryStrategy` of the user's own
type has a budget like any of them. With a breaker per endpoint, which is per
method and path, the callers are those of one endpoint: Gets of one key, and a
GetMultiple of it. What the
code does and a reader may not expect: the first attempt counts towards
`MaxAttempts`, though retry.go:67 calls it "retry attempts"; any error, a 404 or a cancelled context included, is a failure to
the breaker; WebAssembly retries every status but 2xx; an answer of 2xx that cannot be
parsed is an error that is not retried.

Abstractions common to all: metrics, logs and tracing are left out; values are
named, never spelled out; a hand-over to a waiting receiver of a Go channel is
taken as one through the buffer.

## 3. Runs

Bounds are small sets of model values; `MaxWrites`, `MaxDeletes`, `MaxRequests`,
`MaxMoves`, `MaxTime` and `MaxBirths` bound the calls (and the clock) of a behaviour,
`MaxSent` the attempts of one call of the SDK (limited budgets are below it); all
else is unbounded.

| Run | Instance | Shows |
|---|---|---|
| `aw` | 2 keys, 2 workers, 1 slot, 1 retry, 2 writes, all faults and restarts, fair | ownership, rows and retries of the queue; that it implements `WriteBehind`; `EventuallySettled`, `ShutdownStopsWorkers` |
| `aw_shutdown` (violation) | 2 workers, healthy | an accepted write is lost at a signal |
| `pn_faults` | 2 keys, 2 handlers, 1 worker, all faults, signals | `ValuesStayWithTheirKey`, `SetsNeverWait`, `GoneUntilSet`, and that the node implements `ValueFlow` |
| `pn_delete` (violation) | 1 key, one client | a deleted entry comes back |
| `cb` | 4 callers, thresholds 3/2, 3 test calls, panics, resets, fair | the safety of the breaker and `RecoversWithService` |
| `reg_faults` | default instance, 2 goroutines, 2 creations, all faults, expiries, restarts | `GoneUntilCreated`, `RefusedUntilChanged` |
| `store` | 2 instances, `global` and `global:cache`, 2 keys, `k` and `cache:k`, so that two entries have one name; TTLs NULL, 0 and 1, batches of 1, 2 writes, 1 delete, 2 moves | `ValuesStayInReach`, `VersionsGrow`, `ReadsAgree` |
| `store_scope` (violation) | the same | a Set of one instance changes what another has cached |
| `replica` | 2 replicas, 1 key, 2 requests, all faults, evictions at replicas, batches | `FailuresStayLocal`, `OwnWritesStay`, and that the cluster implements `ValueFlow` |
| `replica_lww` (violation) | 1 replica, healthy | the older of two writes of one replica wins |
| `sdk` | 2 callers, 5 transports, budgets of 2 (1 retry), of 2 of a strategy's own, of 1, and unlimited (cut off by `MaxSent` = 3), batches, fair | `ResultsAreEarned`, `RepeatsNeedDoubt`, `BatchIsWhole`, `CallsEnd`, and that the client implements `CircuitBreaker` |
| `sdk_set` (violation) | 1 caller | a Set the server accepted is reported as an error |

Why the bounds are enough. The queue's behaviours differ by full or not (one
slot), retry left or not (one), same key or not (two keys), and two workers or a
worker and the API interfering (two); two writes allow one in the channel while
the other is in a hand, is retried behind it or finds the channel full. In the
handlers two concurrent requests suffice for every race, as each property relates
one request's steps to the others' effects. Keys of the cluster do not interact
(one), while a replica's request races another's, the primary's and itself (two
replicas, two requests; that the primary may miss what it stored is a fault already).
In the store, a value crosses from one entry to another
by instance, by key alone or by name: two instances and two keys, with names made
to be confused; time 2 has
an instant before, at and after the end of a TTL of 1. The breaker's counters are
compared with thresholds of two and three, so that one below, at and one above all
happen; four callers exceed the test budget. In `sdk` all thresholds are 1, as the
counters are the subject of `cb`, and its two callers race for the breaker, for its
creation and in a GetMultiple. The registry's races are between one goroutine that
holds a context and one that changes the store; a TTL refresh occupies one of the two.

Deadlock is checked in `aw`, `cb`, `reg_faults` and `sdk*`; it is not
(`CHECK_DEADLOCK FALSE`) where the process may end for good (`aw_shutdown`) or
where the bounded supply of requests runs out (`pn_*`, `store*`, `replica*`).

`RowsCatchUp`, that rows end with the newest value, has no run: it holds only where
requests are serial and one worker is alone on a PostgreSQL that does not fail. A
second handler, a second worker, a failed statement, a restart or a Delete each break
it (the first two by the same reordering as in `replica_lww`), so that only what
makes it true is worth stating, for any bounds: section 5 has the proof.

## 4. Fairness

* Workers (`aw`): weak fairness of each worker's loop. A goroutine that
  can run does; `SetWithInstance` returns because of its 5 s deadline, the sleep
  ends. Weak fairness of PostgreSQL: a statement is executed or dropped in the end.
  Nothing is assumed of clients, signals or kills.
* Handlers (`pn_*`): none. `SetsNeverWait` says that the step with which a Set ends can
  always be taken, whatever the workers and PostgreSQL do or fail to do.
* Breaker (`cb`): time passes, running calls return (the HTTP
  client has a timeout), callers keep calling. `RecoversWithService` assumes a
  service that stays healthy from some time on; nobody need call `State` or `Reset`.
* SDK (`sdk`): a call that has begun goes on, and an attempt ends by the
  timeout of the HTTP client at the latest; the goroutines of a GetMultiple start.
  Nobody need call, cancel or close, and the server need never answer well. A call whose
  budget is unlimited may retry for ever, which `CallsEnd` allows.

## 5. Proofs

Checked by TLAPS for every value of the constants that satisfies the named
assumptions. In every module the invariant is stated as a conjunction of named parts, with one
lemma per action that shows it is kept.

* `AsyncWriterProofs`: `TypeCorrect`, `WritesAreConserved` and `OwnersAreUnique`,
  `RowsHoldAcceptedWrites`, `ConfirmedWritesAreStored`, `VerdictsAreFinal`,
  `StoppedIsSettled`, `AttemptsAreSentOnce`, `ImplementsWriteBehind`. The invariants
  are not inductive alone. Conservation needs that what is in the channel and in
  hands is pending and that no identifier is in two places. That a row holds an
  accepted write needs that every statement in `server` and `applied` is of a
  write that was accepted; that a confirmed write is stored needs that every
  executed statement left a row for its key, and that rows never become empty.
  `AttemptInv` relates the retry count of the owned request to the attempts
  PostgreSQL has seen: all of them smaller, or equal only while a worker waits for
  that very answer. `StoppedIsSettled` is the counterpart of the finding
  `aw_shutdown`: what a signal loses is lost because the process ends first, not in
  the draining. `ImplementsWriteBehind`: initial states map to initial
  states and every step to a step of `WriteBehind` or a stutter, action by action,
  under the mapping of `fate` to its abstract value and of `applied` to the set of
  writes that have landed.
* `PrimaryNodeProofs`: the queue inside the node takes the steps of `AsyncWriter`
  but for two: handlers call `Write` in any order, and rows are deleted behind its
  back. The lemmas of `AsyncWriterProofs` are therefore stated about single
  steps and cited here through `Queue == INSTANCE AsyncWriterProofs`; lemmas at the
  start of the module say that both instances of the queue mean the same. On top
  of the queue's parts, `Inv` ties every value to the key of its Set: in Redis
  (`RedisOK`), in handlers, which hold a value exactly between the two stores
  (`HandlersOK`), in the queue (`KeysAgree`), in statements and rows (`RowsOK`).
  From it: `TypeCorrect`; `ValuesAreOwn`; `WritesAreConserved` and `AttemptsAreNew`,
  what is proved of the queue alone, inside the node; `WritesBehind`, that the node
  implements `WriteBehind` if `MaxDeletes = 0` (a Delete empties a row, which
  `WriteBehind` does not know); `FlowRefined`, that it implements `ValueFlow`,
  with one lemma per place a value can be in: what a step brings there was somewhere
  before, or is the Set it serves; and `GoneStaysGone`, as a key is gone exactly if
  none of its values is anywhere.
  `RowsCatchUpInOrder` is proved under `Serial`: one handler, one worker, no
  PostgreSQL faults, no restarts, no deletions. `SerialInv` says that the accepted
  writes of a key reach its row in the order of their numbers: what waits in the channel, in
  the hand and at PostgreSQL is newer than the row, in that order, and each
  accepted write is on its way or its row is as new. Redis may fail and evict, and the bounds
  are arbitrary. No run checks it; TLC finds a counterexample when any one of the conditions is dropped.
* `CircuitBreakerProofs`: `BreakerTypeCorrect` (with the bounds of the counters),
  `CountersAreFresh`, `TestTrafficLimit`, `OpenCircuitBlocks`,
  `ResultsFollowTheCycle`, for any thresholds `Config.Validate` accepts and any
  finite set of callers. The strengthening is `SlotsCoverTests`: a test call has taken a
  slot of `halfOpenRequests`, and slots return only when the period ends.
  `SlotsAlwaysSuffice`: without panics and with `SuccessThreshold <= HalfOpenRequests`,
  the assumption `SlotsSuffice` of `RecoversWithService` always holds, by the invariant
  `SlotsAccounted` (every slot taken in the period is a success counted or a test
  still running); `HalfOpenGoesOn` says what it is for.
* `InstanceKeysProofs`: for identifiers and keys of any number of segments,
  "instance" and "cache" among them, what the names can tell and what they cannot.
  `NamesAreUnique`: the names of two instances never coincide exactly if neither
  identifier goes on where the names of the other have "cache" (`Shadows`);
  identifiers without ":" do not. `BareNamesAreUnique`: names without an instance are never one's.
  `ParseFindsInstance`: `ParseKey` finds the instance exactly if its identifier has one
  segment. `NamesAreOwn`: `IsInstanceKey` and the pattern take the names of the
  instances whose identifier the given one begins. `StripUndoesBuild` holds for all. No run
  checks these: sequences of unbounded length are what TLC cannot enumerate, and
  `store` uses the names on a few.
* `InstanceStoreProofs`: `TypeCorrect`, `VersionsOnlyGrow`, `ReadsAlwaysAgree`,
  `ValuesStay`. The last needs the invariant `Placed`: what a row or the load in progress
  holds may be in the row it came from, what a name in Redis holds may be in the row of
  some entry of that name, and what the backup holds was written by someone; nothing is
  assumed of identifiers. `ApartValuesStay` adds what makes them a namespace: where no
  identifier shadows another, what Redis shows for a key of an instance may be in the
  row of that key of that instance (by `NamesAreUnique`).
* `ReplicaClusterProofs`: `TypeCorrect`, `FailuresAreLocal`, `OwnWritesAreKept`,
  `FlowRefined`. The invariant `Inv` (`InvHolds`) says of each place, cache, row, request in
  flight and lookup, that its value was asked for on its key, that a
  failed Set is nowhere but at its replica, that cut bodies are in replicas only,
  and that a lookup beside an own write holds nothing that could replace it.
  The refinement of `ValueFlow` then goes action by action: where a value appears, it
  already was somewhere, or its Set is made in this step.
* `RegistryProofs`: `TypeCorrect`, `NothingResurrects`, `RefusalLasts`. `Sane`
  relates what a goroutine holds to its next step and job: a real context where one
  will be written, and no status but "deleting" to register for a deletion. `Quiet`
  is what a goroutine may become while the instance is blocked.
* `SDKClientProofs`: `TypeCorrect`, `ResultsAreTrue`, `RepeatsAreDoubted`,
  `BatchesAreWhole`, and `BreakerIsRefined`: each step of the client is a step of
  `CircuitBreaker` or a stutter. `Sound` gives the counts of a call in each phase: an
  attempt follows only attempts that left open what they did. `Within`, in
  `TypeCorrect`, is that no call sends more attempts than a limited budget allows, whether it is the
  client's or a strategy's own; of an unlimited one it claims nothing. As the client
  implements `CircuitBreaker!Spec`, what `CircuitBreakerProofs` proves of it holds of
  the breaker inside the client: `BreakerCountsInClient`, `BreakerMovesInClient` and
  `BreakerRecoversInClient` state it there, and cite those theorems through an
  instance of the module.

Assumptions: `BoundAssumption` and `QueueAssumption` (capacity at least one: `WRITE_QUEUE_SIZE` is not
validated, and with 0 the channel is unbuffered, which this model does not
describe), `ConfigAssumption` and `ThresholdsAssumption` (what `Config.Validate`
enforces), finiteness of callers, `RetriesAssumption` (budgets are integers, negative
ones among them), `SentAssumption` (the bound `MaxSent` cuts off no limited budget),
`StoreAssumption`, `ClusterAssumption`, `RegistryAssumption` (types of the constants,
distinct names). TLC evaluates all of them.

Only model-checked: liveness (`EventuallySettled`, `ShutdownStopsWorkers`,
`RecoversWithService`, `CallsEnd`) and `SetsNeverWait`, as fairness and ENABLED are out of
the prover's reach. Every other invariant and every property of steps that a passing
run checks is also a theorem.

## 6. Findings

Five disagreements met while modelling; the violation runs produce their traces.

1. `main` closes the queue twice and waits for no worker: a signal can lose
   accepted writes and end in a panic (`aw_shutdown`).
2. A `Delete` bypasses the queue: a write queued before it lands after it (`pn_delete`).
3. The timestamp of a write is "used for last-write-wins" but never compared:
   two writes of one replica can end with the older one (`replica_lww`).
4. `Handlers.Set` answers with the text `OK`, which the SDK parses as JSON: a Set
   that succeeded is reported as an error (`sdk_set`).
5. "Each instance has isolated cache namespace" and "Writes are scoped to instance ID",
   but the key `cache:k` of instance `a` and the key `k` of instance `a:cache` have one
   name in Redis, and no check keeps ":" out of an identifier: each reads and
   replaces the other's value (`store_scope`). The same property,
   `CallsStayInTheirInstance`, is broken in PostgreSQL by `SetWithVersion`, whose
   statement names a key and a version but no instance, and by `CleanupExpired`, which
   deletes by key alone and takes the live row of that key in another instance; nothing in
   the server calls these two. `ValuesStayInReach` says how far a value can get.

Known weaknesses of the code that the properties are stated around, without a run
of their own:

* With `HalfOpenRequests` below `SuccessThreshold`, which `Config.Validate` accepts,
  or after panics, the half-open budget runs out and the breaker rejects for ever:
  `RecoversWithService` assumes `SlotsSuffice`, and `SlotsAlwaysSuffice` proves that
  nothing else can break that assumption.
* `UpdateLastActive` saves a whole context it read earlier and can undo a pause
  registered in between: `Blocked` requires that no goroutine holds an older context.
* `GetWithInstance` deletes a row it has found expired by its key, in a second statement:
  a row written in between goes. A row that is removed and made anew starts at
  version 1, and versions grow by the triggers of `scripts/init-db.sql`, which
  `scripts/migrations/001` does not create: `VersionsGrow` is about a row that stays.
* A TTL of 0 never expires for `IsExpired` and has expired for the statements:
  `ReadsAgree` excepts it.
* A strategy made with `MaxAttempts` 0 retries for as long as errors are retryable:
  `Unbounded` in `CallsEnd`.
* A replica's cache is never told of writes elsewhere; a lookup that was waiting
  beside a local Set may replace it: the condition of `OwnWritesStay`.
* Fiber's buffers: keys and values point into a request's buffer (`Immutable` is not
  set) and are queued or forwarded after the handler has returned. The reuse is the
  library's; the models take values as they were at the call.

## 7. Not modelled, and what is left

* `DeleteInstance` against writes still in the queue of admitted requests (rows come
  back): a composition of `Registry` with the queue, with too many states together.
  `pn_delete` shows the same mechanism for one key.
* The hedged executor (`sdk/retry.go`): no transport constructs one. `ResetAll` of the
  breakers per endpoint repeats `Reset`. Attempts of a call that are still executed by the
  server after the call has ended.
* The lengths of waits and jitter. `MaxDuration` of a strategy's budget and its
  `RetryableErrors` are an early `GiveUp`, as is an interval of 0.
* How the middleware reads the id from header and query; `Registry.List`, whose scan is
  a placeholder that returns nothing; two contexts created by two first requests.
* Telemetry, metrics, logging and the rate limiter (no state the system depends
  on, or used by no route), object storage (a wrapper nothing calls), configuration
  loading, opening of connections, encodings, examples and test helpers.
