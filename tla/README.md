# TLA+ specifications of the ShadowVault backup agent

These modules model the agent: the repository with its backups, collections and
restarts, reading it back, the commands with their configuration, chunking and peer
discovery, chunk synchronisation, the scheduler, the shutdown manager, monitoring
and the limiters. TLC checks them on small instances; TLAPS proves their safety
properties, and that the repository implements an abstract one, for every
instance. Source paths below are relative to `src/`.

## The system

One agent process owns a bolt database (`metadata.db`) with a bucket of encrypted
chunks and a bucket of snapshot records. Bolt's file lock admits one process at a
time and its transactions are atomic and durable.

| Part | Source | Module |
|---|---|---|
| Chunk store, snapshot table, sealing | `internal/storage`, `internal/versioning`, `internal/persistence`, `internal/crypto` | `Repository` |
| Backups, garbage collection, process start and stop | `internal/agent`, `internal/snapshots`, `internal/gc`, `cmd/backup-agent`, handlers of `internal/api` that start them | `Vault`, `Archive`, `VaultProofs` |
| Restore command, verifier | `cmd/backup-agent-restore`, `internal/verification` | `Recovery`, `RecoveryProofs` |
| Configuration | `config` | `Config` |
| Chunker, directory walk | `internal/chunker`, `internal/snapshots` | `Chunker` |
| Commands, host set-up, peer discovery, peer list | `cmd/backup-agent`, `cmd/peerctl`, `internal/p2p/host.go` | `Commands`; `CommandsProofs` (with `Config` and `Chunker`) |
| Chunk fetching and the message loop | `internal/p2p/sync.go`, `internal/protocol`, `internal/agent` | `ChunkSync`, `ChunkSyncProofs` |
| Backup scheduler | `internal/scheduler` | `Scheduler`, `SchedulerProofs` |
| Graceful shutdown | `internal/shutdown` | `Shutdown`, `ShutdownProofs` |
| Rate and resource limits | `internal/ratelimit` | `RateLimit`, `RateLimitProofs` |
| Health checks | `internal/monitoring/health.go`, status page of `internal/api` | `Health` |
| Metrics, and the servers that show them | `internal/monitoring/metrics.go`, `server.go` | `Metrics`, `MetricsServer`; `MonitoringProofs` (with `Health`) |

The collector, scheduler, verifier, limiters, shutdown manager, metrics server and
API server are library code: no command of the repository constructs them yet, so
the models take their exported calls as the interface and let the callers do
anything in any order.

### Not modelled

* Logging (`internal/monitoring/logger.go`), error codes (`internal/errors`) and
  compression (`internal/compression`): stateless, or nothing reads the result back.
* Identity and ACL: a key file written once and an in-memory set of administrators,
  used by one goroutine.
* The stand-alone tools, the web page's script and container start-up: pure input
  and output.
* The verification report: it counts the results of `VerifyAllSnapshots`.
* Peer messages (they only log and count), `BroadcastSnapshot` (it only publishes),
  listing calls of the API and the scheduler (they only read), the API's request
  decoding, and finding a client's address in request headers.
* Metrics that are counted alone (no other value is related to them), amounts of
  bytes and of blocks, and the buckets of histograms.
* `Limiter.Wait`, which nothing calls: it reserves a future token of `rate.Limiter`.
* A configuration file that cannot be opened or decoded (an empty one cannot): `Load`
  ends the command before anything has changed.
* YAML decoding, libp2p, bolt, `http.Server`, `rate.Limiter` and the ciphers are
  external: what the code relies on is part of the models, their insides are not.

## Modules

**Repository** holds the two buckets. `blocks[a]` is `Missing` or a chunk: sealed
(a record of key and plaintext), or raw bytes received from a peer. `Hash` is a tag,
so it is injective: a plaintext hashes to its address, and the hash of a sealed
record is nobody's address. `PutChunk` keeps what is already there
(dedup); `SaveSnapshot` replaces a record with the same ID; `GetChunk` fails on a
missing chunk and on one that its key does not open, because it is sealed under
another key or not at all; `Put` writes the bytes it is given.

**Vault** is one process at a time over the repository. Every step of a backup or a
collection is one bolt transaction or one reading of the clock, so anything can
happen between two of them. The daemon's message loop is a third writer:
`ReceiveChunk` stores raw bytes of a peer, also in the place of a sealed chunk.
`Stop` loses all goroutines and keeps the buckets. A snapshot's ID is the second it
was made in (`snap-<unix>`). `agent.New` derives its key with a random salt that is
not kept, so each process has its own key: the session number. Two auxiliary
variables record history: `overlap[b]`, whether a mark-and-sweep has been under way
during backup `b`, and `clean`, the IDs saved by backups for which there was none.

**Archive** is what a user of the repository relies on, without processes, keys or
transactions. A chunk is stored or reclaimed; a snapshot is saved under a name of its
own, or expires when it is old enough. A snapshot saved as intact has all its chunks
and none of them is reclaimed while it is there. In Vault the stored chunks are the
addresses in the bucket and the intact snapshots are the clean ones. Vault does not
implement `ArchiveSpec`: its names are seconds, and the snapshot of a second backup
in the same second takes the place of the first. `ReplacingSpec` is Archive with that
one step (`Replace`) added; `ImplementsButForNames` is the mapping to it, and
`same_second` shows what is lost.

**Recovery** extends Vault with the restore command, a process of its own, and the
verifier, a goroutine beside backups and collections that checks one chunk per
transaction. `RepairSnapshot` is a first pass of the verifier, a call of its
`fetchFunc` for each missing chunk and a second pass over the snapshot as it is by
then. `fetchFunc` is the caller's; it is taken to be ChunkSync's fetch: sealed bytes
that a peer answers with do not hash to the address and are dropped, raw bytes are
stored by `ReceiveChunk`. `verifyChunk` reads a chunk twice, so it is two steps; only
raw bytes get to the second (`VerifyOpen`). The constant `Checks` says which verifier
calls are made.

**Config** has what `Load` does to a decoded file: environment overrides, defaults,
then `Validate`, in the code's order. A setting is a number or a word, a text that
does not parse is `Garbage`. A setting that is zero, whether left out or given, gets its
default.

**Chunker** is `Next` and the walk that calls it. A file is its length; which bytes
end a chunk (the hash meets the mask) and how much a `Read` delivers are free.

**Commands** composes the two: one process at a time loads its configuration, sets up
its host (bootstrap connections, then the discovery goroutine) and does its job, a
snapshot under the sizes that were loaded or an edit of the peer list. It may be
killed at any step. Peers advertise, stop and disconnect as they like.

**ChunkSync** is one node. Peers are the environment: messages arrive in any order,
any number of times or never, signed or not, with right or wrong data. The message
loop, one goroutine per announcement, one per fetch, and backups and collections
changing the store all interleave. `pending` is the `pendingFetches` map from a hash
to one channel; `Registered` fetches of the same hash replace and delete each
other's entries as the code does. The loop loads a channel (`Lookup`) and sends to it
(`Send`) in two steps. A message with a key of the wrong length makes
`ed25519.Verify` panic, which ends the process (`Panic`); another starts on its store.

**Scheduler** has the task table, the minute loop and the `runTask` goroutines. Time
is relative (`due` is the minutes until `NextRun`), so no clock is bounded. Tasks
are heap objects, because a run keeps its pointer to a task that has been removed.

**Shutdown** has hook registration (with its sort), the loop over hooks and one
goroutine per turn. `go.mod` says `go 1.21`, so the loop variable is shared: a
goroutine reads whatever hook the loop is at when it gets to run. `ListenAndWait`
waits for a signal and calls `Shutdown`; another goroutine may call it directly, and
whichever comes second closes a closed channel and ends the process (`crashed`).

**RateLimit** has the bucket table, requests that look a bucket up under the lock and
use it outside, the clean-up that drops the whole table, and the two resource
counters. The counters know no holders: a caller may release any number of bytes and
report any end of a goroutine, and the counts are clamped at zero. Auxiliary variables
record who holds what and how much was released without being held. `rate.Limiter`
is external: a bucket of `Burst` tokens that gains `Rate` a second. `budget` is an
auxiliary bucket that no clean-up ever drops.

**Health** has the checkers: `GetHealthChecker` makes the global one on first use
without a lock, so its test, assignment and return are separate steps, and objects
keep the pointer they got. **MetricsServer** has `Start` and `Stop` of three servers
with the channel between the goroutines. **Metrics** has recorders as sequences of
atomic additions, and the page as a sequence of loads.

Components that share no state are checked in one run, each in behaviours of its own
(the variable `part` says whose): Health, MetricsServer and Metrics in `MCMonitoring`,
Scheduler, Shutdown and the two halves of RateLimit in `MCServices`. The latter numbers
the hooks in the order of their registration, which loses nothing, since they are
interchangeable and registered once.

The `MC*` modules add symmetry sets and the inputs for TLC. Operators commented
"Fault:" are mutated forms of the definition that follows them; no specification uses
them.

## Runs

| Run | Checks | Shows |
|---|---|---|
| `vault_safety` | `TypeOK`, `CleanSnapshotsComplete`, `SweepInvariant`, `RetentionRespected`, `ImplementsButForNames` | Two backups and two collections, across a restart and beside chunks from peers: every step is one of the abstract repository's, but for a name used twice; a snapshot whose backup no sweep overlapped keeps all its chunks; only expired snapshots are deleted, although deletion is by an ID listed earlier |
| `vault_liveness` | `RunsEnd`, `OrphansReclaimed` | Backups and collections end; chunks nothing refers to are collected, across a restart |
| `recovery` | `RecoveryTypeOK`, `FindsNoneMissing`, `RestoreFindsChunks`, `ReadableStays` | The verifier, repairing or not, finds no chunk missing from a snapshot that stays; a restore meets no missing chunk of a clean snapshot; no process takes a chunk of a readable snapshot away or seals it again, only raw bytes of a peer make it unreadable |
| `sync` | `SyncTypeOK`, `PendingIsLive`, `DataMatchesHash`, `AnnouncementsFinish` | The pending table only names fetches of the right hash that have not returned; nothing is delivered, stored or answered under a wrong hash; `fetchMissingChunks` ends although answers are lost and fetches queue for a slot, unless the process ends |
| `commands` | `CommandTypeOK`, `ChunksAccounted`, `SnapshotEnds`, `PeersFound` | Under every configuration that `Load` returns, chunks are in order, disjoint, not empty and not too long; the walk ends; peers are found, and found again |
| `services` | `SchedTypeOK`, `TasksRun` | Overlapping runs keep the retry count within its limit; enabled tasks run |
| | `ShutdownTypeOK`, `PriorityOrderKept`, `OutcomeIsOwn`, `ReturnedIsOver`, `ShutdownCompletes` | Hooks are called by priority and order of registration, each turn counts its own result; `ListenAndWait` returns after the last turn, and hanging hooks do not keep it from returning |
| | `LimitTypeOK`, `AdmissionsBounded`, `ResourcesAccounted` | Admissions stay within the rate, plus a bounded excess per clean-up; counters are off by no more than what was released without being held |
| `monitoring` | `HealthTypeOK`, `ServerTypeOK`, `MetricTypeOK`, `AnswersAreWorst`, `NotReadyInShutdown`, `StoppedIsDown`, `StopEnds`, `PageAddsUp`, `ErrorsAddUp` | Endpoints report the worst component; no readiness after a signal, unless a checker in use was replaced; `Stop` stops every server and leaves no goroutine behind; a page is off by at most the calls under way |

Five runs end in a counterexample, each to a statement of the repository:

* `vault_race`: the sweep uses a mark set that a snapshot saved meanwhile is not in,
  and deletes its chunk. The comment at `internal/gc/collector.go:167` says it
  deletes "chunks not referenced by any snapshot".
* `same_second`: two backups that end in one second have the same ID, and the second
  record replaces the first (`internal/snapshots/snapshot.go:57`). The test at
  `tests/integration_test.go:227` makes five concurrent backups and fails with
  "Expected %d snapshots, got %d" unless it finds five.
* `recovery_unreadable`: a restore process derives another key and cannot open any
  chunk. `README.md:327` says "Decrypt each chunk and reconstruct files."
* `chunk_loss`: `Next` drops what a `Read` delivered behind a boundary, since every
  call makes a new buffer (`internal/chunker/chunker.go:61`). The test at
  `internal/chunker/chunker_test.go:30` fails "if total != len(data)".
* `config_interval`: `Validate` looks at no duration, so a negative discovery interval
  reaches `time.NewTicker`, which panics (`internal/p2p/host.go:114`).
  `docs/PRODUCTION_ENHANCEMENTS.md:24` says "Validates ports, chunk sizes, timeouts,
  and all config values".

Other disagreements between code and documents were met while modelling. They have
no run here:

* A hook goroutine that starts after its turn timed out executes a later hook, and
  its own never runs (`internal/shutdown/manager.go:120`); `manager.go:110` says
  "Execute hooks in priority order". `PriorityOrderKept` says that those which are
  called keep the order, not that all are called.
* A second call of `Shutdown` panics (`internal/shutdown/manager.go:97`).
  `ShutdownCompletes` exempts it.
* Hooks are run one after the other, where `docs/FINAL_ENHANCEMENTS.md:176` says
  "Concurrent hook execution".
* Every restore derives a new key, so it never succeeds for a snapshot with a chunk,
  and a repair never succeeds for one (see the next point).
* `verifyChunk` hashes ciphertext against an address taken from plaintext
  (`internal/verification/verifier.go:130`), so `VerifySnapshot` calls every intact
  sealed chunk corrupted. `FindsNoneMissing` is about missing chunks only.
* A chunk received from a peer is stored as it is (`internal/p2p/sync.go:135`; the
  comment at `internal/storage/store.go:95` says "encrypted chunk data"), in the place
  of a sealed one too, and backups dedup against it; no key opens it.
* A node answers requests with ciphertext under the plaintext's hash
  (`internal/p2p/sync.go:166`), which the asking node's check rejects.
* A response reaches one of several fetches waiting for its hash
  (`internal/p2p/sync.go:140`, "Notify waiting fetchers").
* A task still running is started again every minute
  (`internal/scheduler/scheduler.go:172`); every retry waits five minutes, where
  `docs/FINAL_ENHANCEMENTS.md:56` says exponential backoff.
* A collector with zero retention deletes snapshots, where
  `tests/integration_test.go:116` says "Keep everything".
* `CleanupOldLimiters` drops all buckets (`internal/ratelimit/limiter.go:120`), where
  its comment says those "that haven't been used recently".
* A setting given as zero is replaced like one left out: `retention_days: 0` becomes 30
  (`config/config.go:202`), though `Validate` allows it.
* The peer list `peerctl` keeps is read by no other command.
* `RecordChunkStored` and the recorder of a lost peer have no callers, so the storage
  gauge only goes down and the gauge of connected peers only up; and a page may show
  more network errors than errors, because it loads the total first. `PageAddsUp`
  bounds the kinds of error by what the total has become when the page is done.
* `handleRestore` of the API answers 202 and starts nothing.

## Bounds

* Vault: one chunk value makes two backups contend for the same chunk, which is the
  hard case (dedup against a chunk a collection is about to delete). Two backups and
  two collections give every pairwise race, and two sessions what one leaves behind
  for the next. The clock's two seconds give equal and different IDs, expired and kept
  snapshots; `Retention` is 1 in all runs, other values (zero too) are left to the
  theorems. A liveness run has one collector, so it says nothing of two that delete
  the same chunk; `vault_safety` does.
* Recovery: one backup and one collector at a time beside the verifier, each of which
  may run again; three sessions are an agent, a restore and a later agent.
* Commands: 20 settings at, below and beyond the limits, in all files with up to
  three of them (the constraints relate at most three), and ten environments. Files
  of up to five bytes under chunk sizes of one to three give short reads, boundaries
  on both sides of the minimum, full buffers and empty files.
* ChunkSync: lists of three chunks over two hashes and two slots, so fetches of the
  same hash overlap and a third one queues; the lists are the empty one, one whose
  equal hashes are adjacent and one where they are apart.
* Scheduler: two objects, so a removed task's run overlaps with its successor's;
  `MaxRuns` = 2 overlapping runs of one object.
* Shutdown: three hooks, two priorities, one signal and one other caller.
* Monitoring: two components, four objects that look the checker up; three servers
  with at most one request each; two recorders, three calls and two types of error
  (one with a counter of its own and one without). Which servers are
  enabled is chosen in the behaviours of the servers only.
* RateLimit: two limited clients and a trusted one, two requests, four buckets (the
  most that can be in use), one clean-up that drops the table. Two holders, and up to `MaxStray` = 3 bytes and
  ends of goroutines that were not held, so that the clamp at zero is met.

`CHECK_DEADLOCK FALSE` is set for `services` and `monitoring`: a finished shutdown,
counters at their bounds and stopped servers stop.

## Fairness

Go schedules every runnable goroutine and timers fire: weak fairness of each
goroutine's steps. In Vault, `Start` is fair (an operator restarts a stopped agent),
the ticker goes on starting collections, and strong fairness of a successful listing
and delete says that a database error does not recur every single time. In
ChunkSync, blocked channel senders are served in order: strong fairness of
`Acquire`. In Scheduler, time passes and a backup ends in the end. In Shutdown, only
the loop and the return of `ListenAndWait` are fair; hooks may hang for ever. In
Commands, reads of a file return, the discovery ticker ticks, and strong fairness of
`DiscoveryConnect` says that a peer which is offered again and again is not
unreachable every single time. In MetricsServer, the goroutines of `Stop` run and its
context has a deadline, as a shutdown hook's has; requests may take for ever.

## Proofs

Every invariant and action property that a run without a counterexample checks,
`MetricTypeOK` excepted, is also a theorem, for all sets of backups, chunks, announcements, tasks, hooks,
clients and so on, and all bounds. Each component has a module of proofs:

| Module | Theorem | States |
|---|---|---|
| `VaultProofs` | `TypeCorrect`, `SnapshotsComplete`, `SweepsAreSafe` | `[]TypeOK`, `[]CleanSnapshotsComplete`, `[]SweepInvariant` |
| | `RetentionHolds`, `Implements` | `RetentionRespected`, `ImplementsButForNames` |
| `RecoveryProofs` | `RecoveryTypeCorrect`, `VerifierTrustworthy`, `RestoreFinds` | `[]RecoveryTypeOK`, `[]FindsNoneMissing`, `RestoreFindsChunks` |
| | `ReadableForGood`, `ImplementsWithReaders` | `ReadableStays`; `ImplementsButForNames` with the readers beside it |
| `ChunkSyncProofs` | `SyncTypeCorrect`, `PendingLive`, `DataMatches` | `[]SyncTypeOK`, `[]PendingIsLive`, `[]DataMatchesHash` |
| `CommandsProofs` | `CommandTypeCorrect`, `ChunksInPlace` | `[]CommandTypeOK`, `[]ChunksAccounted` |
| `SchedulerProofs` | `SchedTypeCorrect` | `[]SchedTypeOK` |
| `ShutdownProofs` | `ShutdownTypeCorrect`, `PrioritiesKept`, `OutcomesAreOwn`, `ReturnsWhenOver` | `[]ShutdownTypeOK`, `[]PriorityOrderKept`, `[]OutcomeIsOwn`, `[]ReturnedIsOver` |
| `RateLimitProofs` | `LimitTypeCorrect`, `AdmissionsAreBounded`, `ResourcesAreAccounted` | `[]LimitTypeOK`, `[]AdmissionsBounded`, `[]ResourcesAccounted` |
| `MonitoringProofs` | `HealthTypeCorrect`, `AnswersWorst`, `NotReadyWhenMarked` | `[]HealthTypeOK`, `[]AnswersAreWorst`, `[]NotReadyInShutdown` of `HealthSpec` |
| | `ServerTypeCorrect`, `StopMeansDown` | `[]ServerTypeOK`, `[]StoppedIsDown` of `ServerSpec` |
| | `PagesAddUp`, `ErrorTotals` | `[]PageAddsUp`, `[]ErrorsAddUp` of `MetricSpec` |

The assumptions are the named `ASSUME`s of the modules, which TLC evaluates for the
instances it checks. `ValuesDistinct` (Repository): markers for missing and unreadable
data are not data, and plaintext is not a sealed record. `BoundsAreNumbers` (Vault),
`SyncAssumption`, `SchedulerAssumption`, `PrioritiesAreInts` (Shutdown) and
`LimitAssumption` give numeric constants their types, and the last one says that there
are finitely many requests at a time. `ComponentsAssumption` (Health): there are
finitely many components, "shutdown" among them. `RecordersFinite` (Metrics).
`SettingsFit` (Commands): a decoded file has values of the fields' types, and a
variable of the environment parses as its setting or is `Garbage`; values may be
negative, too large or contradict each other.

Each proof has the same form: the initial states satisfy an inductive invariant, each
action preserves it (one lemma per group of actions), and it implies the property.
What the invariants add to the properties:

**Vault.** `CleanSnapshotsComplete` is not inductive. Deleting a chunk is harmless
only because of what the collection did earlier, so `SweepInvariant` adds three facts:
a backup with no overlap has all its chunks and no collection is past its mark
(`UntouchedBackups`); a collection past its mark has marked the chunks of every clean
snapshot (`MarksCoverClean`); what it is about to delete it did not mark
(`VictimsUnmarked`). Saving a snapshot turns the first fact into completeness of a new
clean snapshot while no collection is sweeping, marking establishes the second,
listing establishes the third, and the second and third together make a deletion safe.
TLC checks the same conjuncts in `vault_safety`.

`RetentionRespected` and the refinement need facts about time, `TimeInvariant`: a
snapshot's ID is no later than its timestamp, because the clock is read for the one
before the other; a cutoff is never later than now less the retention, rounded up; and
an ID listed as expired is past the retention, also if another snapshot has been saved
under it since. The refinement maps each action: `BackupPut` is `Put` or a stutter
(dedup), `ReceiveChunk` is too, `BackupSave` is `Save`, or `Replace` if its second has a
snapshot, and intact if no sweep overlapped the backup,
`GcExpire` is `Expire` or a stutter, `GcDelete` is `Reclaim`, and a reclaimed chunk is
in no intact snapshot by `MarksCoverClean` and `VictimsUnmarked`.

**Recovery** builds on Vault's invariant, which the readers do not disturb.
`StoreFacts` says that an ID names one snapshot, and bounds sequences and the clock;
`RestoreFacts` that a restore works on the snapshot saved under its ID, writes no more
chunks than that has, and has no verifier beside it; `VerifyFacts` that a chunk which
is read a second time is one of the snapshot under verification, and that this one is
saved and clean while `steady` holds. A missing chunk of a clean snapshot would
contradict `CleanSnapshotsComplete`.

**ChunkSync.** `FetchFacts`: a fetch under way is for a chunk that its announcement
has passed, and its channel holds data only while the fetch is registered.
`SendFacts`: the channel that the loop has loaded and not yet sent to is still
registered for the hash of its data. Hence a response that the loop hands over reaches a fetch of its own hash, although fetches
replace and delete each other's entries.

**Commands.** `LoadFacts` says that the settings keep their types through `Load`, and
`ValidSizes` that `Validate` accepts chunk sizes only if they are positive and the
least is below the greatest. `SetupFacts` carries the chunk sizes from there
to the walk, and `WalkFacts` says that the file's bytes are consumed in order and that
the next chunk starts at or behind the end of the last.

**Scheduler.** `RoomForRuns`: a tick that has not been handled leaves room for another
run, so the bound `MaxRuns` is never exceeded.

**Shutdown.** `OrderFacts`: inserting a hook behind those of its priority keeps the
list in the promised order. `LoopFacts`: a goroutine that reads the shared loop
variable gets its own turn or a later one, never one that the loop has not reached;
together with the order of the list this gives the order of the calls.

**RateLimit.** `BudgetFacts` is the argument for the bound: what a client's bucket can
still give, and one token for each of its requests that holds a dropped bucket, are
covered by the auxiliary budget and an allowance per clean-up of one burst and one
admission per request. A clean-up raises what is to be covered by at most its
allowance, and an admission lowers both sides by one. `ResourceFacts` says that what is
held is finite, so that it can be counted.

**Monitoring** is three invariants, as its parts share no state. For health,
`HealthIsWorst` shows that the loop of `GetHealth` yields the worst status whatever
the order of the map's iteration. For the servers, `ResultFacts` counts the results
that are received or still in the channel, so a `Stop` without error has three. For
the metrics, `CounterFacts` says that counters differ by exactly what calls under way
still owe (for errors, by no more), and `PageFacts` that a page adds up already while
it is made, each value being taken as loaded or as it would be now.

Induction over data with the library's rules is out of the prover's reach. The loop of
`GetHealth` is handled with a least counterexample instead: a set of natural numbers
that is not empty has a least element (`LeastExists`). The same argument gives the
place where a hook is inserted (`MinExists`) and where a chunk ends (`LeastOfSet`).

Model-checked only: the liveness properties `RunsEnd`, `OrphansReclaimed`,
`AnnouncementsFinish`, `TasksRun`, `ShutdownCompletes`, `SnapshotEnds`, `PeersFound`
and `StopEnds`, because the prover reasons neither about fairness nor about `ENABLED`;
and the five runs that end in a counterexample, where there is nothing to prove.
