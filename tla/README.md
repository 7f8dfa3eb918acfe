# LedgerMind Local: TLA+ specifications and proofs

LedgerMind Local is the local half of a memory system for coding agents. It captures the
rounds of a conversation ("RawRounds") over an authenticated HTTP API, stores them durably in
the SQLite database `rounds.db`, delivers them to *Core*, a separate daemon with its own
`knowledge.db`, runs the model tasks that Core asks for, and answers recall requests from
Core's knowledge. An installer puts signed releases in place and connects the agents. Core itself
is not in this repository.

This directory specifies the parts of Local whose correctness depends on ordering, failure and
concurrency. The modules are checked with TLC on small instances; their safety properties are
proved with TLAPS for every instance. Where the code does not keep a promise in some case, the
property names the case, the run includes it, and the [observations](#observations) describe it; two
promises are refuted as they stand by runs of their own ([Findings](#findings)). Paths below are relative
to `src/ledgermind_local/` in the repository unless they start with `README.md`, `docs/` or `tests/`.

Contents: [Inventory](#inventory) · [Modules](#modules) · [Runs](#runs) · [Fairness](#fairness)
· [Proofs](#proofs) · [Findings](#findings) · [Observations](#observations)
· [Not modelled](#not-modelled) · [Plan](#plan)

## Inventory

### Components, their state and their operations

| Component | State | Operations | Module |
|---|---|---|---|
| Capture (`raw_rounds.py`, `api/rounds.py`) | `raw_rounds`, `raw_round_payloads` | ingest with conflict check, enqueue of a Core command and of a delivery row, all in one transaction | CommandDelivery |
| Repository (`persistence/raw_round_repository.py`, `sqlite_uow.py`) | all tables of `rounds.db` | insert, claim with lease, finish, clear payload, purge; every write transaction is `BEGIN IMMEDIATE` | CommandDelivery |
| Delivery worker (`scheduler/core_command_worker.py`) | its claim, the payload it read, the answer it got | `process_once`: claim, read, call Core, finish | CommandDelivery |
| Retention worker (`scheduler/retention_worker.py`) | none | purge of expired payloads | CommandDelivery |
| Replay (`bootstrap.py` `retry_failed_round_semantic`) | ids read before the write | requeue rejected commands | CommandDelivery |
| Core supervisor and process gateway (`core_gateway/`) | child process, pipes, handshake, isolation report, one lock | start, exchange, timeout, close, capability check | CoreGateway |
| Execution task worker (`scheduler/core_execution_task_worker.py`, `inference/core_task_executor.py`) | the batch, its results, the provider circuit | poll, convert, execute, retry, submit, fail | ExecutionTasks, TaskWire |
| Inference (`inference/structured_json_provider.py`, `providers/`, `provider_probe.py`, `profile_store.py`, `embedding_provider.py`) | profile, secret, capability row, embedding cache | generate with mode choice, retries and fallback; probe; embed | Inference, TaskWire |
| Context retrieval (`api/context.py`, `inference/retrieval_reranker.py`) | the reranker's child process and lock | embed the query twice, retrieve, rerank, pack, record | Retrieval |
| Service lock (`service_lock.py`) | one lock file with a pid | acquire, stale-lock cleanup, release | ServiceLock |
| Coordinated restore (`maintenance/coordinated_restore.py`, `cli.py`, `bootstrap.py`) | journal file, rollback snapshot, exchange and staging files, both databases, Core's restore transaction | prepare, apply, compensate, recover, mark, cleanup | CoordinatedRestore, AtomicRestore |
| Runtime lifecycle (`bootstrap.py`, `cli.py` `serve`) | lock, gateway, worker handles, the flags of `LocalRuntime` | `start_capture`, `finish_start`, `request_stop`, `stop`, failed start | RuntimeLifecycle |
| Guarded worker loop (`scheduler/guarded_loop.py`, `worker_state.py`) | stop event, thread, `WorkerState` | `run`, `request_stop`, `shutdown` | RuntimeLifecycle |
| Runtime leases and idle supervisor (`runtime/`, `installer/lock.py`, `api/runtime.py`) | lease files, `runtime.json`, `processes.json`, child processes, the watcher | acquire, heartbeat, release, status, stop, watch_idle | RuntimeLeases |
| Installer operations (`installer/operations/`, `transaction.py`, `config_writer.py`) | releases, the `current` link, configuration, secrets, profiles, rollback snapshots | install, update, configure, import, connect, disconnect, enable, repair, uninstall | Installer |
| Update barrier (`installer/operations/update.py`) | barrier file `update-in-progress` | stop the runtime, replace the release, roll back | RuntimeLeases, Installer |
| Agent targets (`installer/targets/`) | hooks, plugin files and records in the agents' directories | install, verify, enable, uninstall | AgentTargets |
| Migrations (`persistence/migrations.py`) | schema version of `rounds.db` | apply in order, refuse a newer schema | Installer (as one step) |
| HTTP plumbing, knowledge export, wizard, configuration | mostly none | parsing, reports, pages | see [Not modelled](#not-modelled) |

### How they interact

* The HTTP handler and the workers share `rounds.db` and meet only in its transactions. The
  handler writes a command; a delivery worker claims it under a lease; the lease is the only
  thing that keeps two workers apart, and its expiry the only thing that survives a dead one.
* Core is called over a pipe by every thread, under one lock. The answer can be a result, a domain
  rejection or a failure after which Local does not know whether the call took effect. This is
  CoreGateway's result, and the three outcomes of a call in CommandDelivery and ExecutionTasks.
* Core leases model tasks to the task worker. The worker converts them (TaskWire), the providers
  run them (Inference), the results go back through the gateway.
* A recall request uses the embedding provider, Core and the reranker, which all requests share.
* A restore command and a service exclude each other with the service lock. The service looks
  for a restore journal when it starts, before it serves.
* `serve` runs HTTP on the main thread while a second thread finishes the start and creates one
  thread per worker. Stopping joins these threads with timeouts, then closes Core, then gives up
  the lock.
* Outside the service, agent hooks take leases with short-lived supervisor processes. They share
  two state files and a lock file; a detached watcher polls the same files and stops the service
  and the embedding server when nobody needs them, and an update keeps the hooks out with a file.
* An installer operation changes releases, files, the database and the agents' directories, and
  has to put back what it changed when a later step fails.

### What is hard here

* *Interleaving*: a worker slower than its lease; a replay that read its ids before the commands
  moved on; two processes that judge the same lock file; a stop request while the background
  start is still creating workers; a session that begins at the idle deadline or as an update
  begins; a profile that changes under a request or a probe.
* *Late answers*: of Core to a request that timed out, of the reranker's child to a request that
  gave up, of a provider to a task whose lease has run out.
* *Crash and restart*: between any two steps of a delivery, a lock acquisition, a restore, the
  start of the runtime's processes or an installation; of Core, as another binary.
* *Lost answers*: `ingest_raw_round`, `submit_execution_result`, `begin_restore` and
  `commit_restore` may have been applied.
* *Partial failure*: the compensation of a restore fails half-way, the transaction that records a
  success fails, the start fails with the lock taken, the report of a failed task fails, an update
  fails after the link has been switched.
* *Liveness*: every captured round is settled, every task too; every call of Core, recall request,
  acquire and shutdown ends; every restore journal is resolved; an idle runtime stops.

`PROJECT.json` lists each of these hazards with its line and the properties that would catch it.

## Modules

### CommandDelivery and DurableDelivery

`CommandDelivery` holds the columns of `raw_rounds`, `raw_round_payloads`, `core_commands` and
`raw_round_core_deliveries` as functions of the round, the local variables of each delivery
worker's `process_once`, the ids a replay request holds between its SELECT and its write, and
what Core has ingested or refused. A *round* stands for a capture identity, a *body* for
everything its payload digest covers. The identity is part of the digest, so there is one command
and one delivery row per round.

| Action | Code |
|---|---|
| `Capture`, `CaptureDuplicate` | `RawRoundIngestHandler.handle` and `_queue_core_delivery`; a duplicate with another body is a conflict and writes nothing |
| `Claim` | `claim_core_command`: the oldest available command, or one whose lease has run out |
| `ReadPayload`, `RefuseEmptyPayload`, `CoreAccepts`, `CoreRejects`, `CoreFails` | `_deliver_raw_round` and the exception handlers of `process_once` |
| `Finish`, `LeaseLost`, `FinishFails` | `_finish` with the `WHERE claimed_by = ?` of `finish_core_command`; a failed completion becomes a retry or a failure, as the code's `try` block makes it |
| `PurgeExpired` | the retention pass, up to its limit |
| `ReplaySelect`, `ReplayCommit` | `retry_failed_round_semantic` |
| `Crash` | the process dies: open transactions roll back, claims stay until their leases expire |
| `Tick` | a second passes |

Instants are kept relative to the clock (`available_in`, `lease_in`, `retention_in`), which keeps
the state space finite without bounding the length of a behaviour. `MaxAge` makes older
`available_at` values compare equal and `MaxFaults` bounds crashes and failed transactions. `overrun` is a
history variable: the rounds whose delivery row a replay has reset although another replay had already
requeued the command.

External assumption: Core's `ingest_raw_round` is idempotent under the idempotency key that Local
sends, and keeps the first body (`CoreIngest`).

`DurableDelivery` is what a client is promised: a recorded round is open until it is accepted,
refused or abandoned; it is accepted only if Core knows it; an accepted or abandoned round never
changes; only the operator opens a refused one again. `ImplementsDurableDelivery` maps the command's
status and Core's content to it.

### CoreGateway

Threads share one `CoreSupervisor` and take its lock for a whole exchange. `pc[c]` is where thread
`c` is in `request` or `try_request`, `proc` the process that `_process` names, `up` the processes
that really run, `inbox` and `outbox` the two pipes. Core is external: it reads a request, decides
(`verdict`, by number of the call), answers, or is slow, hangs, dies, or answers something else. A retry uses
the request id of its command again, so ids do not tell a late answer from the right one: only the
end of the process does. `Hosts` are the results the sandbox probes may have when a process is
started; `Measured` is the choice of `build_sandbox_plan`, `Strict` the launch policy.

| Action | Code |
|---|---|
| `Ask`, `Invalid`, `Lock`, `Busy` | the operations of `ProcessCoreGateway` with their checks before sending, `request`, `try_request` |
| `StartRunning`, `SpawnRefused`, `SpawnFails`, `Spawn`, `SendHandshake`, `ReadHandshake`, `HandshakeRefused` | `start`, `_spawn_locked`, `build_sandbox_plan`, `_finish_plan`, the handshake |
| `SendRequest`, `SendFails`, `ReadAnswer`, `ReadRefused`, `Timeout`, `EndOfFile` | `_exchange_locked`, framing and the exception handlers of `request` |
| `SendShutdown`, `Stopped` | `close`, `_terminate_locked` |
| `Judge`, `FailClosed` | `require_capabilities` |
| `Answer`, `GarbledAnswer`, `ForeignAnswer`, `MalformedAnswer`, `Hang`, `Crash` | Core (external) |

`Outcome` is what the gateway makes of an answer: result, rejection, or failure that may be retried.
`start` is called outside the `try` block of `request`, so an error that Core answers to the handshake
ends the process and reaches the caller like an error of its own call; `refused` are the calls that
ended so.

### ExecutionTasks and TaskWire

`core`, `lease` and `tries` are Core's view of each task, as the worker's calls show it (external);
`todo`, `batch`, `left`, `result`, `stage` are where `process_once` is. A poll leases up to `Limit`
tasks of one memory space, all are executed before the first is reported, and time passes meanwhile.

| Action | Code |
|---|---|
| `Iterate`, `PollTasks`, `PollLost`, `PollFails` | `process_once` over the spaces; a lost answer leaves tasks leased to nobody |
| `Convert`, `ConvertFails` | `execution_task_from_wire` |
| `ExecuteOne`, `ExecuteBatch`, `ResolveFails` | `CoreTaskExecutor.execute_batch`: one call for a batch of embeddings that agree, one for each task of any other; a profile that does not resolve; a time limit for each execution |
| `Reshape`, `Rerun`, `Deliver`, `DeliverUncertain`, `DeliverRejected` | `_deliver_result_with_structured_retry`, `submit_execution_result` |
| `FailTask`, `FailTaskRaises` | `_fail_task`, `fail_execution_task` |
| `Exhaust`, `Kill`, `Tick` | Core gives a task up; the process dies; time |

`blamed` are the tasks that were refused, or failed by themselves, and `dragged` those that an embedding
batch failed with another task's profile. Only the first result of a task opens the circuit, and a result
that Local itself finds invalid (`invalid_execution_result`) is not generated again.

`TaskWire` is one task on the wire: which combinations of fields `CoreExecutionTask` accepts and what
`execution_task_from_wire` makes of them. Two pieces of code read the same fields with defaults of
their own; absent and `null` are told apart.

### Inference

One profile whose contents (`Configs`) the operator changes while threads generate, probe and embed.
Every thread works with the profile and capability row it has read (`cfg`, `saw`); the row is read and
written in two steps.

| Action | Code |
|---|---|
| `Generate`, `Resolve`, `SelectMode`, `GetSecret`, `Verify` | `StructuredJsonProvider.generate_json` up to the request: profile, mode, secret, verified capability |
| `PostRetry`, `PostFails`, `PostUnusable`, `PostAnswered`, `Cancel` | the HTTP client's attempts and the one fallback of an automatic choice |
| `RecordRead`, `RecordWrite` | `record_capability_fallback` |
| `Probe`, `ProbeResolve`, `ProbeCached`, `ProbeSecret`, `ProbePasses`, `ProbeFails` | `provider_probe.py` |
| `Embed`, `LookUp`, `Encode`, `EncodeFails`, `PutVector` | `embedding_provider.py` with its persistent cache |
| `SetProfile`, `RemoveProfile`, `SetSecret`, `Damage`, `Restart` | operator, disk and restarts with another embedding model |

A fingerprint is the configuration and the mode of the probe. `Legacy` are rows of releases that knew
no fingerprints. `Chained` are the configurations with two routes: a forced retry over one of them goes
out over the second only (`Transport`). Embeddings come in batches; each text has a cache key of its own
or the one its task names, and `Digest` is what the cache is asked for (`explicit or text`, with model,
namespace and role). `named` are the texts that were asked for under each key.

### Retrieval

Requests are threads of the HTTP server. `embedder` is what the application has for queries: the runtime,
which names the model of each vector, an embedder that does not, or none, with the caller's own vectors
(`Supplied`); the application that `serve` builds has the first (`bootstrap.py:482`). `pool` is what Core answered (external), `ranked` and
`chosen` what ranking and packing made of it, `recorded` what Core was told. The local reranker is a
child process with a pipe (`child`, `inbox`, `pipe`) under a lock; the remote one a service that answers
rows in any order, all of one index, or none. Items have a facet and a length; `Tokens` is the length
of the injection, whose legend grows with the facets. `RankItems` and `ApiScores` are the code's
algorithms. `pack_items` is its loop: `Pack` takes the first `MinK` items, `PackItem` one round for each
further item (`packed` is how many have been looked at), `Packed` its end; nobody sees the rounds, but an
invariant can be stated for them. The properties compare the algorithms with what they are for.

### ServiceLock

One process id per process; a process that is down may return under the same pid as another
LedgerMind process, or as an unrelated program (`ForeignStart`), which `os.kill(pid, 0)` cannot
tell apart. Create, write, existence test, judgement and unlink of the lock file are five actions,
because they are five system calls. `Overlap` says whether a process may start while another one
is acquiring; `Writable` whether the directory can be written. Its initial predicate, next-state
relation and types are `LockInit`, `LockNext` and `LockTypeOK`, since its proofs are in `RuntimeProofs`,
beside those of the runtime that takes the lock.

### CoordinatedRestore and AtomicRestore

The content of a database is the version it was restored to. Journal state and transaction id on
disk (`jstate`, `jtx`) and in memory (`memtx`) are distinct, since handlers decide on the object in
memory and recovery on the file. `pc` is the next step of `apply_restore` or `recover`; every step
that can fail has the failure as a second outcome, guarded by `Fallible`, and `Raise`/`Tolerate`
are the handlers: leave pending, compensate, mark inconsistent. `Kill` may come between any two
steps. A compensation that raises inside `_begin_if_needed` is compensated once more by `apply_restore`, with
the journal object of before, which writes `begin_pending` (mode `undo_begin`). `Archives` are the backups
an operator may name, `profile` is the security profile. `forfeit` is a history variable: a stop of Core,
a directory sync or an unlink has failed (`Unanswered`). The code goes on after such a failure as if the
step had not been begun, and the properties are stated up to the first one (see the observations).

External assumptions: Core's `begin_restore` is idempotent for a token, `commit_restore` and
`rollback_restore` act on an applied transaction only, and their answers may be lost
(`CoreBegin`, `CoreCommit`, `CoreRollback`).

`AtomicRestore` is what the operator is promised: a restore is opened for an archive and ends with both
databases at that archive or both as they were; one that cannot be ended is marked, for good. An unanswered
failure forfeits the promise (`Forfeit`). In
`ImplementsAtomicRestore` a restore is open while there is a journal, and until the journal is gone the
databases count as the rollback snapshot. That the end finds them at the archive *of that journal*, and
not at one an operator named later or at a third version, is more than the invariants say.

### RuntimeLifecycle

`main` is where the main thread is in `serve`, `start_capture` and `stop`; `sp` where the startup
thread is in `finish_start`; `wpc[w]` where the thread of worker `w` is in
`GuardedWorkerLoop.run`. The other variables are the attributes of `LocalRuntime` (`started`,
`starting`, `stop_requested`, `initialized`, `incomplete`, `registered`, `errors`) and of the loops
(`wstop`, `stopping`, `timed_out`). A worker is its position in `_WORKER_ORDER`; `NeedsCore` are the
positions of the workers built on the gateway. Every join may time out: that of `loop.shutdown(timeout)`
and the five seconds `serve` gives the startup thread. Two history variables record the second: `overdue`,
that it did, and `unseen`, the workers that had no handle at that moment.
The background maintenance of `finish_start` is one step (`Refresh`) of any duration.
`ServiceLock` is a variable here: its protocol has a module of its own.

### RuntimeLeases

Every operation of a `RuntimeSupervisor` runs under `runtime.lock`, so the model has one operation in
progress (`op`, `step`, `who`) and lets everything else happen between its steps: time, work in Local,
the death of a child, a kill of the operation itself, an update that creates its barrier without the
lock. `lease[s]` is what is left of a session's lease file, `idle` the age of `idle_since`. A record
of a child names its pid and birth tick; `rec` (`runtime.json`) and `reg` (`processes.json`) are the
children whose present incarnation the file names, and `orphan` the names of which a second, unnamed
incarnation runs.

| Action | Code |
|---|---|
| `Acquire`, `Heartbeat`, `HeartbeatExpired`, `Release`, `Status`, `Watch`, `ForceStop` | the beginning of each public operation up to its first look at the processes |
| `Reconcile`, `Survivors`, `Spawn`, `SpawnFails`, `Register`, `Ready`, `NotReady`, `Abort`, `Write` | `_reconcile_process_state`, `_start`, `_wait_for_owned_local`, `_write` |
| `ClearIdle`, `EnsureWatcher`, `EnsureWatcherFails` | `_set_idle_since(None)`, `_ensure_idle_reaper` |
| `Boundary`, `ProcessMissing`, `Confirm`, `Stop` | `_update_idle_boundary`, `should_shutdown`, the second look before the stop, `_stop` |
| `BridgeAcquire`, `BridgeHeartbeat`, `BridgeRelease` | the lease bridge inside Local (`process_owner=False`): lease files only |
| `BeginUpdate`, `UpdateStops`, `EndUpdate`, `UpdateKilled` | the barrier, the stop and the end of an update |
| `Kill`, `WatcherTimesOut`, `WatcherEnds`, `ProcessDies`, `Work`, `Tick` | what happens around the supervisors |

`op = "doctor"` is a supervisor built with the constructor's defaults, as `ledgermind doctor` and
`ledgermind status` do; `Grace` is the configured and `DefaultGrace` the default grace period.
`granted` and `quiet` are history variables: the sessions that hold a lease since their call returned,
and the time since there was one. A lease taken through the bridge counts from the first operation that
sees it (`Seen`), since the bridge does not touch `idle_since`. `left` and `replaced` are the names of
processes whose supervisor was killed, or whose next `Popen` failed, between `Popen` and the registry.

### Installer and AgentTargets

One operator runs one operation at a time, as a sequence of writes (`pc`); each may fail (`Fail`), and
the process may be killed (`Kill`) or interrupted (`Interrupt`, which skips `except Exception` but not
`finally` and `__exit__`). `disk` are the files the installer writes, `db` what it changes in
`rounds.db` (schema, profile row, probe row) with the rounds in it and the contract of their payloads, `agent` the directories of the agents.
`inner` is what `InstallTransaction` remembers, `outer` what `update` or `configure` saved before it.
`place` is where `rounds.db` is: in the default directory, or in the one that `memory_data_path` names.
The steps of a rollback may fail too (`RollbackStops`, `FilesStop`, `ReleaseStays`); `lapsed` are the ones
that did, and `disturbed` says what has happened after which less is promised.

| Action | Code |
|---|---|
| `BeginInstall` … `BeginUninstall`, `RefuseUpdate` | the commands, up to their first write |
| `Prepare`, `Commit`, `Backup`, `SwitchCurrent`, `InstallBinLink` | `InstallTransaction`: verified archive or tree, copy, backups, link |
| `WriteSecrets`, `WriteConfig`, `WriteProfiles`, `WriteLocal`, `Migrate`, `Materialize`, `PersistProbe` | `config_writer.py`, the migrations, the profile store |
| `Save`, `Stop`, `PassDoctor`, `CheckUpdate` | `update`: snapshot, stop of the runtime, the checks after the installation |
| `AdapterInstall`, `PersistSelection`, `UndoConnect`, `ConnectDone`, `SetEnabled`, `Remove`, `Undetected`, `Unpersist`, `Unlink`, `Sweep`, `Finish` | connection, repair and removal of agents, discovered or not |
| `UndoLink`, `UndoRelease`, `UndoDatabase`, `UndoFiles`, `RollbackStops`, `FilesStop`, `ReleaseStays` | `InstallTransaction.rollback` and install's handler, and their failures |
| `BackLink`, `BackFiles`, `BackDatabase`, `BackRelease` | the rollback of `update` and `configure` |
| `StartRuntime`, `StartRefused`, `RuntimeDies` | hooks start the runtime: migrations, cutover of the payloads with its precondition; a kill of it |
| `Capture`, `Edit` | rounds are captured, users edit their files |

Configurations are numbered; a fingerprint names the configuration and the release whose code
materialized it. `AgentTargets` has what each kind of adapter (command hooks, plugin, Hermes) writes,
in which order, records and puts back. RuntimeLeases shows that the barrier keeps hooks out; here the
barrier is the guard of `StartRuntime`.

### MC modules

`MCServiceLock`, `MCCoreGateway`, `MCExecutionTasks`, `MCInference`, `MCInstaller` and `MCRetrieval` define constants that a configuration file cannot
(functions, records, sequences) and the symmetry sets. Symmetry is used only in runs without
liveness properties. `MCInstaller`'s view leaves out what no action and no property reads in a state.
`CommandDelivery`, `CoordinatedRestore`, `RuntimeLifecycle` and `RuntimeLeases` are run as they are.

## Runs

| Run | Configuration | Checks |
|---|---|---|
| `delivery` | 1 round, 2 bodies, 2 workers, 2 replay requests, 2 attempts, lease 2, retention 3, 2 faults, fair | `TypeOK`, `DeliveredIntact`, `SettledForAReason`, `DeliveryMatchesCommand`, `ImplementsDurableDelivery`, `EveryCommandSettles` |
| `gateway` | 1 caller, 1 prober, 3 calls, 2 hosts, 8 kinds of fault, 2 faults, fair | `CoreIsKnown`, `VerdictIsCores`, `EveryCallReturns` |
| `tasks` | 4 tasks of 2 spaces and a space that cannot be polled, limit 2, lease 2, execution up to 1, 5 kinds of fault, 1 fault, fair | `TasksAccounted`, `OnlyOwnFailuresAreFinal`, `CircuitPausesPolling`, `EveryTaskSettles` |
| `tasks_retry` | the same instance | `OneRetry`, an expected violation, see [Findings](#findings) |
| `inference` | 1 generating thread, 2 probes and 1 embedding thread, 2 configurations of which one has 2 routes, 7 tasks, batches of 2 texts with and without keys, 1 HTTP retry, 3 calls, 1 change | `StrictOnlyVerified`, `RequestsAsAsked`, `VectorsOfTheirTexts`, `VerificationKept` |
| `retrieval` | 2 requests, 3 items, pools with a duplicate and without items, all reranker modes and embedders, 1 change of the profile, fair | `OwnOrder`, `WellPacked`, `ResponseStands`, `EveryRequestAnswered` |
| `lock_serial` | 3 pids, no overlapping starts, fair | `Ownership`, `AcquireEnds` |
| `lock_overlap` | 3 pids, overlapping starts | `SingleOwner`, an expected violation, see [Findings](#findings) |
| `restore` | 2 archives, all 10 kinds of failure, 4 faults, both profiles, fair | `Atomicity`, `RollbackLosesNoCapture`, `ImplementsAtomicRestore`, `EveryRestoreResolves` |
| `lifecycle_shutdown` | 2 workers of which 1 needs Core, every join may time out, fair | `ResourcesOutliveWorkers`, `CleanStop`, `InitializedMeansStarted`, `ShutdownEnds`, `SignalledWorkersEnd` |
| `leases_idle` | 2 sessions, 2 processes, lease 1, configured grace 2, default grace 1, 7 kinds of fault, 1 fault, fair | `ProcessesKnown`, `GraceIsGiven`, `IdleRuntimeStops` |
| `installer` | 2 releases with different schemas and payload contracts, 2 configurations, 1 agent of any kind, `rounds.db` in the default directory or another, 9 operations of which any 2 in a row, 1 fault and 1 more in a rollback, 1 round | `ReleaseFits`, `FailureRestores`, `UpdateIsReady`, `UserFileComesBack`, `UpdateLosesNoRound` |

What the properties say. Several are conjunctions of named parts, which stand indented below them.

*Delivery*
* `DeliveredIntact`
  * `AcceptedIsIngested`: a command is completed only when Core holds the very body that was captured,
    whatever leases ran out and whichever answers were lost.
  * `CoreHoldsWhatWasCaptured`: Core never holds anything else, such as a later body sent under the
    same identity.
* `SettledForAReason`
  * `RejectionIsCores`: within the retention period a round is rejected only because Core refused it.
    The danger is a late worker that reads the payload another worker's success has cleared.
  * `PayloadKeptUntilSettled`: a payload disappears only with success or expiry.
  * `FailedAfterAllAttempts`: a failure is recorded only after `max_attempts` claims, although the
    worker decides on the count it read when it claimed.
* `DeliveryMatchesCommand`: the transport status of the API follows the command. Where one of two
  overlapping replays resets what the other has requeued, it says `queued`, whatever became of the command,
  until the next `_finish`; nothing else separates the two.
* `ImplementsDurableDelivery`: the outbox implements `DurableDelivery`; that a success is never taken
  back (`AcceptedIsFinal`) is part of it and proved on its own.
* `EveryCommandSettles`: every open command is settled, unless workers outlast their leases for ever.

*Core*
* `VerdictIsCores`: what a caller is told is what Core decided on this very call, although the answer
  to an earlier request with the same id may still be in the pipe. The one rejection that is not about the
  call is Core's refusal of the handshake of the process that the call started.
* `CoreIsKnown`: no Core runs but the one the supervisor talks to (`OneCore`); only a Core whose
  handshake showed the protocol gets requests (`ServedByGreeted`); the reported isolation is that of
  the running process, and a strict policy is kept over restarts (`Isolated`).
* `EveryCallReturns`: no thread waits for ever for Core or the lock.

*Model tasks and inference*
* `TasksAccounted`: an iteration leaves no task of its batch without a report, whatever becomes of the
  others, unless the report of a failure failed itself (`EveryTaskReported`); a lease costs at most
  three generations or one embedding call (`BoundedRuns`; the documented bound is two, see `tasks_retry`).
* `OnlyOwnFailuresAreFinal`: a task is given up only for a reason of its own, never for a timeout, a
  lost call or a lease that ran out; or with a batch of embeddings in which a profile does not resolve.
* `CircuitPausesPolling`: once a missing secret has opened the circuit, no task is leased any more.
* `EveryTaskSettles`: a space that cannot be polled does not hold up the tasks of the others.
* `StrictOnlyVerified`: a strict request goes only to a configuration whose strict transport has
  answered a probe, however profile and row change meanwhile; a forced retry over the second of two routes
  goes out when their chain has answered one.
* `RequestsAsAsked`: a mode that a task names is what is sent, in the fallback too, and where the operator
  has a preference there is no fallback (`ChoiceKept`); a semantic task is strict or not sent, except with a
  response format and no requirement (`SemanticIsStrict`); retries and fallback are bounded (`BoundedPosts`).
* `VectorsOfTheirTexts`: a vector is of its role, the present model and its text, or another text that was
  asked for under the same cache key, whether encoded or cached.
* `VerificationKept`: outages and failed generations do not undo what a probe has established; only a
  change of the profile, a probe for another mode or with an older row, and the record of a fallback do.

*Recall*
* `OwnOrder`: a reranked response is ordered by the scores computed for this request, any other by Core.
* `WellPacked`: the packing is what the budget is for: the first items always, the others as they fit.
* `ResponseStands`: a failing reranker never suppresses recall (`FailOpen`); Core is told exactly what
  the client gets (`DeliveredAsRecorded`); both vectors that the runtime computes for a query are of one
  model (`OneModel`).
* `EveryRequestAnswered`: also when the child hangs.

*Lock, restore, lifecycle, leases*
* `Ownership`, `AcquireEnds`: one owner (`SingleOwner`), whose file nobody removes
  (`OwnerKeepsItsFile`), and no acquire that loops for ever.
* `Atomicity`: without a journal that says otherwise both databases hold the same version
  (`NoSilentMix`); the secure profile captures rounds only on top of a consistent pair
  (`ServedConsistent`); success is reported only when both databases hold the same archive
  (`ReportIsOfARestore`). All of this, and the refinement below, up to the first unanswered failure.
* `RollbackLosesNoCapture`: in the secure profile the rollback snapshot never replaces rounds captured after
  it was taken.
* `ImplementsAtomicRestore`: the saga, killed anywhere and recovered or continued later, implements
  `AtomicRestore`.
* `EveryRestoreResolves`: a journal is eventually removed or marked, whatever failed.
* `ResourcesOutliveWorkers`: a live worker thread has the lock and the gateway it was built with, but for one
  that had no handle when `serve` gave up waiting for the startup thread.
* `CleanStop`: an incomplete stop keeps the handle of every live worker (`LateWorkersKeepHandles`); a
  complete one, or a failed start, leaves neither lock nor Core (`NothingLeftBehind`) nor a worker
  marked as stopping (`NoneLeftStopping`).
* `InitializedMeansStarted`: `initialization_complete` means that each worker was started or is
  reported with its error, also when a stop request races the background start; a start that outlives
  `serve`'s join claims it, wrongly, only after a complete `stop()`.
* `ShutdownEnds`, `SignalledWorkersEnd`: a shutdown ends even when a worker hangs; a worker that was
  told to stop ends unless it hangs in an iteration for ever.
* `ProcessesKnown`: when `runtime.lock` is free every process that runs is in a file, whoever was killed,
  but for what was left in the window between `Popen` and the registry (`NoOrphans`); nothing else runs
  while a release is replaced (`NothingRunsDuringUpdate`).
* `GraceIsGiven`: hooks and watcher stop the runtime for idleness only as configured, after a whole grace
  period without a lease that some client was given, and never when it is always on; `doctor` and `status`
  after the default period, whatever is configured.
* `IdleRuntimeStops`: a runtime with a watcher stops, unless there are leases or work.

*Installer*
* `ReleaseFits`: the link never names a release that is not there, not even between two steps
  (`NoDanglingCurrent`); the release in use consists of the signed files, even if the bundle changed
  after its verification (`CurrentIsSigned`), and knows the schema of the database (`SchemaFits`); the
  barrier is up only during an update (`BarrierOnlyInUpdate`). These three are stated for operations
  that were not killed, the first two for rollbacks that worked, and `SchemaFits` not for an interrupt, a
  downgrade by newer code, or an update that fails after `install` has returned with `rounds.db` outside the
  default directory. Where the cutover's marker is, no payload of the former contract is left or
  comes again, kills and downgrades included (`MarkerTells`).
* `FailureRestores`: a failed installation, update or reconfiguration leaves everything as it was, provided
  the rollback worked (`RolledBack`: update's handler makes up for a failed one of `install`) and, as for the
  profile and probe rows, the handlers saved the database in use (`DatabaseSaved`).
* `UpdateIsReady`: after an update the profiles, as the new release materializes them, have a probe of
  their own, and all files are of one configuration.
* `UserFileComesBack`: disconnecting an agent puts back what the payload replaced last: what the user had
  there, an edit of the payload included, or LedgerMind's own payload after a repair, an update or a second
  connection.
* `UpdateLosesNoRound`: the database that an update puts back is as new as the last round.

Bounds. Two workers and one round are enough for a lost claim: one holder, one usurper; two replay
requests for one that writes what the other has requeued. Two attempts allow a failure that is retried and
one that is final. The lease (2) is longer than a tick, so it can run out before or after a call, and
shorter than the retention (3), so a takeover happens with and without a payload. Two faults allow the
crash of both workers, or of one and a failed transaction. Three calls of Core allow one that times out,
its retry with the same id and one of another thread; two faults a slow Core that then crashes. Two tasks
of each kind in a poll of two let one task's failure meet the other's report; with a lease of two and
executions of up to one, the first result is reported in time and the second may be late. Two probes, one
generation and one change cover each pair of them, two probes at once included; two texts of which one is
the other's possible key cover the collisions of the cache. Three pids allow an owner, a candidate and a
leftover file of a third. Four faults in the restore allow begin, compensation, mark and recovery to fail
one after another, and two archives a second restore on top of the first one's journal. Two workers let
`stop()` pass one that hangs or has no handle and one that ends. Two sessions allow one to end while the
other begins; a lease (1) shorter than the grace period (2) lets leases come and go within one idle period,
and the default period (1) makes the difference between `doctor` and the configuration visible; one fault is
a kill or a failure at any step. Two operations allow every pair of them, the second on what the first has
left; the failure of a rollback comes on top of the fault that began it. Where `rounds.db` is does not
change between two configurations, and the instances of `Setups` vary it with the kind of agent that has
the least to do with it. Three items suffice for one that must be there, one that does not fit and one that
fits after it. The proofs remove these bounds for safety in all ten component modules, and cover
`AlwaysOn = TRUE`, for which there is no liveness to run.

Each property comes with a mutant in `PROJECT.json`: an operator next to the definition it replaces,
named `Definition_WhatIsWrong`, that makes TLC violate the property.

## Fairness

* CommandDelivery: weak fairness of each worker's steps (the loop polls and its calls have
  timeouts) and of the clock. Nothing is assumed of captures, replays or the retention pass, and
  faults are bounded, which is to say that they stop. A worker may nevertheless be slower than its
  lease again and again; `EveryCommandSettles` says so.
* CoreGateway: weak fairness of a thread's own steps, which includes its time limit: `select` waits up
  to the deadline; and of `Answer`, since a Core that does not hang answers. Being slow is a bounded
  fault, and a Core that hangs for ever is ended by the time limit of the call.
* ExecutionTasks: weak fairness of the worker, which its loop calls again and again, and of the clock;
  executions end because each has a time limit.
* Retrieval: weak fairness of what a request does by itself or when a time limit has passed (`Ends`).
  The child, the service and Core promise nothing.
* ServiceLock: weak fairness of a process that is acquiring. `acquire` has no wait in it.
* CoordinatedRestore: weak fairness of the steps of a running command; strong fairness of
  `Recover`, the start of a service with a journal present and Core available: an operator who
  repeats the restore command for ever and never starts the service is excluded.
* RuntimeLifecycle: weak fairness of the main thread once a stop has begun, of the startup thread,
  and of a loop's control steps. The end of `process_once` has no fairness: a worker may hang in a
  provider call for ever.
* RuntimeLeases: weak fairness of the operation that holds the lock (its waits have timeouts) and of
  the clock, strong fairness of the watcher's poll: it tries for the lock every 50 ms for thirty
  seconds, and if it does give up that is the fault `"timeout"`. Work in
  Local and sessions have no fairness.

Inference and Installer have no liveness properties and no fairness.

## Proofs

All theorems hold for every value of the constants that satisfies the named assumption of the module.

| Theorem | Statement | Under |
|---|---|---|
| `CommandDeliveryProofs!TypeInvariant` | `Spec => []TypeOK` | `DeliveryAssumption` |
| `DeliversIntact`, from `AcceptedIngested`, `CoreHoldsCaptured` | `[]DeliveredIntact` | same |
| `SettlesForAReason`, from `RejectionsAreCores`, `PayloadsKept`, `FailuresAreFinal` | `[]SettledForAReason` | same |
| `AcceptedFinal` | the action property `AcceptedIsFinal` | same |
| `Implements` | `Spec => Abstract!Spec`: the outbox implements `DurableDelivery` | same |
| `DeliveryFollowsCommand` | `[]DeliveryMatchesCommand` | same |
| `RuntimeProofs!LockTypes` | `[]LockTypeOK` | `LockAssumption` |
| `SerialOwnership`, from `SerialSingleOwner`, `SerialFileKept` | `[]Ownership` | `~Overlap` |
| `CoordinatedRestoreProofs!RestoreTypes` | `[]TypeOK` | `RestoreAssumption` |
| `RestoresBothOrNone`, from `RestoreIsAtomic`, `ServesConsistentPair`, `ReportsARestore` | `[]Atomicity` | same |
| `UndoKeepsCaptures` | `[]RollbackLosesNoCapture` | same |
| `SagaIsARestore` | `Spec => Abstract!Spec`: the saga implements `AtomicRestore` | same |
| `RuntimeProofs!LifecycleTypes` | `[]TypeOK` | `LifecycleAssumption` |
| `StopIsSafe`, `InitializedStarted` | `[]ResourcesOutliveWorkers`, `[]InitializedMeansStarted` | same |
| `StopLeavesNothing`, from `LateWorkersStayKnown`, `StopsClean`, `MarksRemoved` | `[]CleanStop` | same |
| `RuntimeProofs!LeasesTypes` | `[]LeasesTypeOK` | `LeasesAssumption` |
| `KnownProcesses`, from `ProcessesAccounted`, `UpdatesAlone` | `[]ProcessesKnown` | same |
| `GraceKept` | `[]GraceIsGiven` | same |
| `CoreGatewayProofs!GatewayInductive` | `[]GatewayInv` | `GatewayAssumption` |
| `ToldWhatCoreDecided` | `[]VerdictIsCores` | same |
| `CoreStaysKnown` | `[]CoreIsKnown`, with `TypeOK` | same |
| `ExecutionTasksProofs!TasksAreAccounted` | `[]TasksAccounted`, with `TypeOK` | `TasksAssumption` |
| `OpenCircuitLeasesNothing` | the action property `CircuitPausesPolling` | same |
| `FinalFailuresAreOwn` | `[]OnlyOwnFailuresAreFinal` | same |
| `InferenceProofs!StrictIsVerified` | `[]StrictOnlyVerified` | `InferenceAssumption` |
| `RequestsGoOutAsAsked` | `[]RequestsAsAsked`, with `TypeOK` | same |
| `VectorsAreOfTheirTexts` | `[]VectorsOfTheirTexts` | same |
| `ProbesAreKept` | the action property `VerificationKept` | same |
| `InstallerProofs!InstallerInvariance` | `[]InstallerInv` | `InstallerAssumption` |
| `WhatIsInUseFits` | `[]ReleaseFits`, with `TypeOK` | same |
| `AFailureRestores` | `[]FailureRestores` | same |
| `AnUpdateIsReady` | `[]UpdateIsReady` | same |
| `TheUsersFileComesBack` | `[]UserFileComesBack` | same |
| `AnUpdateLosesNoRound` | the action property `UpdateLosesNoRound` | same |
| `RetrievalProofs!RetrievalInvariance` | `[]RetrievalInv` | `RetrievalAssumption` |
| `ResponsesKeepTheirOrder` | `[]OwnOrder` | same |
| `InjectionsArePacked` | `[]WellPacked` | same |
| `ResponsesStand` | `[]ResponseStands`, with `TypeOK` | same |

The inductive invariants, and why the properties need them:

* `DeliveryInv` adds what a worker *remembers* to what the tables say. The remembered payload, count
  and answer are only right while the worker holds its claim, so these conjuncts (`ClaimsAgree`) are
  conditional on `HoldsClaim`; a worker whose claim is gone may hold anything, and `Finish` is then
  disabled. `RowsAgree` and `WorkersAgree` carry the body from the capture to Core.
* `LockInv`: a process about to unlink has seen no live owner, and with serial starts none can appear
  before it has acted. This conjunct is the one that fails under `Overlap`.
* `RestoreInv` says what both databases hold for each state of Core's transaction and each position
  of the command (`TrackedData`, `Places`, `Progress`): an unknown transaction id on disk means that
  `rounds.db` has not been touched, which is why leaving the journal pending is safe. `OutcomeInv`
  adds that a command which is on its way to its report has both databases at an archive, and that
  `recover` only ever undoes: the mark it writes after it has removed the journal
  (`coordinated_restore.py`, a Core that answered for another artifact) is of databases that are back at
  the snapshot. The refinement needs this last part, since the mark reopens a restore that has ended. Both hold up to
  the first unanswered failure: what is proved inductive is `TypeOK` with `forfeit = "no"` implying them,
  and no step takes a `forfeit` back (lemma `Forfeits`).
* `LifecycleInv`: a live thread is registered, or is the one the startup thread is about to register
  (`KnownWorkers`); behind the position of `stop()` every live worker is on its list of late ones
  (`StoppedBehind`) and only those are marked (`MarkedStopping`); the startup thread is over before
  `stop()` begins, or `overdue` (`StartupOver`). In the second case it may register workers behind the
  position of `stop()`, and these are all `unseen`: handles are only added while the startup thread runs,
  so a worker that is not `unseen` had its handle before the stop began.
* `ProcessInv`: every process is in a file, or was `left` in the window, except at one step (`Accounted`);
  the survivors that `_start` stops are all the others, so a name has a second process only where the first
  was left (`replaced`); only
  acquire and heartbeat start any, and those that had passed the barrier have ended when the update
  gets the lock (`Barred`).
* `GraceInv`: a granted lease and an idle period exclude each other, so `idle` never exceeds `quiet`;
  an acquire that was killed half-way leaves a stale `idle_since`, but has granted nothing.
* `GatewayInv`: the pipes hold nothing but the one request or the one answer of the thread that holds
  the lock, with that thread's call number (`PipesMatch`): nobody gives the lock back without having
  read its answer or ended the process. Calls have numbers of their own (`CallsApart`), so an answer
  of Core changes the verdict of no call that has ended. A process is past its handshake unless the
  holder of the lock is at it (`GreetedFirst`), and a process that runs is the one named (`OneUp`).
* `DeliveryMatchesCommand` is inductive together with `DeliveryInv`: a replay resets the delivery of every
  id it has read, and those that are not rejected any more when it writes are `overrun`.
* `TasksInv`: the tasks that are owed a report are those in the list the worker is at, each once
  (`Owing`, `Apart`), and the stage says how often the head of the list has been run (`Stages`, `Runs`);
  the lists are sequences without repetition, for which the module has lemmas of its own (`Listed`,
  `Appended`, `HeadAndTail`). `FinalInv` carries the reason of a failure from the execution to the
  report (`Judged`, `Raised`, `Cause`).
* `InferenceInv`: past its decoding a generation serves the request its task was converted to
  (`Serving`), in the mode that was asked for (`Choosing`, `FallingBack`), with its requests counted by
  its attempts (`Counting`). A row for the strict fingerprint that claims strict output was proved by a
  probe, and a row of an older release never claims it; this must hold also for the row a generation
  has *read* and will write back after a fallback (`ProvedRows`), and the mode a probe sends follows
  from the fingerprint it will write (`Probing`). The cache holds under each key a damaged vector or one of
  the key's model and role and of a text that was `named` with it, and what an embedder wants has a key of
  the present model (`Embedding`).
* `InstallerInv` says for each step of an operation what it has changed and what is remembered of it.
  An update that fails runs two handlers, one after the other, each with a snapshot of its own:
  `Restorable` has the link (`Changed`), the releases (`Releases`), both snapshots (`Remembered`) and
  the position of the outer handler (`GoingBack`), so that what the second one finds is what the first
  one left; which steps of them may have failed by then is in `Lapses`, and what a failed removal leaves in
  `Kept`. The outer snapshot holds the database only where that is in the default directory (`HeldOuter`).
  `SchemaInv` relates the schema to the release that is in use or will be: before its
  migration an update's database fits the old release, after it the new one, and the snapshot fits the
  old one again. `Signed` lets only the release being installed have unsigned files, until the doctor.
  `Cut` is about all three databases, the one in use and both snapshots, since a rollback exchanges
  them: where the marker is there is a schema that no release of the former contract accepts, so none
  of them runs. `RoundsKept` needs `Barred`: nothing captures while an update runs, so both snapshots
  have every round. `OwnFile` follows a plugin's file through the steps of its adapter: between payload
  and record (`Unrecorded`) what the user had is only in the adapter's memory; `replaced` says whose file a
  payload was last written over.
* `RetrievalInv`: the pipe of the reranking process holds nothing but the answer to the request that has
  the lock (`Exchange`), because whoever gives up waiting stops the process before it gives the lock
  back; so the scores a request reads are its own (`Ordered`). `Filled` is the loop invariant of
  `pack_items`: of the items looked at so far, which are kept, in which order, and why the others are
  not. The operators have lemmas for lists of any length: ranks are a permutation (`RankTaken`,
  `RankOrders`, `RankedItems`), lists that pass the length test of `Unique` have no duplicates
  (`UniqueIsDistinct`), a valid answer of a service names each index once (`ApiScoresValid`), and each
  round of the loop keeps `Filled` (`FillBegins`, `FillKeeps`, `FillSkips`).

The only assumption that narrows the behaviour is `~Overlap` for the service lock, and `lock_overlap` shows
what happens without it. ExecutionTasks takes the answer to a poll for a list, that is finite; Inference
assumes that no thread generates and probes or embeds. Installer assumes that releases of the present
payload contract have later schemas than all others, and that no release is called `none` or the like.
Retrieval assumes that no request is called `none`.

Each inductive invariant was model-checked on its run's instance before it was proved. The proof of
`VerificationKept` failed at first: it was stated for every probe of the row's fingerprint, and a probe
that had read an older row refutes that (see Inference under the observations). The instance it was
checked on had one probe and one change, which hid this; it has two probes now. `InstallerInv` was
checked on two further instances, with three releases and with four operations on agents. The second
one refuted `UserFileComesBack` as it was stated before: uninstall may purge a record that is still
needed (see Installer under the observations); `replaced` is `lost` then.

Only model-checked: the liveness properties, since TLAPS has no `ENABLED` and no fairness. Every
invariant, action property and refinement of the passing runs is also proved. What stays abstract in the proofs is
`Tokens`, a fold over the items: they use no more of it than that it is a function of the list.

## Findings

* `lock_overlap` (`service_lock.py:98`), an expected violation. A file that is created and not yet
  written counts as stale; and a judgement of one file is followed by the unlink of whichever file is
  there by then. Two processes that start together can both return from `acquire`.
* `tasks_retry` (`core_execution_task_worker.py:594`), an expected violation. `README.md:186` says that Local
  "makes at most one retry" of an answer that does not satisfy the schema and that "a second invalid response
  fails the task", and the docstring at `core_execution_task_worker.py:536` speaks of "a bounded contract
  retry". The report of that second failure is itself delivered inside the block that answers a rejection
  by Core with another generation: a task whose lease is over by then is generated a third time.

## Observations

These were met while modelling. Those that name an exception of a property are in the runs, and TLC finds
them when the exception is taken out of the property; those that name a constant are reproduced by changing
it; the others are notes from reading the code.

*Delivery and replay*
* `overrun`, the exception of `DeliveryMatchesCommand` (`bootstrap.py:1576`): the replay resets
  the command only `WHERE status = 'rejected'`, the delivery row always. The first of two overlapping
  requests requeues the command, a worker completes it, the second sets its delivery to queued, where
  it stays, since a completed command has no further `_finish`.
* Retention clears a payload that Core never saw when Core is away longer than `retention_days`; the
  README (`README.md:35`) says that temporary unavailability must not destroy captured data.

*Lock, restore and lifecycle*
* With `Writable = FALSE` and no lock file `AcquireEnds` fails: `_try_create_lock` turns every
  `OSError` into the error that `acquire` answers with "try again" when there is no file.
* A failed stop forfeits `Atomicity` (`coordinated_restore.py:338`): a restore command that
  continues a `begin_pending` journal and cannot stop Core takes the path of a restore that never
  reached Core and removes the journal, although a begin whose answer was lost may have been applied.
* A failed directory sync or unlink does too: `_cleanup_success` and the end of
  `_write_journal` run inside the block whose exceptions trigger the compensation, after the commit
  (`coordinated_restore.py:362`).
* An existing journal is continued without comparing its archive with the one named
  (`coordinated_restore.py:258`); the command reports the latter (`cli.py:1081`). This is why
  `ReportIsOfARestore` does not say *which* archive.
* `RollbackLosesNoCapture` is about the secure profile only (`bootstrap.py:1239`): the permissive one
  serves on an unresolved journal, and a later start restores the rollback snapshot over the rounds
  captured in between.
* Cleanup removes the rollback snapshot before the journal (`coordinated_restore.py:619`): a kill in
  between leaves a `prepared` journal that a later restore continues without a snapshot.
* A `rolled_back` journal that survives a kill is rolled back or applied again, although
  `_TERMINAL_STATES` (`coordinated_restore.py:38`) lists it.
* A kill between Core's commit and the journal write makes recovery mark a journal inconsistent
  although both sides agree.
* `unseen` and `overdue`, the exceptions of `ResourcesOutliveWorkers`, `CleanStop` and
  `InitializedMeansStarted` (`bootstrap.py:657`, `cli.py:877`): if maintenance takes longer than five seconds
  (`bootstrap.py:306` expects tens of seconds), `stop()` runs with workers missing from its list, closes Core,
  releases the lock and clears `_stop_requested`; the startup thread then starts workers, and says that the
  initialization is complete.
* A worker thread that ends between `is_alive()` and `mark_shutdown_timed_out()`
  (`guarded_loop.py:140`) stays marked as stopping until the next `stop()` joins it.
  `NoneLeftStopping` is stated for complete stops, where it cannot last.

*Leases*
* `doctor` and `status`, the exception of `GraceIsGiven`
  (`installer/operations/doctor.py:160`, `status.py:113`): both commands build
  `RuntimeSupervisor(paths)` with the defaults, sixty seconds and automatic shutdown, and its
  `status()` stops an idle runtime before the configured timeout (900 seconds unless changed), or although
  it is to be always on.
* `left`, the exception of `ProcessesKnown` (`runtime/supervisor.py:446`): a supervisor that is
  killed, or whose second `Popen` raises, before `_register_processes` leaves a process that no file
  names; a retry starts another one beside it, and an update replaces the release under it.
* A watcher that has left its loop still counts for `_ensure_idle_reaper` (`runtime/supervisor.py:168`)
  as long as its pid is alive. An acquire in that moment leaves the runtime unwatched until the next
  release; if the agent dies first, it stays up.
* The lease is written before the start (`runtime/supervisor.py:549`), which may take as long as the
  lease lasts: acquire can return a lease that has expired.
* A lease that is taken and released through the bridge between two polls of the watcher does not
  restart the grace period: `granted` has the leases that some operation of a supervisor has seen.

*Core and tasks*
* `refused`, the exception of `VerdictIsCores` (`core_gateway/supervisor.py:169`, `process.py:749`): an error of
  Core to the handshake is a domain rejection of the command whose call started the process. The delivery
  worker then rejects a round that Core has never seen; CommandDelivery has this as Core's refusal.
* `write_frame` has no time limit: a Core that stops reading blocks a request larger than the pipe's
  buffer, and the lock with it. `EveryCallReturns` is stated for requests that fit.
* `bootstrap.py:79` wants a lease long enough that "a slow reasoning provider cannot be claimed twice
  while Local is still completing the first request"; `execute_batch` runs all polled tasks, up to ten
  of 300 seconds each, before the first report (`core_execution_task_worker.py:516`), so later ones
  may be leased again meanwhile.
* With `Poison # {}` a task that does not decode fails the whole poll after Core has leased all of it
  (`core_gateway/process.py:598`).
* The report of a failed task is rejected when its lease is over; the error leaves `process_once`
  (`escaped` in the model) and the rest of the batch waits for its leases to run out.
* A cancelled execution leaves its provider call running in its thread.
* `dragged`, the exception of `OnlyOwnFailuresAreFinal` (`core_task_executor.py:542`): when
  the profile of a later task of an embedding batch does not resolve, the handler's own `zip` has lists
  of different lengths and raises, and the whole batch is reported as failed for good, whatever the
  reason was.
* The circuit opens for a missing secret, not for `authentication_error` or `configuration_error`.

*Inference*
* `structured_json_provider.py:735`: "A non-auto preference is an explicit operator choice. It is sent as
  requested". `execution_task_from_wire` always names a mode, `"auto"` if need be, which then hides the
  preference of the profile: `ChoiceKept` can only say that it rules the fallback out.
* A semantic task with a response format `json_object` and no requirement is sent as `json_object`
  (`core_gateway/contracts.py:277`), against `strict.py:3`, "must not downgrade a Core semantic request to
  another response mode"; this is the exception of `SemanticIsStrict`. A response format
  `text` passes the contract and is refused by the provider.
* The exception of `StrictOnlyVerified` (`structured_json_provider.py:56`): `README.md:181` has "the same restricted
  route chain" in "the probe and every production request", while the forced retry sends a strict request over the
  second route alone, as `README.md:189` says. The row it is checked against is that of the whole chain, so
  the second route may never have answered a probe.
* The exception of `VectorsOfTheirTexts` (`embedding_provider.py:471`): the cache key is `explicit or text`, and an
  entry does not hold its text. Two texts under one key of Core, or a text that is another's key, share a
  vector. That Core gives each text a key of its own is up to Core.
* Probing again without the strict override, and a failed probe of another fingerprint, both take the
  verification of strict output away; they are the exceptions of `VerificationKept`. So does
  `record_capability_fallback`, which reads and writes the row in two transactions.
* A probe reads the row once, before its request (`provider_probe.py:127`), and decides with it whether a
  failure may be stored (`provider_probe.py:244`). A probe that fails after another one has passed
  for the same fingerprint overwrites its row with `failed`, and strict requests are refused until
  the next probe. Two concurrent probes show this, or one probe and a generation that writes back an
  older row; it is the last exception of `VerificationKept`.
* The strict probe accepts any JSON object (`provider_probe.py:388`).

*Installer*
* `update.py:108` and `configure.py:86` save and put back `rounds.db` of the default directory, whereas the
  installation migrates and writes the one that `memory_data_path` names (`config_writer.py:407`, `483`). With that
  option a failure after `install` has returned leaves the new schema under the old release, although the
  comment at `update.py:105` promises that it "cannot leave a partially upgraded database behind", and a failed
  reconfiguration keeps its profile rows. These are the exceptions of `SchemaFits` and `DatabaseSaved`. The
  readiness check reads the default file too (`update.py:139`): with `--skip-provider-probe` and a path of its
  own an update always fails (`update.py:32`).
* A rollback may fail (`transaction.py:149`): the error replaces the first one and `restore_backups` is skipped,
  so that after a failed `install` files and database stay changed. Update's handler makes up for it, unless it fails
  as well. The torn write of a single file is not modelled.
* `repair` says `failed` whenever Hermes is selected, whose adapter's result has no status (`repair.py:46`), or an
  agent is not discovered; an agent that is not discovered keeps its payload when it is disconnected
  (`integrations.py:212`) or LedgerMind is uninstalled (`uninstall.py:81`).
* A kill after the commit leaves a release directory on which a later update of the same version
  fails; a killed update leaves its barrier (`installer/operations/update.py:201`), which nothing removes.
* `Interrupt`: Ctrl-C rolls back link and release and not files and database.
* An update without a previous release that fails after `install` has returned keeps the new one.
* `_assert_preconditions` refuses the cutover while any command is `delivering`, also when its lease is
  over (`contract_migration.py:179`), and it runs before the workers that would take the command over:
  if the old release died in a delivery and an update followed, the runtime does not start again
  (`StartRefused`). Each attempt leaves another backup of the database (`contract_migration.py:378`).
* A downgrade by the code of a newer release leaves a schema the older release refuses.
* `install` restores the bytes of `rounds.db` when it fails and does not stop the runtime before.
  `InstallerLock` is held only by `install`'s transaction.
* `configure.py:68`: "it must not race a live worker that still holds the previous profile cache"; the
  runtime is stopped without a barrier, so a hook may start it again at once.
* A failed connection between payload and record leaves the payload; the bin link, `runtime.token` and
  secrets in the Secret Service are not rolled back.
* After repair or update the record's "before" is LedgerMind's own payload, which disconnect then puts
  back (`targets/lifecycle.py:500`, `targets/hermes/install.py:69`); `UserFileComesBack` says so.
* `uninstall` disconnects the agents that are still selected (`uninstall.py:78`), and `--purge-data`
  then removes the records of all of them (`uninstall.py:98`). An agent that is not selected any more but
  still has its payload (after an import or a configure with another selection, or an update cut off
  before it connected the agents again) keeps the payload, and the record of the user's file is gone: a later disconnect finds
  nothing to put back.
* `set_integration_enabled` does not tell the Hermes CLI, so that doctor fails afterwards.

*Recall and export*
* A failure of `record_retrieval_outcome` turns a retrieval that succeeded into an error; ids that are
  not unique pass the fallback and are then refused by `RecordRetrievalOutcomeCommand`.
* With a reranker the caller's limit is not enforced.
* Without an embedder of the application the caller's vectors are passed on as they are (`api/context.py:175`), and
  with one that names no model the vector goes under the model the caller names: `OneModel` is about the runtime.
* `close` of the reranker has no closed flag: a late request starts the child again.
* The cursor of the knowledge export (`api/knowledge.py`) holds an index into the present sorted list
  of spaces; a purge between two pages can skip a space while the export reports itself complete.

## Not modelled

* Request validation, authentication, HTTP plumbing, health and activity reports: sequential, no
  state of their own.
* Archive creation, extraction and manifest checks: file I/O; `Prepare` has their effect.
* The `-wal` and `-shm` files beside `rounds.db` during its replacement
  (`coordinated_restore.py:508`): what SQLite does with a leftover log depends on its salts.
* Prompt and schema construction, the parsing of model answers, sandbox command lines and signature
  algorithms: the models have their verdicts.
* Two connections that migrate at once, and payloads the cutover cannot parse; migrations are one step
  of the installer's operations and of the start of the runtime.
* `CoreSupervisor.restart`, which nothing calls.
* The heartbeat client of the hooks: RuntimeLeases lets any client call at any time.
* Knowledge export and purge, the installer's wizard and discovery, configuration files.
* `WorkerState`'s health and progress counters, which only reports read.
* Two operators at once; multi-host use: `rounds.db` and the lock are local by design.

## Plan

Done: the modules above; proofs for CommandDelivery with DurableDelivery, ServiceLock,
CoordinatedRestore with AtomicRestore, RuntimeLifecycle, RuntimeLeases, CoreGateway, ExecutionTasks,
Inference, Installer and Retrieval. Left: **KnowledgeExport**, with pages, cursor and purges.
