# TLA+ models of rDSN's replication core

This directory holds TLC-checked TLA+ models of the parts of rDSN's replication
framework whose code is in `src/`:
- the metadata service's configuration log;
- a replica's initialisation and log replay;
- a replica's checkpointing;
- the task tracker that owners use to wait for or cancel their tasks;
- the Windows io looper, whose worker threads serve an I/O completion port;
- the echo example apps.

`PROJECT.json` lists every component, run, mutant, finding and hazard. Its
`map` gives, for every definition, the source lines it translates.

## The system and how its parts interact

| Part | Source | Role |
|---|---|---|
| Meta service | `src/src/apps/replication/meta_server/meta_service.cpp` | Serialises partition-configuration updates into an append-only oplog (`<data_dir>/oplog`) and applies each to the in-memory `server_state` when its asynchronous write completes. `start` loads `<data_dir>/checkpoint`, replays the oplog, saves a new checkpoint and deletes the oplog. A load-balancer timer and `on_config_changed` tasks feed proposals back through the same log. |
| Replica init | `src/src/apps/replication/lib/replica_init.cpp` | `newr` creates a replica directory and app. `load` reopens one: it resets the prepare list to the app's committed decree, restores the per-log valid-offset floors, and replays the private log and then the shared log through `replay_mutation`. Replay re-appends shared-log records to the private log. |
| Replica checkpoint | `src/src/apps/replication/lib/replica_timer.cpp` | The 5-minute check timer starts a checkpoint (a flush of the app) once 10000 decrees are not durable, and garbage-collects the private log. Commits made during the checkpoint skip the app and are written back on completion, from the prepare list or from the private log. |
| Task tracker | `src/src/core/core/task_tracker.cpp` | Tasks are kept in per-bucket lists. The owner's destructor sweeps them, waiting or cancelling, and races tasks that finish and unlink themselves. |
| Io looper | `src/src/core/tools/hpc/io_looper.win.cpp` | `start` creates a completion port and worker threads that loop on `GetQueuedCompletionStatus` (1 ms timeout), running the local task queues on a notification and the bound callback on an I/O completion. `stop` closes the port and joins the workers; the destructor calls `stop` again. |
| Echo apps | `src/src/apps/echo/echo.app.example.h` | The client app's `start` creates an `echo_client` and a 1 s timer that pings through it; `stop` cancels the timer, waiting for a running tick, and deletes the client; the destructor calls `stop` again. The perf-test client and the server only create or open and delete or close. |

The replica's 2PC, configuration and learning code, `server_state`, the load
balancer, the failure detector, `mutation_log`, `prepare_list` and
`trackable_task` are not in `src/`. Where a model needs them, they are modelled
from `spec.md` and marked `spec_modelled` in the map.

## Modules

Each module models one component. Each `MC*.tla` module instantiates one for
TLC: model values for partitions, configurations and tasks, and named bounds.

### MetaService.tla (with MCMetaService.tla)

**State.**
- `started`, `fdAlive`, `timerArmed`, `freezed`, `offset` and `state` are the
  members `_started`, `_failure_detector`/`_balancer`, `_balancer_timer`,
  `_state->freezed()`, `_offset` and `server_state`.
- `ckpt` and `oplog` are the two files. The oplog is a sequence of record
  slots, and a slot never written is `Zero`, which reads back as len = 0.
- `inflight` and `completed` are issued `file::write`s and their pending
  `on_log_completed` callbacks.
- `acked` holds the requests whose client was answered.
- `proc` says whether the process is up.

**Actions.**
- `Start` is `start()`. Its four sub-actions are a clean start, a replay, a
  crash between saving the checkpoint and removing the oplog, and the fatal
  `dassert` on a corrupted record.
- `Stop`, `OnLoadBalanceStart`, `OnUpdateConfiguration`,
  `OnLoadBalanceTimer`, `OnConfigChanged` and `OnLogCompleted` are the
  handlers of the same names.
- `BalancerRun` is a load-balancer pass that goes through
  `update_configuration(update)`. Its proposals are nondeterministic.
- `AppendRecord` is the reservation under `_log_lock` and the write issue.
- `WriteLands` is an aio completion, which may come in any order.
- `Crash` kills the process. Any subset of the in-flight writes reaches the
  file.
- `SetFreezed` toggles `server_state`'s freeze.

`server_state::update_configuration` is modelled from the spec as "apply a
strictly newer ballot".

`Self` is the server's address. `DetectorPrimary` is what `start()` hands the
failure detector (`primary_address()`, line 120), and `IsPrimary` guards the
handlers that write. `QueryConfiguration` is the two read-only query handlers:
`ERR_SERVICE_NOT_ACTIVE` before `start()` returns, otherwise the partition's
current configuration.

**Refinement.** `ConfigLogAbstract.tla` says what the oplog promises for each
partition's ballot, without record slots, the checkpoint file, the balancer or
freezing:
- an update is issued, made durable, applied to the served configuration,
  and only then answered;
- the served ballot never passes the durable one, and never falls while the
  service runs;
- a crash keeps the durable ballots raised by exactly the writes that landed;
- a restart serves exactly the durable ballots, and a clean start forgets
  them.

`Log == INSTANCE ConfigLogAbstract WITH ...` maps:
- `up` to `proc = "up"`;
- `pending` and `done` to `inflight` and `completed`;
- `served` to `server_state`'s ballots;
- `dur` to `DurableBallot`, the highest ballot in the checkpoint or in a
  written oplog record. This is the ballot `replay_log` rebuilds, since
  `server_state` keeps the highest.

The whole configuration cannot be mapped this way. `on_log_completed` applies
updates in completion order, and `replay_log` applies them in file order
(`meta_service_recovered_state`). `ConfigLogRefinement == Log!Spec` is
checked as a PROPERTY. The abstract spec is safety only: the liveness half,
that an issued update is answered, is `UpdatesAnswered`.

### MetaCluster.tla (with MCMetaCluster.tla)

Two `MetaService` instances, `A` and `B`, each with its own copy of every
variable (suffixed `A`/`B`) and its own address. A step is one server's step;
the other's variables are unchanged. The servers share no state: each makes
itself primary and writes its own oplog, exactly as `start()` does.

### ReplicaInit.tla (with MCReplicaInit.tla)

**State.**
- `phase` is the point `newr`/`load` has reached.
- `sharedLog` and `privLog` hold `[d, b]` records. `pendingPriv` holds the
  private-log appends still in flight.
- `floorS` and `floorP` are the valid-offset floors.
- `appC` and `appD` are the app's committed and durable decrees.
- `lc` and `prepared` are the prepare list. `ballot` is `get_ballot()`.

**Actions.**
- `InitializeOnNew` covers `newr`, `initialize_on_new` and
  `init_app_and_prepare_list(create_new = true)`.
- `InitializeOnLoad` covers `load`, `initialize_on_load`, the app open and the
  prepare-list reset, including the rename of a failed directory.
- `ReplayPrivate` and `ReplayShared` each hand one record to `replay_mutation`.
- `PrivateLogOpened` covers the end of the private replay and the check timer.
- `ResetPrepareListAfterReplay` is the function of that name.
- `PrivateAppendCompleted` is the backfill append's callback. On an error it
  calls `handle_local_failure`.
- `Crash` keeps a prefix of the in-flight private appends, and the app reopens
  at its durable decree.
- `WriteMutation`, `Commit` and `Flush` are the normal operation of a serving
  replica, modelled from the spec so that replay has something to replay.

### ReplicaCheckpoint.tla (with MCReplicaCheckpoint.tla)

**State.**
- `status` is the replica's status.
- `appC` and `appD` are the app's committed and durable decrees.
- `plC` and `plMin` are the prepare list's committed decree and
  `min_decree()`. The list holds `Capacity` committed decrees and drops the
  oldest.
- `task` is `checkpoint_task`, together with the work it runs next.
- `gcFloor` is the private log's reclaimed prefix.
- `delta` is `_app->is_delta_state_learning_supported()`, chosen in `Init`
  and fixed. `init_checkpoint` returns early for such an app.

**Actions.**
- `OnCheckTimer` is `init_checkpoint` followed by `gc`.
- `Checkpoint`, `CatchUpWithPrivateLogs` and `OnCheckpointCompleted` are the
  functions of those names.
- `Commit`, `Downgrade` and `Deactivate` are modelled from the spec. `Commit`
  writes the app only when no checkpoint runs.

**Refinement.** `CheckpointAbstract.tla` says what checkpointing promises the
rest of the replica, without the timer, the downgrade proposal, the prepare
list's capacity, catch-up scheduling or gc:
- outside a checkpoint, every commit reaches the app;
- a checkpoint starts only on a secondary whose app cannot learn delta
  state and whose committed decree is `Threshold` ahead of the app's
  durable one;
- while it runs, the app is frozen. It may be made durable at its own
  committed decree, and it may be brought up to the prepare list in one
  step;
- it ends with the app caught up on a secondary, or with the replica out of
  service, and it always ends.

`ReplicaCheckpoint` maps onto it with `busy <- task /= "none"`; every other
variable maps to itself. A flush whose `flushErr` is set, a catch-up that
applies nothing and a rescheduled catch-up are stuttering steps of the
abstract spec. `CheckpointRefinement == Abs!Spec` is checked as a PROPERTY,
fairness included.

### TaskTracker.tla (with MCTaskTracker.tla)

**State.**
- `list` is the bucket lists.
- `del` is each task's owner-delete flag (NOT_LOCKED, LOCKED, FINISHED).
- `exec` is each task's execution state.
- `rel` is each task's release.
- `pc`, `bucket`, `tcm` and `prepState` are the sweep's locals.
- `sim` is `s_hack.under_simulation()`.

**Actions.**
- `Scan` is one pass of the while loop under the bucket lock, which ends with
  `owner_delete_prepare`.
- `Handle` is the switch. Outside the simulator it waits or cancels and then
  commits. Under the simulator it takes a reference, commits, and then waits
  or cancels.
- `Commit` and `SimWait` are the steps that follow `Handle`.
- `ReleaseClaim` and `ReleaseRemove` are a finished task's own
  compare-and-swap and unlink. A release that sees LOCKED spins, which is
  modelled as the step being disabled.
- `AddTask` adds a task before the sweep starts. With the constant
  `ConcurrentAdds` it may also be called by a running task during the sweep,
  which the code's comment at line 103 assumes never happens.

**Refinement.** `TaskTrackerAbstract.tla` says what the tracker promises its
owner, with buckets, locks and the handshake left out. A task is tracked or
claimed by the sweep. It leaves by its own release once it has ended, or the
sweep claims it, cancels it if the sweep cancels and it is still pending, and
lets go of it once it has ended. The sweep returns only when nothing is
tracked or claimed, and it returns if it can. `TaskTracker` maps onto it with
`Abs == INSTANCE TaskTrackerAbstract WITH ...`:
- `phase` is idle, sweeping or done from `pc`;
- `claimed` is `SweepClaimed`, the task `tcm` whose `owner_delete_prepare`
  returned NOT_LOCKED while the sweep still handles it;
- `tracked` is every linked task except that one.

`TrackerRefinement == Abs!Spec` is checked as a PROPERTY, fairness included.

### IoLooper.tla (with MCIoLooper.tla)

**State.**
- `owner` is the looper's life cycle as its owner sees it: created, started,
  joining (inside `stop`'s joins), stopped, destroyed.
- `ioQueue` is `_io_queue`.
- `wpc` is each worker's place in `loop_worker`.
- `packets` is the port's queue. `posts` counts notifications and completions.
- `binding` is where `bind_io_handle` attached a handle.
- `asserted` is the `dassert` of `notify_local_execution`.

**Actions.**
- `Start`, `Stop`, `Join`, `Notify` and `BindIoHandle` are `start`, `stop`
  (the close) and its joins, `notify_local_execution` and `bind_io_handle`.
- `IoCompletes` is Windows posting a completion for a bound handle.
- The branches of `loop_worker` are `Enter`, `Dequeue`, `Timeout`,
  `Abandoned` and `Handled`.

Windows behaviour the model assumes: closing a port makes a call blocked in it
fail with `ERROR_ABANDONED_WAIT_0`. A call on a closed or null handle fails at
once with a null `OVERLAPPED`. `CreateIoCompletionPort(file, NULL, ...)`
creates a new port.

### EchoApp.tla

**State.**
- `app`, `timer`, `tick`, `ptr` and `obj` are the client app's life cycle,
  `_timer`, a running `on_test_timer`, `_echo_client` and the object it
  points to.
- `perf` and `perfArg` are the perf-test client's life cycle and the
  `argv[2]` its `start` read.
- `serving` is the server's `_echo_svc`.
- `fault` records a null `_timer` dereferenced, or a freed client used or
  deleted again. No step follows a fault.

**Actions.**
- `ClientStart`, `PerfStart`, `ServerStart` and `ServerStop` are the `start`
  and `stop` methods.
- `TickBegins` and `TickEnds` are `on_test_timer` on a pool thread.
- The client's `stop` is three steps, called by the framework or by the
  destructor. `StopCancel` enters `_timer->cancel(true)`, after which the
  timer fires no more. `CancelReturns` is the return of `cancel(true)` once no
  tick runs. `StopDelete` deletes the client.
- `PerfStop` is the perf client's `stop` and destructor.

## Runs

| run | checks | result |
|---|---|---|
| `meta_service` | `TypeOK`, `AckedIsDurable` (every answered update survives any crash, in the oplog or the checkpoint), `RecoveredBallotsMatch` (once quiescent, a restart rebuilds every partition's ballot), `QueriesSeeAcked` (a query answered `ERR_OK` sees every acknowledged update, across crashes and restarts), `UpdatesAnswered` (every client whose update was accepted into the oplog is answered unless the process goes down), `ConfigLogRefinement` (the service implements `ConfigLogAbstract`) | pass, about 908k states, 3 minutes |
| `meta_service_recovered_state` | `RecoveredStateMatches`: a restart rebuilds the live state exactly | violation: two same-ballot updates complete out of order |
| `meta_service_stop_timer` | `NoUseAfterStop`: no task uses the failure detector after `stop()` | violation: the timer is never cancelled (line 165) |
| `meta_service_hole` | `RestartNeverFatal`: a restart never hits "log is corrupted" | violation: a crash persists a later record but not an earlier one |
| `meta_cluster` | `ConfigAgreement`: two meta servers holding the same ballot of a partition hold the same configuration | violation: each server makes itself primary (line 120) and both accept different updates at ballot 1 |
| `replica_init` | `TypeOK`, `PrepareListMatchesLogs` (a serving replica's prepare list holds the highest-ballot logged mutation of each uncommitted decree), `PrivateLogComplete` (each such mutation is in the private log or on its way) | pass, about 1.66M states |
| `replica_checkpoint` | `TypeOK`, `AppCaughtUpWhenIdle` (a serving replica with no checkpoint running has applied every committed decree), `CheckpointTerminates` (every checkpoint ends, with gc running meanwhile and the prepare list dropping decrees), `CheckpointRefinement` (checkpointing implements `CheckpointAbstract`) | pass, 478 states |
| `task_tracker` | `TypeOK`, `NoUseAfterRelease`, `SweepLeavesNothing`, `SweepTerminates`, `EveryTaskReleased`, `TrackerRefinement` (the tracker implements `TaskTrackerAbstract`) | pass, about 16k states |
| `task_tracker_concurrent_add` | `SweepLeavesNothing` with `ConcurrentAdds` | violation: a running task adds a task to a bucket the sweep has passed, and the sweep returns with it linked |
| `io_looper` | `TypeOK`, `PacketsHandled` (every queued packet is dequeued while the port is open) | pass, about 6.1k states |
| `io_looper_stop_hang` | `StopReturns`: `stop` returns | violation: a worker outside the wait when the port closes then waits on a null handle, takes the failure for a timeout (line 166) and loops for ever, so the join hangs |
| `echo_app` | `NoUseAfterFree` (no tick uses the echo client after `stop` deletes it, and the destructor never deletes it again), `StopCompletes` (`stop` returns, from the framework or the destructor) | pass, 192 states |

Every property of a passing run has a mutant in `PROJECT.json`: a plausible bug
in a mapped definition, written as an operator just above it, which TLC finds
violating that property. The violation runs are the findings:
- three code bugs: two in `meta_service.cpp` and one in `io_looper.win.cpp`;
- one gap in the spec: crash-made oplog holes;
- one gap in the spec: tasks added during the tracker's sweep;
- one place where `meta_service.cpp` does not do what the spec says: the
  spec's single writer.

### Further checks

Each of these cfgs checks one property, and TLC finds each one violated. They
are left out of the run list to keep it to the questions above, and they are
recorded as notes on their hazards in `PROJECT.json`.

| cfg | property | what TLC finds |
|---|---|---|
| `MCReplicaInit_NewNeverAborts.cfg` | `NewNeverAborts` | the `dassert`s of `initialize_on_new` kill the process instead of returning an error to `newr` |
| `MCReplicaInit_ReloadKeepsReplica.cfg` | `ReloadKeepsReplica` | a shared-log record below the floor fails the reload of a healthy replica |
| `MCMetaService_NoAppendWhileFreezed.cfg` | `NoAppendWhileFreezed` | `on_config_changed` (line 467) appends balancer proposals while the state is frozen, though the spec says frozen state rejects changes |
| `MCIoLooper_BindAttaches.cfg` | `BindAttaches` | `bind_io_handle` before `start` binds the handle to a new port and returns `ERR_OK` (line 66) |
| `MCEchoApp_NoNullTimer.cfg` | `NoNullTimer` | the destructor of a client app whose `start` failed calls `cancel` on a null `_timer` (line 93) |
| `MCEchoApp_PerfReadsGivenArgs.cfg` | `PerfReadsGivenArgs` | the perf client accepts `argc` = 2 and reads `argv[2]` (lines 141-144) |

## Bounds and why they suffice

**MCMetaService.**
- One partition, ballots {1, 2}, two configurations. The run checks a
  liveness property, so it declares no symmetry; the violation runs, which
  check invariants, take the configurations as symmetric.
- At most 3 appends and 2 crashes.
- Three appends allow two to be in flight, to complete out of order and to
  leave a hole, then a third after a restart.
- Two crashes reach a crash during the restart that follows a crash.

**MCReplicaInit.**
- Decrees 1..2, ballots 1..2, at most one pre-existing shared-log record, and
  2 crashes.
- This allows one decree re-prepared at a higher ballot and a record below the
  floor.
- It also allows a crash during the replay that follows a crash.

**MCReplicaCheckpoint.**
- `Threshold` = 2 stands for 10000.
- `Capacity` = 3 and 6 commits reach both branches of
  `on_checkpoint_completed`: missed decrees still in the prepare list, and
  decrees already dropped, which forces the catch-up.

**MCTaskTracker.**
- Three tasks in three buckets: two share the first, one is alone in the
  second, and the third stays empty.
- Both sweeps are checked, on both the simulator and the native path.
- With `ConcurrentAdds`, task 3 (alone in bucket 2) can add task 1 to
  bucket 1 once the sweep has passed it.

**MCMetaCluster.**
- Two servers, one partition, ballot {1}, two configurations, one append per
  server and no crashes. This is the least that lets two servers accept
  conflicting updates, and it is all the question needs.

**MCIoLooper.**
- Three workers. When `stop` closes the port, one can be blocked in it, one
  can be running a callback, and one can be between two waits.
- `MaxPosts` = 4 notifications and completions. That is enough to have
  packets queued while every worker is busy, and when the port closes.

**EchoApp.**
- `Argcs` = {1, 2, 3}. This covers both argument checks on each side:
  too few arguments, the perf client's off-by-one, and enough.

## Fairness

- **ReplicaCheckpoint.** Weak fairness on the enqueued steps: `checkpoint`,
  catch-up and completion. rDSN's task engine runs every enqueued task.
- **TaskTracker.** Weak fairness on task execution, on each release, and on
  every step of the sweep's thread. Nothing else blocks these threads.
- **CheckpointAbstract.** Weak fairness on a running checkpoint ending. This
  is the promise that `ReplicaCheckpoint`'s fairness above must deliver.
- **TaskTrackerAbstract.** Weak fairness on a running task finishing and on
  the sweep returning once nothing is left. These are the promises the
  tracker's fairness above must deliver.
- **IoLooper.** Weak fairness on each worker's steps: the OS schedules the
  thread, and every wait ends within 1 ms. There is also weak fairness on
  `stop`'s join, whose thread wakes once the workers have exited. Posting and
  binding are the environment's choice.
- **MetaService.** Weak fairness on some in-flight write landing, and on
  some completed write's `on_log_completed` running. The aio provider
  completes every issued write, and the task engine runs every enqueued
  callback. Client requests, balancer runs, freezes, `stop` and crashes get
  no fairness.
- **EchoApp.** Weak fairness on a tick's end, because the synchronous ping
  returns, if only by its RPC timeout. There is also weak fairness on the
  steps of a thread inside `stop`. Starting and stopping are the framework's
  choice.
- Adding tasks, commits, status changes and crashes are the environment's
  choice and get no fairness.
- MetaCluster and ReplicaInit state safety properties only.

## Not modelled

- Locks (`zlocks.h`, `zlock_provider.h`) are assumed correct: a critical
  section is one atomic action. The headers only declare the lock interfaces
  and wrap providers whose code is not in `src/`.
  In particular the meta service reserves an oplog slot under `_log_lock`
  in one step, so two appenders sharing a slot is outside the model and no
  property speaks of it.
- The task queue, the task engine, the simulator and the aio provider are
  declarations or thin wrappers whose implementations are not in `src/`. They
  are modelled only by their effect: tasks run in any order, and writes
  complete in any order.
- The NFS client header declares a client whose logic is not in `src/`.
- The core tests and perf tests are drivers of the modelled components and
  hold no protocol state.
- On the meta service, the forwarding branches of the handlers are left out
  of the single-server model because `start()` always makes the node primary.
  `MetaCluster` shows what that means with two servers.
- `start()` on a meta service object that `stop()` has stopped is not
  modelled: only a fresh process starts. Such a restart would keep `_offset`
  and the never-cancelled balancer timer, and `meta_service_app`, which would
  decide whether it happens, is not in `src/`. This is listed as a hazard.
- `replica_timer.cpp` line 161: `on_checkpoint_completed` treats every
  status other than secondary as closing. Nothing in `src/` promotes a
  checkpointing secondary (`replica_config.cpp` is not in `src/`), so the
  model leaves a checkpointing secondary only by `Deactivate`.
- `replica_init.cpp` line 328: a replica's ballot after reload comes only from
  replayed records. Whether that matters depends on configuration sync with
  the meta server, which is not in `src/`.

## Plan for further work

- **Checkpoint and recovery.** A composition of `ReplicaCheckpoint` with a
  crash and `ReplicaInit`'s reload is not built. `gc` reclaims the private
  log only up to the app's durable decree, which only grows. So a reload
  always finds every decree above it, and the composition would add states
  without a new question. `MutGc`, a gc up to the committed decree, shows
  the one way this could break: the catch-up then never fills the gap, and
  `CheckpointTerminates` catches the endless rescheduling.
- **Whole-configuration log.** `ConfigLogAbstract` abstracts the
  configuration to its ballot. A refinement to a log of whole configurations
  does not hold: `RecoveredStateMatches` shows that a restart can serve
  another configuration under the same ballot.
