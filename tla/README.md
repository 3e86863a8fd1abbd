# SeaTunnel X in TLA+

SeaTunnel X is an operations platform for Apache SeaTunnel: a control plane (Go,
`internal/`), an agent on every host (Go, `agent/`), a Java proxy in front of the
engine's libraries (`tools/stx-java-proxy`) and a web front end (`frontend/`).  This
directory holds TLA+ models of the parts whose correctness depends on the order of
things: goroutines that sleep while commands run, streams that break under a command,
workers that outlive their cancellation, restarts of either side, timeouts that race
late answers.  TLC checks the models on small instances; TLAPS proves the central
theorems for every instance.  `PROJECT.json` lists the runs, the source lines behind
every definition, the hazards and the theorems.

- [1. The system](#1-the-system)
- [2. Modules](#2-modules)
- [3. Runs](#3-runs)
- [4. Bounds and fairness](#4-bounds-and-fairness)
- [5. Proofs](#5-proofs)
- [6. What the code does not keep](#6-what-the-code-does-not-keep)
- [7. Plan](#7-plan)
- [8. What is not modelled](#8-what-is-not-modelled)

## 1. The system

### Parts with a protocol of their own

| Component | State | Operations | Hard behaviour | Correct when | Module |
|---|---|---|---|---|---|
| Process monitor, auto restarter, process manager (`agent/internal/monitor`, `restart`, `process`; handlers in `agent/cmd/main.go`) | tracked processes with manual-stop mark and `restarting` flag, restart history, process table, `Enabled`; all in memory | monitor tick, crash handler, start, stop, restart, configuration refresh | the handler sleeps for the restart delay while commands run; status check and `Store` are apart; an agent restart forgets everything | the limit and the cooldown bound restarts, a mark freezes them, no process is left at `starting`, a crash is acted upon | `AutoRestart` |
| Command channel (`internal/apps/agent/manager.go`, `internal/grpc/handlers.go`, `internal/router/router.go`, `agent/internal/grpc/client.go`, `agent/internal/executor`) | connection, command contexts, audit rows; executor and its handlers on the agent | send and wait, send and poll, stream loop, progress, reply, log update | the stream breaks or is replaced under a command, replies come late or never, the caller gives up, two goroutines write the audit row | the caller is answered once and truthfully, the row keeps a success, every caller returns | `CommandDispatch`, `CommandOutcome` |
| Agent link (same files, and `internal/apps/host`) | connection record and host row; heartbeat, stream and reconnect goroutines | register, heartbeat, timeout sweep, stream set-up and end, reconnect | the record is updated field by field; either side crashes; a reconnect overlaps the old stream's end | the link repairs itself, a dead agent is noticed, a stale stream never displaces a live one | `AgentLink` |
| Package download (`internal/apps/installer/service.go`) | the task of a version, its worker, the temporary and the final file | start, cancel, download, move, publish | a cancelled worker runs on and shares its paths with the next | an ended task has no worker, a completed one has left a whole file | `PackageDownload` |
| Installation of a host (the same file, `internal/apps/cluster/scale_executor.go`) | the host's installation, its goroutine, the install command, the node | start, retry, cancel, poll; the scale-out step | cancelling stops nobody; a second run replaces the entry the first is polled by | success is earned, runs do not overlap, a run ends | `Installation` (on `PackageDownload`) |
| Synchronisation jobs (`internal/apps/sync`, with the records of `internal/apps/execution`) | job row, execution record; the job in the engine | submit, resume, reconcile, refresh, expire, stop | the answer of a submit is lost, every actor works on an older copy of the row, the engine still shows the run before | an end is true, a stop is not taken back, a row settles | `SyncJob` |
| Cluster scaling (`internal/apps/cluster/scale_*.go`) | saved operations with their steps; hosts, member lists, records | submit, run, retry, recover | a crash between an effect and its row, lists that are older than the cluster | one operation at a time, each keeps its plan and its progress, a join and a stop are real, an operation ends | `ScaleExecution`, `ScaleOutcome` |
| Upgrade of SeaTunnel (`internal/apps/stupgrade`, with the records of `internal/apps/execution`) | task, node statuses, execution; what a rollback needs in a goroutine only | start, cancel, the steps of the upgrade and of the rollback | commands fail before, within or after their effect; saves fail | a reported success or rollback is real, the old version is kept, what is told is told once and stays true | `ClusterUpgrade`, `UpgradeOutcome` |
| Self upgrade (`internal/apps/selfupgrade`) | executable and backup, the task's files, the watchdog in a process of its own | swap, hand over, wait until ready, roll back, resume | the process replaces itself; either process dies at any step | what the upgrade began with is kept, the record is true, a control plane comes back | `SelfUpgrade` |
| Event reporter (`agent/internal/monitor/event_reporter.go`) | bounded cache, connected flag | report, flush | batches that fail half-way, overflow | no event is lost below the bound, order | planned |
| Rollout of agent upgrades (`internal/apps/selfupgrade/agent_rollout.go`) | nodes of the rollout | update, wait for reconnect, roll back | late or wrong-version agents | every agent is on the version that is recorded | planned |
| Alert episodes and delivery retry (`internal/apps/monitoring`) | episodes, deliveries | fire, recover, retry | an episode ends while its message is on its way | each episode told once, its end after its start | planned |
| Package pull (`agent/internal/executor/package_pull.go`, `internal/apps/agent/package_transfer.go`) | chunks, partial file | begin, chunk, finish | the stream breaks between chunks | the file is whole | planned |

The remaining parts (editing of tasks, hosts, plugins, users and configurations,
discovery, metrics, rendering, the command line, the front end, scripts) are listed in
`PROJECT.json` with the reason they are left out; section 8 groups them.

### How the parts interact

    operator --HTTP--> router/services --SendCommand--> agent manager --stream--> agent
                          |   |                             ^   |                   |
                          |   +-- audit row (command log) --+   +-- host row        +-- executor
                          |                                                         |     |
                          +-- installer: download worker, installation goroutine    |     +-- command handlers
                          +-- scale-out: polls the installation                     |            |
                                                                                    |      process manager
                                                  heartbeat/stream/reconnect loops -+            ^
                                                                                                 |
                                                                  process monitor --> auto restarter

The agent manager keeps connections and command contexts in memory only; the host row,
the audit row and the node row are in the database.  The agent keeps everything in
memory: after a restart it learns what to watch from `UPDATE_MONITOR_CONFIG`.  The
modules meet at these interfaces:

- a command handler of `AutoRestart` is the `work` of one command in `CommandDispatch`;
- the installation's polled command in `Installation` is an asynchronous command of
  `CommandDispatch`: it becomes terminal at most once, to success only after the
  agent's handler has succeeded, and may fail while the handler still runs;
- a command of a step in `ScaleExecution` or `ClusterUpgrade` is such a caller too: it may
  fail before or after its effect, because an error promises nothing of the handler;
- the step that installs a node in `ScaleExecution` is the polling in `Installation`;
- the statuses of an execution record move in `SyncJob` and `ClusterUpgrade` by the same
  conditional updates, and a cancel asks whichever module owns the record;
- `CommandDispatch` lets streams come and go and the connected flag flip at will;
  `AgentLink` says when they do.

## 2. Modules

Every action is one stretch of code between two lock sections or blocking calls, so
that TLC explores every interleaving the mutexes allow.  Operators whose name has an
underscore (`Apply_WakesAlways`) are plausible mistakes in the action they precede; they
are in no next-state relation and serve to show that each property can tell the code
from a broken one.

### AutoRestart

One actor per goroutine: crash handlers (`OnProcessCrashed`) and commands.  `tracked` is
`ProcessMonitor.trackedProcesses`, `history` is `AutoRestarter.restartHistory` with the
recorded restarts of the window and the cooldown's phase, `processes` is the process
manager's table, `alive` the JVMs the operating system really runs, `actor` the program
counters.  `stopped` is a history variable: the operator's last command for the process
was a stop, and it succeeded.

- `MonitorCheck` is one pass of `checkAllProcesses` over a process: healthy, failed
  below the threshold, crashed, or registered with PID 0 and waiting to be started.
- `Refused`, `Granted`, `Wake`, `RecordRestart`, `UpdateProcessPID` are the crash
  handler.  The copy of the process it was handed is `flag` (the mark at that time).
- `StartRefused` to `ReadStatus` are `StartProcess` and `GetStatus`, run by handlers and
  commands alike; the owner field says whether the table still holds the record this
  goroutine stored.
- `BeginStart`, `BeginStop`, `BeginRestart`, `BeginRefresh` and the steps after them are
  the command handlers of `agent/cmd/main.go`.
- `ProcessDies` and `AgentRestarts` are the environment.

Time is not measured: a sleeping handler may wake at any step, a restart may leave the
counting window, a cooldown may end.

### CommandOutcome and CommandDispatch

`CommandOutcome` is what a caller of the channel may rely on: the agent carries a
command out at most once, the caller is answered once, "success" means the handler has
succeeded, "refused" means the agent has not seen the command and never will.  An error
promises nothing: the handler may still run and succeed.

`CommandDispatch` is the channel.  `caller` is the goroutine of
`agentCommandSenderAdapter.SendCommand` (`Sync`) or `Manager.SendCommandAsync`
(`Async`); `context` is the `CommandContext`; `log` the audit row's status; `server`
the goroutine that serves a stream; `down` and `up` what is under way on each stream;
`agent` and `work` the executor and the handler.  The steps of `HandleCommandResponse`
(look at the context, store the last status, wake the caller) and the later
`updateCommandLog` are separate: two streams' goroutines and the caller may interleave
between any two.  A broken stream loses what the agent has not received and any tail of
what the server has not; what the server has buffered is still handled, possibly beside
a newer stream.  `KeepsOutcome` states that it implements `CommandOutcome`, with the
caller's answer and the handler's work as the mapping.

### AgentLink

One agent and the control plane.  `conn` is the `AgentConnection` (status, stream,
recent heartbeat), `host` the row's `agent_status`, `beat`, `reg` and `checker` the
handlers that update them in several steps, `stream` the `CommandStream` handlers,
`link` the agent's `grpc.Client`, `hb`, `loop`, `wanted` its goroutines.  Faults:
`Break` (the transport), `Crash` (the control plane; connections are forgotten, the row
stays), `Die` (the agent), `ExpireLate` (thirty seconds without a heartbeat although the
agent lives), `Monitor` (a reconnect asked for by the connection monitor that runs late
and tears the new link down).  `LateStreams` says whether the server may see a stream's
first message after that of a newer stream.

### PackageDownload and Installation

`PackageDownload` has a task and a worker per download of one version.  All tasks of a
version share the temporary and the final path, so a file is named after its creator,
remembers who truncated it last and whether that worker has written everything.
`Installation` extends it with the installations of one host: `run` is the
`InstallationStatus` with its goroutine, `current` the host's entry, `command` and
`install` the install command's polled status and what the agent has done, `node` what
became of the run's node, `scale` the scale-out step that starts an installation and
polls the entry.  `cancelled` is a history variable.

### SyncJob

One run of a synchronisation task.  `row` is the `JobInstance`, `exec` the execution
record, `engine` what has become of the job in the engine, including calls that are on
their way or lost.  `act` has one goroutine per actor: the runner (`runWithExecution` and
the submit), the reconciler and the callers that stop the job.  Each holds the copy of
the row it loaded, writes some columns of it later, and moves the record by the
conditional update of `internal/apps/execution/repository.go`.  `Answers` is what the
engine says of the job; before a resumed run is registered that may still be the end of
the run before.  `ObservedStatus` is the whole of `refreshJobInstance`'s decision.
`Crash` ends every goroutine and keeps row and record; `late` says that the deadline of
an unknown submit is over.

### ScaleOutcome and ScaleExecution

`ScaleOutcome` is what the list of a cluster's scaling operations promises: at most one is
under way, each carries out the plan it was submitted with, its steps are done one by one
and stay done over failures and retries, and it succeeds only at the end of them, once and
for all.  It knows nothing of goroutines, crashes, lost saves or hosts.  `ScalesAsPlanned`
states that `ScaleExecution` implements it; the plan is what a submit has
validated and saved, its size the number of steps that `Steps` computes from it.

The scaling operations of one cluster.  `ops` are the saved operations, with the number
of steps that are done, `gor` the goroutine of each; `world` is the cluster as it is
(processes, what each has joined, member lists on disk) and as it is recorded (records,
statuses, configuration).  A step is one action that works on the hosts and reaches an
outcome (`at = "out"`), and `Save` writes it: a crash between them makes a retry run the
step again.  The steps that visit several nodes (`fix_loopback`, `rolling_restart`,
`stop_node` with its grace) are one action per node.  `restarted` and `ranThen` are
history variables for the properties.  A check of a process that fails on an online host
is an answer all the same, "nothing runs" (`Misread`, `FindsStopped`): the adapter of the
command channel turns a failed response into `false` without an error.  `at = "lost"` is an
operation that is saved as running with nobody at work on it.

### UpgradeOutcome and ClusterUpgrade

`UpgradeOutcome` is what the operator who reads the task may rely on: an end is told once;
a cancelled upgrade has not begun and never will; after a success, or a rollback that is
told to have succeeded, every node is on that version and stays there.  `KeepsPromise`
states that `ClusterUpgrade` implements it.  What is told is read off the task and the
execution (`Told`), the version of the cluster off files, records and processes
(`Cluster`: `old` and `new` only if all nodes are), `begun` is the history variable
`touched`.

One upgrade of one cluster: `task` and `nodes` are what is saved, `gor` what the
goroutine knows, `disk`, `backup` and `proc` the hosts, `exec`, `open`, `bound`,
`cancel` the execution record and a cancel of it.  `Upgrade`, `Rollback` and
`KeptRunning` are the sequences of steps; `NodeStep` is a step on one node with its
failures before, within and after the effect; the saves around it are actions of their
own.  `gor.settled` are the nodes that the goroutine's own copy has at the end of the
rollback; that copy is changed before it is saved, so a node whose save fails is in
`settled` with an older status on record, and a later settlement passes it over
(`Unsettled`).  `unsaved`, those nodes, and `touched` are history variables.

### SelfUpgrade

The control plane (`cp`), its watchdog and the files both read: executable and backup,
task, plan, ready marker, result.  The first group of actions is the task up to the
hand-over, the second a control plane that starts and finds a task, the third the
watchdog.  Whether a process manager runs the control plane (`managed`) and what is
wrong with each version (`defect`) are chosen once.  `rec` is the task's record,
`unwatched` a history variable for `Concludes`.  `Execute` does not look at the
executable: `from` is the version that runs, `began` (a history variable) the executable
that is there, and after an upgrade that failed early, or succeeded over an executable the
watchdog had put back, they differ.

## 3. Runs

| Run | Instance | Shows |
|---|---|---|
| `ar_overlap` | one process, two handlers, one command of any kind, limit 1 | `StartingHasOwner`, `RestartBudget`, `CooldownBlocks`, `MarkFreezesRestarts` while two handlers overlap a command, agent restarts included |
| `ar_live` | one handler, threshold 2, fair | a dead process is acted upon once commands cease (`CrashNoticed`) |
| `ar_manual_stop` | start and stop commands | violated: a stop during the restart delay is undone by the sleeping handler |
| `cd_sync` | a synchronous and an asynchronous command, two streams, one report | `NoFalseSuccess`, `SuccessIsLogged`, and the refinement `KeepsOutcome` |
| `cd_live` | the same on one stream, fair | every caller returns (`CallerReturns`); a polled status settles if its stream holds (`AsyncSettles`) |
| `al_stable` | two streams, two faults, fair, no late streams | the link repairs itself (`Stabilises`); a dead agent is noticed (`DeadIsNoticed`) |
| `in_safety` | two runs, one download, every plan | `SuccessIsEarned`, `OverlapNeedsCancel` |
| `in_live` | one run, two downloads, fair | `EndedMeansStopped`, `CompletedIsWhole`; a run ends if the download is not cancelled (`EndsIfNotCancelled`) |
| `sj_run` | one canceller, one stop, one crash, fresh or resumed, fair | `EndedIsTrue`, `CancelKept`; the row of a job that is over becomes final (`Settles`) |
| `sc_run` | three hosts, two members, two operations, one retry, two faults (failed checks, loads and saves among them), fair | `OneAtATime`, `JoinIsReal`, `CleanupFindsStopped`; an operation ends and leaves the cluster to the next (`OperationEnds`); the refinement `ScalesAsPlanned` |
| `up_run` | two nodes in place or not, three faults | `RollbackIsReal`, `OldVersionKept`, `NodesFollow`, and the refinement `KeepsPromise` |
| `su_run` | three versions with any defects, three tasks, three faults, managed or not, fair | `RecordIsTrue`, `OldKept`; a control plane serves again and the task is concluded (`Concludes`) |

Each module's type invariant is an invariant of its first run.  Every property has a
mutated definition that breaks it.

What some of the properties say, and why they are not obvious:

- `RestartBudget`: `ShouldRestart` counts recorded restarts, not granted ones, so `k`
  handlers asleep at once may exceed the limit by `k - 1`.  The property says that this
  is all they can do.  A second handler for the same process needs a `Track` (start,
  restart or refresh) while the first sleeps, because that replaces the entry together
  with its `restarting` flag.
- `StartingHasOwner`: `StartProcess` refuses a process that is `starting`.  If any exit
  path left that status behind, or a second starter's record were overwritten by a first
  one that does not own it, no later start would ever be accepted.
- `SuccessIsLogged`: the caller's `recordCommandLog` and the stream goroutine's
  `updateCommandLog` write the same row without looking at what it holds.  It stays
  right only because a success is the last thing an agent says about a command, and the
  proof in section 5 is about exactly that.
- `NoFalseSuccess`: progress reports travel on the agent's current stream, replies on
  the stream of the request; the executor's timeout answers while the handler runs on.
  None of them may ever look like success.
- `Stabilises`: after a control-plane crash the heartbeat, the stream loop and the
  reconnect ask for a registration, in any order, while streams are refused and the
  checker may mark the agent offline.  No order may end in a state that looks healthy on
  one side only.
- `SuccessIsEarned`: the scale-out polls the host's entry, which the operator may replace
  by starting, retrying or cancelling another installation; it must still see its own.
- `EndedIsTrue`: the runner, the reconciler, refreshes and cancellers each act on a copy.
  What keeps an end true is that observers write status columns only, that a resumed run
  takes no end before the engine has shown it alive, and that an answer of "not found"
  counts only for a row that is being cancelled.  Two ways of giving up are exempt and
  named in the model: the deadline of an unknown submit, and a plain stop that does not
  wait for a savepoint.
- `JoinIsReal`: membership is verified against a list that was taken when the operation
  was validated, perhaps before a crash and a retry.  The property speaks of what was
  found running at that time on online hosts and of what the node has really joined.
- `CleanupFindsStopped`: the step that deletes the record looks at a status that an
  earlier step observed, in a different goroutine if the operation was retried.  It may
  be that of a process which was started since, or whose check had failed, and of no other.
- `OperationEnds`: a row that stays running keeps the cluster from every later operation.
  It may do so only where a load or a save has failed at one of four places (the start of
  the goroutine, the failure of a start, the end, the recovery after a restart).
- `ScalesAsPlanned`: a retry, a restart and a save that is lost each touch status and
  progress on their own; a step counted twice, a list of steps that is computed afresh from
  a plan that has changed, or a success over a step that was passed would each break it.
- `RollbackIsReal`: which directories to restore, which nodes to restart and which
  records to put back depends on how far the upgrade got on each node; each of the steps
  may itself fail half-way and be passed over.
- `NodesFollow`: a failed rollback settles its nodes twice, in `failStep` and in
  `executeTask`, each time passing over those which the goroutine's copy has at an end.
  Only a node whose own save has failed may disagree with the task; those behind it in
  the first settlement are reached by the second.
- `KeepsPromise`: the record is moved by the cancel and by the goroutine's first step, and
  whoever is second must see it; an end is saved in several steps, each of which may be
  lost; and after it agents still restart processes, from whatever is on disk.
- `OldKept` and `RecordIsTrue`: between the removal of the executable and its copy
  there is none; the task is concluded by whichever process finds its files first, on
  the strength of the version it happens to be.  Both speak of the executable the task
  began with.  That this is the version that ran, which the record names, is not so:
  section 6.
- `Concludes`: the watchdog, the process that waits and the one that starts may each be
  the only one left.  The property lists what it takes for nobody to be left: a version
  that cannot serve where no watchdog is at work.

## 4. Bounds and fairness

Bounds that are part of the instances: the number of goroutines (`Handlers`,
`Commands`), commands and streams, `MaxStreams`, `MaxReports`, `MaxFaults`, `MaxTasks`,
`MaxRuns`.  Counters that the code leaves unbounded do not grow in the models: the
recorded restarts are bounded by the property itself, failed checks by the threshold.

- One managed process is enough for `AutoRestart`: entries of different names share only
  `Enabled` and the pass of a refresh.  Two handlers are the smallest overlap; the
  theorems hold for any number.
- One command of each kind is enough for `CommandDispatch` because contexts, rows and
  handlers are kept by command; two commands still share the streams' order and the
  server's goroutines.  Two streams give a broken stream whose messages are handled
  beside a newer one.  The theorems hold for any number.
- Two streams and two faults for `AgentLink`: a fault while the repair of another is
  under way.  A third stream only waits for one of the two handlers; a new stream takes
  a given free one, since handlers are interchangeable.
- Two runs of `Installation` give one superseded installation; two downloads one worker
  that was cancelled beside its successor.

- One run of a task for `SyncJob`: runs of a task share only the guard of a submit, and
  a resumed run takes the engine's memory of the one before it along (`recover`).  One
  stop and one crash give a stop on each side of every crash point.
- Three hosts for `ScaleExecution`: a member, a member on a localhost list, and a host
  that joins; either of the two masters may leave.  Two operations overlap the retry of
  one with the other; two faults break an operation and disturb its retry.
- Two nodes for `ClusterUpgrade`, one of which can have failed when the other has not,
  in each combination of in-place and two-directory upgrades; three faults break the
  upgrade, a step of the rollback and a save.
- Three versions and three tasks for `SelfUpgrade`: a success, a task that fails early and
  so puts the older backup in place, and one that begins over it; three faults: a task that
  fails, its watchdog and what comes after.

Symmetry is used in `ar_overlap` (handlers and PIDs) and `up_run` (nodes), neither of
which has a liveness property.

Fairness only asks what the Go scheduler and timers give:

- `AutoRestart`: the monitor's and the manager's tickers keep ticking, goroutines keep
  running (`StartProcess` and `StopProcess` are bounded by timeouts), cooldowns pass.
  Nothing obliges operators, JVMs or the counting window.
- `CommandDispatch`: a caller's timeout fires (it is a disjunct of the wait), streams
  that are open deliver, the executor answers at the latest with its timeout.  Nothing
  obliges a stream to open, to break or to be re-opened.
- `AgentLink`: handlers and loops run, the backoff of a reconnect ends, the control
  plane is started again; an agent that died may stay dead, faults are never obliged.
- `Installation`: goroutines and workers run, network calls end, a command that was sent
  becomes terminal (`cd_live` shows this for a stream that holds; the sweep that fails
  the others is a timeout).
- `SyncJob`: the goroutines run, the reconciler's ticker ticks, a deadline passes.  The
  one strong fairness of the project: an engine that is asked again and again
  answers at some time (`Answered`); each single query may fail, and between two queries
  nothing is enabled.  Without it the row of a job whose engine never answers again
  stays as it is, which is what the code intends.
- `ScaleExecution`: the goroutine of an operation goes on (its commands and waits have
  time limits), one operation at a time.
- `SelfUpgrade`: goroutines and the watchdog go on, their waits have limits, and a
  control plane that is down is started again, by its manager, the watchdog or, when no
  watchdog is at work, an operator.

`CHECK_DEADLOCK FALSE` is set for the installation, synchronisation, scaling and upgrade
runs: with every download, run, operation, stop and fault used up, the models have
nothing left to do.

## 5. Proofs

Every invariant and every action property that a passing run checks is a theorem of its
component's specification; the theorems without a run property say what such a property
only implies, or what a liveness property of the runs rests on.

`AutoRestart_proofs`

- `TypeCorrect`: `Spec => []TypeOK`.  The type invariant is not inductive as it stands:
  an action on `actor[a].name` keeps the type only if a busy goroutine names a process
  (`NamedWhenBusy`), and `consecutiveFails` keeps its range only if the count stays
  below the threshold outside a restart.  The inductive invariant adds both.
- `FailuresCounted`: `Spec => []FailsBelowThreshold`, the second of them: a count that
  stayed at the threshold unguarded would start a crash handler at every tick.

The other four rest on the same `Inv`.  The lemma `EveryMove` says what any step does to
one crash handler (`Moves`): nothing, it ends, it goes on with the same process and the
same copy of the mark, it is triggered, or it is granted a restart.

- `MarkHolds`: `Spec => MarkFreezesRestarts`, from `EveryMove`: a handler triggered for a
  marked process has been told so, and a told handler is not granted.
- `BudgetKept`: `Spec => []RestartBudget`, for every limit and every number of handlers.
  A handler joins the pending ones only by being granted (`PendingShrinks`), which it is
  only with room in the window and no cooldown (`GrantedHasRoom`); `HistoryMoves` says
  what a step does to the window.  A granted handler was not pending, so at that moment
  at most all the others are; a recorded restart leaves the pending ones.
- `CooldownHolds`: `Spec => []CooldownBlocks`.  A cooldown starts with a refusal, the
  refused handler is not pending, and nobody is granted until the cooldown ends.
- `StartingOwned`: `Spec => []StartingHasOwner`.  `StartingStored`: only the `Store` of a
  start puts an entry at `starting`.  `InScriptMoves`: its goroutine stays inside the
  script with the same process until it has written another status.

`CommandDispatch_proofs`

- `TypeCorrect`, and `SuccessIsTrue`: `Spec => []NoFalseSuccess`.  The inductive
  invariant `Inv` has three parts.  `TypeOK`.  `Once`: the agent sees a command once,
  never before it is sent and never if it is refused; a request waits on one stream
  only.  `Honest`: wherever a success is on its way (on a stream, in a goroutine's
  hands) or kept (last status, result, answer, row), the handler has succeeded.  Without
  `Honest` for messages nothing is known of a response when it is received; without
  `Once` an accepted request could set a finished handler back to running.
- `OutcomeKept`: `Spec => KeepsOutcome`, the refinement of `CommandOutcome`.  Every step
  maps to a step of the abstract specification or to a stutter, `Inv` providing that a
  refused command is unseen and that a result of "success" is the handler's.
- `SuccessLogged`: `Spec => []SuccessIsLogged`.  The invariant `LogInv` adds `Ordered`
  and `Logged`.  `LastIsOpen`: only the stream opened last can be open.  `BeforeReply`:
  until the agent has replied everything said about a command is progress, and while
  the request's stream is open all of it is on that stream.  `LastWord`: a success has
  nothing behind it on its stream and nothing beside it on any other; in a goroutine's
  hands, it is all there is; once it has woken the caller, only its own goroutine may
  still write.  The steps that only lose messages are one lemma (`OrderedShrinks`), the
  steps that say something another (`PutOrdered`).
- `AnswerOnItsWay`: `Spec => []AnswerIsComing`, the safety half of `AsyncSettles`: while
  the stream of a polled command's request holds, the request is on it, or the agent has
  yet to answer, or the answer is on that stream and will be stored, is being stored, or
  has been.  `Coming` follows the reply along that way, and says that before the agent
  has replied nothing looks like a reply, so that no progress report marks the context
  done.  While the request's stream is open nobody but its goroutine has messages of the
  command in hand (`InItsHands`, from `BeforeReply`); a break of another stream loses
  nothing of it (`Opened`, `LastIsOpen`).

`ClusterUpgrade_proofs`

- `OldVersionSafe`, `SuccessHolds`, `RollbackHolds`, `CancelHolds` and `TypeCorrect`:
  `Spec => []OldVersionKept`, `[]SuccessIsReal`, `[]RollbackIsReal`, `[]CancelIsFinal`
  and `[]TypeOK`, for any number of nodes, any division into upgrades in place and into a
  second directory, and any number of faults.  None of them is inductive: what a success
  claims was done many steps earlier.  The invariant says it step by step.  `BackedUp`:
  which nodes have a backup, and that a directory outside of `gor.paths` is untouched.
  `Reached`: the effects of each step of the upgrade, on all nodes once the upgrade is
  beyond the step and, while it is at it, on those it no longer has to do (`Past`); a
  process that was stopped stays so until it is started, which is why no agent brings
  it up again from a directory that changes.  `Returned`: the same for the rollback,
  and that a cluster which was not stopped and has nothing in place is `AsBefore`; this
  is what lets `KeptRunning` restore nothing.  `Cancelled`: a task that has begun is
  never cancelled.  `Reported`: a success is written after the last step only.
- The steps left are a sequence.  `StepIs` and `TailIs` turn each rest into the name of
  its first step, so that a case of a proof is a step of the upgrade.  `FrameInv` covers
  all the actions that touch neither hosts nor records; `DiskIs`, `ProcIs`, `ActsOn` and
  `OutcomeIs` say what one command does and what the goroutine makes of it.
- `NodesFollowTask`: `Spec => []NodesFollow`.  The nodes and the task are saved by different
  steps, so an invariant `Follow` is proved on top of `Inv`.  `EndsLate`: for the goroutine
  or on record, a rollback has ended only where no node is worked on any more.  `Marked`:
  the nodes reach the status of the end before the task does, one by one in the last
  check of a rollback, together where an upgrade ends.  `Leaves` and `Between` are the
  steps that cannot disturb either.  `Copied` is about the goroutine's copy: a node that is
  at its end there is so on record too, or is one of `unsaved`, and no step of the rollback
  begins with such a node.  Without it nothing is known of the nodes that a settlement
  passes over.
- `PromiseKept`: `Spec => KeepsPromise`, the refinement of `UpgradeOutcome`.  A step either
  leaves task and execution alone or leaves the cluster alone, or it starts a step of the
  upgrade (`TellsOrWorks`), so each is one of the abstract `Work`, `Tell` and `Begin`, or a
  stutter.  What was told stays (`ToldOnce`) because the goroutine has left the task, up to
  its last save, which repeats what it has saved (`Agree`); before the first step nothing
  but a cancel can end the task, and the cluster is as it was (`Quiet`).
- `SuccessHolds` states what `KeepsPromise` only implies; the other properties of `up_run`
  have a theorem each.
- `EndedTaskRests`: once a task is marked as ended, no step changes the task, a node, its
  files and backups, the cluster's record or its version.  `Ends` adds to `Inv` that the
  goroutine of such a task is through with its steps or has not begun them.

`SelfUpgrade_proofs`

- `OldVersionSafe`: `Spec => []OldKept`, `RecordTrue`: `Spec => []RecordIsTrue`, and
  `TypeCorrect`.  The invariant adds to the types: `InProcess`, the process works on a
  task or waits for its end; `Handed`, the files of a task exist from the hand-over to
  its end, and a result only once the watchdog is gone; `Open`, nothing is recorded
  before the end and until then the executable the task began with is there or backed up;
  `Swapped`, what each step of the goroutine and of the watchdog has done to executable and
  backup; `Unmanaged`, without a process manager what runs is the executable, from the
  hand-over to the record.  `Swapped` carries the proof: two processes write the same two
  files and both can die between any two steps.  Nothing in the invariant says that a task
  begins with the executable of the version that runs; what it keeps is `began`.
- `RestsOnlyWell`: `Spec => []RestsWell`, the safety half of `Concludes`: where none of
  the steps that only the code takes is due (`UpgradeDue`, `ResumeDue`, `StartDue`,
  `WatchDue`), the task is concluded and a control plane serves, or the task was left to
  itself, or began with an executable that does not run, and nothing could run.  It rests on `Onward`, which follows the task through both
  processes: what serves has no defect and what a rollback starts has run before (`Runs`,
  `WayBack`), a success is the target's (`Succeeds`), a process that runs does not forget
  the task (`Cares`), and outside of the watchdog's work the executable would run and so
  does the process (`Saved`).
- `OneWrites`: while a watchdog is at work, a step that is not its own leaves executable,
  backup, front end, the files of the task, its result and its record alone.  By `Handed`
  the goroutine of the old process can only leave, and a new process only wait.  It ends
  where the new version was found ready without a manager (`Passed`): then the watchdog has
  the front end left, and the wait for its result has a deadline that a front end which is
  slow to start can outlast.

`ScaleExecution_proofs`

- `OneWorks`, `JoinedIsJoined`, `CleanupIsSafe` and `TypeCorrect`: `Spec => []OneAtATime`,
  `Spec => JoinIsReal`, `Spec => CleanupFindsStopped` and `Spec => []TypeOK`, for any set
  of hosts and any number of operations, retries and faults.  The invariant adds to the
  types: `Ahead`, a goroutine at work has a step left; `Alone`, only one operation is
  running and goroutines work for running operations only; `Referred`, a live reference
  names a node with a record; `Remembered`, the saved baseline of an operation holds every
  node that was found running on an online host when it was validated, so that a retry, which starts
  after the validation, still asks for them; `Stopped`, a scale-in that is through
  `stop_node` has a node that is stopped, was restarted since, or whose check had failed.
  `Stopped` reaches over
  saves, failures and retries because the progress of an operation is saved with the
  outcome it rests on (`SaveOutcomeInv`).
- `StepInv` is the frame of every step of an operation, `OutsideInv` of what users,
  agents and processes do, `ActivateInv` of submit and retry, `GoesOnInv` of the saves.
  The list of steps depends on the plan; `OutStepsAre`, `InStepsAre` and `AtStep` say which
  step can come where.
- `RetriesGoOn`: `Spec => [][\A o \in Ops : KeepsSteps(o)]_vars`.  The plan of a submitted
  operation stays, so that the count of steps done has a meaning over retries; the count
  grows by one, and only by the good outcome of the step it stands at; a success is
  final.  `SuccessIsWhole`: an operation that succeeded has done all the steps of its
  plan (`Whole`, which also holds where that is about to be saved).
- `PromiseKept`: `Spec => ScalesAsPlanned`, the refinement of `ScaleOutcome`.  `Kept` is the
  promise as a relation of two states of the operations: all rest, or one is submitted,
  stepped, ended or retried while the others rest.  Each action has a lemma that it keeps
  it.  A submit and a retry need that nothing else runs, which is `Alone`; a step needs
  `Ahead`, an end `Whole`, and a submit `Fresh`, that nothing is done of what was not
  submitted.  A recovery ends the running operation, of which `Alone` says that there is
  only one.
- `NobodyForgotten`: `Spec => []WaitsForSomebody`, the safety half of `OperationEnds`: the
  goroutine of a running operation is at a save or in a step, or the step it comes to is
  one that `runStep` knows and can decide, unless a failed load or save has left it without
  one (at the start, at a failed start, at the end or in the recovery).  It needs `Manned`,
  that a running operation has its goroutine or is one of those, after every crash too, and
  `Referring`, that a scale-in keeps a reference to its node: without one, live or gone,
  `stop_node` could be left by nobody.

`Installation_proofs`

- `SuccessEarned`, `OverlapCancelled` and `TypeCorrect`: `Spec => []SuccessIsEarned`,
  `[]OverlapNeedsCancel` and `[]TypeOK`; `DownloaderStopped` and `PackageWhole`:
  `Spec => []EndedMeansStopped` and `[]CompletedIsWhole`; for any number of downloads and
  installations.  Downloads and installations have an invariant each, because neither
  reads more of the other than a status.  `Made` follows the files of the last task
  through its worker, and needs `Ranked`: the tasks before it have ended, unless two were
  at work together.  `Honest` says what a run has reached at each place of its goroutine,
  and that a published success is behind the last step; `Succeeded` that a run which has
  not ended shows `running`, which is what refuses the next one, unless it was cancelled.
- `NobodyForgotten`: `Spec => []WaitsForSomebody`, the safety half of `EndsIfNotCancelled`:
  an installation that has not ended has a step to take, or the agent works on its
  command, or the download it waits for has a worker or was cancelled.  `Asked`: what is
  waited for was asked for; `Working`: a task that has a status has a worker until it has
  ended.
- `MovesInv` is the frame of every step of a worker, `TurnsInv` of every step of a
  goroutine, `ShowsInv` of a retry and a cancellation.

`SyncJob_proofs`

- `EndsAreTrue`: `Spec => []EndedIsTrue`, `CancelIsKept`: `Spec => CancelKept`, and
  `TypeCorrect`, for any number of cancellers, stop requests and restarts.  Everybody acts on
  a copy of the row loaded earlier, so the invariant says of each copy what still holds
  when it is used (`Sound`).  A final status, once somebody carries it, is about a job
  that is over (`Over`), and no step takes that back (`Onward`).  While the submit is on
  its way, the row and the copies the runner saves and the reconciler asks about still
  wait for its confirmation (`Knows`): that is why an empty answer, or the end of the run
  before, ends nothing.
- `EndedExecutionStays`: an execution record that has ended keeps its status in every
  step, though each of its writers compares with a status it read earlier.
- `FinalRowStays` and `OneLookEnds`, what `Settles` asks of the steps: one look of the
  reconciler ends the row of a job that has ended, was lost or was forgotten, whatever
  the engine answers and whatever stop is under way, unless the row has changed since it
  was listed (`SeesTheEnd`), and the final status stays, whoever writes back an older
  copy.  Only the runner's save of its first copy is exempt (`db.Save` of the whole row):
  a refresh that comes before it may have ended the row, and the row then runs again
  until the next look.
- `Step` is the frame of what one actor does: it changes its own copy, takes no end of the
  job back (`Onward`), and so leaves the copies of all the others sound.  `RowStep` and
  `ExecStep` are the steps that change only the row or only the record.

`AgentLink_proofs`

- `TypeCorrect`, and the safety that the link's stabilisation (`Stabilises`, TLC) rests on,
  for any number of streams and faults.  `StreamsAreServed`: the connection never names a
  stream whose handler has ended.  `CommandsReachTheAgent`: it names the stream the agent
  listens to from the moment its handler serves it, where streams are not seen late.
  `NobodyWaitsInVain`: whoever waits for an answer waits for a handler at work, or for a
  stream that is broken.  `LinkIsMended`: a lost link has a reconnect due or running, and
  an agent that is not registered has a registration on its way.
- They need each other: a stream is served only if handlers end with the control plane
  and only a registration brings a connection back (`Forgotten`), commands reach the
  agent only if it listens to the one live stream (`Heard`) and new streams open one at
  a time (`OneOpens`), a link is mended only if a dead agent leaves nothing behind
  (`Dead`).  TLC found the whole invariant kept on two streams with three faults, for
  both values of `LateStreams`, before it was proved.  `Untouched` is the frame of every
  step.

All theorems hold for every value of the constants that the named assumptions allow:
`MaxRestarts`, `FailThreshold`, `MaxStreams`, `MaxTasks` of downloads, `MaxRuns` and
`Latest` positive, the other bounds natural, `LateStreams` a Boolean, command kinds
disjoint, actors of different kinds different, nodes not empty, and the handlers a finite
set, which the two theorems that count them need.  Commands, processes and streams need
not be finitely many.

Only model-checked: the liveness properties (the prover has no rules for fairness and
`ENABLED`) and the refuted statement of section 6.  The theorems that are called a safety
half say what such a property rests on: in every state in which it has still to happen,
somebody is due.  "Due" is spelled out as a state predicate on what each goroutine waits
for; TLC found `WorkDue` and the dues of `SelfUpgrade` to be exactly where the steps of
the specification are enabled, on the instances of `sc_run` and `su_run`.

## 6. What the code does not keep

One statement of a comment and a test is refuted by a run (`findings` in `PROJECT.json`
quotes them): `ManualStopHonoured`.  After the restart delay `OnProcessCrashed` looks at
`config.Enabled` only; a stop that was acknowledged meanwhile is undone.

The following are in the models and were met while writing them, without a run of their
own.  The properties name them as exceptions, or do not claim what they break.

Agent, commands, installation:

- when `ShouldRestart` refuses, nobody clears `restarting`; the monitor skips the process
  from then on and the counter is not reset when the cooldown ends;
- a configuration refresh replaces an entry whole and loses its manual-stop mark
  (`agent/cmd/main.go`, `Retrack`);
- with overlapping handlers the restart limit may be exceeded (`RestartBudget` says by
  how much);
- a command whose caller was cancelled may leave its audit row at pending:
  `recordFailedCommandLog` reads the row with the cancelled context (`Record`);
- `SetAgentStream` stores whatever stream its handler serves: if a stream's first message
  is handled after that of a newer one, the dead stream displaces the live one
  (`LateStreams = TRUE` violates `Stabilises`);
- the end of a dead agent's stream sets the connection to disconnected, and the heartbeat
  checker only looks at connected ones: the host stays online;
- the loop that waits for a download knows completed and failed, not cancelled: an
  installation whose download was cancelled waits for good (`EndsIfNotCancelled`);
- `CancelInstallation` stops neither the goroutine nor the agent, and a later success
  overwrites the status (`OverlapNeedsCancel` is what remains);
- a download that is started while a cancelled worker has not yet stopped shares its
  files (`together` in `CompletedIsWhole`).

Synchronisation jobs:

- a job that ends by a savepoint leaves its execution running or cancelling:
  `executionStatusFromJob` maps `savepoint_done` to running, which is no successor of
  cancelling;
- the runner saves the whole of its first copy, over a stop that was requested meanwhile
  (the exception in `CancelKept`); an unknown submit is expired without a condition;
- a crash between the move to cancelling and the call that stops the job leaves the row
  cancelling until the job ends by itself, as the design document says it does;
- `Execution.Cancel` before the record names its job, or against the runner's own move,
  leaves the record at `cancel_requested`.

Scaling:

- a retry goes on behind the steps that are done: after another scale-in removed the
  other master meanwhile, the retry of a scale-in removes the last one, which
  `validate_plan` refuses; a list patched before is not patched again, and a baseline
  with a node that has left is never verified;
- an operation stays running, with nobody at work on it, until a restart when its goroutine
  cannot load it (`runOperation` returns), when the failure of `activateExecution` cannot be
  saved, although its comment says that this never happens, or when its end cannot;
  the recovery after a restart, if it cannot list or save, leaves it for the next one;
- a `check_process` that fails on an online host answers "not running": a running process
  may be taken for stopped and its record deleted, and a node whose check failed at the
  validation is not in the baseline of a join;
- a crash between the creation of an operation's execution and `activateExecution` leaves
  that pending;
- nothing excludes a scaling operation and an upgrade of one cluster.

Upgrade of a cluster:

- an in-place upgrade removes the directory the running cluster was started from before
  it stops the cluster (`DISTRIBUTE` precedes `STOP_CLUSTER`);
- what a rollback needs is in the goroutine: after a restart of the control plane the
  task stays running and nothing takes it up; a failed save of `rollback_running` ends
  the goroutine without a rollback;
- a cancel that moves the execution just before the goroutine's own conditional update
  ends the goroutine with the task at running; a failed `BindModuleRef` or `UpdateTask`
  leaves the execution pending;
- a node's final status whose save failed is not repeated (`unsaved`): the settlement in
  `failStep` stops at it, that in `executeTask` passes it over because the goroutine's copy is
  at its end, and the node keeps `rollback_running` under a task that is `rollback_failed`,
  which the comment in `failStep` says a reader never sees;
- two upgrades of one cluster do not exclude each other.

Self upgrade:

- with a process manager the front end is replaced before the restart, and
  "the watchdog swaps it back on failure"; it does not when the plan cannot be
  written, the watchdog cannot be started, or gives up after a minute (`ahead => managed`);
- `finishRestart` trusts the version that runs, in a case that "should not happen": with
  a manager it does, when the watchdog has put the old executable back while the new
  process still runs.  The record is then "succeeded" over the old executable
  (`RecordIsTrue` claims the executable of a success without a manager only);
- a crash between the swap and the hand-over: the next start runs the new version, and
  there is neither a task nor a record; a crash during the copy leaves a torn executable;
- a manager that takes more than a minute to stop the old process: the watchdog
  reports a failure and is gone, and a defective new version then starts unwatched;
- a task that fails before it has touched anything (cancelled, or without a package)
  still runs `rollbackLocked`, which puts the backup of an earlier, successful upgrade
  over the executable (`rec.early`);
- `Execute` does not compare the executable with the version that runs.  After such an early
  failure, or a success over an executable that was put back, the next upgrade backs up the
  older executable and writes over it: the version that runs is then neither the executable
  nor its backup, and when the upgrade fails it is recorded as rolled back to that version
  although the older one was put in place.  `OldKept` and `RecordIsTrue` therefore speak of
  the executable the task began with (`began`).

## 7. Plan

Done, in this order: `AutoRestart` with its proofs, `CommandDispatch` with
`CommandOutcome` and its proofs, `PackageDownload` and `Installation`, `AgentLink`,
`SyncJob`, `ScaleExecution` with `ScaleOutcome`, `ClusterUpgrade` with `UpgradeOutcome`,
`SelfUpgrade`; the proofs of all of them.

Next, most important first:

1. `AgentRollout`: updates of agents that reconnect late, with a wrong version or not at
   all, and their rollback; `Rollout` of `SelfUpgrade` becomes its abstraction.
2. `EventReport` and `AlertDelivery`: bounded caches, retries, an episode that ends
   while its message is on its way.
3. `PackagePull` on the streams of `CommandDispatch`.
4. Diagnostics collection as a client of the execution records.

Theorems to come: the safety half of `CrashNoticed` (`NobodyWaitsInVain` and
`LinkIsMended` are this half for the link, `AnswerOnItsWay` for asynchronous commands,
`OneLookEnds` and `FinalRowStays` for synchronisation jobs, `RestsOnlyWell` for the self
upgrade, the two theorems `NobodyForgotten` for installations and scaling); abstract
specifications of an execution record and of a host's installation, with their
refinements.

## 8. What is not modelled

- Inside the modelled components: payloads, progress texts, log collection, output
  concatenation and redaction, metrics; host matching by address, TLS and remote
  configuration during registration; step lists and warnings of an installation.
- Inside the newer ones: parsing and rendering of jobs, drafts and templates, a second
  submit that passes the guard before the first row is written (`SyncJob`); checks that
  only read, plugins, monitor pushes and the java proxy, processes shared between
  clusters, merges after a split brain (`ScaleExecution`); the plan, plugins, the smoke
  test, and a command that acts after it was given up, perhaps over a restored directory
  (`ClusterUpgrade`); staging and downloading, the dry run and failing renames
  (`SelfUpgrade`).
- The rollout of agents is a step of `SelfUpgrade` that passes or fails.  What is not
  seen there: a late reconnect that was recorded as failed is not rolled back, and a
  command that timed out is recorded as having changed nothing although it may have.
- Two `Register` handlers of one agent at a time: the agent serialises its
  registrations; only an abandoned call could overlap its successor.
- Components that store and show rows without a protocol (hosts, plugins, users,
  configurations, dashboards, audit search), that read the operating system (discovery,
  metrics), that format or parse (task editing, diagnostics reports), or that are wiring
  (router, migrations, tracing), the front end, the Java proxy and the scripts.
