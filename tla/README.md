# Verification of the Aurora client, executor and Thermos

The repository holds the Python half of Apache Aurora: Thermos, which runs the
processes of one task on a host and survives its own crashes; the Aurora
executor, which runs Thermos for Mesos; the observer, which reads what Thermos
writes; and the client and admin tools, which talk to the scheduler. This
directory models them in TLA+, checks the models with TLC on small instances
and proves theorems about them with TLAPS.

Paths below are relative to `src/src/main/python/apache/` unless they start with
`twitter/`, which is `src/src/main/python/twitter/`.

## Inventory

| Part | State it keeps | Operations | What is hard | What makes it correct |
|---|---|---|---|---|
| Task runner (`thermos/core/runner.py`, `thermos/runner/thermos_runner.py`) | states of processes and task, the current plan, `_task_processes`, `_terminal_state`, deadlines, an append-only checkpoint | `control`, `run`, `kill`, `lose`; stages ACTIVE, CLEANING, FINALIZING | every record is written before it is acted on; crash and replay; signals in the middle of anything | the replayed log is the state; order constraints hold; every task ends with the right verdict; nothing survives it |
| Checkpoint dispatcher (`thermos/common/ckpt.py`) | none of its own: it changes a `RunnerState` | `dispatch`, `would_update`, `from_file` | sequence numbers of two writers, recovery mode | only legal transitions |
| Planner (`thermos/common/planner.py`) | four sets of processes, failures and runs per process | `set_running`, `add_success`, `add_failure`, `lost`, `runnable_at` | assertions that hold only in the right order, counters at their limits | nothing runs before its dependencies; retries stop |
| Coordinator (`thermos/core/process.py`) | one per running process: control of its stream, pid of its command | `start`, `execute`, `finish` | handshake with a parent that may die, death at any point | at most one writer of a stream; the last record tells the truth |
| Muxer (`thermos/core/muxer.py`) | one read handle per process | `register`, `unregister`, `has_data`, `select` | fast-forward to a watermark after restart and retry | every record is read once, in order |
| Helper (`thermos/core/helper.py`) | none | scans of pids, signals, checkpoint-only `kill` | pids seen at one moment and signalled at another | only our own processes are hit, and all of them |
| Executor (`aurora/executor/aurora_executor.py`, `executor_base.py`) | events `runner_aborted`, `runner_started`, `sandbox_created`, the status manager | `launchTask`, `killTask`, `shutdown` | start and shutdown on threads of their own | one terminal status update, the right one |
| Runner wrapper (`aurora/executor/thermos_task_runner.py`) | the popen of the runner, deadlines, dead and lost flags | `start`, `stop`, `is_alive`, `compute_status` | the runner may die at any time, in any task state | the status reported is that of the checkpoint |
| Status manager and checkers (`aurora/executor/status_manager.py`, `aurora/executor/common/status_checker.py`) | last status, list of checkers | polling, callbacks | order of checkers, first RUNNING, first terminal | callbacks once |
| Health checker (`aurora/executor/common/health_checker.py`) | attempts, consecutive failures and successes, `running`, `healthy` | one check per interval, snooze file | thresholds that meet at the same attempt | RUNNING and FAILED as documented |
| Kill manager, HTTP lifecycle (`kill_manager.py`, `http_lifecycle.py`) | a flag; a phase of the escalation | `kill`, `stop` | stop called twice, waits that time out | the runner is stopped in the end |
| Announcer (`aurora/executor/common/announcer.py`, `twitter/common/zookeeper/group/kazoo_group.py`, `serverset/serverset.py`) | `_membership`, two events and a thread; a queue of callbacks, captures, watches | join, renew after an expiry, stop | four threads; answers lost with the connection; expiry before, during and after a join | the task is announced once while it runs and not afterwards |
| Resource monitor (`thermos/monitoring/resource.py`) | collectors per process, a kill signal | poll, sample, query of one process | a query from another thread while the entries are walked | one monitor per active task |
| Observer (`thermos/observer/task_observer.py`, `detector.py`) | active and finished tasks, twice: in the observer and in its detector | refresh, queries | files renamed and removed while the directories are listed one after the other | every task is shown, as what it is |
| Scheduler client (`aurora/client/api/scheduler_client.py`) | a connection, a terminate flag | proxied calls | retry of a call that may have been executed; terminate from another thread | no double execution of calls that cannot be repeated; the caller is told the truth |
| Authentication (`aurora/common/auth/auth_module.py`, `aurora/client/cli/auth.py`) | a session file per cluster, shared by all client processes | load, refresh, save, login | no lock; refresh tokens that are good once | the user stays logged in |
| Instance watcher, restarter (`aurora/client/api/instance_watcher.py`, `restarter.py`, `updater_util.py`, `health_check.py`) | state and task per instance, failures per instance, a queue | `watch`, `restart` | instances that fail, move or are killed while they are watched | success is said of restarted instances only |
| Job kill (`aurora/client/cli/jobs.py`, `aurora/client/api/job_monitor.py`) | instances to kill, errors | `kill_in_batches`, `wait_until` | tasks of one instance that follow each other, answers without the instance | confirmed kills are kills |
| SLA and host maintenance (`aurora/client/api/sla.py`, `aurora/admin/host_maintenance.py`) | hosts per group, hosts not drained | start, check, drain, wait, script | partial failure of a group; snapshots that age | the script runs on drained hosts only; the job keeps its percentage |
| Command line, hooks, configuration, sandbox, the rest of `twitter.common` | none between calls, or vendored | | | not modelled |

How they interact: the executor starts the runner as a process of its own and
knows it only through its checkpoint and its exit. The runner forks one
coordinator per process; the two share one file per process, the process
stream, which the parent writes once (FORKED) and the coordinator afterwards.
The runner folds the streams into its own checkpoint. The helper signals by
pid, from whatever process calls it. The observer and the executor read the
checkpoint while it is written. Executor and scheduler exchange Mesos status
updates, the announcer tells ZooKeeper about the running task; the client and
the admin tools call the scheduler and poll what came of it, several of them at
the same time on the same job.

## Modules

| Module | Content |
|---|---|
| `TaskLedger` | Abstract: what the checkpoint of a task promises to everybody who reads it, and nothing of how it comes about |
| `ThermosPlan` | The state a checkpoint replays to and the pure operators on it: dispatcher, both planners, the plan bookkeeping of the process handlers |
| `ThermosRunner` | The runner, its coordinators, streams, muxer and signals as a state machine, with its properties; implements `TaskLedger` |
| `MCThermosRunner` | Small tasks for TLC |
| `ThermosRunnerProofs` | For every task and any number of runners: types, the order constraints, the agreement of log and memory, of log and process streams |
| `ThermosFirstRunnerProofs` | What the first runner of a task guarantees: commands, concurrency, survivors, verdict; and, for any number of runners, that the checkpoint implements `TaskLedger` |
| `HealthSignal` | Abstract: what the executor may rely on from any status checker |
| `HealthChecker` | The thread that counts health checks and the status read from another thread; implements `HealthSignal` |
| `HealthCheckerProofs` | The counters and the refinement for every configuration |
| `AuroraExecutor` | The executor of one task with the runner wrapper, HTTP lifecycle, kill manager and status manager; the health checker is a `HealthSignal`, the runner a process that may do what `ThermosRunner` does |
| `AuroraExecutorProofs` | Types, order and truth of the updates, clean stops |
| `KazooGroup` | One member's dealings with a ZooKeeper group, over an external kazoo client and ensemble |
| `Announcer` | The announcer of a task on top of it |
| `AnnouncerProofs` | Types and the account of every znode, for any number of joins and losses |
| `ResourceMonitor` | The sampling threads of observed tasks |
| `TaskObserver`, `MCTaskObserver` | The observer's refresh over a moving disk; its instances |
| `TaskObserverProofs` | Types, one monitor per active task, no task missed twice, for any tasks and roots |
| `ClientSession` | The session file shared by client processes, over an external identity provider |
| `SchedulerProxy` | Calls to an external scheduler, retries and terminate, with the session of `ClientSession` |
| `SchedulerProxyProofs` | Types, calls executed once and outcomes that are true, the session is kept |
| `Cluster` | External: the scheduler's side of one job and its hosts, as far as the commands rely on it |
| `InstanceWatcher`, `JobRestart` | The watch of a batch; the rolling restart with its failure threshold |
| `JobKill` | Kills in batches with `wait_until` |
| `HostMaintenance` | Groups of hosts: SLA check, drain, wait, script |
| `ClusterOperations`, `MCClusterOperations` | The three commands at work on one cluster; hosts of the instances |
| `ClusterOperationsProofs` | Types, kills, restarts and drains for any job and hosts |

`AuroraExecutor` composes with Thermos and with the health checker through their
abstractions: `HealthChecker` is checked and proved to implement the signal that the
executor reads, and what the executor sees of the runner is its exit and the task state
in its checkpoint. `ThermosRunner` is checked and proved to implement `TaskLedger`, the
story that the checkpoint tells its readers. The other compositions are direct:
`Announcer` extends `KazooGroup`, `TaskObserver` extends `ResourceMonitor`,
`SchedulerProxy` extends `ClientSession`, and `ClusterOperations` extends the three
commands, which all change the variables of `Cluster`.

### How ThermosRunner corresponds to the code

`mem` is the runner in memory: `task` and `proc` are `_state`, `plan` is the
`_plan` pointer, `pst`, `failures` and `runs` are the books of the two planners,
`tp` is `_task_processes` (and the set of streams the muxer has registered), `ok`
says that no handler has raised. `disk` is what `_replay_runner_ckpt` makes of the
checkpoint: the log is represented by its fold, and every write of a record
folds one more record in. A run of a process is identified by `base`, the sequence
number of its WAITING record; pids are abstracted to "the coordinator, or the
command, of run `base`".

`pc` is where the loop of `_run` stands. An atomic step ends wherever another
actor's step can make a difference: each record is checkpointed in one step
(`Checkpoint`, with the new state in `pend`) and handled in the next (`Handler`);
`_kill` and `is_process_lost` scan in one step and decide in another; the batch that
`select` returns is dispatched record by record. Coordinators step between all of
these, and so do `Crash`, `KillSignal` (a Python signal handler runs between any
two bytecodes) and time (`Expire`, `CoolDown`, `ForkOverdue`).

`Ledger` in `ThermosRunner` is the refinement mapping to `TaskLedger`: the abstract
task, and the state and number of the last record of each process, are those of `disk`;
a task is signalled when `kills` has counted one, and closed with `fin`. `TaskLedger`
has neither runners nor coordinators, streams, plans or retries: a process goes from
state to state by records that follow each other without a gap, the task moves forward
only, a run of the finalizing plan begins when no regular process is FORKED or RUNNING
on record, a verdict is given once and is KILLED or LOST only after a signal, and the
file is put away when no process is on record as FORKED or RUNNING. Where `ckpt.py` says
less than it draws (`dispatch` checks no task transition and `TaskRunner` goes straight
from CLEANING to SUCCESS or FAILED when the deadline has passed), `TaskLedger` says what
is written.

What the model leaves out: the checkpoint header and its checks, the user and
chroot of processes, log files, truncated records, signals that arrive
inside `TaskRunner.__init__`, the checkpoint-only `TaskRunnerHelper.kill`. A runner
that is pushed aside with `force` is a `Crash` followed by a `Start`. What
a SIGTERMed command does is up to the command: `CommandExits` may happen at any
time and need not happen.

### How HealthChecker corresponds to the code

`attempts`, `failures`, `successes`, `running`, `healthy` and `reason` are the fields of
`ThreadedHealthChecker`, `dead` its event and `pc` its thread. One check is two steps,
`BeginCheck` and `EndCheck(ok)`, because it takes time: `Stop`, a status read or the
snooze file may come in between. A check that raises is an answer of FALSE. `Count`
is `_maybe_update_health_check_count` with the advance of the attempts before it.
`HealthChecker.status` runs on the status manager's thread without a lock, so it is
two steps, `ReadHealthy` and `ReadRunning`.

`outcomes` is a history variable: the answers counted so far. The properties are
stated over the answers, so a counter that is reset too early or too late shows.
`MaxChecks` bounds the checks of a behaviour, nothing else. An absent grace period
(twice the interval) is one value of `GracePeriod`.

The class comment (`health_checker.py`, 49 to 54) promises RUNNING within
`ceil(grace / interval) + min_consecutive_successes` attempts; the constructor adds
`max_consecutive_failures` to that on purpose, and the deadline is only compared
after the last of these attempts, so one more is made. `FailureJustified` states
what the code does.

### How AuroraExecutor corresponds to the code

Each thread has a program counter: `run` is the thread of `_run`, `sm` the status
manager with `_shutdown` on it, `killer` the driver's callback in
`_signal_kill_manager`. `propagate_deadline` runs its closure on a thread of its
own and gives up on it when the deadline passes; the closure goes on. So
`ThermosTaskRunner.start` and `stop` are threads too, `starter` and `stopper`, and
their caller may leave them at any point (`RunnerNotStarted`, `RunnerStopped`).
After `driver.stop` (`DriverStops`, five seconds after the last update) nothing
moves but the runner.

The runner is `child`, `exit`, `sent` and `ckpt`: ENDING stands for CLEANING and
FINALIZING. It may refuse the task, follow the task's states, be killed from outside or
fail at any moment. `quitquitquit` starts another runner that takes the checkpoint over
and kills the task, or fails to. The HTTP shutdown only gives the task time, which the
runner's own steps already have. The limit on the executor's total lifetime
(`ExecutorTimeout`) and the sandbox's content are left out.

Exceptions that nobody handles are kept: those of the starting thread other than the few
that `_run` catches (the sandbox; an `OSError` of the `task.json` that the wrapper writes,
lines 105 to 110; a `KeyError` or `ZeroDivisionError` of a status provider, line 118) set
`run` to "dead", a `TaskError` of `stop`, which `_shutdown` does not catch (lines 220 to
226), sets `sm` to "dead". The handler that `thermos_executor_main.py:331` installs then
interrupts the main thread (`excepthook.py:47`), which stops the driver and leaves:
`MainInterrupted` sets `halted`, as `DriverStops` does, some time after the thread's death,
and until then the other threads go on. No update is sent for such an end; `EndsReported`
says so.

### How Announcer and KazooGroup correspond to the code

Kazoo calls the group on three threads: the connection thread runs the state
listener, the completion thread the completions of requests, the watch thread the
watches. `calls` holds the expiry callbacks that are under way, each on one of these
threads, and a thread that is in a callback runs nothing else (`Free`). A request
is a record of `reqs` with the stage it is in; `Disconnect` fails what has no
answer yet, whether the ensemble executed it or not, and the completions of the
group repeat it. `queue` is `__listener_queue`: what waits for a state. `armed`
and `calls` split `Capture.set` into its test and its call, so that two threads may
both call the callback (`group_base.py:107`). The ensemble is external: `Execute`
creates and removes znodes, `Expire` removes those of the session, `Deleted` is
somebody else who removes one.

In `Announcer`, `pc` is the join thread, `rejoin` and `stopEvent` are its events; `stopping`
splits `stop` where the other threads may come in: the test of `_membership`, the second
read of it for the cancel, the wait. `OnExpiration` runs on the thread of kazoo that found
the membership gone. `orphans`, `untracked` and `unseen` are history variables that name the
znodes nobody can know of: those whose create or delete was never answered, those that
arrive when `stop` has looked already or that a late expiry call makes the announcer forget,
and losses in the moment between the construction of the group and its listener (`unseen`).
`unwatched` are the znodes that others deleted when no watch was on them: a watch that goes
with a connection is not set again. A join thread that dies ends the executor by the same
handler as above; what the model does after that is more than the code has.

### How TaskObserver and ResourceMonitor correspond to the code

A task's file is in `active`, in `finished` or gone (`loc`); runners and collectors move it
at any time. `Refresh` to `Removal` are one pass of `ObserverTaskDetector.refresh`: roots in
any order, the two directories of a root listed one after the other in any order
(`os.listdir` of a glob), then entry by entry. `detActive` and `detFinished` are the
detector's sets, `active` and `finished` the observer's; the callbacks change the latter and
start and kill monitors. `present`, `missed` and `leaked` are history variables. A monitor
thread alternates between the wait, where it sees its kill signal, and the sampling;
`SampleByProcess` is the HTTP thread's query that may add an entry while the monitor walks
them, which ends the monitor (`dead`); the observer's lock orders queries and refresh but
not the monitor. The death of a monitor's thread ends the observer (`thermos_observer.py` in
`aurora/tools` installs the same handler), so `FinishedShown` speaks of the time before it;
the safety properties hold in what the model adds after it, too.

### How SchedulerProxy and ClientSession correspond to the code

`pc` is where the caller is in `method_wrapper`: the head of the loop, the connection,
the authentication, the request, the wait for it, the pause. `attempts` bounds the
loop as `RPC_MAXIMUM_WAIT` does. The scheduler may execute a request before or
after the connection breaks: `stray` counts the requests that broke and may still be
executed. `Terminate` comes from another thread between any two steps, without
the lock. Exceptions are split as the `except` clauses split them: retried always,
retried if the call allows it, an `AuthError`, anything else. The loop on `TypeError`
wraps the whole `method(*args)`, sending and receiving: a first `TypeError`, also one of an
answer that cannot be decoded, sends the call again on the same connection at once
(`Undecoded`, the caller is then at `resent`), whatever `retry` says; the next one is
`Rejected`. Arguments that a caller leaves out raise theirs before anything is sent, and
such a call has only the later one. `undecoded` is a history variable: the executions
that were sent again in this way.

A connection authenticates with `ClientSession`: `Load`, then `Refresh` of a token
about to expire, then the file is opened for writing, which truncates it (`Truncate`),
then written (`Write`). Other processes do the same and log in. `clean` says
whether anybody wrote since a process truncated; two writers that overlap leave a
mixture (`Garbled`). The provider accepts a refresh token once if it rotates them.
`spoiled` names the losses the code cannot prevent: the provider's answer was lost, the
process was killed with a session in hand, the file could not be opened, or it
was mixed. `renewed` is a history variable: the grants that answered a refresh, whose
sessions have lost the secret of the client.

### How the cluster commands correspond to the code

`Cluster` keeps for each instance its current task (`id`), the state and host of that
task, and which tasks have run for the SLA's duration (`up`); for each host its
maintenance mode. Its operators `RestartShards`, `KillTasks`, `DrainHosts` and so on are
the remote calls; tasks fail, are placed, age and leave by steps of their own.

`JobRestart` is `Restarter.restart`: a query, batches taken from `queue`, a watch per batch,
failed instances queued again and counted. `InstanceWatcher` abstracts time to the set of
instances whose birthday is more than `watch_secs` old at a poll. `JobKill` is
`kill_in_batches` with one action per poll of `wait_until`; `polls` bounds the wait. A query
that answers with an error names no task; one that raises ends the command (`QueryRaises`,
`Errs`, `Dies`). `HostMaintenance` is `perform_maintenance`: one action per remote call,
because the cluster moves between them: the query for the tasks on the hosts and the query
for the jobs' tasks of the SLA check, the drain, each poll of the wait (`MaxWaits` polls
stand for the code's 60), the script per host. A status answer need not name every host, and
one that it leaves out counts as drained (`host_maintenance.py:76`). `Activate` is another
operator. `before`, `confirmed`, `blind`, `operated`, `activated` and `unnamed` are history
variables.

## Runs

| Run | Bounds | What it shows |
|---|---|---|
| `runner_crash` | processes p, q with order(p, q); p may fail once; run limit 3; 3 runners, 2 crashes, 1 silent coordinator death; launches may fail | `TypeOK`, `DependencyOrder`, `ReplayAgreement`, `StreamInStep`, `LostMeansSilent` |
| `runner_safety` | p and an ephemeral daemon q, unordered, `max_concurrency` 1; 1 coordinator death; overdue forks | `AtMostOneCommand`, `ConcurrencyLimit` |
| `runner_liveness` | regular p, final f; 1 kill or lose signal | `VerdictFits`, `OnlyUnreadSurvive`, `KillTerminates`, `TaskTerminates`, `ImplementsLedger` |
| `runner_final` | p, q unordered, `max_concurrency` 1, final f; no failure forgiven | violates `TaskTerminates` |
| `health_safety` | three forgiven attempts, one failure allowed, three successes needed: seven attempts to RUNNING; ten checks | `TypeOK`, `RunningExact`, `FailureJustified`, `FailureNoticed`, `GraceForgives`, `ImplementsSignal` |
| `executor_safety` | none: the model has no constants | `TypeOK`, `UpdatesInOrder`, `VerdictTrue`, `CleanStop`, `EndsReported` |
| `executor_abort` | the same model | violates `OneVerdict` |
| `announcer` | 4 joins, 1 lost connection (which may end in an expiry), 1 znode deleted by others | `Accounted`, `Rejoins`, `StopEnds` |
| `observer` | two tasks in one root, one with two processes | `TypeOK`, `OneMonitor`, `NeverMissedTwice`, `FinishedShown` |
| `client` | 1 call of 2 attempts, one other process, 3 grants of a provider that rotates and wants the client's secret | `TypeOK`, `AtMostOnce`, `KnownOutcome`, `SessionKept`, `CallEnds` |
| `operations` | two instances on two of three hosts; any two of the three commands, each one instance at a time, two hosts drained together with two polls to wait; every query may fail; one upset: a task fails, a host is activated or left out of an answer | `TypeOK`, `SuccessMeansRestarted`, `KillConfirmed`, `OperatedOnDrained`, `CommandsEnd` |
| `drain_sla` | four instances on three hosts, 66 % required, two hosts drained in turn, no failures | violates `DrainKeepsPercentage` |

Two processes are enough for an order constraint, for a limit of one and for an
interleaving of two streams; two crashes let a replayed state be replayed again;
a run limit of 2 or 3 stands for the 100 of `CappedTaskPlanner` and is reached. The
counters `starts`, `crashes`, `kills`, `deaths` bound what the environment does and
nothing else. Deadlock is not checked in these runs: the bounded environment and a
finalized task stop the system for good.

Ten checks go two past the last attempt of the health checker, so its deadline and
everything after it are reached; the three kinds of thresholds differ, so no
two of them can stand for each other. `AuroraExecutor` is finite as it is: one task, and
every thread sends a bounded number of updates. A stopped health checker, and a
stopped driver, are real ends, so deadlock is not checked there either.

The types of the announcer are proved for every bound and are not checked by its run. One
lost connection and one foreign deletion give the announcer two causes to lose its znode, at
any point of two joins; four joins are more than these causes can ask for, so the bound is
never what stops it. An observer needs two tasks because a callback of one may touch the
monitor of another, and two processes because a sampling walks over one entry while a query
adds another; the observer polls for ever, so deadlock is checked there. Two attempts per
call are one retry, and each may send the call twice; calls meet only in the connection that
one leaves to the next, which a second attempt after a refused or aged token meets as well,
and the proofs are for any number of calls. Three grants are a login, a refresh, and a
refresh of what was refreshed, which the provider refuses without the secret. The operations
run takes the commands two at a time, which is where they can disturb each other. Two hosts
in one group are what it takes for one to be drained at a poll and the other at a later one,
or never, or to fail the check alone; the third host takes their tasks. `MaxUpsets` bounds
what else goes wrong; larger batches, more upsets and any number of hosts and instances are
covered by the proofs. The bounds of the announcer, the client and the commands stop these
systems for good, so deadlock is not checked there.

### Findings

With their lines in `PROJECT.json`:

- `TaskTerminates`: a task with `max_concurrency` 1 and a final process, whose first
  process fails, never ends. The pass that fails the plan has already launched the next
  process; its FORKED record is read when the plan is the finalizing one
  (`runner.py:196`), whose assertion (`planner.py:111`) ends the runner. The
  executor then reports LOST for a task that failed, and no later runner can
  replay the log. The property holds in `runner_liveness`, where the one
  regular process leaves nothing to launch.
- `OneVerdict`: `_start_runner` reports a task killed during initialization as KILLED
  (`aurora_executor.py:148`), does not return, starts the runner, and a second
  terminal update may follow. `UpdatesInOrder` holds when no start is aborted.
- `DrainKeepsPercentage`: the SLA check of a group of hosts counts live tasks only
  (`sla.py:54`). Those that earlier groups displaced are pending, in neither the
  count nor the total, and a drain goes below the percentage it was given.

### Known limits

What the passing properties name as an exception, or do not cover, because the code does
not have it:

- Runner. Replay switches to the finalizing plan at the FINALIZING record, before the
  KILLED records that `on_finalizing` itself writes for regular processes that still run
  (an ephemeral one, or one that ignores SIGTERM): a runner that crashes while
  FINALIZING with such a log cannot be resumed (`runner.py:192`). `ReplayAgreement`
  compares plans for logs that replay (`disk.ok`). A process launched in the pass that ends
  the plan may survive the task
  (`runner.py:1010`, `OnlyUnreadSurvive`). CLEANING may go straight to SUCCESS or
  FAILED, which the diagram in `ckpt.py:92-112` does not show. A forced status is in
  memory only and forgotten after a crash (`runner.py:979`); after a signal
  `VerdictFits` speaks of the first runner. `AtMostOneCommand`, `ConcurrencyLimit` and
  `OnlyUnreadSurvive` speak of the first runner too. `StreamInStep` does not speak of
  FINALIZING nor of what follows a signal: `_kill` closes runs over records that it has
  not read, and a signal drops the batch that was read. With `ForkTimeouts` on,
  `StreamInStep` and `TaskTerminates` do not hold (a FORKED process declared LOST after
  LOST_TIMEOUT may still have written RUNNING); with a crash and a coordinator death
  together `AtMostOneCommand` does not hold (LOST is recorded before the old command is
  killed).
- Executor. A kill that sees an incomplete sandbox and sets `runner_aborted` after
  `_start_runner` has looked at it is lost (`aurora_executor.py:202`); `EndsReported` speaks
  of kills that reach the kill manager. An exception that a thread does not handle ends the
  executor without an update.
- Announcer. A session that expires between the answer of a join and the assignment of
  `_membership` is answered before there is a membership to clear; the thread then joins
  with one and dies, and the executor with it (`announcer.py:247`, the exception `pc =
  "dead"` of `Rejoins`). The callback is promised "for any reason" (`group_base.py:56-57`,
  `serverset.py:97-98`). It does not come in two cases, which `Rejoins` states as
  exceptions: the znode is deleted by others after a reconnect, when its watch is gone
  (`unwatched`), and the session is lost between the constructor's read of the state and its
  listener (`unseen`). A znode whose create was not answered stays until its session ends.
- Observer. A task whose file moves between the two listings disappears from one
  refresh.
- Client. A call that may not be repeated is executed twice when the first answer cannot
  be decoded: the `TypeError` sends it again (`scheduler_client.py:346-362`). `AtMostOnce`
  and `KnownOutcome` count these executions apart (`undecoded`). A refreshed session loses
  its `client_secret` (`auth_module.py:96-105`), so a provider that demands one refuses
  the refresh after the first, although `CHANGELOG.md:22-26` says that refreshes of
  confidential clients were fixed. `SessionKept` asks for the secret of sessions that a
  login made and only for the token of those in `renewed`. A call after terminate
  may end in a timeout.
- Commands. A restart that its failure threshold aborts returns the OK of its last call, and
  the command reports success (`restarter.py:97`, `jobs.py:569`). A kill is confirmed by a
  status query that fails (`blind`). The SLA check passes when its queries fail
  (`sla.py:329-334`). A host that the status answer does not name counts as drained, and the
  script may run on it while it is in use (`unnamed` in `OperatedOnDrained`). A negative
  `max_per_instance_failures`, which a comment calls no limit (`jobs.py:546`), is exceeded
  by the first failure. The watch of an instance that somebody kills never ends
  (`CommandsEnd`).

### Fairness

The runner's `FairSpec` assumes that a runner is started when the task needs one, that its loop
goes on (it never blocks longer than `MAX_ITERATION_WAIT`), that a living coordinator
goes on, and that time passes (`Expire`, `CoolDown`, `ForkOverdue`). It does not
assume that commands exit, so `KillTerminates` holds against commands that ignore
SIGTERM. `TaskTerminates` states the exit of commands as its own premise.

The health checker's thread goes on, its checks have a timeout, and the status manager
polls; the snooze file and `Stop` are free. In the executor the threads go on, the main
thread is interrupted when one of them has died, and every wait in them has a deadline.
Nothing is assumed of the runner's process, of the health checker or of the driver's calls,
so `EndsReported` holds for a runner that hangs.

The announcer: every thread of kazoo and of the announcer runs, kazoo reconnects
(it retries for ever), the ensemble executes and answers requests that stay on a
connection. Losses, deletions and stops are free. The observer: the refreshing thread
polls and the monitors run; nothing is assumed of runners and collectors. The client:
the caller goes on, and a request ends in some way, if only by a broken connection
(the transport has a timeout). The commands: each goes on, and the scheduler goes on
with what it began; tasks need not be placed when no host takes them. The restart is
assumed to read the job's tasks at some poll with `watch_secs` gone by, since its watch
has no limit of its own; a kill and a drain count their polls and need no such
assumption.

## Proofs

Eight modules hold the theorems; each gives an inductive invariant as a conjunction of
named parts, a lemma per action or group of actions, and the properties as consequences.
All of them hold for every value of the constants that satisfies the assumptions
named in the component's module; none assumes the small bounds of the runs.

**Runner, any number of runners** (`ThermosRunnerProofs`). `TypeCorrect` proves
`Spec => []TypeOK` for all constants that satisfy `PlanAssumption` and `RunnerAssumption`
(what the planner's constructor and `extract_dependencies` accept). `TypeOK` is
inductive as it stands; the work is in the operators: `UpdateProcess`, `HandleProcess`
and `ReplayProcess` preserve `RunnerState`, and fast-forwarding stays inside the stream,
so that the muxer never reads past its end. There is one lemma per part (world,
streams, control, states) with a step per action or group of actions that leave the
part alone.

`OrderCorrect` proves `DependencyOrder`. The property is not inductive: a coordinator is
forked for a process that was picked earlier from a plan that believes records read
earlier still. `OrderInv` adds what lies between: what memory or the replayed log calls
finished is over (ephemeral or SUCCESS in its stream), a checkpointed SUCCESS stands in
the stream, and what is picked has nothing to wait for. Streams only grow
(`StreamGrows`), so what is over stays over.

`ReplayCorrect` proves `ReplayAgreement`. Between the checkpoint of a record and its
handler the log is ahead of the plan in memory; `LogInv` says by how much: the log's
books are what the handler will make of those in memory (`HandleProcess` applied to
`mem` with the plan pointer of the log). A handler does the same to the same books
whatever the plan pointer, unless it raises (`HandleSameBooks`), and one that raises ends
the runner.

`LostCorrect` proves `LostMeansSilent`, and `StreamCorrect` proves `StreamInStep` for
runners without overdue forks (`~ForkTimeouts`, the only hypothesis beside the
assumptions; with them the property is false, see the limits above). Both follow from
`TrailInv`, which speaks of a task that is not yet FINALIZING, because `_kill` there
closes runs over records it has not read. For each process it says

- how its log and its stream fit (`Line`, `Ascending`): the stream counts up, what was
  dispatched stands in it, the latest run has no gap, and a run that failed to start
  has left nothing that a later run could trip over;
- who may still write (`Grip`): a coordinator of an earlier run has written its last
  record or will never write one, and with a LOST run whose command was started no
  coordinator is left and no record is beyond what is recorded;
- where the muxer stands (`Reading`): what it has read, and in a batch what was
  dispatched, is exactly what the log holds. For a stream that is just bound this is
  `FastForwardPlace`, for a restarted runner `PrefixCount` (what `would_update` skips is
  the beginning of an ascending stream);
- that a FORKED record is dispatched before the plan is asked again (`Fresh`), without
  which a launch could fail over a record that is already written;
- that Process objects are those of the open runs (`Tracked`), which is why no record
  of a run that goes on is left unread.

**Runner, the first one** (`ThermosFirstRunnerProofs`). Five invariants build on each
other. `OneInv`: every coordinator, command and record belongs to the last run of its
process, a process without a Process object has nothing alive, and what the runner is
about to launch, to kill or to call LOST is in the state it takes it to be in
(`AtMostOneCommand`). `SurviveInv`: what `_kill` has visited is dead
(`OnlyUnreadSurvive`). `VerdictInv`: beyond ACTIVE the regular plan is settled, in memory
and in the log, a SUCCESS is one of a healthy plan, and a signal keeps its status to
the end (`VerdictFits`; without a signal it speaks of every runner). `ActiveInv`: a
process that lives is running in the eyes of the planner, or its FORKED record lies
ahead of the muxer and will be dispatched before the planner is asked again. `LoadInv`:
so the processes that live, those picked and the launches left of this pass are
together at most `max_concurrency` (`ConcurrencyLimit`).

`LedgerCorrect` in the same module is not about the first runner: it proves
`Spec => ImplementsLedger` for every task, any number of runners, crashes, signals,
overdue forks and coordinators that die. The mapping reads the log only, so a step of
a runner is classified by what it writes (`LedgerKinds`): the record of a process
(`Noted`), the state of the task (`Turned`), the end of the runner (`Left`), nothing
(`Quiet`) or the handling of what was written; coordinators and commands write no
checkpoint. That each kind is a step of `TaskLedger` or a stutter needs `LedgerInv`,
in five parts, beside the types, `LogInv` (log and memory agree), `TrailInv` and
`VerdictFits`, which says what a SUCCESS without a signal means:

- `RunFacts`: a process with pids on record was started, and no stream holds a WAITING
  record (a coordinator never begins a run);
- `StageFacts`: what is launched belongs to the plan of the task's state and waits there,
  so a run only begins in the plan the task is at;
- `KillFacts`: whatever is on record as FORKED or RUNNING is still to be visited by `_kill`,
  so that the task is closed, and the finalizing plan begins, with none left;
- `FinalFacts`: under the finalizing plan, a regular process is FORKED or RUNNING on record
  only through the record in hand, whose handler raises (the finding `TaskTerminates`);
  a run of the finalizing plan never begins over it;
- `BookFacts`: as long as nobody interferes, what the books of the log call finished or
  failed has ended on record, so that a SUCCESS leaves nothing unfinished that
  somebody waits for; the books of a runner whose handler has raised are included.

All five were checked by TLC on the instances of the runs, with crashes, signals and overdue
forks, before they were proved.

**Health checker.** `HealthCheckerProofs` proves, for every interval, grace period and
pair of limits, the safety properties of `health_safety`. `HealthInv` is the inductive
invariant: it says what each counter means in terms of the answers (`attempts` is their
number up to the cap, `successes` the length of the run of good answers at the end,
`failures` that of the bad ones after the grace period) and what each value of `reason`
witnesses. `RunningCorrect`, `JustifiedCorrect`, `NoticedCorrect` and `GraceCorrect`
follow from it. `SignalCorrect` is the safety part of the refinement,
`Spec => Signal!Safety`: what the reader has seen at its first step is still worth
reporting at its second, because `running` is never cleared and `healthy` never set
again.

**Executor.** `AuroraExecutorProofs` proves `TypeOK`, `UpdatesInOrder`, `VerdictTrue` and
`CleanStop`. Three threads send updates without a lock between them. `Threads` says who
has started whom, `Order` gives the updates sent so far for each place where the threads
may be; `Truth` says that a result which a thread still holds (the wrapper's, the
chain's, the shutdown's) is true when it is sent, because what it rests on is final
(`Final`): a terminal checkpoint, the exit of a process, a kill.

**Announcer.** `AnnouncerProofs` proves `TypeOK` and `Accounted` for any number of joins,
lost connections and deletions. `AnnInv` follows a znode: at most one create is on its
way, that of the join in progress (`Creates`); what is watched or called for is the
result of a join, and it is called for only when it is gone (`Watching`); a delete that
was answered has deleted the membership `stop` was called with (`Deletes`); a create
without an answer can only be executed twice after a connection was lost, so there are
at most as many znodes as joins and lost connections (`Counted`). The first attempt
failed: with three joins the expiry call of a membership that two threads found gone
may run when the next membership is gone as well and the third is there, and make
the announcer forget that one. No run reaches this with one lost connection; the history
variable `untracked` now names every membership that such a call clears.

**Observer.** `TaskObserverProofs` proves `TypeOK`, `OneMonitor` and `NeverMissedTwice` for
any roots and tasks. The observer and its detector keep two pairs of sets. `Known` ties
them: the observer knows no task that its detector does not know, so what is new to the
detector has no monitor yet. `MissInv` follows a file: a task that a refresh misses has
moved to `finished` between the two listings of its root, and stays there, so the next
refresh lists it, whatever the order of roots and directories.

**Scheduler client.** `SchedulerProxyProofs` proves `TypeOK`, `AtMostOnce` and
`KnownOutcome` for any number of calls and attempts. The invariant follows a call through
the loop: whenever it may be sent, nothing of it has been executed or is under way but
what is counted in `undecoded`, unless it may be repeated (`Resendable`). The one way back
into the loop with a request under way is that of a proxy that terminates, and that one
does not send again. The types need that executions, those under way included, never
outnumber the requests: two for each attempt (`Counted`).

`SessionCorrect` in the same module proves `SessionKept` for any number of processes, with
and without rotation. With rotation an old session that is written over a newer one
would be a refresh token that is used up. `Unique` excludes it: the token that a
process is about to save is in no other hand, because it was granted to this
process alone and the file does not have it yet. `Repaired` says who will make good a
file that cannot be used at the moment. `Secrets` says that only a refresh drops the
secret.

**Commands.** `ClusterOperationsProofs` proves `TypeOK`, `KillConfirmed`,
`SuccessMeansRestarted` and `OperatedOnDrained` for any job, hosts, groups, batches and
limits, with the three commands at work. Two facts of the cluster carry the kill and the
drain: a killed instance stays killed (`KilledStay`) and a drained host stays drained and
empty unless somebody activates it (`DrainedStay`). `Said` is what the wait has learned
about the group and the script has yet to use. For the restart, `Followed` keeps account
of every instance: it is in the queue, under watch, or was seen healthy in a task newer
than those before the command (`Newer`, `Seen`); the queue holds each instance once
(`Queued`), also when failed ones are put back.

Only model-checked, because liveness under fairness is out of the prover's reach:
`KillTerminates`, `TaskTerminates`, the liveness part of `ImplementsSignal` (its safety
part is `SignalCorrect`), `EndsReported`, `Rejoins`, `StopEnds`, `FinishedShown`, `CallEnds`
and `CommandsEnd`. Every invariant that a passing run checks is proved.

## Not modelled

- The command line, hooks and configuration: one remote call per command, parsing and
  formatting. The wait for a job update polls a status that the scheduler keeps.
- The browser and device flows of `cli/auth.py`: they change nothing before the grant,
  which is `LogIn`. Basic and Kerberos authentication keep no state.
- The sandbox, log destinations and rotation, chroot and setuid: pure I/O; their failures
  are inputs of the executor and of the launch.
- `resource_manager.py`: a comparison of one sample with a limit. The values of the samples.
- The SLA reports, and a host with tasks of more than one job.
- Whoever removes old checkpoints: what becomes of a task's file is `Collect`.
- Vendored `twitter.common` beyond the ZooKeeper group: recordio is the append-only
  log that the runner's model assumes, the rest is application start-up.

## Left to do

1. `ThermosKill`: the checkpoint-only kill of `TaskRunnerHelper` racing a runner that is
   being resumed.
2. An abstract account of the updates Mesos sees, implemented by `AuroraExecutor`, and
   the checkpoint of `TaskLedger` as what `AuroraExecutor` and `TaskObserver` read.
