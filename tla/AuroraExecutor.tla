---------------------------- MODULE AuroraExecutor ---------------------------
(***************************************************************************)
(* The Mesos executor of one task (executor/aurora_executor.py) with the   *)
(* wrapper around the Thermos runner (executor/thermos_task_runner.py,     *)
(* executor/http_lifecycle.py), the kill manager and the status manager.   *)
(*                                                                         *)
(* Five threads share the executor: the driver's callbacks (killer), the   *)
(* thread that starts the task (run), the status manager (sm), and the     *)
(* closures that propagate_deadline starts for the runner's start and stop *)
(* (starter, stopper); a caller whose deadline passes goes on, and so does *)
(* the closure it gave up on.  The Thermos runner is a process of its own  *)
(* (child, exit, ckpt); module ThermosRunner looks inside it.              *)
(***************************************************************************)
EXTENDS Naturals, Sequences

VARIABLES
  launched,   \* launchTask has set _task_id
  run,        \* none, queued, sandbox, provider, check, start, manager, done, dead
  starter,    \* none, forking, waiting, started, error
  killer,     \* idle, or abort: killTask saw an incomplete sandbox
  sm,         \* none, poll, chain, shutdown, checkers, stop, report, over, dead
  stopper,    \* none, kill, wait, rebind, await, done, error
  runner,     \* _runner is set
  sandboxed,  \* event sandbox_created
  aborted,    \* event runner_aborted
  killed,     \* the kill manager's switch
  cached,     \* _status of the runner wrapper, "none" until it is terminal
  killSignal, \* event _kill_signal of the runner wrapper
  verdict,    \* status_result of _shutdown
  seen,       \* runner_status of _shutdown
  child,      \* the runner's process: none, up or exited
  exit,       \* how it exited: none, ok, signal, user or internal
  sent,       \* the signal sent to it: none, kill or lose
  ckpt,       \* the task in its checkpoint
  health,     \* what the health checker says
  stopped,    \* the checkers are stopped
  updates,    \* status updates sent for the task
  stopTimer,  \* driver.stop is deferred
  halted      \* the driver is stopped, and the executor with it

threads == <<run, starter, killer, sm, stopper>>
events == <<launched, runner, sandboxed, aborted, killed>>
results == <<cached, killSignal, verdict, seen>>
child_vars == <<child, exit, sent, ckpt>>
checker == <<health, stopped>>
driver == <<updates, stopTimer, halted>>
vars == <<threads, events, results, child_vars, checker, driver>>

Ended == {"SUCCESS", "FAILED", "KILLED", "LOST"}
Verdicts == {"FINISHED", "FAILED", "KILLED", "LOST"}

TypeOK ==
  /\ run \in {"none", "queued", "sandbox", "provider", "check", "start", "manager", "done", "dead"}
  /\ starter \in {"none", "forking", "waiting", "started", "error"}
  /\ killer \in {"idle", "abort"}
  /\ sm \in {"none", "poll", "chain", "shutdown", "checkers", "stop", "report", "over", "dead"}
  /\ stopper \in {"none", "kill", "wait", "rebind", "await", "done", "error"}
  /\ launched \in BOOLEAN /\ runner \in BOOLEAN /\ sandboxed \in BOOLEAN
  /\ aborted \in BOOLEAN /\ killed \in BOOLEAN /\ killSignal \in BOOLEAN
  /\ cached \in Verdicts \union {"none"}
  /\ verdict \in Verdicts \union {"none"} /\ seen \in Verdicts \union {"none"}
  /\ child \in {"none", "up", "exited"}
  /\ exit \in {"none", "ok", "signal", "user", "internal"}
  /\ exit # "none" <=> child = "exited"
  /\ sent \in {"none", "kill", "lose"}
  /\ ckpt \in Ended \union {"none", "ACTIVE", "ENDING"}
  /\ health \in {"STARTING", "RUNNING", "FAILED"} /\ stopped \in BOOLEAN
  /\ updates \in Seq(Verdicts \union {"STARTING", "RUNNING"})
  /\ stopTimer \in BOOLEAN /\ halted \in BOOLEAN

Init ==
  /\ run = "none" /\ starter = "none" /\ killer = "idle" /\ sm = "none" /\ stopper = "none"
  /\ launched = FALSE /\ runner = FALSE /\ sandboxed = FALSE
  /\ aborted = FALSE /\ killed = FALSE
  /\ cached = "none" /\ killSignal = FALSE /\ verdict = "none" /\ seen = "none"
  /\ child = "none" /\ exit = "none" /\ sent = "none" /\ ckpt = "none"
  /\ health = "STARTING" /\ stopped = FALSE
  /\ updates = << >> /\ stopTimer = FALSE /\ halted = FALSE

-----------------------------------------------------------------------------
(* Sending updates. *)

Send(status) == updates' = Append(updates, status) /\ UNCHANGED halted

\* The last update of the task, with the driver to be stopped a little later.
SendLast(status) == Send(status) /\ stopTimer' = TRUE

\* _die: the thread that starts the task gives up.
Die(status) == SendLast(status) /\ run' = "done"

-----------------------------------------------------------------------------
(* The driver's callbacks; a second launch is refused without a change. *)

LaunchTask ==
  /\ ~halted /\ ~launched
  /\ launched' = TRUE
  /\ run' = "queued"
  /\ UNCHANGED <<starter, killer, sm, stopper, runner, sandboxed, aborted, killed,
                 results, child_vars, checker, driver>>

LaunchInvalid ==
  /\ ~halted /\ ~launched
  /\ launched' = TRUE
  /\ SendLast("FAILED")
  /\ UNCHANGED <<threads, runner, sandboxed, aborted, killed, results, child_vars, checker>>

(***************************************************************************)
(* killTask and shutdown.  The sandbox is looked at first and the event    *)
(* set afterwards: the starting thread moves on in between.                *)
(***************************************************************************)
KillTask ==
  /\ ~halted /\ launched /\ killer = "idle"
  /\ IF sandboxed THEN killed' = TRUE /\ UNCHANGED killer
                  ELSE killer' = "abort" /\ UNCHANGED killed
  /\ UNCHANGED <<launched, run, starter, sm, stopper, runner, sandboxed, aborted,
                 results, child_vars, checker, driver>>

KillAborts ==
  /\ ~halted /\ killer = "abort"
  /\ killer' = "idle"
  /\ aborted' = TRUE
  /\ UNCHANGED <<launched, run, starter, sm, stopper, runner, sandboxed, killed,
                 results, child_vars, checker, driver>>

DriverStops ==
  /\ stopTimer /\ ~halted
  /\ halted' = TRUE
  /\ UNCHANGED <<threads, events, results, child_vars, checker, updates, stopTimer>>

(***************************************************************************)
(* ExceptionTerminationHandler: an exception that no code of a thread      *)
(* handles interrupts the main thread, which stops the driver and exits.   *)
(***************************************************************************)
Unhandled == run = "dead" \/ sm = "dead"

MainInterrupted ==
  /\ ~halted /\ Unhandled
  /\ halted' = TRUE
  /\ UNCHANGED <<threads, events, results, child_vars, checker, updates, stopTimer>>

-----------------------------------------------------------------------------
(* The thread that starts the task: _run. *)

At(point) == ~halted /\ run = point

RunBegins ==
  /\ At("queued")
  /\ Send("STARTING")
  /\ run' = "sandbox"
  /\ UNCHANGED <<starter, killer, sm, stopper, events, results, child_vars, checker, stopTimer>>

(***************************************************************************)
(* Creating the sandbox may fail in any way; what the provider raises      *)
(* before (no MESOS_DIRECTORY) is not handled.                             *)
(***************************************************************************)
InitializeSandbox ==
  /\ At("sandbox")
  /\ \/ sandboxed' = TRUE /\ run' = "provider" /\ UNCHANGED driver
     \/ Die("FAILED") /\ UNCHANGED sandboxed
     \/ run' = "dead" /\ UNCHANGED <<sandboxed, driver>>
  /\ UNCHANGED <<starter, killer, sm, stopper, launched, runner, aborted, killed,
                 results, child_vars, checker>>

(***************************************************************************)
(* A TaskError is reported; an OSError, of the file the task is written    *)
(* to, is not handled.                                                     *)
(***************************************************************************)
MakeRunner ==
  /\ At("provider")
  /\ \/ runner' = TRUE /\ run' = "check" /\ UNCHANGED <<aborted, driver>>
     \/ aborted' = TRUE /\ Die("FAILED") /\ UNCHANGED runner
     \/ run' = "dead" /\ UNCHANGED <<runner, aborted, driver>>
  /\ UNCHANGED <<starter, killer, sm, stopper, launched, sandboxed, killed,
                 results, child_vars, checker>>

(***************************************************************************)
(* An aborted start is reported, and goes on.                              *)
(***************************************************************************)
StartRunner ==
  /\ At("check")
  /\ IF aborted THEN SendLast("KILLED") ELSE UNCHANGED driver
  /\ run' = "start"
  /\ starter' = "forking"
  /\ UNCHANGED <<killer, sm, stopper, events, results, child_vars, checker>>

RunnerStarted ==
  /\ At("start") /\ starter = "started"
  /\ run' = "manager"
  /\ UNCHANGED <<starter, killer, sm, stopper, events, results, child_vars, checker, driver>>

RunnerNotStarted ==
  /\ At("start")
  /\ \/ starter = "error" /\ Die("FAILED")
     \/ starter \in {"forking", "waiting"} /\ Die("LOST")     \* START_TIMEOUT
  /\ UNCHANGED <<starter, killer, sm, stopper, events, results, child_vars, checker>>

(***************************************************************************)
(* A status provider may raise: some exceptions are an internal error,     *)
(* others (KeyError, ZeroDivisionError) are not handled.                   *)
(***************************************************************************)
StartStatusManager ==
  /\ At("manager")
  /\ \/ sm' = "poll" /\ run' = "done" /\ UNCHANGED driver
     \/ Die("FAILED") /\ UNCHANGED sm
     \/ run' = "dead" /\ UNCHANGED <<sm, driver>>
  /\ UNCHANGED <<starter, killer, stopper, events, results, child_vars, checker>>

Running ==
  \/ RunBegins \/ InitializeSandbox \/ MakeRunner \/ StartRunner
  \/ RunnerStarted \/ RunnerNotStarted \/ StartStatusManager

-----------------------------------------------------------------------------
(* The runner wrapper: is_alive, status, start and stop. *)

Alive == child = "up"

\* task_state: a checkpoint without a record counts as ACTIVE.
TaskState == IF ckpt = "none" THEN "ACTIVE" ELSE ckpt

ExitStateMap == [ACTIVE |-> "LOST", SUCCESS |-> "FINISHED", FAILED |-> "FAILED",
                 KILLED |-> "KILLED", LOST |-> "LOST", ENDING |-> "LOST"]

\* Mutant: exit code 0 is taken for a finished task.
ExitStatusByCode ==
  CASE exit = "signal" -> "KILLED"
    [] exit = "user"   -> "FAILED"
    [] exit = "internal" -> "LOST"
    [] OTHER -> "FINISHED"

\* compute_status, for a runner that is not alive.
ExitStatus ==
  CASE exit = "signal"   -> "KILLED"
    [] exit = "user"     -> "FAILED"
    [] exit = "internal" -> "LOST"
    [] OTHER             -> ExitStateMap[TaskState]

RunnerStatus ==
  IF cached # "none" THEN cached ELSE IF Alive THEN "none" ELSE ExitStatus

(***************************************************************************)
(* terminate_runner: only the first signal is sent.                        *)
(***************************************************************************)
Terminate(signal) ==
  /\ killSignal' = TRUE
  /\ sent' = IF ~killSignal /\ Alive THEN signal ELSE sent

StartForks ==
  /\ ~halted /\ starter = "forking"
  /\ \/ starter' = "waiting" /\ child' = "up"
     \/ starter' = "error" /\ UNCHANGED child
  /\ UNCHANGED <<run, killer, sm, stopper, events, results, exit, sent, ckpt, checker, driver>>

(***************************************************************************)
(* wait_start: the task is seen to start, the runner is seen dead, or the  *)
(* wait is over; without a started task the runner is told to lose it.     *)
(***************************************************************************)
StartWaits ==
  /\ ~halted /\ starter = "waiting"
  /\ \/ ckpt # "none" /\ starter' = "started" /\ UNCHANGED <<killSignal, sent>>
     \/ ~Alive /\ exit \in {"user", "internal"} /\ starter' = "error"
        /\ UNCHANGED <<killSignal, sent>>
     \/ ckpt = "none" /\ exit \notin {"user", "internal"} /\ starter' = "error"
        /\ Terminate("lose")
  /\ UNCHANGED <<run, killer, sm, stopper, events, cached, verdict, seen,
                 child, exit, ckpt, checker, driver>>

Starting == StartForks \/ StartWaits

StopAt(point) ==
  /\ ~halted /\ stopper = point
  /\ UNCHANGED <<run, starter, killer, sm, events, cached, verdict, seen, checker, driver>>

(***************************************************************************)
(* The HTTP shutdown comes first; all it does is to give the task time.    *)
(***************************************************************************)
StopKills ==
  /\ StopAt("kill")
  /\ Terminate("kill")
  /\ stopper' = "wait"
  /\ UNCHANGED <<child, exit, ckpt>>

\* Mutant: a dead runner is taken for a stopped task.
StopWaitsForRunner ==
  /\ StopAt("wait")
  /\ stopper' = IF ~Alive THEN "done" ELSE "rebind"
  /\ UNCHANGED <<killSignal, child_vars>>

StopWaits ==
  /\ StopAt("wait")
  /\ stopper' = IF ~Alive /\ TaskState # "ACTIVE" THEN "done" ELSE "rebind"
  /\ UNCHANGED <<killSignal, child_vars>>

(***************************************************************************)
(* quitquitquit: another runner takes over the checkpoint and kills the    *)
(* task, or cannot be had.                                                 *)
(***************************************************************************)
StopRebinds ==
  /\ StopAt("rebind")
  /\ stopper' = "await"
  /\ \/ UNCHANGED <<child, exit, ckpt>>
     \/ /\ child' = "exited"
        /\ exit' = IF Alive THEN "signal" ELSE exit
        /\ ckpt' = IF ckpt \in Ended THEN ckpt ELSE "KILLED"
  /\ UNCHANGED <<killSignal, sent>>

StopAwaits ==
  /\ StopAt("await")
  /\ stopper' = IF ckpt \in Ended THEN "done" ELSE "error"
  /\ UNCHANGED <<killSignal, child_vars>>

Stopping == StopKills \/ StopWaits \/ StopRebinds \/ StopAwaits

-----------------------------------------------------------------------------
(* The status manager, and _shutdown on its thread. *)

SMAt(point) ==
  /\ ~halted /\ sm = point
  /\ UNCHANGED <<run, starter, killer, events, killSignal, child_vars, health>>

\* Mutant: the runner is not part of the chain.
PollRunnerNot ==
  /\ SMAt("poll")
  /\ sm' = "chain"
  /\ UNCHANGED <<stopper, cached, verdict, seen, stopped, driver>>

(***************************************************************************)
(* The chained checker asks the runner first ...                           *)
(***************************************************************************)
PollRunner ==
  /\ SMAt("poll")
  /\ cached' = RunnerStatus
  /\ IF cached' # "none" THEN verdict' = cached' /\ sm' = "shutdown"
                         ELSE UNCHANGED verdict /\ sm' = "chain"
  /\ UNCHANGED <<stopper, seen, stopped, driver>>

\* Mutant: RUNNING is sent at every poll.
PollCheckersRepeats ==
  /\ SMAt("chain")
  /\ LET status == IF killed THEN "KILLED" ELSE health
     IN  /\ IF status \in Verdicts THEN verdict' = status /\ sm' = "shutdown"
                                   ELSE UNCHANGED verdict /\ sm' = "poll"
         /\ IF status = "RUNNING" /\ Len(updates) < 4 THEN Send("RUNNING")
                                                      ELSE UNCHANGED <<updates, halted>>
  /\ UNCHANGED <<stopper, cached, seen, stopped, stopTimer>>

(***************************************************************************)
(* ... then the kill manager and the health checker.                       *)
(***************************************************************************)
PollCheckers ==
  /\ SMAt("chain")
  /\ LET status == IF killed THEN "KILLED" ELSE health
         tell == status = "RUNNING" /\ \A i \in DOMAIN updates : updates[i] # "RUNNING"
     IN  /\ IF status \in Verdicts THEN verdict' = status /\ sm' = "shutdown"
                                   ELSE UNCHANGED verdict /\ sm' = "poll"
         /\ IF tell THEN Send("RUNNING") ELSE UNCHANGED <<updates, halted>>
  /\ UNCHANGED <<stopper, cached, seen, stopped, stopTimer>>

Shutdown ==
  /\ SMAt("shutdown")
  /\ cached' = RunnerStatus
  /\ seen' = cached'
  /\ sm' = "checkers"
  /\ UNCHANGED <<stopper, verdict, stopped, driver>>

StopCheckers ==
  /\ SMAt("checkers")
  /\ stopped' \in {stopped, TRUE}
  /\ stopper' = "kill"
  /\ sm' = "stop"
  /\ UNCHANGED <<cached, verdict, seen, driver>>

(***************************************************************************)
(* The runner is stopped, or _stop_timeout is over and the closure goes on *)
(* alone.  The TaskError of a stop that failed is not handled.             *)
(***************************************************************************)
RunnerStopped ==
  /\ SMAt("stop")
  /\ sm' = IF stopper = "error" THEN "dead" ELSE "report"
  /\ UNCHANGED <<stopper, cached, verdict, seen, stopped, driver>>

\* Mutant: the status that stands in for a live runner's is forgotten.
ReportSeen ==
  /\ SMAt("report")
  /\ SendLast(seen)
  /\ sm' = "over"
  /\ UNCHANGED <<stopper, cached, verdict, seen, stopped>>

Report ==
  /\ SMAt("report")
  /\ SendLast(IF seen # "none" THEN seen ELSE verdict)
  /\ sm' = "over"
  /\ UNCHANGED <<stopper, cached, verdict, seen, stopped>>

Managing ==
  PollRunner \/ PollCheckers \/ Shutdown \/ StopCheckers \/ RunnerStopped \/ Report

-----------------------------------------------------------------------------
(* The runner's process and the health checker. *)

Health == INSTANCE HealthSignal WITH signal <- health

HealthMoves ==
  /\ ~halted /\ sm # "none" /\ ~stopped
  /\ Health!Decide \/ Health!Fail
  /\ UNCHANGED <<threads, events, results, child_vars, driver>>

ChildStep ==
  /\ Alive
  /\ UNCHANGED <<threads, events, results, sent, checker, driver>>

\* The runner refuses the task before its first record.
ChildRefuses ==
  /\ ChildStep /\ ckpt = "none"
  /\ child' = "exited"
  /\ exit' \in {"user", "internal"}
  /\ UNCHANGED ckpt

ChildRecords ==
  /\ ChildStep
  /\ \/ ckpt = "none" /\ ckpt' = "ACTIVE"
     \/ ckpt = "ACTIVE" /\ ckpt' = "ENDING"
     \/ ckpt \in {"ACTIVE", "ENDING"} /\ ckpt' \in {"SUCCESS", "FAILED"}
     \/ ckpt \in {"ACTIVE", "ENDING"} /\ sent = "kill" /\ ckpt' = "KILLED"
     \/ ckpt \in {"ACTIVE", "ENDING"} /\ sent = "lose" /\ ckpt' = "LOST"
  /\ UNCHANGED <<child, exit>>

ChildLeaves ==
  /\ ChildStep /\ ckpt \in Ended
  /\ child' = "exited"
  /\ exit' = "ok"
  /\ UNCHANGED ckpt

\* It is killed from outside, or by a signal it cannot handle yet, or fails.
ChildDies ==
  /\ ChildStep
  /\ child' = "exited"
  /\ exit' \in {"signal", "internal"}
  /\ UNCHANGED ckpt

Child == ChildRefuses \/ ChildRecords \/ ChildLeaves \/ ChildDies

-----------------------------------------------------------------------------
Next ==
  \/ LaunchTask \/ LaunchInvalid \/ KillTask \/ KillAborts \/ DriverStops \/ MainInterrupted
  \/ Running \/ Starting \/ Stopping \/ Managing
  \/ HealthMoves \/ Child

Spec == Init /\ [][Next]_vars

(***************************************************************************)
(* The executor's threads run; every wait in them has a deadline.  Nothing *)
(* is assumed of the runner's process, the checker or the driver's calls.  *)
(***************************************************************************)
FairSpec ==
  Spec /\ WF_vars(Running) /\ WF_vars(Starting) /\ WF_vars(Stopping) /\ WF_vars(Managing)
       /\ WF_vars(KillAborts) /\ WF_vars(DriverStops) /\ WF_vars(MainInterrupted)

-----------------------------------------------------------------------------
(* Properties. *)

Terminal == {i \in DOMAIN updates : updates[i] \in Verdicts}

Told == Terminal # {}

(***************************************************************************)
(* While no start is aborted, the scheduler gets each status at most once  *)
(* and nothing after a terminal one, whichever of the two threads that     *)
(* send updates gives up and whatever is killed meanwhile.                 *)
(***************************************************************************)
UpdatesInOrder ==
  ~aborted =>
    /\ \A i \in Terminal : i = Len(updates)
    /\ \A i, j \in DOMAIN updates : updates[i] = updates[j] => i = j

(***************************************************************************)
(* _signal_kill_manager promises to abort the start, _die to end it: there *)
(* is at most one terminal update.                                         *)
(***************************************************************************)
OneVerdict == \A i, j \in Terminal : i = j

(***************************************************************************)
(* compute_status: FINISHED is told only of a task whose checkpoint says   *)
(* SUCCESS, and KILLED only of one that was killed: on request, by its own *)
(* runner, or together with that runner.                                   *)
(***************************************************************************)
VerdictTrue ==
  \A i \in Terminal :
    /\ updates[i] = "FINISHED" => ckpt = "SUCCESS"
    /\ updates[i] = "KILLED" => killed \/ aborted \/ exit = "signal" \/ ckpt = "KILLED"

(***************************************************************************)
(* stop returns without an error only when the task is over in its         *)
(* checkpoint; a runner that died while the task was ending is let go.     *)
(***************************************************************************)
CleanStop ==
  stopper = "done" => ckpt \in Ended \/ (child = "exited" /\ ckpt = "ENDING")

(***************************************************************************)
(* A kill that reached the kill manager ends in a terminal update, even of *)
(* a runner that never starts, hangs or does not stop in time; a runner    *)
(* that is gone is noticed and reported, killed or not.  When an exception *)
(* that nobody handles comes first the executor ends without an update,    *)
(* and Mesos reports the task LOST (the docstring of shutdown).            *)
(***************************************************************************)
EndsReported ==
  /\ killed ~> Told \/ halted
  /\ child = "exited" ~> Told \/ halted
=============================================================================
