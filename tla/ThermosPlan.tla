----------------------------- MODULE ThermosPlan -----------------------------
(***************************************************************************)
(* The state that a Thermos task runner rebuilds from its checkpoint: the  *)
(* runs of the processes, the status of the task and the two plans         *)
(* (regular and finalizing), with the operators that apply one checkpoint  *)
(* record to it.  Everything here is a pure function of a state and a      *)
(* record: CheckpointDispatcher (thermos/common/ckpt.py), Planner and      *)
(* TaskPlanner (thermos/common/planner.py) and the plan bookkeeping of     *)
(* TaskRunnerProcessHandler (thermos/core/runner.py).                      *)
(*                                                                         *)
(* The same operators serve the running runner and the replay of its log,  *)
(* exactly as the code uses one dispatcher for both.                       *)
(***************************************************************************)
EXTENDS Integers, FiniteSets

CONSTANTS
  Regular,          \* names of the processes with final = False
  Final,            \* names of the processes with final = True
  Deps,             \* process -> processes that an order constraint puts before it
  Ephemeral,        \* processes with the ephemeral bit
  Daemon,           \* processes with the daemon bit
  MaxFailures,      \* process -> max_failures (0 is unlimited)
  TaskMaxFailures,  \* max_failures of the task (0 is unlimited)
  MaxConcurrency,   \* max_concurrency of the task (0 is unlimited)
  RunLimit          \* TOTAL_RUN_LIMIT of the planner class

Procs == Regular \union Final

ProcessStates ==
  {"WAITING", "FORKED", "RUNNING", "SUCCESS", "FAILED", "KILLED", "LOST"}

TerminalProcess == {"SUCCESS", "FAILED", "KILLED", "LOST"}

TaskStates ==
  {"ACTIVE", "CLEANING", "FINALIZING", "SUCCESS", "FAILED", "KILLED", "LOST"}

TerminalTask == {"SUCCESS", "FAILED", "KILLED", "LOST"}

(***************************************************************************)
(* What TaskPlanner.extract_dependencies accepts: a constraint never       *)
(* crosses the two plans, nobody waits for a daemon, a lasting process     *)
(* does not wait for an ephemeral one.                                     *)
(***************************************************************************)
AcceptedOrder ==
  /\ \A p \in Regular : Deps[p] \subseteq Regular
  /\ \A p \in Final : Deps[p] \subseteq Final
  /\ \A p \in Procs : Deps[p] \intersect Daemon = {}
  /\ \A p \in Procs \ Ephemeral : Deps[p] \intersect Ephemeral = {}

(***************************************************************************)
(* A task that TaskRunner.__init__ builds its two planners for.            *)
(***************************************************************************)
ASSUME PlanAssumption ==
  /\ IsFiniteSet(Procs)
  /\ Regular \intersect Final = {}
  /\ Deps \in [Procs -> SUBSET Procs]
  /\ AcceptedOrder
  /\ Ephemeral \subseteq Procs
  /\ Daemon \subseteq Procs
  /\ MaxFailures \in [Procs -> Nat]
  /\ TaskMaxFailures \in Nat
  /\ MaxConcurrency \in Nat
  /\ RunLimit \in Nat \ {0}

-----------------------------------------------------------------------------
(* The state. *)

(***************************************************************************)
(* The latest run of a process.  "NONE" is a process the checkpoint does   *)
(* not mention.  base is the sequence number of the run's WAITING record   *)
(* and identifies the run; cpid and pid say whether the coordinator pid    *)
(* (from FORKED) and the process pid (from RUNNING) are known.             *)
(***************************************************************************)
ProcessRun == [st : ProcessStates \union {"NONE"}, seq : Int, base : Int,
               cpid : BOOLEAN, pid : BOOLEAN]

NoRun == [st |-> "NONE", seq |-> -1, base |-> -1, cpid |-> FALSE, pid |-> FALSE]

PlanStatus == {"runnable", "running", "finished", "failed"}

(***************************************************************************)
(* plan is the runner's _plan pointer; pst, failures and runs are the      *)
(* books of both planners (their process sets are disjoint); tp is the set *)
(* of processes with a Process object in _task_processes, the same set the *)
(* muxer has registered; ok turns FALSE when a handler raises.             *)
(***************************************************************************)
RunnerState == [task : TaskStates, proc : [Procs -> ProcessRun],
                plan : {"none", "regular", "final"},
                pst : [Procs -> PlanStatus],
                failures : [Procs -> Nat], runs : [Procs -> Nat],
                tp : SUBSET Procs, ok : BOOLEAN]

InitState == [task |-> "ACTIVE", proc |-> [p \in Procs |-> NoRun],
              plan |-> "none", pst |-> [p \in Procs |-> "runnable"],
              failures |-> [p \in Procs |-> 0], runs |-> [p \in Procs |-> 0],
              tp |-> {}, ok |-> TRUE]

\* A process_status record of a checkpoint stream.
ProcessRec == [p : Procs, st : ProcessStates, seq : Int]

-----------------------------------------------------------------------------
(* Queries of the planner. *)

WithStatus(s, ps, status) == {p \in ps : s.pst[p] = status}

\* Mutant: a dependency that failed for good counts as satisfied.
RunnableAfterFailure(s, ps) ==
  {p \in ps : /\ s.pst[p] = "runnable"
              /\ \A d \in Deps[p] : s.pst[d] \in {"finished", "failed"}}

\* Planner.runnable, whatever the min_duration gate says.
Runnable(s, ps) ==
  {p \in ps : s.pst[p] = "runnable" /\ \A d \in Deps[p] : s.pst[d] = "finished"}

\* TaskPlanner.is_complete: ephemeral processes do not hold the plan back.
IsComplete(s, ps) ==
  \A p \in ps : s.pst[p] \in {"finished", "failed"} \/ p \in Ephemeral

\* TaskRunner.deadlocked: nothing runs, nothing can, and the plan is not complete.
Deadlocked(s, ps) ==
  /\ WithStatus(s, ps, "running") = {}
  /\ Runnable(s, ps) = {}
  /\ ~IsComplete(s, ps)

\* TaskRunner.is_healthy.
IsHealthy(s) ==
  /\ ~Deadlocked(s, Regular)
  /\ \/ TaskMaxFailures = 0
     \/ Cardinality(WithStatus(s, Regular, "failed")) < TaskMaxFailures

\* TaskRunner._plan as the set of processes its planner knows.
PlanProcs(s) == CASE s.plan = "regular" -> Regular
                  [] s.plan = "final"   -> Final
                  [] OTHER              -> {}

-----------------------------------------------------------------------------
(* CheckpointDispatcher: one record applied to the process states. *)

\* The source states that _update_process_state admits for each target state.
SourceStates(st) ==
  CASE st = "WAITING" -> {"NONE"} \union TerminalProcess
    [] st = "FORKED"  -> {"WAITING"}
    [] st = "RUNNING" -> {"FORKED"}
    [] st = "SUCCESS" -> {"RUNNING"}
    [] st = "FAILED"  -> {"WAITING", "RUNNING"}
    [] OTHER          -> {"FORKED", "RUNNING"}

\* dispatch raises unless the sequence number follows and the transition is legal.
Dispatchable(s, r) ==
  /\ s.proc[r.p].st # "NONE" => r.seq = s.proc[r.p].seq + 1
  /\ s.proc[r.p].st \in SourceStates(r.st)

\* _update_process_state, with the fresh ProcessStatus that dispatch makes for WAITING.
UpdateProcess(s, r) ==
  LET run == IF r.st = "WAITING" THEN [NoRun EXCEPT !.base = r.seq] ELSE s.proc[r.p]
  IN  [s EXCEPT !.proc[r.p] =
         [st |-> r.st, seq |-> r.seq, base |-> run.base,
          cpid |-> (run.cpid \/ r.st = "FORKED"), pid |-> (run.pid \/ r.st = "RUNNING")]]

-----------------------------------------------------------------------------
(* The planner's transitions, with their assertions. *)

Raised(s) == [s EXCEPT !.ok = FALSE]

\* Planner.set_running on the plan _plan points to.
SetRunning(s, p) ==
  IF p \in PlanProcs(s) /\ (s.pst[p] = "running" \/ p \in Runnable(s, PlanProcs(s)))
  THEN [s EXCEPT !.pst[p] = "running"]
  ELSE Raised(s)

\* _success_transition, _failure_transition and _lost_transition.
StatusAfter(s, p, st) ==
  CASE s.runs[p] + 1 >= RunLimit -> "failed"
    [] s.runs[p] + 1 < RunLimit /\ st = "SUCCESS" ->
         IF p \in Daemon THEN "runnable" ELSE "finished"
    [] s.runs[p] + 1 < RunLimit /\ st = "FAILED" ->
         IF MaxFailures[p] = 0 \/ s.failures[p] + 1 < MaxFailures[p] THEN "runnable"
         ELSE IF p \in Ephemeral THEN "finished" ELSE "failed"
    [] OTHER -> "runnable"

\* add_success, add_failure and lost: only a running process of the current plan ends.
EndRun(s, p, st) ==
  IF p \in PlanProcs(s) /\ s.pst[p] = "running"
  THEN [s EXCEPT !.runs[p] = @ + 1,
                 !.failures[p] = IF st = "FAILED" THEN @ + 1 ELSE @,
                 !.pst[p] = StatusAfter(s, p, st)]
  ELSE Raised(s)

(***************************************************************************)
(* TaskRunnerProcessHandler, minus the signals it sends: on_waiting makes  *)
(* the Process object and registers the stream, on_forked and on_running   *)
(* mark the process running, the terminal handlers drop the object and     *)
(* close the run in the plan.                                              *)
(***************************************************************************)
HandleProcess(s, r) ==
  CASE r.st = "WAITING" ->
         IF r.p \in s.tp THEN Raised(s) ELSE [s EXCEPT !.tp = @ \union {r.p}]
    [] r.st = "FORKED" -> IF r.p \in s.tp THEN SetRunning(s, r.p) ELSE Raised(s)
    [] r.st = "RUNNING" -> SetRunning(s, r.p)
    [] OTHER -> IF r.p \in s.tp
                THEN EndRun([s EXCEPT !.tp = @ \ {r.p}], r.p, r.st)
                ELSE Raised(s)

\* TaskRunnerTaskHandler: the plan a task record selects.
PlanFor(s, task) == CASE task = "ACTIVE"     -> "regular"
                      [] task = "FINALIZING" -> "final"
                      [] OTHER               -> s.plan

-----------------------------------------------------------------------------
(***************************************************************************)
(* Replay of one record (TaskRunner._replay_runner_ckpt).  The process     *)
(* and task states of a log that a handler cannot digest can still be read *)
(* (CheckpointDispatcher.from_file has no handlers); the plan cannot, and  *)
(* no TaskRunner can be constructed on it any more.                        *)
(***************************************************************************)
ReplayProcess(s, r) ==
  IF s.ok THEN HandleProcess(UpdateProcess(s, r), r) ELSE UpdateProcess(s, r)

ReplayTask(s, task) ==
  [s EXCEPT !.task = task, !.plan = IF s.ok THEN PlanFor(s, task) ELSE @]
=============================================================================
