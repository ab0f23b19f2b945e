---------------------------- MODULE ThermosRunner ----------------------------
(***************************************************************************)
(* A Thermos task runner (thermos/core/runner.py), the coordinators it     *)
(* forks (thermos/core/process.py), the checkpoint streams between them    *)
(* (thermos/core/muxer.py) and the signals of TaskRunnerHelper             *)
(* (thermos/core/helper.py).                                               *)
(*                                                                         *)
(* The runner is one thread; its loop is cut into the steps between which  *)
(* something else can happen: a coordinator writes or dies, a deadline     *)
(* passes, SIGUSR1/SIGUSR2 interrupts the runner (Python runs the handler, *)
(* and so a nested kill(), between any two bytecodes), the runner crashes. *)
(* Every dispatch is two steps, because the record is on disk before its   *)
(* handler acts.                                                           *)
(*                                                                         *)
(* The runner's log is represented by what its replay yields: disk is the  *)
(* fold of ReplayProcess and ReplayTask over the records written so far,   *)
(* mem is the state of the runner in memory.                               *)
(***************************************************************************)
EXTENDS ThermosPlan, Sequences, FiniteSetsExt

CONSTANTS
  NoProc,         \* not a process name
  MaxStarts,      \* bound: how many runners take the task on, one after the other
  MaxCrashes,     \* bound: how often the runner process may die
  MaxKills,       \* bound: how many kill/lose signals it receives
  MaxDeaths,      \* bound: how many coordinators die without a last word
  LaunchMayFail,  \* may Process.start raise for a reason outside the model?
  ForkTimeouts    \* may a FORKED process be older than LOST_TIMEOUT?

ASSUME RunnerAssumption ==
  /\ NoProc \notin Procs
  /\ MaxStarts \in Nat
  /\ MaxCrashes \in Nat
  /\ MaxKills \in Nat
  /\ MaxDeaths \in Nat
  /\ LaunchMayFail \in BOOLEAN
  /\ ForkTimeouts \in BOOLEAN

VARIABLES
  disk,     \* what the replay of the runner's checkpoint yields
  mem,      \* the runner's state in memory
  pc,       \* where the runner's loop stands; "down" when there is no runner
  pend,     \* process record checkpointed, its handler still to run
  work,     \* processes the current loop of the runner has yet to visit
  at,       \* the process the current loop is busy with
  quota,    \* how many processes this pass may launch
  seen,     \* processes whose pids _kill's scan_tree found
  ret,      \* where control goes after a task handler
  pos,      \* process -> records its muxer handle has read, or Unbound
  nxt,      \* process -> records of its stream dispatched or dropped
  late,     \* processes forked more than LOST_TIMEOUT ago
  cool,     \* processes that ended less than min_duration ago
  expired,  \* _finalization_remaining() <= 0
  forced,   \* _terminal_state: set by kill and lose, never checkpointed
  stream,   \* process -> records of its own checkpoint stream
  coord,    \* process -> its coordinator
  kids,     \* process -> runs (by base) whose command is still alive
  fin,      \* the task file has moved from active/ to finished/
  starts, crashes, kills, deaths  \* counters for the bounds

runnerVars == <<mem, pc, pend, work, at, quota, seen, ret, pos, nxt, cool, expired, forced>>
worldVars  == <<stream, coord, kids, late>>
countVars  == <<starts, crashes, kills, deaths>>
vars == <<disk, runnerVars, worldVars, fin, countVars>>

-----------------------------------------------------------------------------
Unbound == -1

NoRec == [p |-> NoProc, st |-> "NONE", seq |-> -1]

NoCoord == [ph |-> "none", base |-> -1, by |-> 0]

\* await: forked, waits for its FORKED record; ctl: has control; exec: the
\* command is started; run: RUNNING is written; exit: the last record is written.
\* by: which runner forked it, its parent as long as that runner lives.
CoordPhases == {"none", "await", "ctl", "exec", "run", "exit"}

RunnerPCs == {"down", "task", "resume", "stage", "scan", "hasdata", "launch",
              "fork", "poll", "collect", "kill"}

StreamRec == [st : ProcessStates, seq : Int]

Up == pc # "down"

\* The runner may take its next step: no handler is outstanding.
Ready(where) == pc = where /\ pend = NoRec

Plan == IF mem.task = "FINALIZING" THEN Final ELSE Regular

-----------------------------------------------------------------------------
(* TaskRunnerHelper: pids as scan_process sees them, and the signals. *)

CoordinatorSeen(p) ==
  mem.proc[p].cpid /\ coord[p].ph # "none" /\ coord[p].base = mem.proc[p].base

ProcessSeen(p) == mem.proc[p].pid /\ mem.proc[p].base \in kids[p]

PidsSeen(p) == CoordinatorSeen(p) \/ ProcessSeen(p)

\* Mutant: kill_process signals the coordinator but not its process group.
KillProcessLeavesGroup(p) ==
  IF mem.proc[p].cpid
  THEN /\ coord' = [coord EXCEPT ![p] = IF @.base = mem.proc[p].base THEN NoCoord ELSE @]
       /\ UNCHANGED kids
  ELSE UNCHANGED <<coord, kids>>

\* kill_process: SIGKILL to the coordinator's group, the coordinator and the pid.
KillProcess(p) ==
  IF mem.proc[p].cpid
  THEN /\ coord' = [coord EXCEPT ![p] = IF @.base = mem.proc[p].base THEN NoCoord ELSE @]
       /\ kids' = [kids EXCEPT ![p] = @ \ {mem.proc[p].base}]
  ELSE UNCHANGED <<coord, kids>>

\* terminate_orphans: SIGTERM to the children of the runner whose pid it does
\* not know, coordinators whose FORKED record it has not read.  The command such
\* a coordinator already started does not get the signal.
TerminateOrphans ==
  coord' = [p \in Procs |->
              IF coord[p].ph # "none" /\ coord[p].by = starts /\ ~CoordinatorSeen(p)
              THEN NoCoord ELSE coord[p]]

-----------------------------------------------------------------------------
(* ProcessMuxer. *)

\* Mutant: a registered stream is read from its beginning.
FastForwardNot(s, w) == 0

\* The leading records of s below high watermark w.
Below(s, w) == {i \in 1..Len(s) : \A j \in 1..i : s[j].seq < w}

\* Mutant: over-seeking rewinds one record too many.
FastForwardTooShort(s, w) ==
  LET below == Cardinality(Below(s, w))
  IN  IF below = Len(s) THEN below
      ELSE IF s[below + 1].seq = w THEN below + 1 ELSE below - 1

\* _fast_forward_stream: the records skipped for high watermark w, that of w itself
\* included; a record beyond w is rewound.
FastForward(s, w) ==
  LET below == Cardinality(Below(s, w))
  IN  IF below < Len(s) /\ s[below + 1].seq = w THEN below + 1 ELSE below

\* Where the handle of p reads next, after _bind_processes.
ReadPos(p) == IF pos[p] = Unbound
              THEN FastForward(stream[p], mem.proc[p].base - 1) ELSE pos[p]

HasData(p) == p \in mem.tp /\ ReadPos(p) < Len(stream[p])

\* select(): every registered stream is read to its end; the batch of p to
\* dispatch is what lies between first[p] and that end.
Select(first) ==
  /\ pos' = [p \in Procs |-> IF p \in mem.tp THEN Len(stream[p]) ELSE Unbound]
  /\ nxt' = [p \in Procs |-> IF p \in mem.tp THEN first[p] ELSE 0]

-----------------------------------------------------------------------------
(* Dispatch. *)

\* A handler or a check raises: control() logs the exception and closes the log,
\* run() returns, the runner process ends.  The coordinators do not.
GoDown ==
  /\ mem' = disk' /\ pc' = "down" /\ pend' = NoRec /\ work' = {} /\ at' = NoProc
  /\ quota' = 0 /\ seen' = {} /\ ret' = "stage"
  /\ pos' = [p \in Procs |-> Unbound] /\ nxt' = [p \in Procs |-> 0]
  /\ cool' = {} /\ expired' = FALSE /\ forced' = "none"

\* Mutant: LOST, synthesized by the runner, is not checkpointed.
CheckpointNotLost(r) ==
  /\ mem' = UpdateProcess(mem, r)
  /\ disk' = IF r.st = "LOST" THEN disk ELSE ReplayProcess(disk, r)
  /\ pend' = r

\* The process state is updated and the record is checkpointed; its handler is next.
Checkpoint(r) ==
  /\ mem' = UpdateProcess(mem, r)
  /\ disk' = ReplayProcess(disk, r)
  /\ pend' = r

Rec(p, st) == [p |-> p, st |-> st, seq |-> mem.proc[p].seq + 1]

\* _set_process_status for the run the runner knows of.
SetProcessStatus(p, st) == Checkpoint(Rec(p, st))

\* The handler of the checkpointed record (TaskRunnerProcessHandler).
Handler ==
  /\ pend # NoRec
  /\ LET r == pend
         s == HandleProcess(mem, r)
     IN  /\ IF r.st \in TerminalProcess THEN KillProcess(r.p) ELSE UNCHANGED <<coord, kids>>
         /\ IF s.ok
            THEN /\ mem' = s
                 /\ pend' = NoRec
                 /\ pos' = IF r.st = "WAITING" THEN [pos EXCEPT ![r.p] = Unbound] ELSE pos
                 /\ cool' = IF r.st \in TerminalProcess THEN cool \union {r.p} ELSE cool
                 /\ UNCHANGED <<disk, pc, work, at, quota, seen, ret, nxt, expired, forced>>
            ELSE disk' = disk /\ GoDown
  /\ UNCHANGED <<stream, late, fin, countVars>>

\* _set_task_status: the record is on disk, the handler of the new state is next.
SetTaskStatus(task) ==
  /\ disk' = ReplayTask(disk, task)
  /\ mem' = [mem EXCEPT !.task = task]
  /\ pc' = "task"

\* Mutant: terminal_state() forgets the status that kill or lose forces.
TerminalStateUnforced == IF IsHealthy(mem) THEN "SUCCESS" ELSE "FAILED"

\* terminal_state(): forced by kill or lose, otherwise the health of the plan.
TerminalState ==
  IF forced # "none" THEN forced
  ELSE IF IsHealthy(mem) THEN "SUCCESS" ELSE "FAILED"

-----------------------------------------------------------------------------
(* Taking control of the task. *)

Init ==
  /\ disk = InitState /\ mem = InitState
  /\ pc = "down" /\ pend = NoRec /\ work = {} /\ at = NoProc /\ quota = 0
  /\ seen = {} /\ ret = "stage"
  /\ pos = [p \in Procs |-> Unbound] /\ nxt = [p \in Procs |-> 0]
  /\ cool = {} /\ expired = FALSE /\ forced = "none"
  /\ stream = [p \in Procs |-> <<>>]
  /\ coord = [p \in Procs |-> NoCoord]
  /\ kids = [p \in Procs |-> {}]
  /\ late = {} /\ fin = FALSE
  /\ starts = 0 /\ crashes = 0 /\ kills = 0 /\ deaths = 0

\* TaskRunner(...).run(): the checkpoint is replayed, the task is not terminal,
\* the checkpoint is locked (there is no other runner), and the current task
\* state is written again.  Replay takes the termination times from its own clock.
Start ==
  /\ pc = "down" /\ disk.ok /\ disk.task \notin TerminalTask
  /\ starts < MaxStarts /\ starts' = starts + 1
  /\ disk' = ReplayTask(disk, disk.task)
  /\ mem' = disk
  /\ pc' = "task" /\ ret' = "resume"
  /\ cool' = {p \in Procs : disk.runs[p] > 0}
  /\ UNCHANGED <<pend, work, at, quota, seen, pos, nxt, expired, forced,
                 worldVars, fin, crashes, kills, deaths>>

\* The records of p that the muxer has read or that would_update finds applied.
Known(p) ==
  {i \in 1..Len(stream[p]) : i <= ReadPos(p) \/ stream[p][i].seq <= mem.proc[p].seq}

\* _resume_task: what the process streams hold beyond the checkpoint is dispatched
\* (would_update); older records are skipped.
Resume ==
  /\ Ready("resume")
  /\ Select([p \in Procs |-> Cardinality(Known(p))])
  /\ pc' = "collect" /\ at' = NoProc /\ ret' = "stage"
  /\ UNCHANGED <<disk, mem, pend, work, quota, seen, cool, expired, forced,
                 worldVars, fin, countVars>>

-----------------------------------------------------------------------------
(* Task handlers. *)

OnActive ==
  /\ Ready("task") /\ mem.task = "ACTIVE"
  /\ mem' = [mem EXCEPT !.plan = "regular"]
  /\ pc' = ret
  /\ UNCHANGED <<disk, pend, work, at, quota, seen, ret, pos, nxt, cool, expired,
                 forced, worldVars, fin, countVars>>

\* on_cleaning: the finalization clock starts (again), SIGTERMs go out.  What a
\* SIGTERMed command does is the command's business (CommandExits).
OnCleaning ==
  /\ Ready("task") /\ mem.task = "CLEANING"
  /\ TerminateOrphans
  /\ expired' = (forced # "none" /\ expired)
  /\ pc' = ret
  /\ UNCHANGED <<disk, mem, pend, work, at, quota, seen, ret, pos, nxt, cool, forced,
                 stream, kids, late, fin, countVars>>

\* Mutant: _kill only visits processes that are already terminal.
OnKillingTerminal ==
  /\ Ready("task") /\ mem.task \in {"FINALIZING"} \union TerminalTask
  /\ work' = {p \in Procs : mem.proc[p].st \in TerminalProcess}
  /\ seen' = {p \in Procs : PidsSeen(p)}
  /\ pc' = "kill"
  /\ UNCHANGED <<disk, mem, pend, at, quota, ret, pos, nxt, cool, expired, forced,
                 worldVars, fin, countVars>>

\* on_finalizing and the terminal handlers begin with _kill, which scans first.
OnKilling ==
  /\ Ready("task") /\ mem.task \in {"FINALIZING"} \union TerminalTask
  /\ work' = {p \in Procs : mem.proc[p].st # "NONE"}
  /\ seen' = {p \in Procs : PidsSeen(p)}
  /\ pc' = "kill"
  /\ UNCHANGED <<disk, mem, pend, at, quota, ret, pos, nxt, cool, expired, forced,
                 worldVars, fin, countVars>>

\* One process of _kill.
KillOne(p) ==
  /\ Ready("kill") /\ p \in work
  /\ work' = work \ {p}
  /\ \/ /\ mem.proc[p].st \in TerminalProcess
        /\ KillProcess(p)
        /\ UNCHANGED <<disk, mem, pend>>
     \/ /\ mem.proc[p].st \notin TerminalProcess /\ p \in seen
        /\ SetProcessStatus(p, "KILLED")
        /\ UNCHANGED <<coord, kids>>
     \/ /\ mem.proc[p].st \in {"FORKED", "RUNNING"} /\ p \notin seen
        /\ SetProcessStatus(p, "LOST")
        /\ UNCHANGED <<coord, kids>>
     \/ /\ mem.proc[p].st = "WAITING" /\ p \notin seen
        /\ UNCHANGED <<disk, mem, pend, coord, kids>>
  /\ UNCHANGED <<pc, at, quota, seen, ret, pos, nxt, cool, expired, forced,
                 stream, late, fin, countVars>>

\* After _kill, on_finalizing switches to the finalizing plan.
EnterFinalizing ==
  /\ Ready("kill") /\ work = {} /\ mem.task = "FINALIZING"
  /\ mem' = [mem EXCEPT !.plan = "final"]
  /\ seen' = {} /\ pc' = ret
  /\ UNCHANGED <<disk, pend, work, at, quota, ret, pos, nxt, cool, expired, forced,
                 worldVars, fin, countVars>>

\* After _kill, a terminal task's file moves to finished/ and the loop ends.
FinalizeTask ==
  /\ Ready("kill") /\ work = {} /\ mem.task \in TerminalTask
  /\ disk' = disk /\ GoDown
  /\ fin' = TRUE
  /\ UNCHANGED <<worldVars, countVars>>

-----------------------------------------------------------------------------
(* The stages of _run. *)

\* Mutant: running processes do not count against max_concurrency.
StagePlanUncounted ==
  /\ Ready("stage")
  /\ mem.task = "FINALIZING" \/ (mem.task = "ACTIVE" /\ forced = "none")
  /\ LET running == WithStatus(mem, Plan, "running")
     IN  /\ work' = running
         /\ quota' = IF MaxConcurrency = 0 THEN Cardinality(Procs)
                     ELSE MaxConcurrency
  /\ pc' = "scan"
  /\ UNCHANGED <<disk, mem, pend, at, seen, ret, pos, nxt, cool, expired, forced,
                 worldVars, fin, countVars>>

\* Mutant: max_concurrency = 0 means none instead of no limit.
StagePlanZero ==
  /\ Ready("stage")
  /\ mem.task = "FINALIZING" \/ (mem.task = "ACTIVE" /\ forced = "none")
  /\ LET running == WithStatus(mem, Plan, "running")
     IN  /\ work' = running
         /\ quota' = Max({MaxConcurrency - Cardinality(running), 0})
  /\ pc' = "scan"
  /\ UNCHANGED <<disk, mem, pend, at, seen, ret, pos, nxt, cool, expired, forced,
                 worldVars, fin, countVars>>

\* ACTIVE and FINALIZING start with _run_plan, whose first loop visits the
\* running processes.  The number of launches is limited by how many run now.
StagePlan ==
  /\ Ready("stage")
  /\ mem.task = "FINALIZING" \/ (mem.task = "ACTIVE" /\ forced = "none")
  /\ LET running == WithStatus(mem, Plan, "running")
     IN  /\ work' = running
         /\ quota' = IF MaxConcurrency = 0 THEN Cardinality(Procs)
                     ELSE Max({MaxConcurrency - Cardinality(running), 0})
  /\ pc' = "scan"
  /\ UNCHANGED <<disk, mem, pend, at, seen, ret, pos, nxt, cool, expired, forced,
                 worldVars, fin, countVars>>

\* kill() found the task ACTIVE.
StageKilled ==
  /\ Ready("stage") /\ mem.task = "ACTIVE" /\ forced # "none"
  /\ SetTaskStatus("CLEANING")
  /\ UNCHANGED <<pend, work, at, quota, seen, ret, pos, nxt, cool, expired, forced,
                 worldVars, fin, countVars>>

\* Mutant: CLEANING waits for the processes whatever the deadline says.
StageCleaningPatient ==
  /\ Ready("stage") /\ mem.task = "CLEANING"
  /\ IF \E p \in Procs : PidsSeen(p)
     THEN pc' = "poll" /\ UNCHANGED <<disk, mem>>
     ELSE SetTaskStatus(IF expired THEN TerminalState ELSE "FINALIZING")
  /\ UNCHANGED <<pend, work, at, quota, seen, ret, pos, nxt, cool, expired, forced,
                 worldVars, fin, countVars>>

StageCleaning ==
  /\ Ready("stage") /\ mem.task = "CLEANING"
  /\ IF ~expired /\ \E p \in Procs : PidsSeen(p)
     THEN pc' = "poll" /\ UNCHANGED <<disk, mem>>
     ELSE SetTaskStatus(IF expired THEN TerminalState ELSE "FINALIZING")
  /\ UNCHANGED <<pend, work, at, quota, seen, ret, pos, nxt, cool, expired, forced,
                 worldVars, fin, countVars>>

-----------------------------------------------------------------------------
(* _run_plan. *)

\* is_process_lost, first half: an overdue fork is lost at once; a RUNNING process
\* whose coordinator is gone is lost unless its stream has more to say.
ScanOne(p) ==
  /\ Ready("scan") /\ p \in work
  /\ \/ /\ mem.proc[p].st = "FORKED" /\ p \in late
        /\ SetProcessStatus(p, "LOST")
        /\ work' = work \ {p}
        /\ UNCHANGED <<pc, at>>
     \/ /\ mem.proc[p].st = "RUNNING" /\ ~CoordinatorSeen(p)
        /\ pc' = "hasdata" /\ at' = p
        /\ UNCHANGED <<disk, mem, pend, work>>
     \/ /\ ~(mem.proc[p].st = "FORKED" /\ p \in late)
        /\ ~(mem.proc[p].st = "RUNNING" /\ ~CoordinatorSeen(p))
        /\ work' = work \ {p}
        /\ UNCHANGED <<disk, mem, pend, pc, at>>
  /\ UNCHANGED <<quota, seen, ret, pos, nxt, cool, expired, forced, worldVars, fin, countVars>>

\* Mutant: a dead coordinator's unread records are ignored.
ScanDataBlind ==
  /\ Ready("hasdata")
  /\ SetProcessStatus(at, "LOST")
  /\ work' = work \ {at} /\ at' = NoProc /\ pc' = "scan"
  /\ UNCHANGED <<quota, seen, ret, pos, nxt, cool, expired, forced, worldVars, fin, countVars>>

\* is_process_lost, second half.
ScanData ==
  /\ Ready("hasdata")
  /\ IF HasData(at) THEN UNCHANGED <<disk, mem, pend>> ELSE SetProcessStatus(at, "LOST")
  /\ work' = work \ {at} /\ at' = NoProc /\ pc' = "scan"
  /\ UNCHANGED <<quota, seen, ret, pos, nxt, cool, expired, forced, worldVars, fin, countVars>>

\* runnable_at and pick_processes: processes that are runnable and have waited
\* out their min_duration, in an arbitrary order, up to the quota.
PickRunnable ==
  /\ Ready("scan") /\ work = {}
  /\ LET ready == Runnable(mem, Plan) \ cool
     IN  work' \in {s \in SUBSET ready : Cardinality(s) = Min({quota, Cardinality(ready)})}
  /\ pc' = "launch" /\ quota' = 0
  /\ UNCHANGED <<disk, mem, pend, at, seen, ret, pos, nxt, cool, expired, forced,
                 worldVars, fin, countVars>>

\* A process without a Process object gets a WAITING record first.
LaunchWaiting(p) ==
  /\ Ready("launch") /\ p \in work \ mem.tp
  /\ IF mem.proc[p].st \in SourceStates("WAITING")
     THEN /\ SetProcessStatus(p, "WAITING")
          /\ UNCHANGED <<pc, work, at, quota, seen, ret, pos, nxt, cool, expired, forced>>
     ELSE disk' = disk /\ GoDown
  /\ UNCHANGED <<worldVars, fin, countVars>>

\* Process.start: the process stream is locked (by a coordinator as long as it
\* lives), then the coordinator is forked.
LaunchFork(p) ==
  /\ Ready("launch") /\ p \in work \intersect mem.tp
  /\ IF mem.proc[p].st = "WAITING"
     THEN /\ coord[p].ph = "none"
          /\ coord' = [coord EXCEPT ![p] =
                         [ph |-> "await", base |-> mem.proc[p].base, by |-> starts]]
          /\ pc' = "fork" /\ at' = p
          /\ UNCHANGED <<disk, mem, pend, work, quota, seen, ret, pos, nxt, cool,
                         expired, forced>>
     ELSE disk' = disk /\ GoDown /\ UNCHANGED coord
  /\ UNCHANGED <<stream, kids, late, fin, countVars>>

\* _finalize_fork: the parent writes FORKED to the process stream.
FinalizeFork ==
  /\ Ready("fork")
  /\ stream' = [stream EXCEPT ![at] =
                  Append(@, [st |-> "FORKED", seq |-> mem.proc[at].base + 1])]
  /\ late' = late \ {at}
  /\ work' = work \ {at} /\ at' = NoProc /\ pc' = "launch"
  /\ UNCHANGED <<disk, mem, pend, quota, seen, ret, pos, nxt, cool, expired, forced,
                 coord, kids, fin, countVars>>

\* Process.start raises: the stream is locked by a live coordinator, or the
\* user or the directories are not what they should be.
LaunchFails(p) ==
  /\ Ready("launch") /\ p \in work \intersect mem.tp
  /\ mem.proc[p].st = "WAITING"
  /\ LaunchMayFail \/ coord[p].ph # "none"
  /\ SetProcessStatus(p, "FAILED")
  /\ work' = work \ {p}
  /\ UNCHANGED <<pc, at, quota, seen, ret, pos, nxt, cool, expired, forced,
                 worldVars, fin, countVars>>

\* The stage decides: on to the next task state, or wait for updates.
EndPlan ==
  /\ Ready("launch") /\ work = {}
  /\ LET done == IF mem.task = "ACTIVE"
                 THEN IsComplete(mem, Regular) \/ ~IsHealthy(mem)
                 ELSE Deadlocked(mem, Final) \/ expired \/ IsComplete(mem, Final)
     IN  IF done
         THEN SetTaskStatus(IF mem.task = "ACTIVE" THEN "CLEANING" ELSE TerminalState)
         ELSE pc' = "poll" /\ UNCHANGED <<disk, mem>>
  /\ UNCHANGED <<pend, work, at, quota, seen, ret, pos, nxt, cool, expired, forced,
                 worldVars, fin, countVars>>

-----------------------------------------------------------------------------
(* collect_updates. *)

\* select() found records.
PollSome ==
  /\ Ready("poll") /\ \E p \in Procs : HasData(p)
  /\ Select([p \in Procs |-> ReadPos(p)])
  /\ pc' = "collect"
  /\ UNCHANGED <<disk, mem, pend, work, at, quota, seen, ret, cool, expired, forced,
                 worldVars, fin, countVars>>

\* The wait is over without a record (or no process is active).
PollNone ==
  /\ Ready("poll") /\ \A p \in Procs : ~HasData(p)
  /\ pc' = "stage"
  /\ UNCHANGED <<disk, mem, pend, work, at, quota, seen, ret, pos, nxt, cool, expired,
                 forced, worldVars, fin, countVars>>

Batched(p) == nxt[p] < pos[p]

\* One record of the batch, stream after stream.
DispatchUpdate(p) ==
  /\ Ready("collect") /\ Batched(p) /\ at \in {p, NoProc}
  /\ LET u == stream[p][nxt[p] + 1]
         r == [p |-> p, st |-> u.st, seq |-> u.seq]
     IN  IF Dispatchable(mem, r)
         THEN /\ Checkpoint(r)
              /\ nxt' = [nxt EXCEPT ![p] = @ + 1]
              /\ at' = IF nxt[p] + 1 < pos[p] THEN p ELSE NoProc
              /\ UNCHANGED <<pc, work, quota, seen, ret, pos, cool, expired, forced>>
         ELSE disk' = disk /\ GoDown
  /\ UNCHANGED <<worldVars, fin, countVars>>

EndCollect ==
  /\ Ready("collect") /\ \A p \in Procs : ~Batched(p)
  /\ nxt' = [p \in Procs |-> 0]
  /\ pc' = "stage"
  /\ UNCHANGED <<disk, mem, pend, work, at, quota, seen, ret, pos, cool, expired,
                 forced, worldVars, fin, countVars>>

-----------------------------------------------------------------------------
(* Signals and crashes of the runner. *)

(***************************************************************************)
(* runner_teardown on SIGUSR1 (kill) or SIGUSR2 (lose): whatever the       *)
(* runner was doing is abandoned where it stands, records read but not     *)
(* dispatched included.  control() refuses a terminal task, and its        *)
(* StateError unwinds the interrupted runner; otherwise the task state is  *)
(* written again under a new preemption deadline (already over for lose).  *)
(***************************************************************************)
KillSignal(status) ==
  /\ Up /\ kills < MaxKills
  /\ kills' = kills + 1
  /\ IF mem.task \in TerminalTask
     THEN disk' = disk /\ GoDown
     ELSE /\ SetTaskStatus(mem.task)
          /\ forced' = status /\ expired' = (status = "LOST")
          /\ pend' = NoRec /\ work' = {} /\ at' = NoProc /\ quota' = 0 /\ seen' = {}
          /\ ret' = "resume" /\ nxt' = [p \in Procs |-> 0]
          /\ UNCHANGED <<pos, cool>>
  /\ UNCHANGED <<worldVars, fin, starts, crashes, deaths>>

\* The runner process dies; memory is gone, coordinators live on.
Crash ==
  /\ Up /\ crashes < MaxCrashes
  /\ crashes' = crashes + 1
  /\ disk' = disk /\ GoDown
  /\ UNCHANGED <<worldVars, fin, starts, kills, deaths>>

-----------------------------------------------------------------------------
(* Coordinators (Process.start in the child, Process.execute) and commands. *)

Write(p, st, offset) ==
  stream' = [stream EXCEPT ![p] = Append(@, [st |-> st, seq |-> coord[p].base + offset])]

\* The FORKED record that _wait_for_control looks for is there.
ForkedWritten(p) ==
  /\ stream[p] # <<>>
  /\ stream[p][Len(stream[p])] = [st |-> "FORKED", seq |-> coord[p].base + 1]

TakeControl(p) ==
  /\ coord[p].ph = "await" /\ ForkedWritten(p)
  /\ coord' = [coord EXCEPT ![p].ph = "ctl"]
  /\ UNCHANGED <<disk, runnerVars, stream, kids, late, fin, countVars>>

\* _wait_for_control times out: CheckpointError ends the coordinator.  A runner
\* that is about to write FORKED does so well within the minute it waits.
GiveUpControl(p) ==
  /\ coord[p].ph = "await" /\ ~ForkedWritten(p)
  /\ ~(pc = "fork" /\ at = p)
  /\ coord' = [coord EXCEPT ![p] = NoCoord]
  /\ UNCHANGED <<disk, runnerVars, stream, kids, late, fin, countVars>>

\* executor.start(): the command runs, its pid is not yet written.
ExecCommand(p) ==
  /\ coord[p].ph = "ctl"
  /\ coord' = [coord EXCEPT ![p].ph = "exec"]
  /\ kids' = [kids EXCEPT ![p] = @ \union {coord[p].base}]
  /\ UNCHANGED <<disk, runnerVars, stream, late, fin, countVars>>

WriteRunning(p) ==
  /\ coord[p].ph = "exec"
  /\ Write(p, "RUNNING", 2)
  /\ coord' = [coord EXCEPT ![p].ph = "run"]
  /\ UNCHANGED <<disk, runnerVars, kids, late, fin, countVars>>

CommandExits(p) ==
  /\ \E b \in kids[p] : kids' = [kids EXCEPT ![p] = @ \ {b}]
  /\ UNCHANGED <<disk, runnerVars, stream, coord, late, fin, countVars>>

\* executor.wait() returned: the return code decides the last record.
WriteTerminal(p, st) ==
  /\ coord[p].ph = "run" /\ coord[p].base \notin kids[p]
  /\ Write(p, st, 3)
  /\ coord' = [coord EXCEPT ![p].ph = "exit"]
  /\ UNCHANGED <<disk, runnerVars, kids, late, fin, countVars>>

\* finish(): the coordinator exits and is reaped.
CoordinatorExits(p) ==
  /\ coord[p].ph = "exit"
  /\ coord' = [coord EXCEPT ![p] = NoCoord]
  /\ UNCHANGED <<disk, runnerVars, stream, kids, late, fin, countVars>>

\* A coordinator dies without another record; its command survives it.
CoordinatorDies(p) ==
  /\ coord[p].ph \in {"await", "ctl", "exec", "run"} /\ deaths < MaxDeaths
  /\ deaths' = deaths + 1
  /\ coord' = [coord EXCEPT ![p] = NoCoord]
  /\ UNCHANGED <<disk, runnerVars, stream, kids, late, fin, starts, crashes, kills>>

-----------------------------------------------------------------------------
(* Time. *)

\* LOST_TIMEOUT passes for a process that is still FORKED.
ForkOverdue(p) ==
  /\ ForkTimeouts /\ Up /\ mem.proc[p].st = "FORKED" /\ p \notin late
  /\ late' = late \union {p}
  /\ UNCHANGED <<disk, runnerVars, stream, coord, kids, fin, countVars>>

\* min_duration passes.
CoolDown(p) ==
  /\ p \in cool
  /\ cool' = cool \ {p}
  /\ UNCHANGED <<disk, mem, pc, pend, work, at, quota, seen, ret, pos, nxt, expired,
                 forced, worldVars, fin, countVars>>

\* The finalization wait, or the preemption deadline of kill, passes.
Expire ==
  /\ Up /\ ~expired /\ (mem.task # "ACTIVE" \/ forced # "none")
  /\ expired' = TRUE
  /\ UNCHANGED <<disk, mem, pc, pend, work, at, quota, seen, ret, pos, nxt, cool,
                 forced, worldVars, fin, countVars>>

-----------------------------------------------------------------------------
RunnerStep ==
  \/ Handler \/ Resume \/ OnActive \/ OnCleaning \/ OnKilling
  \/ EnterFinalizing \/ FinalizeTask
  \/ StagePlan \/ StageKilled \/ StageCleaning
  \/ ScanData \/ PickRunnable \/ FinalizeFork \/ EndPlan
  \/ PollSome \/ PollNone \/ EndCollect
  \/ \E p \in Procs : \/ KillOne(p) \/ ScanOne(p) \/ LaunchWaiting(p)
                       \/ LaunchFork(p) \/ LaunchFails(p) \/ DispatchUpdate(p)

CoordinatorStep(p) ==
  \/ TakeControl(p) \/ GiveUpControl(p) \/ ExecCommand(p) \/ WriteRunning(p)
  \/ \E st \in {"SUCCESS", "FAILED", "KILLED"} : WriteTerminal(p, st)
  \/ CoordinatorExits(p)

Next ==
  \/ RunnerStep \/ Start \/ Crash \/ Expire
  \/ \E status \in {"KILLED", "LOST"} : KillSignal(status)
  \/ \E p \in Procs : \/ CoordinatorStep(p) \/ CommandExits(p)
                       \/ CoordinatorDies(p) \/ ForkOverdue(p) \/ CoolDown(p)

Spec == Init /\ [][Next]_vars

(***************************************************************************)
(* Fairness: the runner's loop keeps running (it never blocks for longer   *)
(* than MAX_ITERATION_WAIT), a coordinator that lives goes on, time        *)
(* passes.  Commands need not end: only the specifications that say so     *)
(* assume that they do.                                                    *)
(***************************************************************************)
RunnerFairness ==
  /\ WF_vars(RunnerStep) /\ WF_vars(Expire)
  /\ \A p \in Procs : WF_vars(CoordinatorStep(p)) /\ WF_vars(CoolDown(p))
                       /\ WF_vars(ForkOverdue(p))

FairSpec == Spec /\ WF_vars(Start) /\ RunnerFairness

-----------------------------------------------------------------------------
(* Properties. *)

\* The types of the runner's control variables, of the streams with their
\* readers, and of the coordinators and counters.
ControlOK ==
  /\ pc \in RunnerPCs
  /\ pend \in ProcessRec \union {NoRec}
  /\ work \subseteq Procs /\ seen \subseteq Procs /\ cool \subseteq Procs
  /\ at \in Procs \union {NoProc}
  /\ pc \in {"hasdata", "fork"} => at \in Procs
  /\ quota \in Nat
  /\ ret \in {"resume", "stage"}
  /\ expired \in BOOLEAN
  /\ forced \in {"none", "KILLED", "LOST"}

StreamsOK ==
  /\ stream \in [Procs -> Seq(StreamRec)]
  /\ pos \in [Procs -> Nat \union {Unbound}]
  /\ nxt \in [Procs -> Nat]
  /\ \A p \in Procs : pos[p] <= Len(stream[p])

WorldOK ==
  /\ coord \in [Procs -> [ph : CoordPhases, base : Int, by : Nat]]
  /\ kids \in [Procs -> SUBSET Int]
  /\ late \subseteq Procs /\ fin \in BOOLEAN
  /\ starts \in Nat /\ crashes \in Nat /\ kills \in Nat /\ deaths \in Nat

(***************************************************************************)
(* Type invariant: what the runner, its log, the process streams and the   *)
(* coordinators may hold.  It includes that the muxer (muxer.py) never     *)
(* reads past the end of a process stream.                                 *)
(***************************************************************************)
TypeOK ==
  /\ disk \in RunnerState /\ mem \in RunnerState
  /\ ControlOK /\ StreamsOK /\ WorldOK

\* The process stream of p holds a SUCCESS that its coordinator wrote.
Succeeded(p) == \E i \in 1..Len(stream[p]) : stream[p][i].st = "SUCCESS"

(***************************************************************************)
(* No coordinator exists for a process before every process ordered ahead  *)
(* of it has written SUCCESS (ephemeral ones may also have failed for      *)
(* good): Planner.runnable, the dispatch of terminal records and the       *)
(* replay after a crash must together never put a process ahead of its     *)
(* dependencies.                                                           *)
(***************************************************************************)
DependencyOrder ==
  \A p \in Procs : coord[p].ph # "none" =>
    \A d \in Deps[p] : d \in Ephemeral \/ Succeeded(d)

(***************************************************************************)
(* The log is always as far as the runner: the replay of what is on disk   *)
(* (TaskRunner._replay_runner_ckpt) gives the process and task states in   *)
(* memory and, between dispatches and if it can be replayed at all, the    *)
(* same plan.  A kill() nested into a dispatch may skip a handler, so the  *)
(* plans are only compared before the first signal.                        *)
(***************************************************************************)
ReplayAgreement ==
  Up => /\ disk.proc = mem.proc /\ disk.task = mem.task
        /\ pend = NoRec /\ disk.ok /\ kills = 0 =>
             /\ disk.pst = mem.pst /\ disk.tp = mem.tp
             /\ disk.runs = mem.runs /\ disk.failures = mem.failures

(***************************************************************************)
(* What a process stream yields next is the record the runner's state      *)
(* machine expects next: fast-forwarding, crashes, restarts and LOST runs  *)
(* never leave the muxer on a stale or a skipped record, which dispatch    *)
(* would answer with InvalidSequenceNumber.  Not so while FINALIZING: the  *)
(* _kill of a restarted runner closes the run of a finalizing process over *)
(* records it has not read, and runs the process again; nor after a kill   *)
(* or lose signal, which drops the batch that was read.                    *)
(***************************************************************************)
StreamInStep ==
  pc = "poll" /\ pend = NoRec /\ mem.task # "FINALIZING" /\ kills = 0 =>
   \A p \in Procs : HasData(p) =>
    Dispatchable(mem, [p |-> p, st |-> stream[p][ReadPos(p) + 1].st,
                       seq |-> stream[p][ReadPos(p) + 1].seq])

(***************************************************************************)
(* A process declared LOST because its coordinator died had no last word   *)
(* to say: is_process_lost looks for the coordinator first and for unread  *)
(* records afterwards, so a run that ended regularly is never re-run.      *)
(***************************************************************************)
LostMeansSilent ==
  \A p \in Procs : disk.task = "ACTIVE" /\ disk.proc[p].st = "LOST" /\ disk.proc[p].pid =>
    \A i \in 1..Len(stream[p]) : stream[p][i].seq < disk.proc[p].seq

(***************************************************************************)
(* Two runs of one process never overlap: before a process is launched     *)
(* again, _cleanup has killed what is left of its last run, even when the  *)
(* coordinator died and left its command behind.  So it is under the first *)
(* runner; one that dies between a LOST record and kill_process leaves the *)
(* command to a successor that knows nothing of it.                        *)
(***************************************************************************)
AtMostOneCommand == starts <= 1 => \A p \in Procs : Cardinality(kids[p]) <= 1

(***************************************************************************)
(* max_concurrency of the task (pick_processes in _run_plan) bounds the    *)
(* processes with a live command, not just those the plan calls running,   *)
(* with the same restriction to the first runner.                          *)
(***************************************************************************)
ConcurrencyLimit ==
  starts <= 1 /\ mem.task = "ACTIVE" /\ MaxConcurrency > 0 =>
    Cardinality({p \in Procs : kids[p] # {}}) <= MaxConcurrency

(***************************************************************************)
(* When the task's file has moved to finished/ (finalize_task), the only   *)
(* commands that may still be alive belong to processes that the runner    *)
(* launched without ever reading their FORKED record, and with it the pid  *)
(* of the coordinator (under the first runner, as AtMostOneCommand).       *)
(***************************************************************************)
OnlyUnreadSurvive ==
  fin /\ starts <= 1 => \A p \in Procs : kids[p] # {} => ~disk.proc[p].cpid

(***************************************************************************)
(* The verdict fits what happened.  A task ends as SUCCESS only when its   *)
(* regular plan is complete and fewer of its lasting processes failed for  *)
(* good than max_failures says (TaskRunner.terminal_state, is_healthy),    *)
(* whatever signals came in on the way; kill promises to "set task/process *)
(* states as terminal_status", and a task that received kill or lose and   *)
(* was finalized ended as KILLED or LOST.  The status that a signal forces *)
(* is only in the memory of the runner that got it: after a signal this    *)
(* speaks of the first runner.                                             *)
(***************************************************************************)
VerdictFits ==
  /\ disk.task = "SUCCESS" /\ (kills = 0 \/ starts <= 1) =>
       /\ IsComplete(disk, Regular)
       /\ \/ TaskMaxFailures = 0
          \/ Cardinality(WithStatus(disk, Regular \ Ephemeral, "failed")) < TaskMaxFailures
  /\ kills > 0 /\ fin /\ starts <= 1 => disk.task \in {"KILLED", "LOST"}

Ledger == INSTANCE TaskLedger WITH
  task <- disk.task,
  status <- [p \in Procs |-> disk.proc[p].st],
  last <- [p \in Procs |-> disk.proc[p].seq],
  signalled <- kills > 0,
  closed <- fin

(***************************************************************************)
(* The runners of a task, however many there are and whatever happens to   *)
(* them, write a checkpoint that keeps the promises of TaskLedger.         *)
(***************************************************************************)
ImplementsLedger == Ledger!Spec

(***************************************************************************)
(* A runner told to kill or lose its task ends, even if no command ever    *)
(* exits and no coordinator ever writes: the preemption deadline ends      *)
(* CLEANING and FINALIZING (_finalization_remaining).                      *)
(***************************************************************************)
KillTerminates == forced # "none" ~> ~Up

(***************************************************************************)
(* If commands end, an undisturbed task is finalized: every path through   *)
(* ACTIVE, CLEANING and FINALIZING of _run makes progress.  It is so when  *)
(* no regular process is launched in the pass that fails the plan; the     *)
(* FORKED record of one that is meets the finalizing plan, whose assertion *)
(* (planner.py set_running) ends the runner, and every later one.          *)
(***************************************************************************)
TaskTerminates ==
  (\A p \in Procs : WF_vars(CommandExits(p))) => <>(fin \/ kills > 0)
=============================================================================
