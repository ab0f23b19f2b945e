------------------------- MODULE ThermosRunnerProofs -------------------------
(***************************************************************************)
(* Proofs about the Thermos runner for every task: any set of processes,   *)
(* any order constraints, any limits, any number of crashes, restarts and  *)
(* signals.                                                                *)
(*                                                                         *)
(*   OrderInv    what is checkpointed, in memory, picked or forked never   *)
(*               is ahead of its dependencies;                             *)
(*   LogInv      the log is as far as the runner;                          *)
(*   TrailInv    the streams of the processes count up, run after run;     *)
(*               what the muxer has read of them is what the runner has    *)
(*               recorded, and who still writes to them belongs to the     *)
(*               latest run.                                               *)
(***************************************************************************)
EXTENDS ThermosRunner, FiniteSetTheorems, SequenceTheorems, TLAPS

-----------------------------------------------------------------------------
(* The operators of ThermosPlan stay within RunnerState. *)

\* CheckpointDispatcher applies a record to a process and leaves the rest alone.
LEMMA UpdateProcessType ==
  ASSUME NEW s \in RunnerState, NEW r \in ProcessRec
  PROVE  UpdateProcess(s, r) \in RunnerState
BY DEF RunnerState, ProcessRec, UpdateProcess, ProcessRun, NoRun, ProcessStates

\* A process's books after a run are again planner statuses.
LEMMA StatusAfterType ==
  ASSUME NEW s, NEW p, NEW st
  PROVE  StatusAfter(s, p, st) \in PlanStatus
BY DEF StatusAfter, PlanStatus

\* The plan bookkeeping of TaskRunnerProcessHandler stays within RunnerState.
LEMMA HandleProcessType ==
  ASSUME NEW s \in RunnerState, NEW r \in ProcessRec
  PROVE  HandleProcess(s, r) \in RunnerState
<1>1. \A t \in RunnerState : Raised(t) \in RunnerState
  BY DEF Raised, RunnerState
<1>2. \A t \in RunnerState : SetRunning(t, r.p) \in RunnerState
  BY <1>1 DEF SetRunning, RunnerState, ProcessRec, PlanStatus
<1>3. ASSUME NEW t \in RunnerState
      PROVE  EndRun(t, r.p, r.st) \in RunnerState
  <2>1. StatusAfter(t, r.p, r.st) \in PlanStatus
    BY StatusAfterType
  <2> DEFINE u == [t EXCEPT !.runs[r.p] = @ + 1,
                            !.failures[r.p] = IF r.st = "FAILED" THEN @ + 1 ELSE @,
                            !.pst[r.p] = StatusAfter(t, r.p, r.st)]
  <2>2. u.runs \in [Procs -> Nat] /\ u.failures \in [Procs -> Nat]
    BY DEF RunnerState, ProcessRec
  <2>3. u.pst \in [Procs -> PlanStatus]
    BY <2>1 DEF RunnerState, ProcessRec
  <2>4. u \in RunnerState
    BY <2>2, <2>3 DEF RunnerState
  <2> QED
    BY <1>1, <2>4 DEF EndRun
<1>4. [s EXCEPT !.tp = @ \union {r.p}] \in RunnerState
  BY DEF RunnerState, ProcessRec
<1>5. [s EXCEPT !.tp = @ \ {r.p}] \in RunnerState
  BY DEF RunnerState
<1> QED
  BY <1>1, <1>2, <1>3, <1>4, <1>5 DEF HandleProcess

\* Replaying a process record stays within RunnerState.
LEMMA ReplayProcessType ==
  ASSUME NEW s \in RunnerState, NEW r \in ProcessRec
  PROVE  ReplayProcess(s, r) \in RunnerState
BY UpdateProcessType, HandleProcessType DEF ReplayProcess

\* So does replaying a task record.
LEMMA ReplayTaskType ==
  ASSUME NEW s \in RunnerState, NEW task \in TaskStates
  PROVE  ReplayTask(s, task) \in RunnerState
BY DEF ReplayTask, PlanFor, RunnerState

LEMMA InitStateType == InitState \in RunnerState
BY DEF InitState, RunnerState, NoRun, ProcessRun, ProcessStates, TaskStates, PlanStatus

-----------------------------------------------------------------------------
(* The muxer. *)

\* Counting positions of a sequence gives a position.
LEMMA PositionCount ==
  ASSUME NEW n \in Nat, NEW S \in SUBSET (1..n)
  PROVE  Cardinality(S) \in 0..n
<1>1. IsFiniteSet(1..n) /\ Cardinality(1..n) = n
  BY FS_Interval
<1>2. Cardinality(S) \in Nat /\ Cardinality(S) <= n
  BY <1>1, FS_Subset, FS_CardinalityType
<1> QED
  BY <1>2

\* _fast_forward_stream never seeks past the end of the stream.
LEMMA FastForwardType ==
  ASSUME NEW s \in Seq(StreamRec), NEW w \in Int
  PROVE  FastForward(s, w) \in 0..Len(s)
<1>1. Cardinality(Below(s, w)) \in 0..Len(s)
  <2>1. Len(s) \in Nat /\ Below(s, w) \in SUBSET (1..Len(s))
    BY DEF Below
  <2> QED
    BY <2>1, PositionCount
<1> QED
  BY <1>1 DEF FastForward

LEMMA ReadPosType ==
  ASSUME TypeOK, NEW p \in Procs
  PROVE  ReadPos(p) \in 0..Len(stream[p])
<1>1. stream[p] \in Seq(StreamRec) /\ pos[p] \in Nat \union {Unbound} /\ pos[p] <= Len(stream[p])
  BY DEF TypeOK, StreamsOK
<1>2. mem.proc[p].base - 1 \in Int
  BY DEF TypeOK, RunnerState, ProcessRun
<1>3. FastForward(stream[p], mem.proc[p].base - 1) \in 0..Len(stream[p])
  BY <1>1, <1>2, FastForwardType
<1> QED
  BY <1>1, <1>3 DEF ReadPos, Unbound

\* select() leaves every handle at or before the end of its stream.
LEMMA SelectType ==
  ASSUME TypeOK, NEW first \in [Procs -> Nat], Select(first)
  PROVE  /\ pos' \in [Procs -> Nat \union {Unbound}]
         /\ nxt' \in [Procs -> Nat]
         /\ \A p \in Procs : pos'[p] <= Len(stream[p])
<1>1. \A p \in Procs : Len(stream[p]) \in Nat
  BY DEF TypeOK, StreamsOK
<1> QED
  BY <1>1 DEF Select, Unbound

-----------------------------------------------------------------------------
(* The steps that several actions share. *)

\* Checkpointing a record keeps log and memory well-formed.
LEMMA CheckpointType ==
  ASSUME TypeOK, NEW r \in ProcessRec, Checkpoint(r)
  PROVE  disk' \in RunnerState /\ mem' \in RunnerState /\ pend' \in ProcessRec
BY UpdateProcessType, ReplayProcessType DEF Checkpoint, TypeOK

LEMMA SetProcessStatusType ==
  ASSUME TypeOK, NEW p \in Procs, NEW st \in ProcessStates, SetProcessStatus(p, st)
  PROVE  disk' \in RunnerState /\ mem' \in RunnerState /\ pend' \in ProcessRec
<1>1. mem.proc[p].seq + 1 \in Int
  BY DEF TypeOK, RunnerState, ProcessRun
<1>2. Rec(p, st) \in ProcessRec
  BY <1>1 DEF Rec, ProcessRec
<1> QED
  BY <1>2, CheckpointType DEF SetProcessStatus

LEMMA SetTaskStatusType ==
  ASSUME TypeOK, NEW task \in TaskStates, SetTaskStatus(task)
  PROVE  disk' \in RunnerState /\ mem' \in RunnerState /\ pc' = "task"
BY ReplayTaskType DEF SetTaskStatus, TypeOK, RunnerState

\* The runner's variables once its process is gone.
LEMMA GoDownType ==
  ASSUME TypeOK, GoDown
  PROVE  /\ ControlOK'
         /\ UNCHANGED stream => StreamsOK'
         /\ disk' = disk => disk' \in RunnerState /\ mem' \in RunnerState
<1>1. ControlOK'
  BY DEF GoDown, ControlOK, RunnerPCs
<1>2. ASSUME UNCHANGED stream
      PROVE  StreamsOK'
  <2>1. stream' \in [Procs -> Seq(StreamRec)]
    BY <1>2 DEF TypeOK, StreamsOK
  <2>2. \A p \in Procs : Unbound <= Len(stream'[p])
    BY <2>1 DEF Unbound
  <2> QED
    BY <2>1, <2>2 DEF GoDown, StreamsOK
<1> QED
  BY <1>1, <1>2 DEF GoDown, TypeOK

\* Appending to a process stream leaves the handles inside it.
LEMMA AppendType ==
  ASSUME TypeOK, NEW p \in Procs, NEW r \in StreamRec,
         stream' = [stream EXCEPT ![p] = Append(@, r)], UNCHANGED <<pos, nxt>>
  PROVE  StreamsOK'
<1>1. \A q \in Procs : /\ stream'[q] \in Seq(StreamRec)
                       /\ Len(stream[q]) \in Nat /\ Len(stream'[q]) \in Nat
                       /\ Len(stream[q]) <= Len(stream'[q])
  BY DEF TypeOK, StreamsOK
<1>2. \A q \in Procs : pos[q] <= Len(stream[q]) /\ pos[q] \in Int
  BY DEF TypeOK, StreamsOK, Unbound
<1>3. \A q \in Procs : pos'[q] <= Len(stream'[q])
  BY <1>1, <1>2
<1> QED
  BY <1>1, <1>3 DEF TypeOK, StreamsOK

\* Killing a process and terminating orphans only remove coordinators and commands.
LEMMA KillProcessType ==
  ASSUME TypeOK, NEW p \in Procs, KillProcess(p)
  PROVE  /\ coord' \in [Procs -> [ph : CoordPhases, base : Int, by : Nat]]
         /\ kids' \in [Procs -> SUBSET Int]
<1>1. coord' \in [Procs -> [ph : CoordPhases, base : Int, by : Nat]]
  <2>1. NoCoord \in [ph : CoordPhases, base : Int, by : Nat]
    BY DEF NoCoord, CoordPhases
  <2>2. coord \in [Procs -> [ph : CoordPhases, base : Int, by : Nat]]
    BY DEF TypeOK, WorldOK
  <2> QED
    BY <2>1, <2>2 DEF KillProcess
<1>2. kids' \in [Procs -> SUBSET Int]
  BY DEF TypeOK, WorldOK, KillProcess
<1> QED
  BY <1>1, <1>2

LEMMA TerminalStateType == TypeOK => TerminalState \in TerminalTask
BY DEF TypeOK, ControlOK, TerminalState, TerminalTask

\* How many processes a pass may launch is a natural number.
LEMMA QuotaType ==
  ASSUME NEW S \in SUBSET Procs
  PROVE  /\ Cardinality(Procs) \in Nat
         /\ Max({MaxConcurrency - Cardinality(S), 0}) \in Nat
<1>1. IsFiniteSet(Procs) /\ MaxConcurrency \in Nat
  BY PlanAssumption
<1>2. Cardinality(Procs) \in Nat /\ Cardinality(S) \in Nat
  BY <1>1, FS_Subset, FS_CardinalityType
<1>3. ASSUME NEW a \in Int
      PROVE  Max({a, 0}) \in Nat
  <2>1. \E x \in {a, 0} : \A y \in {a, 0} : x >= y
    BY a >= 0 \/ 0 >= a
  <2>2. Max({a, 0}) \in {a, 0} /\ \A y \in {a, 0} : Max({a, 0}) >= y
    BY <2>1, Zenon DEF Max
  <2> QED
    BY <2>2
<1> QED
  BY <1>1, <1>2, <1>3

-----------------------------------------------------------------------------
(* TypeOK is inductive. *)

LEMMA InitTypeOK == Init => TypeOK
<1> SUFFICES ASSUME Init PROVE TypeOK
  OBVIOUS
<1>1. ControlOK
  BY DEF Init, ControlOK, RunnerPCs
<1>2. StreamsOK
  BY DEF Init, StreamsOK, Unbound
<1>3. WorldOK
  <2>1. NoCoord \in [ph : CoordPhases, base : Int, by : Nat]
    BY DEF NoCoord, CoordPhases
  <2> QED
    BY <2>1 DEF Init, WorldOK
<1> QED
  BY <1>1, <1>2, <1>3, InitStateType DEF Init, TypeOK

\* A record that collect_updates read from a stream.
LEMMA DispatchedType ==
  ASSUME TypeOK, NEW p \in Procs, Batched(p)
  PROVE  /\ nxt[p] + 1 \in 1..Len(stream[p])
         /\ [p |-> p, st |-> stream[p][nxt[p] + 1].st, seq |-> stream[p][nxt[p] + 1].seq] \in ProcessRec
<1>1. stream[p] \in Seq(StreamRec) /\ Len(stream[p]) \in Nat
  BY DEF TypeOK, StreamsOK
<1>2. nxt[p] \in Nat /\ pos[p] \in Int /\ nxt[p] < pos[p] /\ pos[p] <= Len(stream[p])
  BY DEF TypeOK, StreamsOK, Batched, Unbound
<1>3. nxt[p] + 1 \in 1..Len(stream[p])
  BY <1>1, <1>2
<1>4. stream[p][nxt[p] + 1] \in StreamRec
  BY <1>1, <1>3
<1> QED
  BY <1>3, <1>4 DEF StreamRec, ProcessRec

\* Coordinators, commands and counters.
LEMMA NextWorldOK ==
  ASSUME TypeOK, [Next]_vars
  PROVE  WorldOK'
<1>1. CASE \/ Resume \/ OnActive \/ OnKilling \/ EnterFinalizing \/ StagePlan
           \/ StageKilled \/ StageCleaning \/ ScanData \/ PickRunnable \/ FinalizeFork
           \/ EndPlan \/ PollSome \/ PollNone \/ EndCollect \/ Expire
  BY <1>1 DEF TypeOK, WorldOK, worldVars, countVars, Resume, OnActive, OnKilling, EnterFinalizing,
     StagePlan, StageKilled, StageCleaning, ScanData, PickRunnable, FinalizeFork,
     EndPlan, PollSome, PollNone, EndCollect, Expire
<1>2. ASSUME NEW p \in Procs,
             \/ ScanOne(p) \/ LaunchWaiting(p) \/ LaunchFails(p) \/ DispatchUpdate(p)
             \/ CommandExits(p) \/ ForkOverdue(p) \/ CoolDown(p)
      PROVE  WorldOK'
  BY <1>2 DEF TypeOK, WorldOK, runnerVars, worldVars, countVars, ScanOne, LaunchWaiting,
     LaunchFails, DispatchUpdate, CommandExits, ForkOverdue, CoolDown
<1>3. CASE Handler
  <2>1. pend \in ProcessRec
    BY <1>3 DEF TypeOK, ControlOK, Handler
  <2>2. coord' \in [Procs -> [ph : CoordPhases, base : Int, by : Nat]] /\ kids' \in [Procs -> SUBSET Int]
    BY <1>3, <2>1, KillProcessType DEF TypeOK, WorldOK, Handler, ProcessRec
  <2> QED
    BY <1>3, <2>2 DEF TypeOK, WorldOK, Handler, countVars
<1>4. CASE OnCleaning
  BY <1>4 DEF TypeOK, WorldOK, OnCleaning, worldVars, countVars, TerminateOrphans, NoCoord, CoordPhases
<1>5. CASE FinalizeTask
  BY <1>5 DEF TypeOK, WorldOK, FinalizeTask, worldVars, countVars
<1>6. ASSUME NEW p \in Procs, KillOne(p)
      PROVE  WorldOK'
  BY <1>6, KillProcessType DEF TypeOK, WorldOK, KillOne, worldVars, countVars
<1>7. ASSUME NEW p \in Procs, LaunchFork(p)
      PROVE  WorldOK'
  <2>1. mem.proc[p].base \in Int
    BY DEF TypeOK, RunnerState, ProcessRun
  <2> QED
    BY <1>7, <2>1 DEF TypeOK, WorldOK, LaunchFork, CoordPhases, countVars
<1>8. CASE Start
  BY <1>8 DEF TypeOK, WorldOK, Start, worldVars, countVars
<1>9. CASE Crash
  BY <1>9 DEF TypeOK, WorldOK, Crash, worldVars, countVars
<1>10. ASSUME NEW status \in {"KILLED", "LOST"}, KillSignal(status)
      PROVE  WorldOK'
  BY <1>10 DEF TypeOK, WorldOK, KillSignal, worldVars, countVars
<1>11. ASSUME NEW p \in Procs, TakeControl(p)
      PROVE  WorldOK'
  BY <1>11 DEF TypeOK, WorldOK, TakeControl, runnerVars, worldVars, countVars, CoordPhases
<1>12. ASSUME NEW p \in Procs, GiveUpControl(p)
      PROVE  WorldOK'
  BY <1>12 DEF TypeOK, WorldOK, GiveUpControl, runnerVars, worldVars, countVars, CoordPhases, NoCoord
<1>13. ASSUME NEW p \in Procs, ExecCommand(p)
      PROVE  WorldOK'
  BY <1>13 DEF TypeOK, WorldOK, ExecCommand, runnerVars, worldVars, countVars, CoordPhases
<1>14. ASSUME NEW p \in Procs, WriteRunning(p)
      PROVE  WorldOK'
  BY <1>14 DEF TypeOK, WorldOK, WriteRunning, runnerVars, worldVars, countVars, CoordPhases
<1>15. ASSUME NEW p \in Procs, NEW st \in {"SUCCESS", "FAILED", "KILLED"}, WriteTerminal(p, st)
      PROVE  WorldOK'
  BY <1>15 DEF TypeOK, WorldOK, WriteTerminal, runnerVars, worldVars, countVars, CoordPhases
<1>16. ASSUME NEW p \in Procs, CoordinatorExits(p)
      PROVE  WorldOK'
  BY <1>16 DEF TypeOK, WorldOK, CoordinatorExits, runnerVars, worldVars, countVars, CoordPhases, NoCoord
<1>17. ASSUME NEW p \in Procs, CoordinatorDies(p)
      PROVE  WorldOK'
  BY <1>17 DEF TypeOK, WorldOK, CoordinatorDies, runnerVars, worldVars, countVars, CoordPhases, NoCoord
<1>18. CASE UNCHANGED vars
  BY <1>18 DEF TypeOK, WorldOK, vars, runnerVars, worldVars, countVars
<1> QED
  BY <1>1, <1>2, <1>3, <1>4, <1>5, <1>6, <1>7, <1>8, <1>9, <1>10, <1>11, <1>12, <1>13,
     <1>14, <1>15, <1>16, <1>17, <1>18
     DEF Next, RunnerStep, CoordinatorStep

\* Streams and the positions of the muxer's handles.
LEMMA NextStreamsOK ==
  ASSUME TypeOK, [Next]_vars
  PROVE  StreamsOK'
<1>1. CASE \/ OnActive \/ OnCleaning \/ OnKilling \/ EnterFinalizing \/ StagePlan
           \/ StageKilled \/ StageCleaning \/ ScanData \/ PickRunnable \/ EndPlan
           \/ PollNone \/ EndCollect \/ Start \/ Expire
  BY <1>1 DEF TypeOK, StreamsOK, worldVars, countVars, OnActive, OnCleaning, OnKilling,
     EnterFinalizing, StagePlan, StageKilled, StageCleaning, ScanData, PickRunnable,
     EndPlan, PollNone, EndCollect, Start, Expire
<1>2. ASSUME NEW p \in Procs,
             \/ KillOne(p) \/ ScanOne(p) \/ LaunchFails(p) \/ TakeControl(p)
             \/ GiveUpControl(p) \/ ExecCommand(p) \/ CoordinatorExits(p)
             \/ CommandExits(p) \/ CoordinatorDies(p) \/ ForkOverdue(p) \/ CoolDown(p)
      PROVE  StreamsOK'
  BY <1>2 DEF TypeOK, StreamsOK, runnerVars, worldVars, countVars, KillOne, ScanOne, LaunchFails,
     TakeControl, GiveUpControl, ExecCommand, CoordinatorExits, CommandExits,
     CoordinatorDies, ForkOverdue, CoolDown
<1>3. CASE Handler
  <2>1. pend \in ProcessRec
    BY <1>3 DEF TypeOK, ControlOK, Handler
  <2>2. CASE GoDown
    BY <1>3, <2>2, GoDownType DEF Handler
  <2>3. CASE /\ UNCHANGED nxt
             /\ pos' = IF pend.st = "WAITING" THEN [pos EXCEPT ![pend.p] = Unbound] ELSE pos
    <3>1. \A q \in Procs : pos'[q] = pos[q] \/ pos'[q] = Unbound
      BY <2>1, <2>3 DEF TypeOK, StreamsOK, ProcessRec
    <3>2. \A q \in Procs : Unbound <= Len(stream[q])
      BY DEF TypeOK, StreamsOK, Unbound
    <3> QED
      BY <1>3, <2>1, <2>3, <3>1, <3>2 DEF TypeOK, StreamsOK, Handler, ProcessRec
  <2> QED
    BY <1>3, <2>2, <2>3 DEF Handler
<1>4. CASE Resume
  <2>1. \A p \in Procs : Known(p) \in SUBSET (1..Len(stream[p])) /\ Len(stream[p]) \in Nat
    BY DEF TypeOK, StreamsOK, Known
  <2>2. [p \in Procs |-> Cardinality(Known(p))] \in [Procs -> Nat]
    BY <2>1, PositionCount
  <2> QED
    BY <1>4, <2>2, SelectType DEF TypeOK, StreamsOK, Resume, worldVars
<1>5. CASE FinalizeTask
  BY <1>5, GoDownType DEF TypeOK, StreamsOK, FinalizeTask, worldVars, countVars
<1>6. CASE FinalizeFork
  <2>1. at \in Procs /\ mem.proc[at].base + 1 \in Int
    BY <1>6 DEF TypeOK, ControlOK, FinalizeFork, Ready, RunnerState, ProcessRun
  <2>2. [st |-> "FORKED", seq |-> mem.proc[at].base + 1] \in StreamRec
    BY <2>1 DEF StreamRec, ProcessStates
  <2> QED
    BY <1>6, <2>1, <2>2, AppendType DEF FinalizeFork
<1>7. CASE PollSome
  <2>1. [p \in Procs |-> ReadPos(p)] \in [Procs -> Nat]
    BY ReadPosType DEF TypeOK, StreamsOK
  <2> QED
    BY <1>7, <2>1, SelectType DEF TypeOK, StreamsOK, PollSome, worldVars
<1>8. ASSUME NEW p \in Procs, LaunchWaiting(p)
      PROVE  StreamsOK'
  BY <1>8, GoDownType DEF TypeOK, StreamsOK, LaunchWaiting, worldVars, countVars
<1>9. ASSUME NEW p \in Procs, LaunchFork(p)
      PROVE  StreamsOK'
  BY <1>9, GoDownType DEF TypeOK, StreamsOK, LaunchFork, worldVars, countVars
<1>10. ASSUME NEW p \in Procs, DispatchUpdate(p)
      PROVE  StreamsOK'
  <2>1. CASE GoDown
    BY <1>10, <2>1, GoDownType DEF DispatchUpdate, worldVars
  <2>2. CASE nxt' = [nxt EXCEPT ![p] = @ + 1] /\ UNCHANGED pos
    BY <1>10, <2>2 DEF TypeOK, StreamsOK, DispatchUpdate, worldVars
  <2> QED
    BY <1>10, <2>1, <2>2 DEF DispatchUpdate
<1>11. CASE Crash
  BY <1>11, GoDownType DEF TypeOK, StreamsOK, Crash, worldVars, countVars
<1>12. ASSUME NEW status \in {"KILLED", "LOST"}, KillSignal(status)
      PROVE  StreamsOK'
  <2>1. CASE mem.task \in TerminalTask
    BY <1>12, <2>1, GoDownType DEF KillSignal, worldVars
  <2>2. CASE mem.task \notin TerminalTask
    BY <1>12, <2>2 DEF TypeOK, StreamsOK, KillSignal, worldVars
  <2> QED
    BY <2>1, <2>2
<1>13. ASSUME NEW p \in Procs, WriteRunning(p)
      PROVE  StreamsOK'
  <2>1. coord[p].base + 2 \in Int
    BY DEF TypeOK, WorldOK
  <2>2. [st |-> "RUNNING", seq |-> coord[p].base + 2] \in StreamRec
    BY <2>1 DEF StreamRec, ProcessStates
  <2> QED
    BY <1>13, <2>2, AppendType DEF WriteRunning, Write, runnerVars
<1>14. ASSUME NEW p \in Procs, NEW st \in {"SUCCESS", "FAILED", "KILLED"}, WriteTerminal(p, st)
      PROVE  StreamsOK'
  <2>1. coord[p].base + 3 \in Int
    BY DEF TypeOK, WorldOK
  <2>2. [st |-> st, seq |-> coord[p].base + 3] \in StreamRec
    BY <2>1 DEF StreamRec, ProcessStates
  <2> QED
    BY <1>14, <2>2, AppendType DEF WriteTerminal, Write, runnerVars
<1>15. CASE UNCHANGED vars
  BY <1>15 DEF TypeOK, StreamsOK, vars, runnerVars, worldVars, countVars
<1> QED
  BY <1>1, <1>2, <1>3, <1>4, <1>5, <1>6, <1>7, <1>8, <1>9, <1>10, <1>11, <1>12, <1>13,
     <1>14, <1>15
     DEF Next, RunnerStep, CoordinatorStep

\* The control variables of the runner.
LEMMA NextControlOK ==
  ASSUME TypeOK, [Next]_vars
  PROVE  ControlOK'
<1>1. CASE \/ OnActive \/ OnCleaning \/ OnKilling \/ EnterFinalizing \/ FinalizeFork
           \/ PollNone \/ EndCollect \/ Start \/ Expire
  BY <1>1 DEF TypeOK, ControlOK, Ready, RunnerPCs, worldVars, countVars, OnActive, OnCleaning,
     OnKilling, EnterFinalizing, FinalizeFork, PollNone, EndCollect, Start, Expire
<1>2. ASSUME NEW p \in Procs,
             \/ TakeControl(p) \/ GiveUpControl(p) \/ ExecCommand(p) \/ WriteRunning(p)
             \/ CoordinatorExits(p) \/ CommandExits(p) \/ CoordinatorDies(p)
             \/ ForkOverdue(p) \/ CoolDown(p)
      PROVE  ControlOK'
  BY <1>2 DEF TypeOK, ControlOK, Ready, RunnerPCs, runnerVars, worldVars, countVars, TakeControl,
     GiveUpControl, ExecCommand, WriteRunning, CoordinatorExits, CommandExits,
     CoordinatorDies, ForkOverdue, CoolDown
<1>3. CASE Handler
  <2>1. pend \in ProcessRec
    BY <1>3 DEF TypeOK, ControlOK, Handler
  <2>2. CASE GoDown
    BY <2>2, GoDownType
  <2>3. CASE ~GoDown
    BY <1>3, <2>1, <2>3 DEF TypeOK, ControlOK, Handler, ProcessRec
  <2> QED
    BY <2>2, <2>3
<1>4. CASE Resume
  BY <1>4 DEF TypeOK, ControlOK, Ready, RunnerPCs, Resume, worldVars, countVars, Select
<1>5. CASE FinalizeTask
  BY <1>5, GoDownType DEF FinalizeTask
<1>6. CASE StagePlan
  <2>1. WithStatus(mem, Plan, "running") \in SUBSET Procs
    BY DEF WithStatus, Plan, Procs
  <2>2. quota' \in Nat
    BY <1>6, <2>1, QuotaType DEF StagePlan
  <2> QED
    BY <1>6, <2>1, <2>2 DEF TypeOK, ControlOK, Ready, RunnerPCs, StagePlan
<1>7. CASE StageKilled
  BY <1>7 DEF TypeOK, ControlOK, Ready, RunnerPCs, StageKilled, worldVars, countVars, SetTaskStatus
<1>8. CASE StageCleaning
  BY <1>8 DEF TypeOK, ControlOK, Ready, RunnerPCs, StageCleaning, worldVars, countVars, SetTaskStatus
<1>9. CASE ScanData
  <2>1. at \in Procs
    BY <1>9 DEF TypeOK, ControlOK, Ready, ScanData
  <2>2. ASSUME SetProcessStatus(at, "LOST")
        PROVE  pend' \in ProcessRec
    BY <2>1, <2>2, SetProcessStatusType DEF ProcessStates
  <2> QED
    BY <1>9, <2>2 DEF TypeOK, ControlOK, Ready, RunnerPCs, ScanData
<1>10. CASE PickRunnable
  BY <1>10 DEF TypeOK, ControlOK, Ready, RunnerPCs, PickRunnable, worldVars, countVars, Runnable, Plan, Procs
<1>11. CASE EndPlan
  BY <1>11 DEF TypeOK, ControlOK, Ready, RunnerPCs, EndPlan, worldVars, countVars, SetTaskStatus
<1>12. CASE PollSome
  BY <1>12 DEF TypeOK, ControlOK, Ready, RunnerPCs, PollSome, worldVars, countVars, Select
<1>13. ASSUME NEW p \in Procs, KillOne(p)
      PROVE  ControlOK'
  <2>1. ASSUME NEW st \in ProcessStates, SetProcessStatus(p, st)
        PROVE  pend' \in ProcessRec
    BY <2>1, SetProcessStatusType
  <2> QED
    BY <1>13, <2>1 DEF TypeOK, ControlOK, Ready, RunnerPCs, ProcessStates, KillOne
<1>14. ASSUME NEW p \in Procs, ScanOne(p)
      PROVE  ControlOK'
  <2>1. ASSUME NEW st \in ProcessStates, SetProcessStatus(p, st)
        PROVE  pend' \in ProcessRec
    BY <2>1, SetProcessStatusType
  <2> QED
    BY <1>14, <2>1 DEF TypeOK, ControlOK, Ready, RunnerPCs, ProcessStates, ScanOne
<1>15. ASSUME NEW p \in Procs, LaunchWaiting(p)
      PROVE  ControlOK'
  <2>1. CASE GoDown
    BY <2>1, GoDownType
  <2>2. CASE SetProcessStatus(p, "WAITING")
    <3>1. pend' \in ProcessRec
      BY <2>2, SetProcessStatusType DEF ProcessStates
    <3> QED
      BY <1>15, <2>1, <3>1 DEF TypeOK, ControlOK, Ready, RunnerPCs, LaunchWaiting
  <2> QED
    BY <1>15, <2>1, <2>2 DEF LaunchWaiting
<1>16. ASSUME NEW p \in Procs, LaunchFork(p)
      PROVE  ControlOK'
  <2>1. CASE GoDown
    BY <2>1, GoDownType
  <2>2. CASE ~GoDown
    BY <1>16, <2>2 DEF TypeOK, ControlOK, Ready, RunnerPCs, LaunchFork
  <2> QED
    BY <2>1, <2>2
<1>17. ASSUME NEW p \in Procs, LaunchFails(p)
      PROVE  ControlOK'
  <2>1. ASSUME NEW st \in ProcessStates, SetProcessStatus(p, st)
        PROVE  pend' \in ProcessRec
    BY <2>1, SetProcessStatusType
  <2> QED
    BY <1>17, <2>1 DEF TypeOK, ControlOK, Ready, RunnerPCs, ProcessStates, LaunchFails
<1>18. ASSUME NEW p \in Procs, DispatchUpdate(p)
      PROVE  ControlOK'
  <2>1. CASE GoDown
    BY <2>1, GoDownType
  <2>2. CASE ~GoDown
    <3>1. pend' \in ProcessRec
      BY <1>18, <2>2, DispatchedType DEF Checkpoint, DispatchUpdate
    <3> QED
      BY <1>18, <2>2, <3>1 DEF TypeOK, ControlOK, Ready, RunnerPCs, DispatchUpdate
  <2> QED
    BY <2>1, <2>2
<1>19. CASE Crash
  BY <1>19, GoDownType DEF Crash
<1>20. ASSUME NEW status \in {"KILLED", "LOST"}, KillSignal(status)
      PROVE  ControlOK'
  <2>1. CASE GoDown
    BY <2>1, GoDownType
  <2>2. CASE ~GoDown
    <3>1. /\ pc' = "task" /\ forced' = status /\ expired' = (status = "LOST")
          /\ pend' = NoRec /\ work' = {} /\ at' = NoProc /\ quota' = 0 /\ seen' = {}
          /\ ret' = "resume" /\ cool' = cool
      BY <1>20, <2>2 DEF KillSignal, SetTaskStatus
    <3>2. expired' \in BOOLEAN
      BY <3>1
    <3> QED
      BY <3>1, <3>2 DEF TypeOK, ControlOK, RunnerPCs
  <2> QED
    BY <2>1, <2>2
<1>21. ASSUME NEW p \in Procs, NEW st \in {"SUCCESS", "FAILED", "KILLED"}, WriteTerminal(p, st)
      PROVE  ControlOK'
  BY <1>21 DEF TypeOK, ControlOK, Ready, RunnerPCs, WriteTerminal, runnerVars, worldVars, countVars
<1>22. CASE UNCHANGED vars
  BY <1>22 DEF TypeOK, ControlOK, Ready, RunnerPCs, vars, runnerVars, worldVars, countVars
<1> QED
  BY <1>1, <1>2, <1>3, <1>4, <1>5, <1>6, <1>7, <1>8, <1>9, <1>10, <1>11, <1>12, <1>13,
     <1>14, <1>15, <1>16, <1>17, <1>18, <1>19, <1>20, <1>21, <1>22
     DEF Next, RunnerStep, CoordinatorStep

\* The runner's log and its memory.
LEMMA NextStatesOK ==
  ASSUME TypeOK, [Next]_vars
  PROVE  disk' \in RunnerState /\ mem' \in RunnerState
<1>1. CASE \/ Resume \/ OnCleaning \/ OnKilling \/ StagePlan \/ PickRunnable
           \/ FinalizeFork \/ PollSome \/ PollNone \/ EndCollect \/ Expire
  BY <1>1 DEF TypeOK, ControlOK, worldVars, countVars, Resume, OnCleaning, OnKilling, StagePlan,
     PickRunnable, FinalizeFork, PollSome, PollNone, EndCollect, Expire
<1>2. ASSUME NEW p \in Procs,
             \/ TakeControl(p) \/ GiveUpControl(p) \/ ExecCommand(p) \/ WriteRunning(p)
             \/ CoordinatorExits(p) \/ CommandExits(p) \/ CoordinatorDies(p)
             \/ ForkOverdue(p) \/ CoolDown(p)
      PROVE  disk' \in RunnerState /\ mem' \in RunnerState
  BY <1>2 DEF TypeOK, ControlOK, runnerVars, worldVars, countVars, TakeControl, GiveUpControl,
     ExecCommand, WriteRunning, CoordinatorExits, CommandExits, CoordinatorDies,
     ForkOverdue, CoolDown
<1>3. CASE Handler
  <2>1. pend \in ProcessRec
    BY <1>3 DEF TypeOK, ControlOK, Handler
  <2>2. HandleProcess(mem, pend) \in RunnerState
    BY <2>1, HandleProcessType DEF TypeOK
  <2> QED
    BY <1>3, <2>2, GoDownType DEF TypeOK, Handler
<1>4. CASE OnActive
  <2>1. \A s \in RunnerState, x \in {"regular", "final"} : [s EXCEPT !.plan = x] \in RunnerState
    BY DEF RunnerState
  <2> QED
    BY <1>4, <2>1 DEF TypeOK, OnActive
<1>5. CASE EnterFinalizing
  <2>1. \A s \in RunnerState, x \in {"regular", "final"} : [s EXCEPT !.plan = x] \in RunnerState
    BY DEF RunnerState
  <2> QED
    BY <1>5, <2>1 DEF TypeOK, EnterFinalizing
<1>6. CASE FinalizeTask
  BY <1>6, GoDownType DEF FinalizeTask
<1>7. CASE StageKilled
  BY <1>7, SetTaskStatusType DEF StageKilled, TaskStates
<1>8. CASE StageCleaning
  BY <1>8, SetTaskStatusType, TerminalStateType DEF TypeOK, StageCleaning, TaskStates, TerminalTask
<1>9. CASE ScanData
  <2>1. at \in Procs
    BY <1>9 DEF TypeOK, ControlOK, Ready, ScanData
  <2> QED
    BY <1>9, <2>1, SetProcessStatusType DEF TypeOK, ProcessStates, ScanData
<1>10. CASE EndPlan
  BY <1>10, SetTaskStatusType, TerminalStateType DEF TypeOK, EndPlan, TaskStates, TerminalTask
<1>11. ASSUME NEW p \in Procs, KillOne(p)
      PROVE  disk' \in RunnerState /\ mem' \in RunnerState
  BY <1>11, SetProcessStatusType DEF TypeOK, ProcessStates, KillOne
<1>12. ASSUME NEW p \in Procs, ScanOne(p)
      PROVE  disk' \in RunnerState /\ mem' \in RunnerState
  BY <1>12, SetProcessStatusType DEF TypeOK, ProcessStates, ScanOne
<1>13. ASSUME NEW p \in Procs, LaunchWaiting(p)
      PROVE  disk' \in RunnerState /\ mem' \in RunnerState
  BY <1>13, SetProcessStatusType, GoDownType DEF TypeOK, ProcessStates, LaunchWaiting
<1>14. ASSUME NEW p \in Procs, LaunchFork(p)
      PROVE  disk' \in RunnerState /\ mem' \in RunnerState
  BY <1>14, GoDownType DEF TypeOK, LaunchFork
<1>15. ASSUME NEW p \in Procs, LaunchFails(p)
      PROVE  disk' \in RunnerState /\ mem' \in RunnerState
  BY <1>15, SetProcessStatusType DEF TypeOK, ProcessStates, LaunchFails
<1>16. ASSUME NEW p \in Procs, DispatchUpdate(p)
      PROVE  disk' \in RunnerState /\ mem' \in RunnerState
  BY <1>16, DispatchedType, CheckpointType, GoDownType DEF DispatchUpdate
<1>17. CASE Start
  <2>1. disk.task \in TaskStates
    BY DEF TypeOK, RunnerState
  <2> QED
    BY <1>17, <2>1, ReplayTaskType DEF TypeOK, Start
<1>18. CASE Crash
  BY <1>18, GoDownType DEF Crash
<1>19. ASSUME NEW status \in {"KILLED", "LOST"}, KillSignal(status)
      PROVE  disk' \in RunnerState /\ mem' \in RunnerState
  <2>1. mem.task \in TaskStates
    BY DEF TypeOK, RunnerState
  <2> QED
    BY <1>19, <2>1, SetTaskStatusType, GoDownType DEF KillSignal
<1>20. ASSUME NEW p \in Procs, NEW st \in {"SUCCESS", "FAILED", "KILLED"}, WriteTerminal(p, st)
      PROVE  disk' \in RunnerState /\ mem' \in RunnerState
  BY <1>20 DEF TypeOK, ControlOK, WriteTerminal, runnerVars, worldVars, countVars
<1>21. CASE UNCHANGED vars
  BY <1>21 DEF TypeOK, ControlOK, vars, runnerVars, worldVars, countVars
<1> QED
  BY <1>1, <1>2, <1>3, <1>4, <1>5, <1>6, <1>7, <1>8, <1>9, <1>10, <1>11, <1>12, <1>13,
     <1>14, <1>15, <1>16, <1>17, <1>18, <1>19, <1>20, <1>21
     DEF Next, RunnerStep, CoordinatorStep

(***************************************************************************)
(* The runner, its log, the muxer and the coordinators keep their types    *)
(* whatever the task, however often the runner crashes and is signalled:   *)
(* in particular ProcessMuxer never reads past the end of a stream.        *)
(***************************************************************************)
THEOREM TypeCorrect == Spec => []TypeOK
<1>1. Init => TypeOK
  BY InitTypeOK
<1>2. TypeOK /\ [Next]_vars => TypeOK'
  BY NextWorldOK, NextStreamsOK, NextControlOK, NextStatesOK DEF TypeOK
<1> QED
  BY <1>1, <1>2, PTL DEF Spec

-----------------------------------------------------------------------------
(***************************************************************************)
(* DependencyOrder.  It is not inductive: a coordinator is forked for a    *)
(* process that was picked earlier, from a plan that marks processes       *)
(* finished, in memory or on disk, on the word of records that were read   *)
(* earlier still.  OrderInv follows a SUCCESS along this way.              *)
(***************************************************************************)

\* d need not be waited for any more.
Over(d) == d \in Ephemeral \/ Succeeded(d)

\* What a state (in memory or replayed from disk) calls finished is over.
FinishedOver(s) == \A d \in Procs : s.pst[d] = "finished" => Over(d)

\* A checkpointed SUCCESS stands in the process stream.
PendingOver == pend.st = "SUCCESS" => Succeeded(pend.p)

\* What is picked for launch has nothing to wait for.
PickedReady ==
  pc \in {"launch", "fork"} => \A p \in work : \A d \in Deps[p] : Over(d)

OrderInv ==
  /\ FinishedOver(mem) /\ FinishedOver(disk)
  /\ PendingOver /\ PickedReady /\ DependencyOrder

-----------------------------------------------------------------------------
(* Streams only grow. *)

\* A coordinator or the parent appends; nothing truncates a process stream, and
\* WAITING is a state that only the runner gives.
LEMMA StreamGrows ==
  ASSUME TypeOK, [Next]_vars
  PROVE  \/ UNCHANGED stream
         \/ \E p \in Procs, r \in StreamRec :
              r.st # "WAITING" /\ stream' = [stream EXCEPT ![p] = Append(@, r)]
<1>1. CASE FinalizeFork
  <2>1. at \in Procs /\ mem.proc[at].base + 1 \in Int
    BY <1>1 DEF TypeOK, ControlOK, FinalizeFork, Ready, RunnerState, ProcessRun
  <2>2. [st |-> "FORKED", seq |-> mem.proc[at].base + 1] \in StreamRec
    BY <2>1 DEF StreamRec, ProcessStates
  <2> QED
    BY <1>1, <2>1, <2>2 DEF FinalizeFork
<1>2. ASSUME NEW p \in Procs, NEW st \in ProcessStates \ {"WAITING"}, NEW n \in 0..3, Write(p, st, n)
      PROVE  \E r \in StreamRec : r.st # "WAITING" /\ stream' = [stream EXCEPT ![p] = Append(@, r)]
  <2>1. coord[p].base + n \in Int
    BY DEF TypeOK, WorldOK
  <2>2. [st |-> st, seq |-> coord[p].base + n] \in StreamRec
    BY <2>1 DEF StreamRec
  <2> QED
    BY <1>2, <2>2 DEF Write
<1>3. ASSUME NEW p \in Procs, WriteRunning(p)
      PROVE  \E r \in StreamRec : r.st # "WAITING" /\ stream' = [stream EXCEPT ![p] = Append(@, r)]
  BY <1>2, <1>3 DEF WriteRunning, ProcessStates
<1>4. ASSUME NEW p \in Procs, NEW st \in {"SUCCESS", "FAILED", "KILLED"}, WriteTerminal(p, st)
      PROVE  \E r \in StreamRec : r.st # "WAITING" /\ stream' = [stream EXCEPT ![p] = Append(@, r)]
  BY <1>2, <1>4 DEF WriteTerminal, ProcessStates
<1>5. CASE \/ Handler \/ Resume \/ OnActive \/ OnCleaning \/ OnKilling \/ EnterFinalizing
           \/ FinalizeTask \/ StagePlan \/ StageKilled \/ StageCleaning \/ ScanData
           \/ PickRunnable \/ EndPlan \/ PollSome \/ PollNone \/ EndCollect
  BY <1>5 DEF worldVars, Handler, Resume, OnActive, OnCleaning, OnKilling, EnterFinalizing,
     FinalizeTask, StagePlan, StageKilled, StageCleaning, ScanData, PickRunnable, EndPlan,
     PollSome, PollNone, EndCollect
<1>6. ASSUME NEW p \in Procs,
             \/ KillOne(p) \/ ScanOne(p) \/ LaunchWaiting(p) \/ LaunchFork(p)
             \/ LaunchFails(p) \/ DispatchUpdate(p)
      PROVE  UNCHANGED stream
  BY <1>6 DEF worldVars, KillOne, ScanOne, LaunchWaiting, LaunchFork, LaunchFails,
     DispatchUpdate
<1>7. ASSUME NEW p \in Procs,
             \/ TakeControl(p) \/ GiveUpControl(p) \/ ExecCommand(p) \/ CoordinatorExits(p)
             \/ CommandExits(p) \/ CoordinatorDies(p) \/ ForkOverdue(p) \/ CoolDown(p)
      PROVE  UNCHANGED stream
  BY <1>7 DEF worldVars, TakeControl, GiveUpControl, ExecCommand, CoordinatorExits,
     CommandExits, CoordinatorDies, ForkOverdue, CoolDown
<1>8. ASSUME NEW status \in {"KILLED", "LOST"},
             Start \/ Crash \/ Expire \/ KillSignal(status)
      PROVE  UNCHANGED stream
  BY <1>8 DEF worldVars, Start, Crash, Expire, KillSignal
<1>9. CASE UNCHANGED vars
  BY <1>9 DEF vars, worldVars
<1> QED
  BY <1>1, <1>3, <1>4, <1>5, <1>6, <1>7, <1>8, <1>9 DEF Next, RunnerStep, CoordinatorStep

\* So what has succeeded stays so.
LEMMA SucceededStays ==
  ASSUME TypeOK, [Next]_vars, NEW d \in Procs, Succeeded(d)
  PROVE  Succeeded(d)'
<1>1. CASE UNCHANGED stream
  BY <1>1 DEF Succeeded
<1>2. ASSUME NEW p \in Procs, NEW r \in StreamRec,
             stream' = [stream EXCEPT ![p] = Append(@, r)]
      PROVE  Succeeded(d)'
  <2>1. stream[d] \in Seq(StreamRec) /\ stream'[d] \in {stream[d], Append(stream[d], r)}
    BY <1>2 DEF TypeOK, StreamsOK
  <2>2. PICK i \in 1..Len(stream[d]) : stream[d][i].st = "SUCCESS"
    BY DEF Succeeded
  <2>3. i \in 1..Len(stream'[d]) /\ stream'[d][i] = stream[d][i]
    BY <2>1, <2>2
  <2> QED
    BY <2>2, <2>3 DEF Succeeded
<1> QED
  BY <1>1, <1>2, StreamGrows

-----------------------------------------------------------------------------
(* The plan believes only records. *)

\* StatusAfter finishes a process for a SUCCESS, or for the last failure of an
\* ephemeral one.
LEMMA HandleOver ==
  ASSUME NEW s \in RunnerState, NEW r \in ProcessRec, FinishedOver(s),
         r.st = "SUCCESS" => Succeeded(r.p)
  PROVE  FinishedOver(HandleProcess(s, r))
<1>1. \A t \in RunnerState : FinishedOver(t) => FinishedOver(Raised(t))
  BY DEF FinishedOver, Raised, RunnerState
<1>2. \A t \in RunnerState : FinishedOver(t) => FinishedOver(SetRunning(t, r.p))
  BY <1>1 DEF FinishedOver, SetRunning, RunnerState, ProcessRec
<1>3. ASSUME NEW t \in RunnerState, FinishedOver(t), r.st \in TerminalProcess
      PROVE  FinishedOver(EndRun(t, r.p, r.st))
  <2>1. StatusAfter(t, r.p, r.st) = "finished" => Over(r.p)
    BY <1>3 DEF StatusAfter, Over, TerminalProcess
  <2>2. CASE EndRun(t, r.p, r.st) = Raised(t)
    BY <1>1, <1>3, <2>2
  <2>3. CASE EndRun(t, r.p, r.st).pst = [t.pst EXCEPT ![r.p] = StatusAfter(t, r.p, r.st)]
    BY <1>3, <2>1, <2>3 DEF FinishedOver, RunnerState, ProcessRec
  <2> QED
    BY <2>2, <2>3 DEF EndRun, RunnerState
<1>4. [s EXCEPT !.tp = @ \union {r.p}] \in RunnerState
      /\ FinishedOver([s EXCEPT !.tp = @ \union {r.p}])
  BY DEF RunnerState, ProcessRec, FinishedOver
<1>5. [s EXCEPT !.tp = @ \ {r.p}] \in RunnerState /\ FinishedOver([s EXCEPT !.tp = @ \ {r.p}])
  BY DEF RunnerState, FinishedOver
<1>6. r.st \in TerminalProcess \union {"WAITING", "FORKED", "RUNNING"}
  BY DEF ProcessRec, ProcessStates, TerminalProcess
<1>7. CASE r.st \in {"WAITING", "FORKED", "RUNNING"}
  BY <1>1, <1>2, <1>4, <1>7 DEF HandleProcess
<1>8. CASE r.st \in TerminalProcess
  BY <1>1, <1>3, <1>5, <1>8 DEF HandleProcess, TerminalProcess
<1> QED
  BY <1>6, <1>7, <1>8

LEMMA UpdateOver ==
  ASSUME NEW s \in RunnerState, NEW r \in ProcessRec, FinishedOver(s)
  PROVE  FinishedOver(UpdateProcess(s, r))
BY DEF FinishedOver, UpdateProcess, RunnerState

\* Replay believes what the running runner believed.
LEMMA ReplayOver ==
  ASSUME NEW s \in RunnerState, NEW r \in ProcessRec, FinishedOver(s),
         r.st = "SUCCESS" => Succeeded(r.p)
  PROVE  FinishedOver(ReplayProcess(s, r))
BY UpdateOver, HandleOver, UpdateProcessType DEF ReplayProcess

LEMMA ReplayTaskOver ==
  ASSUME NEW s \in RunnerState, NEW task \in TaskStates, FinishedOver(s)
  PROVE  FinishedOver(ReplayTask(s, task))
BY DEF FinishedOver, ReplayTask, RunnerState

-----------------------------------------------------------------------------
(* OrderInv is inductive.  The lemmas speak of the next values of the      *)
(* runner's variables and of the streams as they are; SucceededStays       *)
(* carries what is over into the next state.                               *)

\* Checkpointing a record whose SUCCESS stands in the stream.
LEMMA CheckpointOver ==
  ASSUME TypeOK, OrderInv, NEW r \in ProcessRec, r.st = "SUCCESS" => Succeeded(r.p),
         Checkpoint(r)
  PROVE  FinishedOver(mem') /\ FinishedOver(disk') /\ (pend'.st = "SUCCESS" => Succeeded(pend'.p))
BY UpdateOver, ReplayOver DEF TypeOK, OrderInv, Checkpoint

\* The runner itself only ever writes WAITING, FAILED, KILLED and LOST.
LEMMA SetProcessStatusOver ==
  ASSUME TypeOK, OrderInv, NEW p \in Procs, NEW st \in ProcessStates \ {"SUCCESS"},
         SetProcessStatus(p, st)
  PROVE  FinishedOver(mem') /\ FinishedOver(disk') /\ pend'.st # "SUCCESS"
<1>1. mem.proc[p].seq + 1 \in Int
  BY DEF TypeOK, RunnerState, ProcessRun
<1>2. Rec(p, st) \in ProcessRec /\ Rec(p, st).st # "SUCCESS"
  BY <1>1 DEF Rec, ProcessRec
<1>3. pend' = Rec(p, st)
  BY DEF SetProcessStatus, Checkpoint
<1> QED
  BY <1>2, <1>3, CheckpointOver DEF SetProcessStatus

\* A record that collect_updates dispatches comes from the stream.
LEMMA DispatchOver ==
  ASSUME TypeOK, OrderInv, NEW p \in Procs, DispatchUpdate(p)
  PROVE  \/ GoDown /\ disk' = disk
         \/ FinishedOver(mem') /\ FinishedOver(disk') /\ (pend'.st = "SUCCESS" => Succeeded(pend'.p))
<1> DEFINE i == nxt[p] + 1
           r == [p |-> p, st |-> stream[p][i].st, seq |-> stream[p][i].seq]
<1>1. i \in 1..Len(stream[p]) /\ r \in ProcessRec
  BY DispatchedType DEF DispatchUpdate
<1>2. r.st = "SUCCESS" => Succeeded(r.p)
  BY <1>1 DEF Succeeded
<1>3. Checkpoint(r) \/ (GoDown /\ disk' = disk)
  BY DEF DispatchUpdate
<1> HIDE DEF r
<1> QED
  BY <1>1, <1>2, <1>3, CheckpointOver

LEMMA GoDownOver ==
  ASSUME OrderInv, GoDown, disk' = disk
  PROVE  FinishedOver(mem') /\ FinishedOver(disk') /\ (pend'.st = "SUCCESS" => Succeeded(pend'.p))
BY DEF OrderInv, GoDown, NoRec

LEMMA BooksOver ==
  ASSUME TypeOK, OrderInv, [Next]_vars
  PROVE  FinishedOver(mem') /\ FinishedOver(disk') /\ (pend'.st = "SUCCESS" => Succeeded(pend'.p))
<1> DEFINE Goal ==
      FinishedOver(mem') /\ FinishedOver(disk') /\ (pend'.st = "SUCCESS" => Succeeded(pend'.p))
<1> USE DEF OrderInv, PendingOver
<1>1. CASE Handler
  <2>1. pend \in ProcessRec
    BY <1>1 DEF TypeOK, ControlOK, Handler
  <2>2. FinishedOver(HandleProcess(mem, pend))
    BY <2>1, HandleOver DEF TypeOK
  <2> QED
    BY <1>1, <2>2, GoDownOver DEF Handler, NoRec
<1>2. CASE \/ Resume \/ OnCleaning \/ OnKilling \/ StagePlan \/ PickRunnable \/ FinalizeFork
           \/ PollSome \/ PollNone \/ EndCollect \/ Expire
  BY <1>2 DEF Resume, OnCleaning, OnKilling, StagePlan, PickRunnable, FinalizeFork,
     PollSome, PollNone, EndCollect, Expire
<1>3. CASE OnActive \/ EnterFinalizing
  <2>1. \A d \in Procs : mem'.pst[d] = mem.pst[d]
    BY <1>3 DEF TypeOK, RunnerState, OnActive, EnterFinalizing
  <2> QED
    BY <1>3, <2>1 DEF FinishedOver, OnActive, EnterFinalizing
<1>4. CASE FinalizeTask \/ Crash
  BY <1>4, GoDownOver DEF FinalizeTask, Crash
<1>5. ASSUME NEW task \in TaskStates, SetTaskStatus(task)
      PROVE  FinishedOver(mem') /\ FinishedOver(disk')
  <2>1. \A d \in Procs : mem'.pst[d] = mem.pst[d]
    BY <1>5 DEF TypeOK, RunnerState, SetTaskStatus
  <2> QED
    BY <1>5, <2>1, ReplayTaskOver DEF FinishedOver, TypeOK, SetTaskStatus
<1>6. CASE StageKilled \/ StageCleaning \/ EndPlan
  BY <1>5, <1>6, TerminalStateType
     DEF TypeOK, StageKilled, StageCleaning, EndPlan, TaskStates, TerminalTask
<1>7. CASE ScanData
  <2>1. at \in Procs
    BY <1>7 DEF TypeOK, ControlOK, Ready, ScanData
  <2> QED
    BY <1>7, <2>1, SetProcessStatusOver DEF ScanData, ProcessStates
<1>8. ASSUME NEW p \in Procs, KillOne(p) \/ ScanOne(p) \/ LaunchFails(p)
      PROVE  Goal
  BY <1>8, SetProcessStatusOver DEF KillOne, ScanOne, LaunchFails, ProcessStates
<1>9. ASSUME NEW p \in Procs, LaunchWaiting(p)
      PROVE  Goal
  BY <1>9, SetProcessStatusOver, GoDownOver DEF LaunchWaiting, ProcessStates
<1>10. ASSUME NEW p \in Procs, LaunchFork(p)
       PROVE  Goal
  BY <1>10, GoDownOver DEF LaunchFork
<1>11. ASSUME NEW p \in Procs, DispatchUpdate(p)
       PROVE  Goal
  BY <1>11, DispatchOver, GoDownOver
<1>12. CASE Start
  <2>1. disk.task \in TaskStates
    BY DEF TypeOK, RunnerState
  <2> QED
    BY <1>12, <2>1, ReplayTaskOver DEF TypeOK, Start
<1>13. ASSUME NEW status \in {"KILLED", "LOST"}, KillSignal(status)
       PROVE  Goal
  <2>1. mem.task \in TaskStates
    BY DEF TypeOK, RunnerState
  <2> QED
    BY <1>5, <1>13, <2>1, GoDownOver DEF KillSignal, NoRec
<1>14. ASSUME NEW p \in Procs,
              \/ TakeControl(p) \/ GiveUpControl(p) \/ ExecCommand(p) \/ WriteRunning(p)
              \/ CoordinatorExits(p) \/ CommandExits(p) \/ CoordinatorDies(p)
              \/ ForkOverdue(p) \/ CoolDown(p) \/ \E st \in ProcessStates : WriteTerminal(p, st)
       PROVE  Goal
  BY <1>14 DEF runnerVars, TakeControl, GiveUpControl, ExecCommand, WriteRunning,
     CoordinatorExits, CommandExits, CoordinatorDies, ForkOverdue, CoolDown, WriteTerminal
<1>15. CASE UNCHANGED vars
  BY <1>15 DEF vars, runnerVars
<1> QED
  BY <1>1, <1>2, <1>3, <1>4, <1>6, <1>7, <1>8, <1>9, <1>10, <1>11, <1>12, <1>13, <1>14, <1>15
     DEF Next, RunnerStep, CoordinatorStep, ProcessStates

LEMMA PickedNext ==
  ASSUME TypeOK, OrderInv, [Next]_vars, pc' \in {"launch", "fork"}, NEW p \in work'
  PROVE  p \in Procs /\ \A d \in Deps[p] : Over(d)
<1> USE DEF OrderInv, PickedReady
<1>1. CASE PickRunnable
  <2>1. p \in Runnable(mem, Plan)
    BY <1>1 DEF PickRunnable
  <2>2. p \in Procs /\ \A d \in Deps[p] : d \in Procs /\ mem.pst[d] = "finished"
    BY <2>1, PlanAssumption DEF Runnable, Plan, Procs
  <2> QED
    BY <2>2 DEF FinishedOver
<1>2. CASE pc \in {"launch", "fork"} /\ work' \in SUBSET work
  BY <1>2 DEF TypeOK, ControlOK
<1>3. CASE \/ Resume \/ OnActive \/ OnCleaning \/ OnKilling \/ EnterFinalizing
           \/ StagePlan \/ StageKilled \/ StageCleaning \/ ScanData \/ EndPlan \/ PollSome
           \/ PollNone \/ EndCollect \/ Start
  BY <1>3 DEF Resume, OnActive, OnCleaning, OnKilling, EnterFinalizing, StagePlan,
     StageKilled, StageCleaning, ScanData, EndPlan, PollSome, PollNone, EndCollect, Start,
     SetTaskStatus, TypeOK, ControlOK
<1>4. CASE GoDown
  BY <1>4 DEF GoDown
<1>5. CASE Handler \/ FinalizeTask \/ FinalizeFork \/ Crash \/ Expire
  BY <1>2, <1>4, <1>5 DEF Handler, FinalizeTask, FinalizeFork, Crash, Expire, Ready
<1>6. ASSUME NEW q \in Procs,
             \/ KillOne(q) \/ ScanOne(q) \/ LaunchWaiting(q) \/ LaunchFork(q)
             \/ LaunchFails(q) \/ DispatchUpdate(q)
      PROVE  (pc \in {"launch", "fork"} /\ work' \in SUBSET work) \/ GoDown
  BY <1>6 DEF KillOne, ScanOne, LaunchWaiting, LaunchFork, LaunchFails, DispatchUpdate, Ready
<1>7. ASSUME NEW status \in {"KILLED", "LOST"}, KillSignal(status)
      PROVE  GoDown
  BY <1>7 DEF KillSignal, SetTaskStatus
<1>8. ASSUME NEW q \in Procs,
              \/ TakeControl(q) \/ GiveUpControl(q) \/ ExecCommand(q) \/ WriteRunning(q)
              \/ CoordinatorExits(q) \/ CommandExits(q) \/ CoordinatorDies(q)
              \/ ForkOverdue(q) \/ CoolDown(q) \/ \E st \in ProcessStates : WriteTerminal(q, st)
      PROVE  pc \in {"launch", "fork"} /\ work' \in SUBSET work
  BY <1>8 DEF runnerVars, TakeControl, GiveUpControl, ExecCommand, WriteRunning,
     CoordinatorExits, CommandExits, CoordinatorDies, ForkOverdue, CoolDown, WriteTerminal
<1>9. CASE UNCHANGED vars
  BY <1>2, <1>9 DEF vars, runnerVars
<1> QED
  BY <1>1, <1>2, <1>3, <1>4, <1>5, <1>6, <1>7, <1>8, <1>9
     DEF Next, RunnerStep, CoordinatorStep, ProcessStates

\* Only LaunchFork makes a coordinator.
LEMMA CoordinatorNext ==
  ASSUME TypeOK, OrderInv, [Next]_vars, NEW p \in Procs, coord'[p].ph # "none"
  PROVE  \A d \in Deps[p] : Over(d)
<1> USE DEF OrderInv, WorldOK
<1>1. CASE coord[p].ph # "none"
  BY <1>1 DEF DependencyOrder, Over
<1>2. CASE UNCHANGED coord
  BY <1>1, <1>2
<1>3. ASSUME NEW q \in Procs, LaunchFork(q)
      PROVE  (q = p /\ p \in work /\ pc = "launch") \/ coord'[p] = coord[p]
  BY <1>3 DEF LaunchFork, Ready, TypeOK
<1>4. ASSUME NEW q \in Procs, KillProcess(q)
      PROVE  coord'[p] \in {coord[p], NoCoord}
  BY <1>4 DEF KillProcess, TypeOK
<1>5. CASE OnCleaning
  BY <1>1, <1>5 DEF OnCleaning, TerminateOrphans, NoCoord
<1>6. CASE Handler
  <2>1. pend.p \in Procs
    BY <1>6 DEF TypeOK, ControlOK, ProcessRec, Handler
  <2> QED
    BY <1>1, <1>4, <1>6, <2>1 DEF Handler, NoCoord
<1>7. ASSUME NEW q \in Procs, KillOne(q)
      PROVE  coord'[p] \in {coord[p], NoCoord}
  BY <1>4, <1>7 DEF KillOne
<1>8. ASSUME NEW q \in Procs,
             \/ ScanOne(q) \/ LaunchWaiting(q) \/ LaunchFails(q) \/ DispatchUpdate(q)
             \/ CommandExits(q) \/ ForkOverdue(q) \/ CoolDown(q)
      PROVE  UNCHANGED coord
  BY <1>8 DEF worldVars, ScanOne, LaunchWaiting, LaunchFails, DispatchUpdate, CommandExits,
     ForkOverdue, CoolDown
<1>9. CASE \/ Resume \/ OnActive \/ OnKilling \/ EnterFinalizing \/ FinalizeTask \/ StagePlan
           \/ StageKilled \/ StageCleaning \/ ScanData \/ PickRunnable \/ FinalizeFork
           \/ EndPlan \/ PollSome \/ PollNone \/ EndCollect \/ Start \/ Crash \/ Expire
           \/ \E status \in {"KILLED", "LOST"} : KillSignal(status)
  BY <1>2, <1>9 DEF worldVars, Resume, OnActive, OnKilling, EnterFinalizing, FinalizeTask,
     StagePlan, StageKilled, StageCleaning, ScanData, PickRunnable, FinalizeFork, EndPlan,
     PollSome, PollNone, EndCollect, Start, Crash, Expire, KillSignal
<1>10. ASSUME NEW q \in Procs,
              \/ TakeControl(q) \/ ExecCommand(q) \/ WriteRunning(q) \/ GiveUpControl(q)
              \/ CoordinatorExits(q) \/ CoordinatorDies(q)
              \/ \E st \in ProcessStates : WriteTerminal(q, st)
       PROVE  coord[p].ph # "none"
  BY <1>10 DEF TypeOK, NoCoord, TakeControl, ExecCommand, WriteRunning, GiveUpControl,
     CoordinatorExits, CoordinatorDies, WriteTerminal
<1>11. CASE UNCHANGED vars
  BY <1>2, <1>11 DEF vars, worldVars
<1>12. p \in work /\ pc = "launch" => \A d \in Deps[p] : Over(d)
  BY DEF PickedReady
<1>13. coord'[p] # NoCoord
  BY DEF NoCoord
<1> QED
  BY <1>1, <1>2, <1>3, <1>5, <1>6, <1>7, <1>8, <1>9, <1>10, <1>11, <1>12, <1>13
     DEF Next, RunnerStep, CoordinatorStep, ProcessStates

LEMMA NextOrderInv ==
  ASSUME TypeOK, OrderInv, [Next]_vars
  PROVE  OrderInv'
<1>1. \A d \in Procs : (Succeeded(d) => Succeeded(d)') /\ (Over(d) => Over(d)')
  BY SucceededStays DEF Over
<1>2. FinishedOver(mem)' /\ FinishedOver(disk)'
  BY <1>1, BooksOver DEF FinishedOver
<1>3. PendingOver'
  <2>1. ASSUME pend'.st = "SUCCESS"
        PROVE  pend'.p \in Procs /\ Succeeded(pend'.p)
    BY <2>1, BooksOver, NextControlOK DEF ControlOK, NoRec, ProcessRec
  <2> QED
    BY <2>1, <1>1 DEF PendingOver
<1>4. \A p \in Procs : Deps[p] \subseteq Procs
  BY PlanAssumption
<1>5. PickedReady'
  BY <1>1, <1>4, PickedNext DEF PickedReady
<1>6. DependencyOrder'
  BY <1>1, <1>4, CoordinatorNext DEF DependencyOrder, Over
<1> QED
  BY <1>2, <1>3, <1>5, <1>6 DEF OrderInv

(***************************************************************************)
(* The runner never forks a coordinator (_run_plan, Process.start) for a   *)
(* process before everything ordered ahead of it has written its SUCCESS   *)
(* or is ephemeral: through any number of crashes and replays of the log,  *)
(* retries, signals and dead coordinators.                                 *)
(***************************************************************************)
THEOREM OrderCorrect == Spec => []DependencyOrder
<1>1. Init => OrderInv
  BY DEF Init, OrderInv, FinishedOver, InitState, PendingOver, NoRec, PickedReady,
     DependencyOrder, NoCoord
<1>2. TypeOK /\ OrderInv /\ [Next]_vars => OrderInv'
  BY NextOrderInv
<1>3. OrderInv => DependencyOrder
  BY DEF OrderInv
<1> QED
  BY <1>1, <1>2, <1>3, TypeCorrect, PTL DEF Spec

-----------------------------------------------------------------------------
(* ReplayAgreement: the log and the memory of the runner. *)

\* Two states with the same books of the plan.
SameBooks(s, t) ==
  /\ s.pst = t.pst /\ s.tp = t.tp /\ s.runs = t.runs /\ s.failures = t.failures

(***************************************************************************)
(* ReplayAgreement with the record between its checkpoint and its handler: *)
(* the log has handled it already, from wherever the log's plan pointer    *)
(* stands.                                                                 *)
(***************************************************************************)
LogInv ==
  /\ ~Up => pend = NoRec
  /\ Up => /\ disk.proc = mem.proc /\ disk.task = mem.task
           /\ mem.ok
           /\ disk.ok /\ kills = 0 =>
                IF pend = NoRec THEN SameBooks(disk, mem)
                ELSE LET s == HandleProcess([mem EXCEPT !.plan = disk.plan], pend)
                     IN  s.ok /\ SameBooks(disk, s)

\* A handler that does not raise does the same to the books whatever the plan is.
LEMMA HandleSameBooks ==
  ASSUME NEW s \in RunnerState, NEW t \in RunnerState, NEW r \in ProcessRec,
         SameBooks(s, t), HandleProcess(s, r).ok, HandleProcess(t, r).ok
  PROVE  SameBooks(HandleProcess(s, r), HandleProcess(t, r))
<1>1. \A u \in RunnerState : ~Raised(u).ok
  BY DEF Raised, RunnerState
<1>2. ASSUME SetRunning(s, r.p).ok, SetRunning(t, r.p).ok
      PROVE  SameBooks(SetRunning(s, r.p), SetRunning(t, r.p))
  BY <1>1, <1>2 DEF SetRunning, SameBooks, RunnerState
<1>3. ASSUME NEW u \in RunnerState, NEW v \in RunnerState, SameBooks(u, v),
             EndRun(u, r.p, r.st).ok, EndRun(v, r.p, r.st).ok
      PROVE  SameBooks(EndRun(u, r.p, r.st), EndRun(v, r.p, r.st))
  <2>1. StatusAfter(u, r.p, r.st) = StatusAfter(v, r.p, r.st)
    BY <1>3 DEF SameBooks, StatusAfter
  <2> QED
    BY <1>1, <1>3, <2>1 DEF EndRun, SameBooks, RunnerState
<1>4. CASE r.st = "WAITING"
  BY <1>1, <1>4 DEF HandleProcess, SameBooks, RunnerState
<1>5. CASE r.st \in {"FORKED", "RUNNING"}
  BY <1>1, <1>2, <1>5 DEF HandleProcess
<1>6. CASE r.st \notin {"WAITING", "FORKED", "RUNNING"}
  <2> DEFINE u == [s EXCEPT !.tp = @ \ {r.p}]
             v == [t EXCEPT !.tp = @ \ {r.p}]
  <2>1. u \in RunnerState /\ v \in RunnerState /\ SameBooks(u, v)
    BY DEF SameBooks, RunnerState
  <2>2. HandleProcess(s, r) \in {Raised(s), EndRun(u, r.p, r.st)}
        /\ HandleProcess(t, r) \in {Raised(t), EndRun(v, r.p, r.st)}
    BY <1>6 DEF HandleProcess
  <2> HIDE DEF u, v
  <2> QED
    BY <1>1, <1>3, <2>1, <2>2
<1> QED
  BY <1>4, <1>5, <1>6

\* Handling a record leaves the process states, the task and the plan pointer alone,
\* and what has raised stays so.
LEMMA HandleKeeps ==
  ASSUME NEW s \in RunnerState, NEW r \in ProcessRec
  PROVE  LET t == HandleProcess(s, r)
         IN  t.proc = s.proc /\ t.task = s.task /\ t.plan = s.plan /\ (t.ok => s.ok)
<1> DEFINE Kept(s0, t0) ==
      t0.proc = s0.proc /\ t0.task = s0.task /\ t0.plan = s0.plan /\ (t0.ok => s0.ok)
<1>1. \A u \in RunnerState : Kept(u, Raised(u)) /\ Kept(u, SetRunning(u, r.p))
  BY DEF Raised, SetRunning, RunnerState
<1>2. \A u \in RunnerState : Kept(u, EndRun(u, r.p, r.st))
  BY DEF Raised, EndRun, RunnerState
<1> DEFINE u == [s EXCEPT !.tp = @ \union {r.p}]
           v == [s EXCEPT !.tp = @ \ {r.p}]
<1>3. v \in RunnerState /\ Kept(s, u) /\ Kept(s, v)
  BY DEF RunnerState, ProcessRec
<1>4. HandleProcess(s, r) \in {Raised(s), u, SetRunning(s, r.p), EndRun(v, r.p, r.st)}
  BY DEF HandleProcess
<1> HIDE DEF u, v
<1>5. Kept(s, EndRun(v, r.p, r.st))
  BY <1>2, <1>3
<1> QED
  BY <1>1, <1>3, <1>4, <1>5

\* Applying a record to the process states leaves everything else alone.
LEMMA UpdateKeeps ==
  ASSUME NEW s \in RunnerState, NEW r \in ProcessRec
  PROVE  LET t == UpdateProcess(s, r)
         IN  SameBooks(s, t) /\ t.task = s.task /\ t.plan = s.plan /\ t.ok = s.ok
BY DEF UpdateProcess, SameBooks, RunnerState

\* The one-record step of the log and of the runner.
LEMMA CheckpointAgrees ==
  ASSUME TypeOK, LogInv, NEW r \in ProcessRec, Checkpoint(r), pend = NoRec, Up, Up',
         kills' = kills
  PROVE  LogInv'
<1> DEFINE d == UpdateProcess(disk, r)
           m == UpdateProcess(mem, r)
<1>1. disk \in RunnerState /\ mem \in RunnerState /\ d \in RunnerState /\ m \in RunnerState
  BY UpdateProcessType DEF TypeOK
<1>2. d.proc = m.proc
  <2>1. disk.proc = mem.proc
    BY DEF LogInv
  <2> DEFINE run(f) == IF r.st = "WAITING" THEN [NoRun EXCEPT !.base = r.seq] ELSE f[r.p]
             next(f) == [st |-> r.st, seq |-> r.seq, base |-> run(f).base,
                         cpid |-> (run(f).cpid \/ r.st = "FORKED"),
                         pid |-> (run(f).pid \/ r.st = "RUNNING")]
  <2>2. ASSUME NEW s \in RunnerState
        PROVE  UpdateProcess(s, r).proc = [s.proc EXCEPT ![r.p] = next(s.proc)]
    BY DEF UpdateProcess, RunnerState
  <2> HIDE DEF next
  <2> QED
    BY <1>1, <2>1, <2>2
<1>3. SameBooks(disk, d) /\ d.task = disk.task /\ d.plan = disk.plan /\ d.ok = disk.ok
      /\ SameBooks(mem, m) /\ m.task = mem.task /\ m.plan = mem.plan /\ m.ok = mem.ok
  BY <1>1, UpdateKeeps
<1>4. mem' = m /\ pend' = r /\ disk' = IF disk.ok THEN HandleProcess(d, r) ELSE d
  BY DEF Checkpoint, ReplayProcess
<1>5. pend' # NoRec
  BY <1>4, RunnerAssumption DEF NoRec, ProcessRec
<1> HIDE DEF d, m
<1>6. disk'.proc = d.proc /\ disk'.task = d.task /\ disk'.plan = d.plan
      /\ (disk'.ok => disk.ok)
  BY <1>1, <1>3, <1>4, HandleKeeps
<1>7. ASSUME disk'.ok, kills' = 0
      PROVE  d = [m EXCEPT !.plan = disk'.plan] /\ disk' = HandleProcess(d, r)
  <2>1. SameBooks(disk, mem) /\ disk.ok
    BY <1>6, <1>7 DEF LogInv
  <2>2. SameBooks(d, m) /\ d.ok = m.ok /\ d.task = m.task
    BY <1>3, <2>1 DEF SameBooks, LogInv
  <2> QED
    BY <1>1, <1>2, <1>4, <1>6, <2>1, <2>2 DEF SameBooks, RunnerState
<1> QED
  BY <1>2, <1>3, <1>4, <1>5, <1>6, <1>7 DEF LogInv, SameBooks, Up

\* A status that the runner sets itself is in the log before it acts on it.
LEMMA SetProcessStatusAgrees ==
  ASSUME TypeOK, LogInv, NEW p \in Procs, NEW st \in ProcessStates, SetProcessStatus(p, st),
         pend = NoRec, Up, Up', kills' = kills
  PROVE  LogInv'
<1>1. mem.proc[p].seq + 1 \in Int
  BY DEF TypeOK, RunnerState, ProcessRun
<1>2. Rec(p, st) \in ProcessRec
  BY <1>1 DEF Rec, ProcessRec
<1> QED
  BY <1>2, CheckpointAgrees DEF SetProcessStatus

\* So is a new task state.
LEMMA SetTaskStatusAgrees ==
  ASSUME TypeOK, LogInv, NEW task \in TaskStates, SetTaskStatus(task), Up,
         \/ pend = NoRec /\ pend' = pend /\ kills' = kills
         \/ kills' = kills + 1
  PROVE  LogInv'
<1>1. /\ disk'.proc = disk.proc /\ disk'.task = task /\ disk'.ok = disk.ok
      /\ SameBooks(disk, disk')
  BY DEF TypeOK, RunnerState, SetTaskStatus, ReplayTask, SameBooks
<1>2. mem'.proc = mem.proc /\ mem'.task = task /\ mem'.ok = mem.ok /\ SameBooks(mem, mem')
  BY DEF TypeOK, RunnerState, SetTaskStatus, SameBooks
<1>3. (kills' = kills + 1 => kills' # 0) /\ Up'
  BY DEF TypeOK, WorldOK, SetTaskStatus, Up
<1> QED
  BY <1>1, <1>2, <1>3 DEF LogInv, SameBooks

\* A step that leaves log, memory and the outstanding handler alone.
LEMMA NothingWritten ==
  ASSUME LogInv, UNCHANGED <<disk, mem, pend, kills>>, Up' <=> Up
  PROVE  LogInv'
BY DEF LogInv

\* A runner that is down has nothing in memory to compare.
LEMMA DownAgrees == ASSUME GoDown PROVE LogInv'
BY DEF GoDown, LogInv, Up

\* Every step leaves the log as far as the runner.
LEMMA NextLogInv ==
  ASSUME TypeOK, LogInv, [Next]_vars
  PROVE  LogInv'
<1>1. CASE Handler
  <2> DEFINE s == HandleProcess(mem, pend)
             d == HandleProcess([mem EXCEPT !.plan = disk.plan], pend)
  <2>1. pend \in ProcessRec /\ Up
    BY <1>1 DEF TypeOK, ControlOK, Handler, LogInv
  <2>2. [mem EXCEPT !.plan = disk.plan] \in RunnerState
        /\ SameBooks([mem EXCEPT !.plan = disk.plan], mem)
    BY DEF TypeOK, RunnerState, SameBooks
  <2>3. s.proc = mem.proc /\ s.task = mem.task
    BY <2>1, HandleKeeps DEF TypeOK
  <2>4. d.ok /\ s.ok => SameBooks(d, s)
    BY <2>1, <2>2, HandleSameBooks DEF TypeOK
  <2>5. s.ok => UNCHANGED <<disk, pc, kills>> /\ mem' = s /\ pend' = NoRec
    BY <1>1 DEF Handler, countVars
  <2>6. ~s.ok => GoDown
    BY <1>1 DEF Handler
  <2>7. pend # NoRec
    BY <1>1 DEF Handler
  <2>8. ASSUME s.ok, disk.ok, kills = 0
        PROVE  SameBooks(disk, s)
    <3>1. d.ok /\ SameBooks(disk, d)
      BY <2>1, <2>7, <2>8 DEF LogInv
    <3> HIDE DEF d, s
    <3> QED
      BY <2>4, <2>8, <3>1 DEF SameBooks
  <2> HIDE DEF d, s
  <2> QED
    BY <2>1, <2>3, <2>5, <2>6, <2>8, DownAgrees DEF LogInv
<1>2. CASE OnActive \/ EnterFinalizing
  <2>1. mem'.proc = mem.proc /\ mem'.task = mem.task /\ mem'.ok = mem.ok /\ SameBooks(mem, mem')
    BY <1>2 DEF TypeOK, RunnerState, OnActive, EnterFinalizing, SameBooks
  <2>2. UNCHANGED <<disk, pend, kills>> /\ pend = NoRec /\ Up /\ Up'
    BY <1>2 DEF OnActive, EnterFinalizing, Ready, Up, countVars, TypeOK, ControlOK
  <2> QED
    BY <2>1, <2>2 DEF LogInv, SameBooks
<1>3. CASE \/ Resume \/ OnCleaning \/ OnKilling \/ StagePlan \/ PickRunnable \/ FinalizeFork
           \/ PollSome \/ PollNone \/ EndCollect \/ Expire
  <2>1. Up /\ Up' /\ UNCHANGED <<disk, mem, pend, kills>>
    BY <1>3 DEF Resume, OnCleaning, OnKilling, StagePlan, PickRunnable, FinalizeFork,
       PollSome, PollNone, EndCollect, Expire, Ready, Up, countVars, TypeOK, ControlOK
  <2> QED
    BY <2>1, NothingWritten
<1>4. CASE FinalizeTask \/ Crash
  BY <1>4, DownAgrees DEF FinalizeTask, Crash
<1>5. CASE StageKilled \/ StageCleaning \/ EndPlan
  <2>1. pend = NoRec /\ UNCHANGED <<pend, kills>> /\ Up
    BY <1>5 DEF StageKilled, StageCleaning, EndPlan, Ready, Up, countVars
  <2>2. (UNCHANGED <<disk, mem>> /\ Up') \/ \E task \in TaskStates : SetTaskStatus(task)
    BY <1>5, TerminalStateType
       DEF Up, TypeOK, StageKilled, StageCleaning, EndPlan, TaskStates, TerminalTask
  <2> QED
    BY <2>1, <2>2, SetTaskStatusAgrees, NothingWritten
<1>6. CASE ScanData
  <2>1. at \in Procs /\ pend = NoRec /\ Up /\ Up' /\ kills' = kills
    BY <1>6 DEF TypeOK, ControlOK, Ready, ScanData, Up, countVars
  <2> QED
    BY <1>6, <2>1, SetProcessStatusAgrees, NothingWritten DEF ScanData, ProcessStates
<1>7. ASSUME NEW p \in Procs, KillOne(p) \/ ScanOne(p) \/ LaunchFails(p)
      PROVE  LogInv'
  <2>1. pend = NoRec /\ Up /\ Up' /\ kills' = kills
    BY <1>7 DEF KillOne, ScanOne, LaunchFails, Ready, Up, countVars
  <2> QED
    BY <1>7, <2>1, SetProcessStatusAgrees, NothingWritten
       DEF KillOne, ScanOne, LaunchFails, ProcessStates
<1>8. ASSUME NEW p \in Procs, LaunchWaiting(p)
      PROVE  LogInv'
  <2>1. pend = NoRec /\ Up /\ kills' = kills
    BY <1>8 DEF LaunchWaiting, Ready, Up, countVars
  <2> QED
    BY <1>8, <2>1, SetProcessStatusAgrees, DownAgrees DEF LaunchWaiting, ProcessStates, Up
<1>9. ASSUME NEW p \in Procs, LaunchFork(p)
      PROVE  LogInv'
  BY <1>9, NothingWritten, DownAgrees DEF LaunchFork, Ready, Up, countVars
<1>10. ASSUME NEW p \in Procs, DispatchUpdate(p)
       PROVE  LogInv'
  <2> DEFINE r == [p |-> p, st |-> stream[p][nxt[p] + 1].st, seq |-> stream[p][nxt[p] + 1].seq]
  <2>1. r \in ProcessRec
    BY <1>10, DispatchedType DEF DispatchUpdate
  <2>2. pend = NoRec /\ Up /\ kills' = kills
    BY <1>10 DEF DispatchUpdate, Ready, Up, countVars
  <2>3. (Checkpoint(r) /\ Up') \/ GoDown
    BY <1>10, <2>2 DEF DispatchUpdate, Up
  <2> HIDE DEF r
  <2> QED
    BY <2>1, <2>2, <2>3, CheckpointAgrees, DownAgrees
<1>11. CASE Start
  <2>1. disk'.proc = disk.proc /\ disk'.task = disk.task /\ disk'.ok = disk.ok
        /\ SameBooks(disk', disk) /\ mem' = disk /\ pend' = pend /\ disk.ok
    BY <1>11 DEF TypeOK, RunnerState, Start, ReplayTask, SameBooks
  <2>2. pend = NoRec
    BY <1>11 DEF Start, LogInv, Up
  <2> QED
    BY <2>1, <2>2 DEF LogInv, SameBooks
<1>12. ASSUME NEW status \in {"KILLED", "LOST"}, KillSignal(status)
       PROVE  LogInv'
  <2>1. mem.task \in TaskStates
    BY DEF TypeOK, RunnerState
  <2> QED
    BY <1>12, <2>1, SetTaskStatusAgrees, DownAgrees DEF KillSignal
<1>13. ASSUME NEW p \in Procs,
              \/ TakeControl(p) \/ GiveUpControl(p) \/ ExecCommand(p) \/ WriteRunning(p)
              \/ CoordinatorExits(p) \/ CommandExits(p) \/ CoordinatorDies(p)
              \/ ForkOverdue(p) \/ CoolDown(p) \/ \E st \in ProcessStates : WriteTerminal(p, st)
       PROVE  LogInv'
  BY <1>13, NothingWritten DEF runnerVars, countVars, TakeControl, GiveUpControl, ExecCommand,
     WriteRunning, CoordinatorExits, CommandExits, CoordinatorDies, ForkOverdue, CoolDown,
     WriteTerminal, Up
<1>14. CASE UNCHANGED vars
  BY <1>14, NothingWritten DEF vars, runnerVars, countVars, Up
<1> QED
  BY <1>1, <1>2, <1>3, <1>4, <1>5, <1>6, <1>7, <1>8, <1>9, <1>10, <1>11, <1>12, <1>13, <1>14
     DEF Next, RunnerStep, CoordinatorStep, ProcessStates

(***************************************************************************)
(* The log is always as far as the runner: what a successor would replay   *)
(* (_replay_runner_ckpt) agrees with the memory of the runner, process by  *)
(* process and, up to the first signal, in the plan's books too, through   *)
(* any number of crashes, retries and LOST runs.                           *)
(***************************************************************************)
THEOREM ReplayCorrect == Spec => []ReplayAgreement
<1>1. Init => LogInv
  BY DEF Init, LogInv, Up
<1>2. TypeOK /\ LogInv /\ [Next]_vars => LogInv'
  BY NextLogInv
<1>3. LogInv => ReplayAgreement
  BY DEF LogInv, ReplayAgreement, SameBooks
<1> QED
  BY <1>1, <1>2, <1>3, TypeCorrect, PTL DEF Spec

-----------------------------------------------------------------------------
(* The latest run of a process, in the books, in its stream and in the world. *)

\* A coordinator or a command of p is still there.
Live(p) == coord[p].ph # "none" \/ kids[p] # {}

\* What the latest run of p has recorded: its numbers count up from the run's base.
RunBooks(p) ==
  LET run == mem.proc[p]
  IN  /\ run.st = "NONE" => run = NoRun /\ stream[p] = <<>>
      /\ run.st = "WAITING" => ~run.cpid /\ run.seq = run.base
      /\ run.st \in {"FORKED", "RUNNING", "SUCCESS", "KILLED", "LOST"} => run.cpid
      /\ run.st = "FORKED" => run.seq = run.base + 1
      /\ run.st = "RUNNING" => run.seq = run.base + 2
      /\ run.st \in TerminalProcess /\ run.cpid => run.seq >= run.base + 2
      /\ run.seq >= run.base
      /\ run.pid => run.cpid

\* The records of a stream beyond the base of the latest run are those of that run.
RunRecords(p) ==
  \A i \in 1..Len(stream[p]) : stream[p][i].seq > mem.proc[p].base =>
    \/ stream[p][i].st = "FORKED" /\ stream[p][i].seq = mem.proc[p].base + 1
    \/ stream[p][i].st = "RUNNING" /\ stream[p][i].seq = mem.proc[p].base + 2
    \/ /\ stream[p][i].st \in {"SUCCESS", "FAILED", "KILLED"}
       /\ stream[p][i].seq = mem.proc[p].base + 3

\* Coordinators and commands belong to the latest run.
LatestOnly(p) ==
  /\ coord[p].ph # "none" => coord[p].base = mem.proc[p].base /\ mem.proc[p].st # "NONE"
  /\ kids[p] \subseteq {mem.proc[p].base}

\* The FORKED record of the latest run is written but not dispatched.
Started(p) ==
  /\ mem.proc[p].st = "WAITING"
  /\ \E i \in 1..Len(stream[p]) : stream[p][i].seq = mem.proc[p].base + 1

\* The FORKED record of the latest run of p, where it stands in the stream.
Marks(p) == {i \in 1..Len(stream[p]) : stream[p][i].seq = mem.proc[p].base + 1}

\* The runner works on the regular plan.
Active == Up /\ mem.task = "ACTIVE" /\ forced = "none"

-----------------------------------------------------------------------------
(* What a record, its handler and kill_process change. *)

\* What a checkpointed record changes.
LEMMA CheckpointEffect ==
  ASSUME TypeOK, NEW r \in ProcessRec, Checkpoint(r)
  PROVE  /\ pend' = r /\ mem'.tp = mem.tp /\ mem'.pst = mem.pst /\ mem'.task = mem.task
         /\ mem'.plan = mem.plan
         /\ \A p \in Procs \ {r.p} : mem'.proc[p] = mem.proc[p]
         /\ mem'.proc[r.p].st = r.st /\ mem'.proc[r.p].seq = r.seq
         /\ r.st # "WAITING" =>
              /\ mem'.proc[r.p].base = mem.proc[r.p].base
              /\ mem'.proc[r.p].cpid = (mem.proc[r.p].cpid \/ r.st = "FORKED")
              /\ mem'.proc[r.p].pid = (mem.proc[r.p].pid \/ r.st = "RUNNING")
         /\ r.st = "WAITING" =>
              mem'.proc[r.p].base = r.seq /\ ~mem'.proc[r.p].cpid /\ ~mem'.proc[r.p].pid
BY DEF TypeOK, Checkpoint, UpdateProcess, RunnerState, ProcessRun, ProcessRec, NoRun

\* What a handler that does not raise changes.
LEMMA HandleEffect ==
  ASSUME NEW s \in RunnerState, NEW r \in ProcessRec, HandleProcess(s, r).ok
  PROVE  LET t == HandleProcess(s, r)
         IN  /\ r.st = "WAITING" => r.p \notin s.tp /\ t.tp = s.tp \union {r.p} /\ t.pst = s.pst
             /\ r.st \in {"FORKED", "RUNNING"} =>
                  /\ t.tp = s.tp /\ t.pst = [s.pst EXCEPT ![r.p] = "running"]
                  /\ r.p \in PlanProcs(s)
                  /\ s.pst[r.p] \in {"running", "runnable"}
             /\ r.st \in TerminalProcess =>
                  /\ r.p \in s.tp /\ t.tp = s.tp \ {r.p}
                  /\ r.p \in PlanProcs(s) /\ s.pst[r.p] = "running"
                  /\ \E x \in PlanStatus \ {"running"} : t.pst = [s.pst EXCEPT ![r.p] = x]
<1>1. \A u \in RunnerState : ~Raised(u).ok
  BY DEF Raised, RunnerState
<1>2. CASE r.st = "WAITING"
  BY <1>1, <1>2 DEF HandleProcess, RunnerState, TerminalProcess
<1>3. CASE r.st \in {"FORKED", "RUNNING"}
  <2>1. HandleProcess(s, r) = SetRunning(s, r.p)
    BY <1>1, <1>3 DEF HandleProcess
  <2>2. /\ SetRunning(s, r.p) = [s EXCEPT !.pst[r.p] = "running"]
        /\ r.p \in PlanProcs(s) /\ s.pst[r.p] \in {"running", "runnable"}
    BY <1>1, <2>1 DEF SetRunning, Runnable
  <2> QED
    BY <1>3, <2>1, <2>2 DEF RunnerState, TerminalProcess
<1>4. CASE r.st \in TerminalProcess
  <2> DEFINE u == [s EXCEPT !.tp = @ \ {r.p}]
             x == StatusAfter(u, r.p, r.st)
  <2>1. u \in RunnerState /\ u.pst = s.pst /\ u.tp = s.tp \ {r.p} /\ PlanProcs(u) = PlanProcs(s)
    BY DEF RunnerState, PlanProcs
  <2>2. HandleProcess(s, r) = EndRun(u, r.p, r.st) /\ r.p \in s.tp
    BY <1>1, <1>4 DEF HandleProcess, TerminalProcess
  <2>3. x \in PlanStatus \ {"running"}
    BY DEF StatusAfter, PlanStatus
  <2> HIDE DEF u
  <2>4. /\ r.p \in PlanProcs(u) /\ u.pst[r.p] = "running"
        /\ EndRun(u, r.p, r.st).pst = [u.pst EXCEPT ![r.p] = x]
        /\ EndRun(u, r.p, r.st).tp = u.tp
    BY <1>1, <2>1, <2>2 DEF EndRun, RunnerState
  <2> QED
    BY <1>4, <2>1, <2>2, <2>3, <2>4 DEF TerminalProcess
<1> QED
  BY <1>2, <1>3, <1>4 DEF ProcessRec, ProcessStates, TerminalProcess

\* kill_process takes away a coordinator and commands of the latest run.
LEMMA KillProcessEffect ==
  ASSUME TypeOK, NEW p \in Procs, KillProcess(p)
  PROVE  /\ \A q \in Procs : coord'[q] \in {coord[q], NoCoord} /\ kids'[q] \subseteq kids[q]
         /\ mem.proc[p].cpid /\ LatestOnly(p) => coord'[p].ph = "none" /\ kids'[p] = {}
BY DEF TypeOK, WorldOK, KillProcess, LatestOnly, NoCoord

-----------------------------------------------------------------------------
(* Records that follow the state machine of a process. *)

\* _update_process_state, read backwards.
LEMMA Sources ==
  ASSUME NEW st \in ProcessStates \ {"WAITING"}, NEW old \in SourceStates(st)
  PROVE  /\ old \in {"WAITING", "FORKED", "RUNNING"}
         /\ st = "FORKED" => old = "WAITING"
         /\ st = "RUNNING" => old = "FORKED"
         /\ st = "FAILED" => old \in {"WAITING", "RUNNING"}
         /\ st \in {"SUCCESS", "KILLED", "LOST"} => old \in {"FORKED", "RUNNING"}
BY DEF SourceStates, ProcessStates

\* A record that follows the state machine of the latest run.
LegalRec(r) ==
  /\ r.st # "WAITING" /\ r.seq = mem.proc[r.p].seq + 1
  /\ mem.proc[r.p].st \in SourceStates(r.st)

\* A record of the latest run that follows its state machine.
LEMMA LegalBooks ==
  ASSUME TypeOK, NEW r \in ProcessRec, LegalRec(r), Checkpoint(r), NEW p \in Procs, p = r.p,
         RunBooks(p), RunRecords(p), UNCHANGED stream
  PROVE  RunBooks(p)' /\ RunRecords(p)'
<1> DEFINE old == mem.proc[p]
           new == mem'.proc[p]
<1>1. /\ new.st = r.st /\ new.seq = old.seq + 1 /\ new.base = old.base
      /\ new.cpid = (old.cpid \/ r.st = "FORKED") /\ new.pid = (old.pid \/ r.st = "RUNNING")
  BY CheckpointEffect DEF LegalRec
<1>2. old \in ProcessRun /\ old.st \in SourceStates(r.st) /\ r.st \in ProcessStates \ {"WAITING"}
  BY DEF TypeOK, RunnerState, LegalRec, ProcessRec
<1>3. old.seq \in Int /\ old.base \in Int /\ RunBooks(p)
      /\ old.cpid \in BOOLEAN /\ old.pid \in BOOLEAN
  BY <1>2 DEF ProcessRun
<1>4. /\ old.st \in {"WAITING", "FORKED", "RUNNING"}
      /\ r.st = "FORKED" => old.st = "WAITING"
      /\ r.st = "RUNNING" => old.st = "FORKED"
      /\ r.st = "FAILED" => old.st \in {"WAITING", "RUNNING"}
      /\ r.st \in {"SUCCESS", "KILLED", "LOST"} => old.st \in {"FORKED", "RUNNING"}
  BY <1>2, Sources
<1> HIDE DEF old, new
<1>5. RunBooks(p)'
  <2>1. CASE r.st = "FORKED"
    <3>1. new.st = "FORKED" /\ new.cpid /\ new.base \in Int
      BY <1>1, <1>3, <2>1
    <3>2. old.st = "WAITING" /\ old.seq = old.base
      BY <1>3, <1>4, <2>1 DEF old, RunBooks
    <3>3. new.seq = new.base + 1
      BY <1>1, <3>2
    <3> QED
      BY <3>1, <3>3 DEF new, RunBooks, TerminalProcess
  <2>2. CASE r.st = "RUNNING"
    BY <1>1, <1>3, <1>4, <2>2 DEF old, new, RunBooks, TerminalProcess
  <2>3. CASE r.st = "FAILED"
    <3>1. CASE old.st = "WAITING"
      BY <1>1, <1>3, <2>3, <3>1 DEF old, new, RunBooks, TerminalProcess
    <3>2. CASE old.st = "RUNNING"
      BY <1>1, <1>3, <2>3, <3>2 DEF old, new, RunBooks, TerminalProcess
    <3> QED
      BY <1>4, <2>3, <3>1, <3>2
  <2>4. CASE r.st \in {"SUCCESS", "KILLED", "LOST"}
    BY <1>1, <1>3, <1>4, <2>4 DEF old, new, RunBooks, TerminalProcess
  <2> QED
    BY <1>2, <2>1, <2>2, <2>3, <2>4 DEF ProcessStates
<1>6. RunRecords(p)'
  BY <1>1, <1>2 DEF old, new, RunRecords
<1> QED
  BY <1>5, <1>6

\* The records that the runner and the streams produce follow the state machine.
LEMMA OwnRecLegal ==
  ASSUME TypeOK, NEW p \in Procs, NEW st \in {"LOST", "KILLED", "FAILED"}, RunBooks(p),
         \/ st = "LOST" /\ mem.proc[p].st \in {"FORKED", "RUNNING"}
         \/ st = "FAILED" /\ mem.proc[p].st = "WAITING"
         \/ st = "KILLED" /\ mem.proc[p].st \notin TerminalProcess /\ mem.proc[p].cpid
  PROVE  Rec(p, st) \in ProcessRec /\ LegalRec(Rec(p, st))
<1>1. mem.proc[p] \in ProcessRun
  BY DEF TypeOK, RunnerState
<1>2. Rec(p, st) \in ProcessRec
  BY <1>1 DEF Rec, ProcessRec, ProcessRun, ProcessStates
<1>3. mem.proc[p].st \in SourceStates(st)
  BY <1>1 DEF SourceStates, RunBooks, NoRun, ProcessRun, ProcessStates, TerminalProcess
<1> QED
  BY <1>2, <1>3 DEF LegalRec, Rec

\* A dispatchable record of a stream is the next one of the latest run.
LEMMA StreamRecLegal ==
  ASSUME TypeOK, NEW p \in Procs, RunBooks(p), RunRecords(p),
         nxt[p] + 1 \in 1..Len(stream[p]),
         NEW r, r = [p |-> p, st |-> stream[p][nxt[p] + 1].st, seq |-> stream[p][nxt[p] + 1].seq],
         r \in ProcessRec, Dispatchable(mem, r)
  PROVE  /\ LegalRec(r)
         /\ r.st = "FAILED" => mem.proc[p].cpid
         /\ r.st # "LOST"
<1>1. mem.proc[p] \in ProcessRun
  BY DEF TypeOK, RunnerState
<1>2. mem.proc[p].st # "NONE"
  <2>1. stream[p] # <<>>
    OBVIOUS
  <2> QED
    BY <2>1 DEF RunBooks
<1>3. r.seq = mem.proc[p].seq + 1 /\ mem.proc[p].st \in SourceStates(r.st)
  BY <1>2 DEF Dispatchable
<1>4. r.seq > mem.proc[p].base
  BY <1>1, <1>3 DEF RunBooks, ProcessRun
<1>5. /\ r.st \in {"FORKED", "RUNNING", "SUCCESS", "FAILED", "KILLED"}
      /\ r.st = "FAILED" => r.seq = mem.proc[p].base + 3
  BY <1>4 DEF RunRecords
<1>6. ASSUME r.st = "FAILED"
      PROVE  mem.proc[p].cpid
  <2>1. mem.proc[p].st \in {"WAITING", "RUNNING"}
    BY <1>3, <1>6, Sources DEF ProcessStates
  <2> QED
    BY <1>1, <1>3, <1>5, <1>6, <2>1 DEF RunBooks, ProcessRun
<1> QED
  BY <1>3, <1>5, <1>6 DEF LegalRec

\* The records of a stream have numbers.
LEMMA StreamSeqType ==
  ASSUME TypeOK, NEW p \in Procs, NEW i \in 1..Len(stream[p])
  PROVE  stream[p][i] \in StreamRec /\ stream[p][i].seq \in Int
<1>1. stream[p] \in Seq(StreamRec)
  BY DEF TypeOK, StreamsOK
<1>2. stream[p][i] \in StreamRec
  BY <1>1
<1> QED
  BY <1>2 DEF StreamRec

-----------------------------------------------------------------------------
(* Steps by what they may do. *)

\* A runner that goes down leaves the process states of its log.
LEMMA DownProc ==
  ASSUME LogInv, Up, GoDown, disk' = disk
  PROVE  mem'.proc = mem.proc
BY DEF LogInv, GoDown

\* Steps of the coordinators, of the commands and of time.
WorldStep ==
  \/ \E p \in Procs : \/ CoordinatorStep(p) \/ CommandExits(p)
                       \/ CoordinatorDies(p) \/ ForkOverdue(p) \/ CoolDown(p)
  \/ Expire
  \/ UNCHANGED vars

\* They leave the runner alone and bring nothing to life.
LEMMA WorldStepEffect ==
  ASSUME TypeOK, WorldStep
  PROVE  /\ UNCHANGED <<disk, mem, pc, pend, work, at, quota, seen, ret, pos, nxt, forced, fin,
                        starts, kills>>
         /\ \A p \in Procs : Live(p)' => Live(p)
<1>1. CASE UNCHANGED vars \/ Expire
  BY <1>1 DEF vars, runnerVars, worldVars, countVars, Expire, Live
<1>2. CASE \E p \in Procs : \/ CoordinatorStep(p) \/ CommandExits(p)
                           \/ CoordinatorDies(p) \/ ForkOverdue(p) \/ CoolDown(p)
  <2>1. PICK q \in Procs : \/ CoordinatorStep(q) \/ CommandExits(q)
                           \/ CoordinatorDies(q) \/ ForkOverdue(q) \/ CoolDown(q)
    BY <1>2
  <2>2. UNCHANGED <<disk, mem, pc, pend, work, at, quota, seen, ret, pos, nxt, forced, fin,
                    starts, kills>>
    BY <2>1 DEF CoordinatorStep, runnerVars, worldVars, countVars, TakeControl, GiveUpControl,
       ExecCommand, WriteRunning, CoordinatorExits, CommandExits, CoordinatorDies, ForkOverdue,
       CoolDown, WriteTerminal
  <2>3. \A p \in Procs : Live(p)' => Live(p)
    BY <2>1 DEF worldVars, TypeOK, WorldOK, Live, NoCoord, CoordinatorStep, TakeControl,
       GiveUpControl, ExecCommand, WriteRunning, CoordinatorExits, CommandExits, CoordinatorDies,
       ForkOverdue, CoolDown, WriteTerminal
  <2> QED
    BY <2>2, <2>3
<1> QED
  BY <1>1, <1>2 DEF WorldStep

\* A runner that is down takes no step but its start.
LEMMA DownStep ==
  ASSUME LogInv, ~Up, [Next]_vars
  PROVE  Start \/ WorldStep
<1>1. pc = "down" /\ pend = NoRec
  BY DEF LogInv, Up
<1>2. ~RunnerStep
  BY <1>1 DEF RunnerStep, Ready, Handler, Resume, OnActive, OnCleaning, OnKilling, KillOne,
     EnterFinalizing, FinalizeTask, StagePlan, StageKilled, StageCleaning, ScanOne, ScanData,
     PickRunnable, LaunchWaiting, LaunchFork, FinalizeFork, LaunchFails, EndPlan, PollSome,
     PollNone, DispatchUpdate, EndCollect
<1>3. ~Crash /\ \A status \in {"KILLED", "LOST"} : ~KillSignal(status)
  BY <1>1 DEF Crash, KillSignal, Up
<1> QED
  BY <1>2, <1>3 DEF Next, WorldStep

\* A step of the runner's loop that writes at most one process record.
LoopStep ==
  /\ Up /\ Up' /\ pend = NoRec /\ UNCHANGED <<starts, kills, fin, forced>>
  /\ pc' # "task" /\ (pc = "task" => mem.task # "ACTIVE")
  /\ (\E r \in ProcessRec : Checkpoint(r)) \/ UNCHANGED <<disk, mem, pend>>

\* A step at which the runner ends.
EndStep == GoDown /\ disk' = disk /\ UNCHANGED <<starts, kills, fin>>

\* A runner's step, by what it may do to the task's state.
LEMMA StepKinds ==
  ASSUME TypeOK, Up, [Next]_vars, ~WorldStep
  PROVE  \/ Handler \/ FinalizeTask \/ OnActive \/ EnterFinalizing \/ StageKilled
         \/ StageCleaning \/ EndPlan
         \/ \E status \in {"KILLED", "LOST"} : KillSignal(status)
         \/ EndStep \/ LoopStep
<1>1. \A p \in Procs, st \in ProcessStates : Rec(p, st) \in ProcessRec
  BY DEF TypeOK, RunnerState, ProcessRun, Rec, ProcessRec
<1>2. ASSUME NEW p \in Procs, NEW st \in {"LOST", "KILLED", "FAILED", "WAITING"},
             SetProcessStatus(p, st)
      PROVE  \E r \in ProcessRec : Checkpoint(r)
  BY <1>1, <1>2 DEF SetProcessStatus, ProcessStates
<1>3. CASE Resume \/ OnCleaning \/ OnKilling \/ StagePlan \/ PickRunnable \/ FinalizeFork
           \/ PollSome \/ PollNone \/ EndCollect
  BY <1>3 DEF LoopStep, Up, Ready, TypeOK, ControlOK, countVars, Resume, OnCleaning, OnKilling,
     StagePlan, PickRunnable, FinalizeFork, PollSome, PollNone, EndCollect, TerminalTask
<1>4. CASE ScanData
  BY <1>2, <1>4 DEF LoopStep, ScanData, Up, Ready, TypeOK, ControlOK, countVars
<1>5. ASSUME NEW p \in Procs, KillOne(p) \/ ScanOne(p) \/ LaunchFails(p)
      PROVE  LoopStep
  BY <1>2, <1>5 DEF LoopStep, KillOne, ScanOne, LaunchFails, Up, Ready, countVars
<1>6. ASSUME NEW p \in Procs, LaunchWaiting(p) \/ LaunchFork(p)
      PROVE  LoopStep \/ EndStep
  BY <1>2, <1>6 DEF LoopStep, EndStep, LaunchWaiting, LaunchFork, Up, Ready, countVars, GoDown
<1>7. ASSUME NEW p \in Procs, DispatchUpdate(p)
      PROVE  LoopStep \/ EndStep
  <2> DEFINE r == [p |-> p, st |-> stream[p][nxt[p] + 1].st, seq |-> stream[p][nxt[p] + 1].seq]
  <2>1. CASE EndStep
    BY <2>1
  <2>2. CASE ~Dispatchable(mem, r)
    BY <1>7, <2>2 DEF DispatchUpdate, EndStep, countVars
  <2>3. CASE Dispatchable(mem, r)
    <3>1. nxt[p] < pos[p] /\ nxt[p] \in Nat /\ pos[p] \in Int /\ pos[p] <= Len(stream[p])
          /\ stream[p] \in Seq(StreamRec)
      BY <1>7 DEF DispatchUpdate, Batched, TypeOK, StreamsOK, Unbound
    <3>2. stream[p][nxt[p] + 1] \in StreamRec
      BY <3>1
    <3>3. r \in ProcessRec
      BY <3>2 DEF ProcessRec, StreamRec
    <3>4. Checkpoint(r)
      BY <1>7, <2>3 DEF DispatchUpdate
    <3>5. Ready("collect") /\ UNCHANGED <<pc, starts, kills, fin, forced>>
      BY <1>7, <2>3 DEF DispatchUpdate, countVars
    <3> QED
      BY <3>3, <3>4, <3>5 DEF LoopStep, Up, Ready
  <2> QED
    BY <2>2, <2>3
<1>8. CASE Crash
  BY <1>8 DEF Crash, EndStep
<1> QED
  BY <1>3, <1>4, <1>5, <1>6, <1>7, <1>8 DEF Next, RunnerStep, Start, WorldStep, Up

\* ACTIVE is the state a task begins in, and none it returns to.
LEMMA ActiveBefore ==
  ASSUME TypeOK, LogInv, [Next]_vars, ~Start, mem'.task = "ACTIVE"
  PROVE  mem.task = "ACTIVE"
<1>1. CASE WorldStep
  BY <1>1, WorldStepEffect
<1> SUFFICES ASSUME Up, ~WorldStep PROVE mem.task = "ACTIVE"
  BY <1>1, DownStep
<1>2. disk.task = mem.task /\ mem \in RunnerState
  BY DEF LogInv, TypeOK
<1>3. ASSUME GoDown, disk' = disk
      PROVE  mem.task = "ACTIVE"
  BY <1>2, <1>3 DEF GoDown
<1>4. \A task : SetTaskStatus(task) => mem'.task = task
  BY <1>2 DEF SetTaskStatus, RunnerState
<1>5. CASE Handler
  <2>1. CASE GoDown /\ disk' = disk
    BY <1>3, <2>1
  <2>2. CASE mem' = HandleProcess(mem, pend) /\ pend \in ProcessRec
    BY <1>2, <2>2, HandleKeeps
  <2> QED
    BY <1>5, <2>1, <2>2 DEF Handler, TypeOK, ControlOK
<1>6. CASE FinalizeTask \/ EndStep
  BY <1>3, <1>6 DEF FinalizeTask, EndStep
<1>7. CASE OnActive \/ EnterFinalizing
  BY <1>2, <1>7 DEF OnActive, EnterFinalizing, RunnerState
<1>8. CASE StageKilled \/ StageCleaning \/ EndPlan
  BY <1>4, <1>8, TerminalStateType DEF StageKilled, StageCleaning, EndPlan, TerminalTask
<1>9. ASSUME NEW status \in {"KILLED", "LOST"}, KillSignal(status)
      PROVE  mem.task = "ACTIVE"
  BY <1>3, <1>4, <1>9 DEF KillSignal
<1>10. CASE LoopStep
  BY <1>10, CheckpointEffect DEF LoopStep
<1> QED
  BY <1>5, <1>6, <1>7, <1>8, <1>9, <1>10, StepKinds

\* A status that kill or lose forced stays until the runner ends.
LEMMA ForcedBefore ==
  ASSUME TypeOK, LogInv, [Next]_vars, ~Start, Up', forced' = "none"
  PROVE  Up /\ forced = "none"
<1>1. CASE WorldStep
  BY <1>1, WorldStepEffect DEF Up
<1> SUFFICES ASSUME Up, ~WorldStep PROVE forced = "none"
  BY <1>1, DownStep
<1>2. ~GoDown
  BY DEF GoDown, Up
<1> QED
  BY <1>2, StepKinds DEF Handler, FinalizeTask, OnActive, EnterFinalizing, StageKilled,
     StageCleaning, EndPlan, KillSignal, EndStep, LoopStep, SetTaskStatus

-----------------------------------------------------------------------------
(* The process streams under any number of runners. *)

\* Nothing is killed before FINALIZING; a task does not come back from there.
Early == mem.task \in {"ACTIVE", "CLEANING"}

\* A run that has no last record.
Open == {"WAITING", "FORKED", "RUNNING"}

\* The sequence numbers in the stream of p.
Numbers(p) == {stream[p][i].seq : i \in 1..Len(stream[p])}

\* A stream counts up.
Ascending(p) ==
  \A i, j \in 1..Len(stream[p]) : i < j => stream[p][i].seq < stream[p][j].seq

\* The runner's log and the stream: what was dispatched stands there, the latest
\* run has no gap, a run that failed to start has nothing there.
Line(p) ==
  LET run == mem.proc[p]
  IN  /\ \A n \in Numbers(p) : n > run.base + 1 => n - 1 \in Numbers(p)
      /\ run.st \in {"FORKED", "RUNNING"} => run.seq \in Numbers(p)
      /\ run.st \in TerminalProcess /\ ~run.cpid => \A n \in Numbers(p) : n <= run.base
      /\ run.st \in {"WAITING", "FORKED"} => ~run.pid
      /\ ~ForkTimeouts => /\ run.base \notin Numbers(p)
                          /\ run.st \in TerminalProcess /\ run.cpid => run.seq = run.base + 3

\* The coordinator of the latest run.
Own(p) == coord[p].ph # "none" /\ coord[p].base = mem.proc[p].base

\* How many records of its run a coordinator can have in the stream.
Reach(ph) == CASE ph = "run" -> 2 [] ph = "exit" -> 3 [] OTHER -> 1

\* A coordinator is the last one that wrote to its stream; one of an earlier run
\* has no number left that a later run could use.
Grip(p) ==
  LET c == coord[p]
      run == mem.proc[p]
  IN  /\ c.ph # "none" =>
           /\ run.st # "NONE" /\ c.base <= run.base
           /\ \A n \in Numbers(p) : n <= c.base + Reach(c.ph)
           /\ c.ph # "await" => c.base + 1 \in Numbers(p)
           /\ c.ph \in {"run", "exit"} => c.base + 2 \in Numbers(p)
           /\ c.base < run.base =>
                \/ c.base + 3 <= run.base /\ (~ForkTimeouts => c.ph = "exit")
                \/ c.ph = "await" /\ c.base + 1 \notin Numbers(p)
      /\ run.st = "LOST" /\ run.pid => ~Own(p) /\ \A n \in Numbers(p) : n < run.seq
      /\ ~ForkTimeouts /\ run.st \in TerminalProcess /\ run.cpid /\ Own(p) => c.ph = "exit"

StreamInv(p) == RunBooks(p) /\ RunRecords(p) /\ Ascending(p) /\ Line(p) /\ Grip(p)

-----------------------------------------------------------------------------

\* The types that the lemmas need.
LEMMA StreamTypes ==
  ASSUME TypeOK, NEW p \in Procs
  PROVE  /\ mem.proc[p] \in ProcessRun /\ mem.proc[p].seq \in Int /\ mem.proc[p].base \in Int
         /\ mem.proc[p].cpid \in BOOLEAN /\ mem.proc[p].pid \in BOOLEAN
         /\ coord[p].ph \in CoordPhases /\ coord[p].base \in Int
         /\ stream[p] \in Seq(StreamRec) /\ Len(stream[p]) \in Nat
         /\ Numbers(p) \subseteq Int
<1>1. mem.proc[p] \in ProcessRun
  BY DEF TypeOK, RunnerState
<1>2. stream[p] \in Seq(StreamRec)
  BY DEF TypeOK, StreamsOK
<1>3. Numbers(p) \subseteq Int
  BY StreamSeqType DEF Numbers
<1> QED
  BY <1>1, <1>2, <1>3 DEF ProcessRun, TypeOK, WorldOK

\* A record is appended to a stream.
LEMMA Appended ==
  ASSUME TypeOK, NEW p \in Procs, NEW r \in StreamRec,
         stream' = [stream EXCEPT ![p] = Append(@, r)]
  PROVE  /\ Len(stream'[p]) = Len(stream[p]) + 1 /\ stream'[p][Len(stream[p]) + 1] = r
         /\ \A i \in 1..Len(stream[p]) : stream'[p][i] = stream[p][i]
         /\ \A n : n \in Numbers(p)' <=> n \in Numbers(p) \/ n = r.seq
         /\ (\A n \in Numbers(p) : n < r.seq) /\ Ascending(p) => Ascending(p)'
         /\ \A q \in Procs \ {p} : stream'[q] = stream[q]
<1>1. /\ stream[p] \in Seq(StreamRec) /\ Len(stream[p]) \in Nat
      /\ stream'[p] = Append(stream[p], r) /\ \A q \in Procs \ {p} : stream'[q] = stream[q]
  BY DEF TypeOK, StreamsOK
<1>2. /\ Len(stream'[p]) = Len(stream[p]) + 1 /\ stream'[p][Len(stream[p]) + 1] = r
      /\ \A i \in 1..Len(stream[p]) : stream'[p][i] = stream[p][i]
  BY <1>1
<1>3. \A i : i \in 1..(Len(stream[p]) + 1) <=> i \in 1..Len(stream[p]) \/ i = Len(stream[p]) + 1
  BY <1>1
<1>4. \A n : n \in Numbers(p)' <=> n \in Numbers(p) \/ n = r.seq
  BY <1>2, <1>3 DEF Numbers
<1>5. ASSUME \A n \in Numbers(p) : n < r.seq, Ascending(p)
      PROVE  Ascending(p)'
  <2> SUFFICES ASSUME NEW i \in 1..(Len(stream[p]) + 1), NEW j \in 1..(Len(stream[p]) + 1), i < j
               PROVE  stream'[p][i].seq < stream'[p][j].seq
    BY <1>2 DEF Ascending
  <2>1. i \in 1..Len(stream[p])
    BY <1>1
  <2>2. stream[p][i].seq < r.seq
    BY <1>5, <2>1 DEF Numbers
  <2> QED
    BY <1>2, <1>3, <1>5, <2>1, <2>2 DEF Ascending
<1> QED
  BY <1>1, <1>2, <1>4, <1>5

-----------------------------------------------------------------------------
(* The streams, step by step. *)

\* A coordinator goes, nothing else changes.
LEMMA ShrinkStream ==
  ASSUME NEW p \in Procs, StreamInv(p), mem'.proc[p] = mem.proc[p], stream'[p] = stream[p],
         coord'[p] = coord[p] \/ coord'[p].ph = "none"
  PROVE  StreamInv(p)'
<1>1. Numbers(p)' = Numbers(p)
  BY DEF Numbers
<1>2. RunBooks(p)' /\ RunRecords(p)' /\ Ascending(p)'
  BY DEF StreamInv, RunBooks, RunRecords, Ascending
<1>3. Line(p)'
  BY <1>1 DEF StreamInv, Line
<1>4. Grip(p)'
  BY <1>1 DEF StreamInv, Grip, Own
<1> QED
  BY <1>2, <1>3, <1>4 DEF StreamInv

\* What the latest run has in the stream.
LEMMA RunNumbers ==
  ASSUME TypeOK, NEW p \in Procs, StreamInv(p)
  PROVE  /\ \A n \in Numbers(p) : n \in Int /\ n <= mem.proc[p].base + 3
         /\ mem.proc[p].base + 1 \notin Numbers(p) => \A n \in Numbers(p) : n <= mem.proc[p].base
<1>1. Numbers(p) \subseteq Int /\ mem.proc[p].base \in Int
  BY StreamTypes
<1>2. \A n \in Numbers(p) : n > mem.proc[p].base =>
        \/ n = mem.proc[p].base + 1 \/ n = mem.proc[p].base + 2 \/ n = mem.proc[p].base + 3
  BY DEF StreamInv, RunRecords, Numbers
<1>3. \A n \in Numbers(p) : n <= mem.proc[p].base + 3
  BY <1>1, <1>2
<1>4. ASSUME mem.proc[p].base + 1 \notin Numbers(p), NEW n \in Numbers(p), n > mem.proc[p].base
      PROVE  FALSE
  <2>1. \A m \in Numbers(p) : m > mem.proc[p].base + 1 => m - 1 \in Numbers(p)
    BY DEF StreamInv, Line
  <2>2. n # mem.proc[p].base + 2
    <3> DEFINE b == mem.proc[p].base
    <3>1. b \in Int /\ b + 1 \notin Numbers(p) /\ (n > b + 1 => n - 1 \in Numbers(p))
      BY <1>1, <1>4, <2>1
    <3> HIDE DEF b
    <3>2. n = b + 2 => n > b + 1 /\ n - 1 = b + 1
      BY <3>1
    <3>3. n # b + 2
      BY <3>1, <3>2
    <3> QED
      BY <3>3 DEF b
  <2>3. n = mem.proc[p].base + 3
    BY <1>2, <1>4, <2>2
  <2>4. n - 1 \in Numbers(p) /\ n - 1 - 1 = mem.proc[p].base + 1 /\ n - 1 > mem.proc[p].base + 1
    BY <1>1, <2>1, <2>3
  <2> QED
    BY <1>4, <2>1, <2>4
<1> QED
  BY <1>1, <1>3, <1>4

\* What the runner may record of p: a dispatched record is in the stream, a run that
\* failed to start is not, LOST is the last word.
Fits(p, r) ==
  /\ p = r.p /\ LegalRec(r)
  /\ r.st \in {"FORKED", "RUNNING"} => r.seq \in Numbers(p)
  /\ r.st = "FAILED" /\ ~mem.proc[p].cpid => ~Started(p)
  /\ r.st = "LOST" /\ mem.proc[p].pid =>
       ~Own(p) /\ \A n \in Numbers(p) : n <= mem.proc[p].seq
  /\ ~ForkTimeouts /\ r.st \in TerminalProcess /\ mem.proc[p].cpid =>
       r.seq = mem.proc[p].base + 3 /\ (Own(p) => coord[p].ph = "exit")

\* A record that follows the state machine of the latest run.
LEMMA RecordStream ==
  ASSUME TypeOK, NEW r \in ProcessRec, Checkpoint(r), NEW p \in Procs, Fits(p, r),
         StreamInv(p), UNCHANGED <<stream, coord>>
  PROVE  StreamInv(p)'
<1> USE DEF Fits
<1> DEFINE old == mem.proc[p]
           new == mem'.proc[p]
<1>1. /\ new.st = r.st /\ new.seq = old.seq + 1 /\ new.base = old.base /\ r.st # "WAITING"
      /\ new.cpid = (old.cpid \/ r.st = "FORKED") /\ new.pid = (old.pid \/ r.st = "RUNNING")
  BY CheckpointEffect DEF LegalRec
<1>2. RunBooks(p)' /\ RunRecords(p)'
  BY LegalBooks DEF StreamInv
<1>3. Numbers(p)' = Numbers(p) /\ Ascending(p)' /\ coord'[p] = coord[p]
  BY DEF Numbers, StreamInv, Ascending
<1>4. /\ old.st \in {"WAITING", "FORKED", "RUNNING"}
      /\ r.st = "FORKED" => old.st = "WAITING"
      /\ r.st = "FAILED" => old.st \in {"WAITING", "RUNNING"}
      /\ r.st # "NONE" /\ r.seq = old.seq + 1
  BY Sources DEF LegalRec, ProcessRec, ProcessStates
<1>5. Line(p)'
  <2>1. ASSUME new.st \in TerminalProcess, ~new.cpid
        PROVE  \A n \in Numbers(p) : n <= old.base
    <3>1. r.st = "FAILED" /\ ~old.cpid
      BY <1>1, <1>2, <2>1 DEF RunBooks, TerminalProcess
    <3>2. old.st = "WAITING"
      BY <1>4, <3>1 DEF StreamInv, RunBooks
    <3>3. old.base + 1 \notin Numbers(p)
      BY <3>1, <3>2 DEF Started, Numbers
    <3> QED
      BY <3>3, RunNumbers
  <2>2. new.st = "FORKED" => ~new.pid
    BY <1>1, <1>4 DEF StreamInv, Line
  <2> QED
    BY <1>1, <1>3, <1>4, <2>1, <2>2 DEF StreamInv, Line, TerminalProcess
<1>6. Grip(p)'
  <2>1. new.st = "LOST" /\ new.pid => \A n \in Numbers(p) : n < new.seq
    <3> SUFFICES ASSUME new.st = "LOST", new.pid, NEW n \in Numbers(p)
                 PROVE  n < new.seq
      OBVIOUS
    <3>1. old.seq \in Int /\ n \in Int
      BY StreamTypes
    <3>2. n <= old.seq
      BY <1>1
    <3> HIDE DEF old, new
    <3> QED
      BY <1>1, <3>1, <3>2
  <2> QED
    BY <1>1, <1>3, <1>4, <2>1 DEF StreamInv, Grip, Own, TerminalProcess
<1> QED
  BY <1>2, <1>3, <1>5, <1>6 DEF StreamInv

\* A new run of the process.
LEMMA WaitingStream ==
  ASSUME TypeOK, NEW p \in Procs, StreamInv(p), mem.proc[p].st \in SourceStates("WAITING"),
         SetProcessStatus(p, "WAITING"), UNCHANGED <<stream, coord>>
  PROVE  StreamInv(p)' /\ ~Started(p)'
<1> DEFINE old == mem.proc[p]
           new == mem'.proc[p]
<1>1. old \in ProcessRun /\ Rec(p, "WAITING") \in ProcessRec
  BY DEF TypeOK, RunnerState, Rec, ProcessRec, ProcessRun, ProcessStates
<1>2. /\ new.st = "WAITING" /\ new.seq = old.seq + 1 /\ new.base = old.seq + 1
      /\ ~new.cpid /\ ~new.pid
  BY <1>1, CheckpointEffect DEF SetProcessStatus, Rec
<1>3. /\ old.seq \in Int /\ old.base \in Int /\ Numbers(p) \subseteq Int /\ coord[p].base \in Int
      /\ Numbers(p)' = Numbers(p)
  BY StreamTypes DEF Numbers
<1>4. old.st = "NONE" \/ old.st \in TerminalProcess
  BY DEF SourceStates
<1>5. /\ old.seq >= old.base
      /\ old.cpid => old.seq >= old.base + 2
      /\ ~ForkTimeouts /\ old.cpid => old.seq = old.base + 3
  BY <1>4 DEF StreamInv, RunBooks, NoRun, Line
<1>6. \A n \in Numbers(p) : n <= new.base /\ (~ForkTimeouts => n < new.base)
  <2>1. CASE old.st = "NONE"
    BY <2>1 DEF StreamInv, RunBooks, Numbers
  <2>2. CASE old.st \in TerminalProcess /\ old.cpid
    <3>1. \A n \in Numbers(p) : n <= old.base + 3
      BY RunNumbers
    <3> HIDE DEF old, new
    <3> QED
      BY <1>2, <1>3, <1>5, <2>2, <3>1
  <2>3. CASE old.st \in TerminalProcess /\ ~old.cpid
    <3>1. \A n \in Numbers(p) : n <= old.base
      BY <2>3 DEF StreamInv, Line
    <3> HIDE DEF old, new
    <3> QED
      BY <1>2, <1>3, <1>5, <3>1
  <2> QED
    BY <1>4, <2>1, <2>2, <2>3
<1>7. RunBooks(p)' /\ Ascending(p)'
  BY <1>2, <1>3 DEF RunBooks, TerminalProcess, StreamInv, Ascending
<1>8. \A i \in 1..Len(stream[p]) : stream[p][i].seq <= new.base /\ stream[p][i].seq \in Int
  BY <1>6, StreamSeqType DEF Numbers
<1>9. RunRecords(p)' /\ ~Started(p)'
  <2>1. new.base \in Int
    BY <1>2, <1>3
  <2> HIDE DEF old, new
  <2>2. \A i \in 1..Len(stream[p]) : ~(stream[p][i].seq > new.base) /\ stream[p][i].seq # new.base + 1
    BY <1>8, <2>1
  <2> QED
    BY <2>2 DEF RunRecords, Started, new
<1>10. Line(p)'
  <2>1. \A n \in Numbers(p) : ~(n > new.base + 1)
    <3> HIDE DEF old, new
    <3> QED
      BY <1>2, <1>3, <1>6
  <2>2. ~ForkTimeouts => new.base \notin Numbers(p)
    <3>1. new.base \in Int
      BY <1>2, <1>3
    <3> HIDE DEF new
    <3> QED
      BY <1>3, <1>6, <3>1
  <2> QED
    BY <1>2, <1>3, <2>1, <2>2 DEF Line, TerminalProcess
<1>11. Grip(p)'
  <2> SUFFICES ASSUME coord[p].ph # "none"
               PROVE  /\ coord[p].base <= new.base
                      /\ coord[p].base < new.base =>
                           \/ coord[p].base + 3 <= new.base /\ (~ForkTimeouts => coord[p].ph = "exit")
                           \/ coord[p].ph = "await" /\ coord[p].base + 1 \notin Numbers(p)
    BY <1>2, <1>3 DEF StreamInv, Grip, TerminalProcess
  <2>1. /\ old.st # "NONE" /\ coord[p].base <= old.base
        /\ coord[p].ph # "await" => coord[p].base + 1 \in Numbers(p)
        /\ coord[p].base < old.base =>
             \/ coord[p].base + 3 <= old.base /\ (~ForkTimeouts => coord[p].ph = "exit")
             \/ coord[p].ph = "await" /\ coord[p].base + 1 \notin Numbers(p)
        /\ ~ForkTimeouts /\ old.st \in TerminalProcess /\ old.cpid /\ coord[p].base = old.base =>
             coord[p].ph = "exit"
        /\ ~old.cpid => \A n \in Numbers(p) : n <= old.base
    BY <1>4 DEF StreamInv, Grip, Own, Line
  <2>2. CASE coord[p].base = old.base /\ old.cpid
    <3> HIDE DEF old, new
    <3> QED
      BY <1>2, <1>3, <1>4, <1>5, <2>1, <2>2
  <2>3. CASE coord[p].base = old.base /\ ~old.cpid
    <3>1. old.base + 1 \notin Numbers(p)
      <4>1. ~(old.base + 1 <= old.base)
        BY <1>3
      <4> QED
        BY <2>1, <2>3, <4>1
    <3> HIDE DEF old, new
    <3> QED
      BY <1>2, <1>3, <1>5, <2>1, <2>3, <3>1
  <2>4. CASE coord[p].base < old.base
    <3> HIDE DEF old, new
    <3> QED
      BY <1>2, <1>3, <1>5, <2>1, <2>4
  <2>5. coord[p].base = old.base \/ coord[p].base < old.base
    BY <1>3, <2>1
  <2> QED
    BY <2>2, <2>3, <2>4, <2>5
<1> QED
  BY <1>7, <1>9, <1>10, <1>11 DEF StreamInv

\* A live coordinator takes its run on without writing.
LEMMA PhaseStream ==
  ASSUME TypeOK, NEW p \in Procs, StreamInv(p), mem'.proc[p] = mem.proc[p],
         stream'[p] = stream[p], coord'[p].base = coord[p].base, coord'[p].ph \in {"ctl", "exec"},
         (coord[p].ph = "await" /\ ForkedWritten(p)) \/ coord[p].ph = "ctl"
  PROVE  StreamInv(p)'
<1>1. Numbers(p)' = Numbers(p) /\ RunBooks(p)' /\ RunRecords(p)' /\ Ascending(p)'
  BY DEF Numbers, StreamInv, RunBooks, RunRecords, Ascending
<1>2. Line(p)'
  BY <1>1 DEF StreamInv, Line
<1>3. coord[p].base + 1 \in Numbers(p)
  <2>1. CASE coord[p].ph = "ctl"
    BY <2>1 DEF StreamInv, Grip
  <2>2. CASE ForkedWritten(p)
    <3>1. stream[p] \in Seq(StreamRec) /\ stream[p] # <<>>
      BY <2>2 DEF TypeOK, StreamsOK, ForkedWritten
    <3>2. Len(stream[p]) \in 1..Len(stream[p])
      BY <3>1
    <3>3. stream[p][Len(stream[p])].seq = coord[p].base + 1
      BY <2>2 DEF ForkedWritten
    <3> QED
      BY <3>2, <3>3 DEF Numbers
  <2> QED
    BY <2>1, <2>2
<1>4. Grip(p)'
  BY <1>1, <1>3 DEF StreamInv, Grip, Own, Reach
<1> QED
  BY <1>1, <1>2, <1>4 DEF StreamInv

\* A coordinator writes its own next record.
LEMMA WriteStream ==
  ASSUME TypeOK, NEW p \in Procs, StreamInv(p), mem' = mem,
         NEW r \in StreamRec, stream' = [stream EXCEPT ![p] = Append(@, r)],
         coord'[p].base = coord[p].base,
         \/ /\ coord[p].ph = "exec" /\ coord'[p].ph = "run"
            /\ r.st = "RUNNING" /\ r.seq = coord[p].base + 2
         \/ /\ coord[p].ph = "run" /\ coord'[p].ph = "exit"
            /\ r.st \in {"SUCCESS", "FAILED", "KILLED"} /\ r.seq = coord[p].base + 3
  PROVE  /\ StreamInv(p)' /\ \A n \in Numbers(p) : n < r.seq
         /\ Own(p) \/ r.seq <= mem.proc[p].base
         /\ ~ForkTimeouts => Own(p)
<1> DEFINE c == coord[p]
           run == mem.proc[p]
<1>1. /\ c.base \in Int /\ run.base \in Int /\ run.seq \in Int /\ Numbers(p) \subseteq Int
      /\ r.seq \in Int
  BY StreamTypes
<1>2. /\ run.st # "NONE" /\ c.base <= run.base
      /\ \A n \in Numbers(p) : n <= c.base + Reach(c.ph)
      /\ c.base + 1 \in Numbers(p)
      /\ c.ph = "run" => c.base + 2 \in Numbers(p)
      /\ c.base < run.base => c.base + 3 <= run.base /\ ForkTimeouts
      /\ run.st = "LOST" /\ run.pid => ~Own(p)
      /\ ~ForkTimeouts /\ run.st \in TerminalProcess /\ run.cpid => ~Own(p)
  BY DEF StreamInv, Grip
<1>3. \A n \in Numbers(p) : n < r.seq
  <2> SUFFICES ASSUME NEW n \in Numbers(p) PROVE n < r.seq
    OBVIOUS
  <2>1. \/ n <= c.base + 1 /\ r.seq = c.base + 2
        \/ n <= c.base + 2 /\ r.seq = c.base + 3
    <3>1. Reach("exec") = 1 /\ Reach("run") = 2
      BY DEF Reach
    <3> QED
      BY <1>2, <3>1
  <2> HIDE DEF c, run
  <2> QED
    BY <1>1, <2>1
<1>4. Own(p) <=> c.base = run.base
  BY DEF Own
<1>5. /\ Own(p) \/ r.seq <= run.base
      /\ ~ForkTimeouts => Own(p)
  <2>1. r.seq <= c.base + 3
    BY <1>1
  <2> HIDE DEF c, run
  <2> QED
    BY <1>1, <1>2, <1>4, <2>1
<1>6. /\ \A n : n \in Numbers(p)' <=> n \in Numbers(p) \/ n = r.seq
      /\ Ascending(p)'
      /\ Len(stream'[p]) = Len(stream[p]) + 1 /\ stream'[p][Len(stream[p]) + 1] = r
      /\ \A i \in 1..Len(stream[p]) : stream'[p][i] = stream[p][i]
  <2>1. Ascending(p)
    BY DEF StreamInv
  <2> HIDE DEF c, run
  <2> QED
    BY <1>3, <2>1, Appended
<1>7. RunBooks(p)'
  BY <1>2 DEF StreamInv, RunBooks
<1>8. RunRecords(p)'
  <2> SUFFICES ASSUME NEW i \in 1..(Len(stream[p]) + 1), stream'[p][i].seq > run.base
               PROVE  \/ stream'[p][i].st = "FORKED" /\ stream'[p][i].seq = run.base + 1
                      \/ stream'[p][i].st = "RUNNING" /\ stream'[p][i].seq = run.base + 2
                      \/ /\ stream'[p][i].st \in {"SUCCESS", "FAILED", "KILLED"}
                         /\ stream'[p][i].seq = run.base + 3
    BY <1>6 DEF RunRecords
  <2>1. CASE i = Len(stream[p]) + 1
    <3>1. r.seq > run.base
      BY <1>6, <2>1
    <3>2. ~(r.seq <= run.base)
      <4> HIDE DEF run
      <4> QED
        BY <1>1, <3>1
    <3>3. c.base = run.base
      BY <1>4, <1>5, <3>2
    <3> QED
      BY <1>6, <2>1, <3>3
  <2>2. CASE i \in 1..Len(stream[p])
    BY <1>6, <2>2 DEF StreamInv, RunRecords
  <2>3. Len(stream[p]) \in Nat
    BY StreamTypes
  <2> QED
    BY <2>1, <2>2, <2>3
<1>9. Line(p)'
  <2>1. \A n \in Numbers(p)' : n > run.base + 1 => n - 1 \in Numbers(p)'
    <3> SUFFICES ASSUME r.seq > run.base + 1 PROVE r.seq - 1 \in Numbers(p)
      BY <1>6 DEF StreamInv, Line
    <3>1. ~(r.seq <= run.base)
      <4> HIDE DEF run
      <4> QED
        BY <1>1
    <3>2. r.seq - 1 = c.base + 1 \/ (c.ph = "run" /\ r.seq - 1 = c.base + 2)
      BY <1>1
    <3> QED
      BY <1>2, <3>2
  <2>2. ASSUME run.st \in TerminalProcess, ~run.cpid
        PROVE  \A n \in Numbers(p)' : n <= run.base
    <3>1. \A n \in Numbers(p) : n <= run.base
      BY <2>2 DEF StreamInv, Line
    <3>2. c.base + 1 <= run.base
      BY <1>2, <3>1
    <3>3. c.base # run.base
      <4> HIDE DEF c, run
      <4> QED
        BY <1>1, <3>2
    <3> QED
      BY <1>4, <1>5, <1>6, <3>1, <3>3
  <2>3. ~ForkTimeouts => run.base \notin Numbers(p)'
    <3>1. ~ForkTimeouts => r.seq # run.base
      <4>1. r.seq = c.base + 2 \/ r.seq = c.base + 3
        OBVIOUS
      <4> HIDE DEF c, run
      <4> QED
        BY <1>1, <1>4, <1>5, <4>1
    <3> QED
      BY <1>6, <3>1 DEF StreamInv, Line
  <2> QED
    BY <1>6, <2>1, <2>2, <2>3 DEF StreamInv, Line
<1>10. Grip(p)'
  <2>1. \A n \in Numbers(p)' : n <= c.base + Reach(coord'[p].ph)
    <3> SUFFICES ASSUME NEW n \in Numbers(p)' PROVE n <= c.base + Reach(coord'[p].ph)
      OBVIOUS
    <3>1. r.seq = c.base + Reach(coord'[p].ph)
      BY DEF Reach
    <3>2. n \in Int /\ n <= r.seq
      BY <1>1, <1>3, <1>6
    <3> QED
      BY <1>1, <3>1, <3>2
  <2>2. ASSUME run.st = "LOST", run.pid
        PROVE  \A n \in Numbers(p)' : n < run.seq
    <3>1. run.seq >= run.base + 2
      BY <2>2 DEF StreamInv, RunBooks, TerminalProcess
    <3>2. r.seq < run.seq
      <4>1. r.seq <= run.base
        BY <1>2, <1>5, <2>2
      <4> HIDE DEF c, run
      <4> QED
        BY <1>1, <3>1, <4>1
    <3> QED
      BY <1>6, <2>2, <3>2 DEF StreamInv, Grip
  <2>3. coord'[p].ph = "exit" => c.base + 2 \in Numbers(p)'
    BY <1>2, <1>6
  <2>4. coord'[p].ph = "run" => c.base + 2 \in Numbers(p)'
    BY <1>6
  <2>5. Own(p)' <=> Own(p)
    BY DEF Own
  <2> QED
    BY <1>2, <1>6, <2>1, <2>2, <2>3, <2>4, <2>5 DEF StreamInv, Grip
<1> QED
  BY <1>3, <1>5, <1>6, <1>7, <1>8, <1>9, <1>10 DEF StreamInv

\* The parent writes FORKED for the run it launched.
LEMMA ForkedStream ==
  ASSUME TypeOK, NEW p \in Procs, mem' = mem, coord' = coord,
         NEW r \in StreamRec, stream' = [stream EXCEPT ![p] = Append(@, r)],
         r.st = "FORKED", r.seq = mem.proc[p].base + 1,
         mem.proc[p].st = "WAITING", ~Started(p),
         coord[p].ph # "none" => coord[p].base = mem.proc[p].base,
         StreamInv(p)
  PROVE  StreamInv(p)' /\ \A n \in Numbers(p) : n <= mem.proc[p].base
<1> DEFINE run == mem.proc[p]
<1>2. run.base \in Int /\ coord[p].base \in Int /\ Numbers(p) \subseteq Int
  BY StreamTypes
<1>4. \A n \in Numbers(p) : n <= run.base
  <2>1. run.base + 1 \notin Numbers(p)
    BY DEF Started, Numbers
  <2> QED
    BY <2>1, RunNumbers
<1>5. \A n \in Numbers(p) : n < r.seq
  BY <1>2, <1>4
<1>6. /\ \A n : n \in Numbers(p)' <=> n \in Numbers(p) \/ n = run.base + 1
      /\ Ascending(p)'
      /\ Len(stream'[p]) = Len(stream[p]) + 1 /\ stream'[p][Len(stream[p]) + 1] = r
      /\ \A i \in 1..Len(stream[p]) : stream'[p][i] = stream[p][i]
  <2>1. Ascending(p)
    BY DEF StreamInv
  <2>2. Ascending(p)' /\ \A n : n \in Numbers(p)' <=> n \in Numbers(p) \/ n = r.seq
    BY <1>5, <2>1, Appended
  <2> QED
    BY <2>2, Appended
<1>7. RunBooks(p)'
  BY DEF StreamInv, RunBooks
<1>8. RunRecords(p)'
  <2> SUFFICES ASSUME NEW i \in 1..(Len(stream[p]) + 1), stream'[p][i].seq > run.base
               PROVE  \/ stream'[p][i].st = "FORKED" /\ stream'[p][i].seq = run.base + 1
                      \/ stream'[p][i].st = "RUNNING" /\ stream'[p][i].seq = run.base + 2
                      \/ /\ stream'[p][i].st \in {"SUCCESS", "FAILED", "KILLED"}
                         /\ stream'[p][i].seq = run.base + 3
    BY <1>6 DEF RunRecords
  <2>1. CASE i = Len(stream[p]) + 1
    BY <1>6, <2>1
  <2>2. CASE i \in 1..Len(stream[p])
    BY <1>6, <2>2 DEF StreamInv, RunRecords
  <2>3. Len(stream[p]) \in Nat
    BY StreamTypes
  <2> QED
    BY <2>1, <2>2, <2>3
<1>9. Line(p)'
  <2>1. \A n \in Numbers(p)' : ~(n > run.base + 1)
    <3> SUFFICES ASSUME NEW n \in Numbers(p)' PROVE ~(n > run.base + 1)
      OBVIOUS
    <3>1. n \in Int /\ (n = run.base + 1 \/ n <= run.base)
      BY <1>2, <1>4, <1>6
    <3> HIDE DEF run
    <3> QED
      BY <1>2, <3>1
  <2>2. run.base + 1 # run.base
    <3> HIDE DEF run
    <3> QED
      BY <1>2
  <2> QED
    BY <1>6, <2>1, <2>2 DEF StreamInv, Line, TerminalProcess
<1>10. Grip(p)'
  <2>1. ASSUME coord[p].ph # "none", NEW n \in Numbers(p)'
        PROVE  n <= coord[p].base + Reach(coord[p].ph)
    <3>1. coord[p].base = run.base /\ Reach(coord[p].ph) \in {1, 2, 3}
      BY <2>1 DEF Reach
    <3>2. n \in Int /\ (n = run.base + 1 \/ n <= run.base)
      BY <1>2, <1>4, <1>6
    <3> HIDE DEF run
    <3> QED
      BY <1>2, <3>1, <3>2
  <2>2. ~(run.base < run.base)
    BY <1>2
  <2> QED
    BY <1>6, <2>1, <2>2 DEF StreamInv, Grip, TerminalProcess
<1> QED
  BY <1>4, <1>7, <1>6, <1>8, <1>9, <1>10 DEF StreamInv

\* A coordinator is forked where there is none.
LEMMA LaunchStream ==
  ASSUME TypeOK, NEW p \in Procs, StreamInv(p), mem.proc[p].st = "WAITING", ~Started(p),
         mem' = mem, stream' = stream,
         coord'[p].ph = "await", coord'[p].base = mem.proc[p].base
  PROVE  StreamInv(p)'
<1>1. mem.proc[p].base \in Int /\ Numbers(p) \subseteq Int
  BY StreamTypes
<1>2. Numbers(p)' = Numbers(p) /\ RunBooks(p)' /\ RunRecords(p)' /\ Ascending(p)'
  BY DEF Numbers, StreamInv, RunBooks, RunRecords, Ascending
<1>3. Line(p)'
  BY <1>2 DEF StreamInv, Line
<1>4. \A n \in Numbers(p) : n <= mem.proc[p].base + Reach("await")
  <2>1. mem.proc[p].base + 1 \notin Numbers(p)
    BY DEF Started, Numbers
  <2>2. \A n \in Numbers(p) : n <= mem.proc[p].base
    BY <2>1, RunNumbers
  <2>3. Reach("await") = 1
    BY DEF Reach
  <2> QED
    BY <1>1, <2>2, <2>3
<1>5. Grip(p)'
  <2>1. ~(mem.proc[p].base < mem.proc[p].base) /\ mem.proc[p].base <= mem.proc[p].base
    BY <1>1
  <2> QED
    BY <1>2, <1>4, <2>1 DEF StreamInv, Grip, TerminalProcess
<1> QED
  BY <1>2, <1>3, <1>5 DEF StreamInv

-----------------------------------------------------------------------------
(* What happens outside the runner. *)

\* A record of the latest run, or of one that an overdue fork left behind, ends the
\* stream of q.
Wrote(q, r) ==
  /\ stream' = [stream EXCEPT ![q] = Append(@, r)]
  /\ \A n \in Numbers(q) : n < r.seq
  /\ \/ r.seq = mem.proc[q].base + 2 \/ r.seq = mem.proc[q].base + 3
     \/ r.seq <= mem.proc[q].base /\ ForkTimeouts

\* Coordinators keep the streams in order.
LEMMA WorldStream ==
  ASSUME TypeOK, \A p \in Procs : StreamInv(p), WorldStep
  PROVE  /\ \A p \in Procs : StreamInv(p)'
         /\ stream' = stream \/ \E q \in Procs, r \in StreamRec : Wrote(q, r)
<1>1. UNCHANGED mem
  BY WorldStepEffect
<1>2. CASE stream' = stream /\ \A p \in Procs : coord'[p] = coord[p] \/ coord'[p].ph = "none"
  BY <1>1, <1>2, ShrinkStream
<1>3. ASSUME NEW q \in Procs, \A p \in Procs \ {q} : coord'[p] = coord[p] /\ stream'[p] = stream[p]
      PROVE  \A p \in Procs \ {q} : StreamInv(p)'
  BY <1>1, <1>3, ShrinkStream
<1>4. \/ stream' = stream /\ \A p \in Procs : coord'[p] = coord[p] \/ coord'[p].ph = "none"
      \/ \E q \in Procs : TakeControl(q) \/ ExecCommand(q)
      \/ \E q \in Procs : \/ WriteRunning(q)
                          \/ \E st \in {"SUCCESS", "FAILED", "KILLED"} : WriteTerminal(q, st)
  BY DEF WorldStep, CoordinatorStep, GiveUpControl, CoordinatorExits, CommandExits, CoordinatorDies,
     ForkOverdue, CoolDown, Expire, vars, worldVars, NoCoord, TypeOK, WorldOK
<1>5. ASSUME NEW q \in Procs, TakeControl(q) \/ ExecCommand(q)
      PROVE  stream' = stream /\ \A p \in Procs : StreamInv(p)'
  <2>1. /\ stream' = stream /\ \A p \in Procs \ {q} : coord'[p] = coord[p]
        /\ coord'[q].base = coord[q].base /\ coord'[q].ph \in {"ctl", "exec"}
        /\ (coord[q].ph = "await" /\ ForkedWritten(q)) \/ coord[q].ph = "ctl"
    BY <1>5 DEF TakeControl, ExecCommand, TypeOK, WorldOK
  <2>2. StreamInv(q)'
    BY <1>1, <2>1, PhaseStream
  <2> QED
    BY <1>3, <2>1, <2>2
<1>6. ASSUME NEW q \in Procs, NEW k \in {2, 3}, NEW st \in {"RUNNING", "SUCCESS", "FAILED", "KILLED"},
             NEW ph \in {"run", "exit"}, Write(q, st, k), coord' = [coord EXCEPT ![q].ph = ph],
             \/ coord[q].ph = "exec" /\ ph = "run" /\ st = "RUNNING" /\ k = 2
             \/ coord[q].ph = "run" /\ ph = "exit" /\ st # "RUNNING" /\ k = 3
      PROVE  (\A p \in Procs : StreamInv(p)') /\ \E r \in StreamRec : Wrote(q, r)
  <2> DEFINE r == [st |-> st, seq |-> coord[q].base + k]
  <2>1. coord[q].base \in Int /\ coord[q] \in [ph : CoordPhases, base : Int, by : Nat]
    BY StreamTypes DEF TypeOK, WorldOK
  <2>2. r \in StreamRec /\ stream' = [stream EXCEPT ![q] = Append(@, r)]
    BY <1>6, <2>1 DEF Write, StreamRec, ProcessStates
  <2>3. /\ \A p \in Procs \ {q} : coord'[p] = coord[p] /\ stream'[p] = stream[p]
        /\ coord'[q].base = coord[q].base /\ coord'[q].ph = ph
    BY <1>6, <2>2 DEF TypeOK, WorldOK, StreamsOK
  <2>4. r.st = st /\ r.seq = coord[q].base + k
    OBVIOUS
  <2>5. k = 2 \/ k = 3
    BY <1>6
  <2> HIDE DEF r
  <2>6. /\ StreamInv(q)' /\ \A n \in Numbers(q) : n < r.seq
        /\ Own(q) \/ r.seq <= mem.proc[q].base
        /\ ~ForkTimeouts => Own(q)
    BY <1>1, <1>6, <2>2, <2>3, <2>4, <2>5, WriteStream
  <2>7. Own(q) => r.seq = mem.proc[q].base + 2 \/ r.seq = mem.proc[q].base + 3
    BY <2>4, <2>5 DEF Own
  <2>8. Wrote(q, r)
    BY <2>2, <2>6, <2>7 DEF Wrote
  <2> QED
    BY <1>3, <2>2, <2>3, <2>6, <2>8
<1>7. ASSUME NEW q \in Procs, WriteRunning(q)
      PROVE  (\A p \in Procs : StreamInv(p)') /\ \E r \in StreamRec : Wrote(q, r)
  BY <1>6, <1>7 DEF WriteRunning
<1>8. ASSUME NEW q \in Procs, NEW st \in {"SUCCESS", "FAILED", "KILLED"}, WriteTerminal(q, st)
      PROVE  (\A p \in Procs : StreamInv(p)') /\ \E r \in StreamRec : Wrote(q, r)
  BY <1>6, <1>8 DEF WriteTerminal
<1> QED
  BY <1>2, <1>4, <1>5, <1>7, <1>8

-----------------------------------------------------------------------------
(* The runner. *)

\* A runner that is down remembers nothing; one whose task is over only kills.
Parked ==
  /\ ~Up => mem = disk /\ \A p \in Procs : pos[p] = Unbound
  /\ ~ForkTimeouts => late = {}
  /\ forced # "none" => kills > 0
  /\ Up /\ mem.task \in TerminalTask => pc \in {"task", "kill"}

\* Where the loop stands: what was true when it got there still is.
Where ==
  /\ ~Active => pc \in {"down", "task", "resume", "collect", "stage", "poll"}
  /\ Active => pc # "kill" /\ (pc = "task" => ret = "resume")
  /\ pc = "resume" => ret = "resume"
  /\ Up /\ pc \notin {"task", "resume"} => ret = "stage"
  /\ pc \in {"task", "resume"} /\ ret = "resume" /\ forced = "none" =>
        \A p \in Procs : pos[p] = Unbound
  /\ pend # NoRec => pend.st = mem.proc[pend.p].st /\ (pend.st = "WAITING" => pc = "launch")
  /\ pc = "hasdata" => mem.proc[at].st = "RUNNING" /\ ~Own(at)
  /\ pc = "fork" => /\ at \in work /\ mem.proc[at].st = "WAITING"
                    /\ coord[at].ph # "none" => coord[at].base = mem.proc[at].base

\* Process objects are those of the open runs; a handler that is due will see to it.
Tracked(p) ==
  /\ disk.ok => (p \in disk.tp <=> disk.proc[p].st \in Open)
  /\ Up /\ forced = "none" =>
       (p \in mem.tp <=> IF pend # NoRec /\ pend.p = p THEN pend.st # "WAITING"
                          ELSE mem.proc[p].st \in Open)

\* A FORKED record that is written is dispatched before the plan is asked again.
Fresh(p) ==
  Active /\ Started(p) =>
    /\ pc \in {"task", "resume", "launch", "fork", "poll", "collect"}
    /\ pc \in {"launch", "fork"} => p \notin work
    /\ pc = "collect" => \A i \in Marks(p) : i <= pos[p]

\* The records of p that are read and, in a batch, dispatched.
Read(p) == IF pc = "collect" THEN nxt[p] ELSE ReadPos(p)

\* What is read is what the runner's log holds.
Reading(p) ==
  Up /\ forced = "none" /\ mem.proc[p].st \in Open /\ p \in mem.tp =>
    /\ \A i \in 1..Len(stream[p]) : i <= Read(p) => stream[p][i].seq <= mem.proc[p].seq
    /\ ret = "stage" /\ ~ForkTimeouts =>
         \A i \in 1..Len(stream[p]) : i > Read(p) => stream[p][i].seq > mem.proc[p].seq
    /\ pc = "collect" => nxt[p] <= pos[p]
    /\ ret = "stage" /\ pos[p] = Unbound => mem.proc[p].st = "WAITING"

LoopInv ==
  Where /\ \A p \in Procs : StreamInv(p) /\ Tracked(p) /\ Fresh(p) /\ Reading(p)

TrailInv == Parked /\ (Early => LoopInv)

-----------------------------------------------------------------------------
(* Steps by what they write. *)

\* Control moves, nothing is recorded.
Turn ==
  /\ Up' /\ pend' = NoRec /\ (pend = NoRec \/ forced' # "none")
  /\ mem'.proc = mem.proc /\ mem'.tp = mem.tp
  /\ disk'.proc = disk.proc /\ disk'.tp = disk.tp /\ disk'.ok = disk.ok
  /\ stream' = stream /\ \A p \in Procs : coord'[p] = coord[p] \/ coord'[p].ph = "none"

\* A record is checkpointed, its handler is due.
Told(p, r) ==
  /\ Up' /\ pend = NoRec /\ Checkpoint(r) /\ UNCHANGED <<stream, coord, forced, ret, pos>>
  /\ work' \subseteq work /\ (pc' = pc \/ (pc = "hasdata" /\ pc' = "scan"))
  /\ DispatchUpdate(p) \/ (nxt' = nxt /\ r.st \notin {"FORKED", "RUNNING"})
  /\ \/ Fits(p, r)
     \/ r = Rec(p, "WAITING") /\ LaunchWaiting(p) /\ mem.proc[p].st \in SourceStates("WAITING")

Ended == GoDown /\ disk' = disk /\ UNCHANGED <<stream, coord>>

\* The muxer has read the stream of p to its end.
LEMMA NothingUnread ==
  ASSUME TypeOK, NEW p \in Procs, Reading(p), Active, pc # "collect", p \in mem.tp,
         mem.proc[p].st \in Open, ~HasData(p)
  PROVE  \A n \in Numbers(p) : n <= mem.proc[p].seq
<1>1. ReadPos(p) = Len(stream[p]) /\ Len(stream[p]) \in Nat
  BY ReadPosType, StreamTypes DEF HasData
<1> QED
  BY <1>1 DEF Reading, Active, Read, Numbers

\* An overdue fork is LOST.
LEMMA LateFits ==
  ASSUME TypeOK, Parked, NEW p \in Procs, StreamInv(p), mem.proc[p].st = "FORKED", p \in late
  PROVE  Rec(p, "LOST") \in ProcessRec /\ Fits(p, Rec(p, "LOST"))
<1>1. Rec(p, "LOST") \in ProcessRec /\ LegalRec(Rec(p, "LOST"))
  BY OwnRecLegal DEF StreamInv
<1>2. ForkTimeouts /\ ~mem.proc[p].pid
  BY DEF Parked, StreamInv, Line
<1> QED
  BY <1>1, <1>2 DEF Fits, Rec

\* A process whose coordinator is gone is LOST when its stream has nothing more.
LEMMA SilentFits ==
  ASSUME TypeOK, LoopInv, Up, NEW p \in Procs, p = at, Ready("hasdata"), ~HasData(p)
  PROVE  Rec(p, "LOST") \in ProcessRec /\ Fits(p, Rec(p, "LOST"))
<1>1. mem.proc[p].st = "RUNNING" /\ ~Own(p) /\ Active
  BY DEF LoopInv, Where, Ready
<1>2. Rec(p, "LOST") \in ProcessRec /\ LegalRec(Rec(p, "LOST"))
  BY <1>1, OwnRecLegal DEF LoopInv, StreamInv
<1>3. p \in mem.tp
  BY <1>1 DEF LoopInv, Tracked, Active, Ready, Open
<1>4. \A n \in Numbers(p) : n <= mem.proc[p].seq
  BY <1>1, <1>3, NothingUnread DEF LoopInv, Ready, Open
<1>5. mem.proc[p].seq = mem.proc[p].base + 2
  BY <1>1 DEF LoopInv, StreamInv, RunBooks
<1>6. mem.proc[p].seq + 1 = mem.proc[p].base + 3
  BY <1>5, StreamTypes
<1> QED
  BY <1>1, <1>2, <1>4, <1>6 DEF Fits, Rec

\* A run that does not start is FAILED.
LEMMA FailedFits ==
  ASSUME TypeOK, LoopInv, Up, NEW p \in Procs, Ready("launch"), p \in work,
         mem.proc[p].st = "WAITING"
  PROVE  Rec(p, "FAILED") \in ProcessRec /\ Fits(p, Rec(p, "FAILED"))
<1>1. Rec(p, "FAILED") \in ProcessRec /\ LegalRec(Rec(p, "FAILED"))
  BY OwnRecLegal DEF LoopInv, StreamInv
<1>2. Active /\ ~mem.proc[p].cpid
  BY DEF LoopInv, Where, Ready, StreamInv, RunBooks
<1>3. ~Started(p)
  BY <1>2 DEF LoopInv, Fresh, Ready
<1> QED
  BY <1>1, <1>2, <1>3 DEF Fits, Rec

\* A record of the stream is dispatched.
LEMMA DispatchFits ==
  ASSUME TypeOK, NEW p \in Procs, StreamInv(p), Batched(p), NEW r,
         r = [p |-> p, st |-> stream[p][nxt[p] + 1].st, seq |-> stream[p][nxt[p] + 1].seq],
         Dispatchable(mem, r)
  PROVE  r \in ProcessRec /\ Fits(p, r) /\ r.st # "WAITING"
<1>1. nxt[p] + 1 \in 1..Len(stream[p]) /\ r \in ProcessRec
  BY DispatchedType
<1>2. LegalRec(r) /\ (r.st = "FAILED" => mem.proc[p].cpid) /\ r.st # "LOST"
  BY <1>1, StreamRecLegal DEF StreamInv
<1>3. r.seq \in Numbers(p)
  BY <1>1 DEF Numbers
<1>4. ASSUME r.st \in TerminalProcess
      PROVE  r.seq = mem.proc[p].base + 3
  <2>1. mem.proc[p].seq \in Int /\ mem.proc[p].base \in Int /\ mem.proc[p].seq >= mem.proc[p].base
    BY StreamTypes DEF StreamInv, RunBooks
  <2>2. r.seq = mem.proc[p].seq + 1
    BY <1>2 DEF LegalRec
  <2>3. r.seq > mem.proc[p].base
    BY <2>1, <2>2
  <2> QED
    BY <1>1, <1>4, <2>3 DEF StreamInv, RunRecords, TerminalProcess
<1>5. ASSUME Own(p), r.seq = mem.proc[p].base + 3
      PROVE  coord[p].ph = "exit"
  <2>1. mem.proc[p].base + 3 <= mem.proc[p].base + Reach(coord[p].ph)
    BY <1>3, <1>5 DEF StreamInv, Grip, Own
  <2>2. mem.proc[p].base \in Int
    BY StreamTypes
  <2>3. Reach(coord[p].ph) = 3 \/ Reach(coord[p].ph) \in {1, 2}
    BY DEF Reach
  <2>4. Reach(coord[p].ph) = 3
    BY <2>1, <2>2, <2>3
  <2> QED
    BY <2>4 DEF Reach
<1> QED
  BY <1>1, <1>2, <1>3, <1>4, <1>5 DEF Fits, LegalRec

\* The plan and the status of the task are not the books of the processes.
LEMMA TaskWritten ==
  ASSUME TypeOK, NEW task \in TaskStates, SetTaskStatus(task)
  PROVE  /\ mem'.proc = mem.proc /\ mem'.tp = mem.tp /\ pc' = "task" /\ mem'.task = task
         /\ disk'.proc = disk.proc /\ disk'.tp = disk.tp /\ disk'.ok = disk.ok
BY DEF TypeOK, RunnerState, SetTaskStatus, ReplayTask

\* What a runner can do before FINALIZING.
LEMMA RunnerKinds ==
  ASSUME TypeOK, LogInv, TrailInv, Early, Early', Up, [Next]_vars, ~WorldStep
  PROVE  \/ Handler \/ Ended \/ Turn \/ FinalizeFork
         \/ \E p \in Procs, r \in ProcessRec : Told(p, r)
         \/ \E p \in Procs : LaunchFork(p) /\ ~GoDown
<1>1. LoopInv /\ Parked /\ mem.task \in TaskStates \ (TerminalTask \union {"FINALIZING"})
  BY DEF TrailInv, Early, TerminalTask, TaskStates
<1>2. pc # "kill" /\ Where
  BY <1>1 DEF LoopInv, Where
<1>3. ~OnKilling /\ ~EnterFinalizing /\ ~FinalizeTask /\ \A p \in Procs : ~KillOne(p)
  BY <1>1, <1>2 DEF OnKilling, EnterFinalizing, FinalizeTask, KillOne, Ready
<1>4. ASSUME NEW status \in {"KILLED", "LOST"}, KillSignal(status)
      PROVE  Ended \/ Turn
  BY <1>1, <1>4, TaskWritten DEF KillSignal, Turn, Ended, worldVars, Up
<1>5. CASE OnActive \/ OnCleaning
  <2>1. ret # "down"
    BY DEF TypeOK, ControlOK
  <2>2. \A p \in Procs : coord'[p] = coord[p] \/ coord'[p].ph = "none"
    BY <1>5 DEF OnActive, OnCleaning, TerminateOrphans, NoCoord, worldVars
  <2>3. mem'.proc = mem.proc /\ mem'.tp = mem.tp /\ disk' = disk
    BY <1>5 DEF OnActive, OnCleaning, TypeOK, RunnerState
  <2> QED
    BY <1>5, <2>1, <2>2, <2>3 DEF OnActive, OnCleaning, Turn, Ready, worldVars, Up
<1>6. CASE Resume \/ StagePlan \/ PickRunnable \/ PollSome \/ PollNone \/ EndCollect
  BY <1>6 DEF Resume, StagePlan, PickRunnable, PollSome, PollNone, EndCollect, Turn, Ready, Up,
     worldVars
<1>7. CASE StageKilled \/ StageCleaning \/ EndPlan
  <2>1. \/ UNCHANGED <<disk, mem>> /\ pc' = "poll"
        \/ \E task \in TaskStates : SetTaskStatus(task)
    BY <1>7, TerminalStateType DEF StageKilled, StageCleaning, EndPlan, TaskStates, TerminalTask
  <2>2. /\ mem'.proc = mem.proc /\ mem'.tp = mem.tp /\ Up'
        /\ disk'.proc = disk.proc /\ disk'.tp = disk.tp /\ disk'.ok = disk.ok
    BY <2>1, TaskWritten DEF Up
  <2> QED
    BY <1>7, <2>2 DEF StageKilled, StageCleaning, EndPlan, Turn, Ready, worldVars
<1>8. ASSUME NEW p \in Procs, ScanOne(p)
      PROVE  Turn \/ \E r \in ProcessRec : Told(p, r)
  <2>1. CASE mem.proc[p].st = "FORKED" /\ p \in late
    <3>1. SetProcessStatus(p, "LOST") /\ pc' = pc /\ Up'
      BY <1>8, <2>1 DEF ScanOne, Up
    <3>2. Rec(p, "LOST") \in ProcessRec /\ Fits(p, Rec(p, "LOST"))
      BY <1>1, <2>1, LateFits DEF LoopInv
    <3>3. Told(p, Rec(p, "LOST"))
      BY <1>8, <3>1, <3>2 DEF Told, Rec, ScanOne, Ready, SetProcessStatus, worldVars
    <3> QED
      BY <3>2, <3>3
  <2>2. CASE ~(mem.proc[p].st = "FORKED" /\ p \in late)
    BY <1>8, <2>2 DEF ScanOne, Turn, Ready, Up, worldVars
  <2> QED
    BY <2>1, <2>2
<1>9. CASE ScanData
  <2>1. PICK p \in Procs : p = at
    BY <1>9 DEF ScanData, Ready, TypeOK, ControlOK
  <2>2. CASE HasData(at)
    BY <1>9, <2>2 DEF ScanData, Turn, Ready, Up, worldVars
  <2>3. CASE ~HasData(at)
    <3>1. SetProcessStatus(p, "LOST") /\ pc' = "scan" /\ Up' /\ Ready("hasdata")
      BY <1>9, <2>1, <2>3 DEF ScanData, Up
    <3>2. Rec(p, "LOST") \in ProcessRec /\ Fits(p, Rec(p, "LOST"))
      BY <1>1, <2>1, <2>3, <3>1, SilentFits
    <3>3. Told(p, Rec(p, "LOST"))
      BY <1>9, <3>1, <3>2 DEF Told, Rec, ScanData, Ready, SetProcessStatus, worldVars
    <3> QED
      BY <3>2, <3>3
  <2> QED
    BY <2>2, <2>3
<1>10. ASSUME NEW p \in Procs, LaunchWaiting(p)
       PROVE  Ended \/ \E r \in ProcessRec : Told(p, r)
  <2>1. CASE mem.proc[p].st \notin SourceStates("WAITING")
    BY <1>10, <2>1 DEF LaunchWaiting, Ended, worldVars
  <2>2. CASE mem.proc[p].st \in SourceStates("WAITING")
    <3>1. Rec(p, "WAITING") \in ProcessRec
      BY DEF TypeOK, RunnerState, Rec, ProcessRec, ProcessRun, ProcessStates
    <3>2. /\ Up' /\ pend = NoRec /\ SetProcessStatus(p, "WAITING")
          /\ UNCHANGED <<stream, coord, forced, ret, pos, nxt, work, pc>>
      BY <1>10, <2>2 DEF LaunchWaiting, Ready, worldVars, Up
    <3>3. Told(p, Rec(p, "WAITING"))
      BY <1>10, <2>2, <3>2 DEF Told, Rec, SetProcessStatus
    <3> QED
      BY <3>1, <3>3
  <2> QED
    BY <2>1, <2>2
<1>11. ASSUME NEW p \in Procs, LaunchFails(p)
       PROVE  \E r \in ProcessRec : Told(p, r)
  <2>1. Rec(p, "FAILED") \in ProcessRec /\ Fits(p, Rec(p, "FAILED"))
    BY <1>1, <1>11, FailedFits DEF LaunchFails
  <2>2. /\ Up' /\ pend = NoRec /\ SetProcessStatus(p, "FAILED") /\ work' \subseteq work
        /\ UNCHANGED <<stream, coord, forced, ret, pos, nxt, pc>>
    BY <1>11 DEF LaunchFails, Ready, worldVars, Up
  <2>3. Told(p, Rec(p, "FAILED"))
    BY <2>1, <2>2 DEF Told, Rec, SetProcessStatus
  <2> QED
    BY <2>1, <2>3
<1>12. ASSUME NEW p \in Procs, DispatchUpdate(p)
       PROVE  Ended \/ \E r \in ProcessRec : Told(p, r)
  <2> DEFINE r == [p |-> p, st |-> stream[p][nxt[p] + 1].st, seq |-> stream[p][nxt[p] + 1].seq]
  <2>1. CASE ~Dispatchable(mem, r)
    BY <1>12, <2>1 DEF DispatchUpdate, Ended, worldVars
  <2>2. CASE Dispatchable(mem, r)
    <3>1. r \in ProcessRec /\ Fits(p, r)
      BY <1>1, <1>12, <2>2, DispatchFits DEF LoopInv, DispatchUpdate
    <3>2. /\ Up' /\ pend = NoRec /\ Checkpoint(r)
          /\ UNCHANGED <<stream, coord, forced, ret, pos, work, pc>>
      BY <1>12, <2>2 DEF DispatchUpdate, Ready, worldVars, Up
    <3>3. Told(p, r)
      BY <1>12, <3>1, <3>2 DEF Told
    <3> QED
      BY <3>1, <3>3
  <2> QED
    BY <2>1, <2>2
<1>13. ASSUME NEW p \in Procs, LaunchFork(p), GoDown
       PROVE  Ended
  <2>1. pc' = "down"
    BY <1>13 DEF GoDown
  <2> QED
    BY <1>13, <2>1 DEF LaunchFork, Ended, Ready
<1>14. CASE Crash
  BY <1>14 DEF Crash, Ended, worldVars
<1>15. ~Start
  BY DEF Start, Up
<1> QED
  BY <1>3, <1>4, <1>5, <1>6, <1>7, <1>8, <1>9, <1>10, <1>11, <1>12, <1>13, <1>14, <1>15
     DEF Next, RunnerStep, WorldStep

\* What a handler does to the books and to the coordinators.
LEMMA Handled ==
  ASSUME TypeOK, LogInv, Up, Handler
  PROVE  /\ mem'.proc = mem.proc /\ disk' = disk /\ stream' = stream
         /\ \A p \in Procs : coord'[p] = coord[p] \/ coord'[p].ph = "none"
         /\ GoDown \/ /\ HandleProcess(mem, pend).ok /\ mem' = HandleProcess(mem, pend)
                      /\ pend' = NoRec /\ Up' /\ UNCHANGED <<pc, work, at, ret, nxt, forced>>
                      /\ pos' = IF pend.st = "WAITING" THEN [pos EXCEPT ![pend.p] = Unbound] ELSE pos
<1>1. PICK r \in ProcessRec : r = pend /\ r # NoRec
  BY DEF TypeOK, ControlOK, Handler
<1>2. r.p \in Procs
  BY DEF ProcessRec
<1>3. disk' = disk /\ stream' = stream
  BY DEF Handler
<1>4. \A p \in Procs : coord'[p] = coord[p] \/ coord'[p].ph = "none"
  BY <1>1, <1>2, KillProcessEffect DEF Handler, NoCoord
<1>5. \/ GoDown
      \/ /\ HandleProcess(mem, r).ok /\ mem' = HandleProcess(mem, r)
         /\ pend' = NoRec /\ UNCHANGED <<pc, work, at, ret, nxt, forced>>
         /\ pos' = IF r.st = "WAITING" THEN [pos EXCEPT ![r.p] = Unbound] ELSE pos
  BY <1>1 DEF Handler
<1>6. mem'.proc = mem.proc
  <2>1. CASE GoDown
    BY <1>3, <2>1, DownProc
  <2>2. CASE mem' = HandleProcess(mem, r)
    BY <2>2, HandleKeeps DEF TypeOK
  <2> QED
    BY <1>5, <2>1, <2>2
<1> QED
  BY <1>1, <1>3, <1>4, <1>5, <1>6 DEF Up

\* Every step before FINALIZING keeps the streams.
LEMMA NextStream ==
  ASSUME TypeOK, LogInv, TrailInv, Early, Early', [Next]_vars, ~Start, NEW p \in Procs
  PROVE  StreamInv(p)'
<1>1. LoopInv /\ StreamInv(p)
  BY DEF TrailInv, LoopInv
<1>2. CASE WorldStep
  BY <1>1, <1>2, WorldStream DEF LoopInv
<1> SUFFICES ASSUME Up, ~WorldStep PROVE StreamInv(p)'
  BY <1>2, DownStep
<1>3. ASSUME mem'.proc = mem.proc, stream' = stream,
             \A q \in Procs : coord'[q] = coord[q] \/ coord'[q].ph = "none"
      PROVE  StreamInv(p)'
  BY <1>1, <1>3, ShrinkStream
<1>4. CASE Handler
  BY <1>3, <1>4, Handled
<1>5. CASE Ended
  BY <1>3, <1>5, DownProc DEF Ended
<1>6. CASE Turn
  BY <1>3, <1>6 DEF Turn
<1>7. ASSUME NEW q \in Procs, NEW r \in ProcessRec, Told(q, r)
      PROVE  StreamInv(p)'
  <2>1. Checkpoint(r) /\ UNCHANGED <<stream, coord>> /\ q = r.p
    BY <1>7 DEF Told, Fits, Rec
  <2>2. CASE p # q
    <3>1. mem'.proc[p] = mem.proc[p]
      BY <2>1, <2>2, CheckpointEffect
    <3> QED
      BY <1>1, <2>1, <3>1, ShrinkStream
  <2>3. CASE p = q /\ Fits(p, r)
    BY <1>1, <2>1, <2>3, RecordStream
  <2>4. CASE p = q /\ r = Rec(q, "WAITING") /\ mem.proc[q].st \in SourceStates("WAITING")
    BY <1>1, <2>1, <2>4, WaitingStream DEF SetProcessStatus
  <2> QED
    BY <1>7, <2>2, <2>3, <2>4 DEF Told
<1>8. ASSUME NEW q \in Procs, LaunchFork(q), ~GoDown
      PROVE  StreamInv(p)'
  <2>1. /\ mem.proc[q].st = "WAITING" /\ mem' = mem /\ stream' = stream /\ q \in work
        /\ Ready("launch")
        /\ coord' = [coord EXCEPT ![q] = [ph |-> "await", base |-> mem.proc[q].base, by |-> starts]]
    BY <1>8 DEF LaunchFork
  <2>2. /\ coord'[q].ph = "await" /\ coord'[q].base = mem.proc[q].base
        /\ \A x \in Procs \ {q} : coord'[x] = coord[x]
    BY <2>1 DEF TypeOK, WorldOK
  <2>3. ~Started(q)
    BY <1>1, <2>1 DEF LoopInv, Where, Fresh, Ready
  <2>4. CASE p # q
    BY <1>1, <2>1, <2>2, <2>4, ShrinkStream
  <2>5. CASE p = q
    BY <1>1, <2>1, <2>2, <2>3, <2>5, LaunchStream
  <2> QED
    BY <2>4, <2>5
<1>9. CASE FinalizeFork
  <2>1. PICK q \in Procs : q = at
    BY <1>9 DEF FinalizeFork, Ready, TypeOK, ControlOK
  <2>2. /\ mem' = mem /\ coord' = coord /\ mem.proc[q].st = "WAITING" /\ ~Started(q)
        /\ coord[q].ph # "none" => coord[q].base = mem.proc[q].base
    BY <1>1, <1>9, <2>1 DEF LoopInv, Where, Fresh, FinalizeFork, Ready
  <2>3. PICK r \in StreamRec : /\ stream' = [stream EXCEPT ![q] = Append(@, r)]
                               /\ r.st = "FORKED" /\ r.seq = mem.proc[q].base + 1
    <3>1. [st |-> "FORKED", seq |-> mem.proc[q].base + 1] \in StreamRec
      BY StreamTypes DEF StreamRec, ProcessStates
    <3> QED
      BY <1>9, <2>1, <3>1 DEF FinalizeFork
  <2>4. StreamInv(q)
    BY <1>1 DEF LoopInv
  <2>5. CASE p # q
    <3>1. stream'[p] = stream[p]
      BY <2>3, <2>5, Appended
    <3> QED
      BY <1>1, <2>2, <3>1, ShrinkStream
  <2>6. CASE p = q
    <3>1. StreamInv(q)'
      BY <2>2, <2>3, <2>4, ForkedStream
    <3> QED
      BY <2>6, <3>1
  <2> QED
    BY <2>5, <2>6
<1> QED
  BY <1>4, <1>5, <1>6, <1>7, <1>8, <1>9, RunnerKinds

\* Every step before FINALIZING keeps the Process objects.
LEMMA NextTracked ==
  ASSUME TypeOK, LogInv, TrailInv, Early, Early', [Next]_vars, ~Start, NEW p \in Procs
  PROVE  Tracked(p)'
<1>1. LoopInv /\ Tracked(p) /\ mem \in RunnerState /\ disk \in RunnerState
  BY DEF TrailInv, LoopInv, TypeOK
<1>2. CASE WorldStep
  BY <1>1, <1>2, WorldStepEffect DEF Tracked, Up
<1> SUFFICES ASSUME Up, ~WorldStep PROVE Tracked(p)'
  BY <1>2, DownStep
<1>3. ASSUME disk'.proc = disk.proc, disk'.tp = disk.tp, disk'.ok = disk.ok,
             ~Up' \/ /\ mem'.proc = mem.proc /\ mem'.tp = mem.tp /\ pend' = NoRec
                     /\ pend = NoRec \/ forced' # "none"
      PROVE  Tracked(p)'
  BY <1>1, <1>3, ForcedBefore DEF Tracked
<1>4. CASE Ended
  BY <1>3, <1>4 DEF Ended, GoDown, Up
<1>5. CASE Turn
  BY <1>3, <1>5 DEF Turn
<1>6. ASSUME NEW q \in Procs, LaunchFork(q), ~GoDown
      PROVE  Tracked(p)'
  BY <1>3, <1>6 DEF LaunchFork, Ready
<1>7. CASE FinalizeFork
  BY <1>3, <1>7 DEF FinalizeFork, Ready
<1>8. CASE Handler
  <2>1. CASE GoDown
    BY <1>3, <1>8, <2>1, Handled DEF GoDown, Up
  <2>2. CASE ~GoDown
    <3>1. PICK r \in ProcessRec : r = pend /\ r # NoRec
      BY <1>8 DEF TypeOK, ControlOK, Handler
    <3>2. /\ disk' = disk /\ mem'.proc = mem.proc /\ pend' = NoRec /\ forced' = forced
          /\ HandleProcess(mem, r).ok /\ mem' = HandleProcess(mem, r)
      BY <1>8, <2>2, <3>1, Handled
    <3>3. r.st = mem.proc[r.p].st /\ r.p \in Procs /\ r.st \in ProcessStates
      BY <1>1, <3>1 DEF LoopInv, Where, ProcessRec
    <3>4. /\ r.st = "WAITING" => mem'.tp = mem.tp \union {r.p}
          /\ r.st \in {"FORKED", "RUNNING"} => mem'.tp = mem.tp
          /\ r.st \in TerminalProcess => mem'.tp = mem.tp \ {r.p}
      BY <1>1, <3>2, HandleEffect
    <3>5. ASSUME forced = "none"
          PROVE  p \in mem'.tp <=> mem.proc[p].st \in Open
      <4>1. CASE p # r.p
        BY <1>1, <3>1, <3>3, <3>4, <3>5, <4>1 DEF Tracked, ProcessStates, TerminalProcess
      <4>2. CASE p = r.p
        BY <1>1, <3>1, <3>3, <3>4, <3>5, <4>2 DEF Tracked, ProcessStates, TerminalProcess, Open
      <4> QED
        BY <4>1, <4>2
    <3> QED
      BY <1>1, <3>2, <3>5 DEF Tracked
  <2> QED
    BY <2>1, <2>2
<1>9. ASSUME NEW q \in Procs, NEW r \in ProcessRec, Told(q, r)
      PROVE  Tracked(p)'
  <2>1. Checkpoint(r) /\ q = r.p /\ pend = NoRec /\ pend' = r /\ r # NoRec /\ forced' = forced
    BY <1>9 DEF Told, Fits, Rec, Checkpoint, ProcessRec, NoRec, ProcessStates
  <2>2. /\ mem'.tp = mem.tp /\ mem'.proc[q].st = r.st
        /\ \A x \in Procs \ {q} : mem'.proc[x] = mem.proc[x]
    BY <2>1, CheckpointEffect
  <2>3. mem.proc[q].st \in SourceStates(r.st) /\ (r.st = "WAITING" => q \notin mem.tp)
    BY <1>9 DEF Told, Fits, LegalRec, LaunchWaiting, Rec
  <2>4. mem.proc[q].st \in Open <=> r.st # "WAITING"
    BY <2>3 DEF SourceStates, Open, TerminalProcess
  <2>5. ASSUME forced = "none"
        PROVE  p \in mem'.tp <=> IF r.p = p THEN r.st # "WAITING" ELSE mem'.proc[p].st \in Open
    BY <1>1, <2>1, <2>2, <2>3, <2>4, <2>5 DEF Tracked
  <2>6. ASSUME disk'.ok
        PROVE  p \in disk'.tp <=> disk'.proc[p].st \in Open
    <3> DEFINE u == UpdateProcess(disk, r)
    <3>1. u \in RunnerState /\ u.ok = disk.ok /\ u.tp = disk.tp
      BY <1>1, UpdateProcessType, UpdateKeeps DEF SameBooks
    <3>2. /\ u.proc[q].st = r.st
          /\ \A x \in Procs \ {q} : u.proc[x] = disk.proc[x]
      BY <1>1, <2>1 DEF UpdateProcess, RunnerState
    <3>3. disk' = ReplayProcess(disk, r)
      BY <2>1 DEF Checkpoint
    <3> HIDE DEF u
    <3>4. disk.ok /\ disk' = HandleProcess(u, r)
      BY <2>6, <3>1, <3>3 DEF u, ReplayProcess
    <3>5. disk'.proc = u.proc
      BY <3>1, <3>4, HandleKeeps
    <3>6. /\ r.st = "WAITING" => disk'.tp = disk.tp \union {q}
          /\ r.st \in {"FORKED", "RUNNING"} => disk'.tp = disk.tp
          /\ r.st \in TerminalProcess => disk'.tp = disk.tp \ {q}
      BY <2>1, <2>6, <3>1, <3>4, HandleEffect
    <3>7. disk.proc = mem.proc /\ r.st \in ProcessStates
      BY DEF LogInv, ProcessRec
    <3>8. CASE p # q
      BY <1>1, <3>2, <3>4, <3>5, <3>6, <3>7, <3>8 DEF Tracked, ProcessStates, TerminalProcess
    <3>9. CASE p = q
      BY <1>1, <2>4, <3>2, <3>4, <3>5, <3>6, <3>7, <3>9
         DEF Tracked, ProcessStates, TerminalProcess, Open
    <3> QED
      BY <3>8, <3>9
  <2> QED
    BY <2>1, <2>5, <2>6 DEF Tracked
<1> QED
  BY <1>4, <1>5, <1>6, <1>7, <1>8, <1>9, RunnerKinds

-----------------------------------------------------------------------------
(* Where the loop stands. *)

\* FINALIZING is not left for a state before it.
LEMMA EarlyBefore ==
  ASSUME TypeOK, LogInv, [Next]_vars, ~Start, Early'
  PROVE  Early
<1>1. CASE WorldStep
  BY <1>1, WorldStepEffect DEF Early
<1> SUFFICES ASSUME Up, ~WorldStep PROVE mem.task \in {"ACTIVE", "CLEANING"}
  BY <1>1, DownStep DEF Early
<1>2. disk.task = mem.task /\ mem \in RunnerState
  BY DEF LogInv, TypeOK
<1>3. ASSUME GoDown, disk' = disk
      PROVE  mem.task \in {"ACTIVE", "CLEANING"}
  BY <1>2, <1>3 DEF GoDown, Early
<1>4. \A task : SetTaskStatus(task) => mem'.task = task
  BY <1>2 DEF SetTaskStatus, RunnerState
<1>5. CASE Handler
  <2>1. PICK r \in ProcessRec : r = pend
    BY <1>5 DEF Handler, TypeOK, ControlOK
  <2>2. CASE mem' = HandleProcess(mem, r)
    BY <1>2, <2>2, HandleKeeps DEF Early
  <2> QED
    BY <1>3, <1>5, <2>1, <2>2 DEF Handler
<1>6. CASE FinalizeTask \/ EndStep
  BY <1>3, <1>6 DEF FinalizeTask, EndStep
<1>7. CASE OnActive \/ EnterFinalizing
  BY <1>2, <1>7 DEF OnActive, EnterFinalizing, RunnerState, Early
<1>8. CASE StageKilled \/ StageCleaning \/ EndPlan
  BY <1>4, <1>8, TerminalStateType DEF StageKilled, StageCleaning, EndPlan, TerminalTask, Early
<1>9. ASSUME NEW status \in {"KILLED", "LOST"}, KillSignal(status)
      PROVE  mem.task \in {"ACTIVE", "CLEANING"}
  BY <1>3, <1>4, <1>9 DEF KillSignal, Early
<1>10. CASE LoopStep
  BY <1>10, CheckpointEffect DEF LoopStep, Early
<1> QED
  BY <1>5, <1>6, <1>7, <1>8, <1>9, <1>10, StepKinds

\* A record that the runner writes on its own account.
LEMMA StatusWritten ==
  ASSUME TypeOK, NEW p \in Procs, NEW st \in ProcessStates, SetProcessStatus(p, st)
  PROVE  /\ mem'.task = mem.task /\ mem'.tp = mem.tp /\ mem'.proc[p].st = st
         /\ \A q \in Procs \ {p} : mem'.proc[q] = mem.proc[q]
         /\ pend'.p = p /\ pend'.st = st /\ pend' # NoRec
<1>1. Rec(p, st) \in ProcessRec
  BY DEF TypeOK, RunnerState, Rec, ProcessRec, ProcessRun
<1> QED
  BY <1>1, CheckpointEffect DEF SetProcessStatus, Rec, NoRec, ProcessStates

\* Outside the runner coordinators keep their run.
LEMMA WorldCoord ==
  ASSUME TypeOK, WorldStep, NEW p \in Procs
  PROVE  coord'[p].ph = "none" \/ (coord'[p].base = coord[p].base /\ coord[p].ph # "none")
<1>1. coord[p] \in [ph : CoordPhases, base : Int, by : Nat]
  BY DEF TypeOK, WorldOK
<1> QED
  BY <1>1 DEF WorldStep, CoordinatorStep, GiveUpControl, CoordinatorExits, CommandExits,
     CoordinatorDies, ForkOverdue, CoolDown, Expire, TakeControl, ExecCommand, WriteRunning,
     WriteTerminal, vars, worldVars, NoCoord, TypeOK, WorldOK

\* What the steps that move control leave alone.
LEMMA NextWhere ==
  ASSUME TypeOK, LogInv, TrailInv, Early, Early', [Next]_vars, ~Start
  PROVE  Where'
<1>1. /\ LoopInv /\ Where /\ Parked /\ mem.task \in TaskStates \ (TerminalTask \union {"FINALIZING"})
      /\ mem'.task \notin TerminalTask \union {"FINALIZING"}
      /\ pc \in RunnerPCs /\ ret \in {"resume", "stage"} /\ mem \in RunnerState
      /\ pc \in {"hasdata", "fork"} => at \in Procs
  BY DEF TrailInv, LoopInv, Early, TerminalTask, TaskStates, TypeOK, ControlOK
<1>2. CASE WorldStep
  BY <1>1, <1>2, WorldStepEffect, WorldCoord DEF Where, Active, Up, Own
<1> SUFFICES ASSUME Up, ~WorldStep PROVE Where'
  BY <1>2, DownStep
<1>3. CASE GoDown
  BY <1>3 DEF GoDown, Where, Active, Up, NoRec
<1> SUFFICES ASSUME ~GoDown PROVE Where'
  BY <1>3
<1>4. CASE Handler
  <2>1. PICK r \in ProcessRec : r = pend
    BY <1>4 DEF Handler, TypeOK, ControlOK
  <2>2. /\ mem'.proc = mem.proc /\ pend' = NoRec /\ UNCHANGED <<pc, work, at, ret, forced>>
        /\ mem' = HandleProcess(mem, r)
        /\ \A p \in Procs : coord'[p] = coord[p] \/ coord'[p].ph = "none"
        /\ \A p \in Procs : pos[p] = Unbound => pos'[p] = Unbound
    BY <1>4, <2>1, Handled DEF TypeOK, StreamsOK
  <2>3. mem'.task = mem.task
    BY <1>1, <2>2, HandleKeeps
  <2> QED
    BY <1>1, <2>2, <2>3 DEF Where, Active, Up, Own
<1>5. ASSUME NEW status \in {"KILLED", "LOST"}, KillSignal(status)
      PROVE  Where'
  BY <1>1, <1>5 DEF KillSignal, SetTaskStatus, Where, Active, Up
<1>6. CASE OnActive \/ OnCleaning
  BY <1>1, <1>6 DEF OnActive, OnCleaning, Ready, Where, Active, Up, RunnerState
<1>7. CASE Resume \/ StagePlan \/ PickRunnable \/ PollSome \/ PollNone \/ EndCollect
  BY <1>1, <1>7 DEF Resume, StagePlan, PickRunnable, PollSome, PollNone, EndCollect, Ready, Where,
     Active, Up
<1>8. CASE StageKilled \/ StageCleaning \/ EndPlan
  <2>1. \/ UNCHANGED <<disk, mem>> /\ pc' = "poll"
        \/ SetTaskStatus("CLEANING")
    <3>1. mem.task = "ACTIVE" \/ mem.task = "CLEANING"
      BY DEF Early
    <3>2. ASSUME NEW task \in TaskStates, SetTaskStatus(task)
          PROVE  task \notin TerminalTask \union {"FINALIZING"}
      BY <1>1, <3>2, TaskWritten
    <3>3. TerminalState \in TaskStates
      BY TerminalStateType DEF TaskStates, TerminalTask
    <3> QED
      BY <1>1, <1>8, <3>1, <3>2, <3>3, TerminalStateType
         DEF StageKilled, StageCleaning, EndPlan, TaskStates
  <2>2. /\ pend' = NoRec /\ ret' = ret /\ forced' = forced /\ pos' = pos
        /\ pc \notin {"task", "resume", "down"}
    BY <1>8 DEF StageKilled, StageCleaning, EndPlan, Ready
  <2>3. CASE SetTaskStatus("CLEANING")
    <3>1. pc' = "task" /\ mem'.task = "CLEANING"
      BY <2>3, TaskWritten DEF TaskStates
    <3> QED
      BY <1>1, <2>2, <3>1 DEF Where, Active
  <2>4. CASE UNCHANGED <<disk, mem>> /\ pc' = "poll"
    BY <1>1, <2>2, <2>4 DEF Where, Active
  <2> QED
    BY <2>1, <2>3, <2>4
<1>9. ASSUME NEW p \in Procs, ScanOne(p)
      PROVE  Where'
  <2>1. CASE SetProcessStatus(p, "LOST") /\ pc' = pc
    <3>1. mem'.task = mem.task /\ pend'.st = mem'.proc[pend'.p].st /\ pend'.st = "LOST"
      BY <2>1, StatusWritten DEF ProcessStates
    <3> QED
      BY <1>1, <1>9, <2>1, <3>1 DEF ScanOne, Ready, Where, Active, Up
  <2>2. CASE UNCHANGED mem /\ pc' = "hasdata"
    <3>1. mem.proc[p].st = "RUNNING" /\ ~CoordinatorSeen(p) /\ at' = p
      BY <1>9, <2>2 DEF ScanOne, Ready
    <3>2. ~Own(p)
      BY <1>1, <3>1 DEF LoopInv, StreamInv, RunBooks, CoordinatorSeen, Own
    <3> QED
      BY <1>1, <1>9, <2>2, <3>1, <3>2 DEF ScanOne, Ready, Where, Active, Up, worldVars, Own
  <2>3. CASE UNCHANGED <<mem, pend>> /\ pc' = pc
    BY <1>1, <1>9, <2>3 DEF ScanOne, Ready, Where, Active, Up
  <2> QED
    BY <1>9, <2>1, <2>2, <2>3 DEF ScanOne
<1>10. CASE ScanData
  <2>1. CASE UNCHANGED <<mem, pend>>
    BY <1>1, <1>10, <2>1 DEF ScanData, Ready, Where, Active, Up
  <2>2. CASE SetProcessStatus(at, "LOST")
    <3>1. mem'.task = mem.task /\ pend'.st = mem'.proc[pend'.p].st /\ pend'.st = "LOST"
      BY <1>1, <1>10, <2>2, StatusWritten DEF ProcessStates, ScanData, Ready
    <3> QED
      BY <1>1, <1>10, <3>1 DEF ScanData, Ready, Where, Active, Up
  <2> QED
    BY <1>10, <2>1, <2>2 DEF ScanData
<1>11. ASSUME NEW p \in Procs, LaunchWaiting(p) \/ LaunchFails(p)
       PROVE  Where'
  <2>1. /\ SetProcessStatus(p, "WAITING") \/ SetProcessStatus(p, "FAILED")
        /\ Ready("launch") /\ pc' = pc /\ ret' = ret /\ forced' = forced /\ pos' = pos
    BY <1>11 DEF LaunchWaiting, LaunchFails
  <2>2. mem'.task = mem.task /\ pend'.st = mem'.proc[pend'.p].st
    BY <2>1, StatusWritten DEF ProcessStates
  <2> QED
    BY <1>1, <2>1, <2>2 DEF Ready, Where, Active, Up
<1>12. ASSUME NEW p \in Procs, LaunchFork(p)
       PROVE  Where'
  BY <1>1, <1>12 DEF LaunchFork, Ready, Where, Active, Up, TypeOK, WorldOK
<1>13. CASE FinalizeFork
  BY <1>1, <1>13 DEF FinalizeFork, Ready, Where, Active, Up
<1>14. ASSUME NEW p \in Procs, DispatchUpdate(p)
       PROVE  Where'
  <2> DEFINE r == [p |-> p, st |-> stream[p][nxt[p] + 1].st, seq |-> stream[p][nxt[p] + 1].seq]
  <2>1. /\ Dispatchable(mem, r) /\ Checkpoint(r) /\ Ready("collect") /\ Batched(p)
        /\ UNCHANGED <<pc, ret, forced, pos>>
    BY <1>14 DEF DispatchUpdate
  <2>2. r \in ProcessRec /\ r.st # "WAITING" /\ r.p = p
    BY <1>1, <2>1, DispatchFits DEF LoopInv
  <2>3. mem'.task = mem.task /\ pend' = r /\ mem'.proc[p].st = r.st
    BY <2>1, <2>2, CheckpointEffect
  <2> HIDE DEF r
  <2> QED
    BY <1>1, <2>1, <2>2, <2>3 DEF Ready, Where, Active, Up
<1>15. ~OnKilling /\ ~EnterFinalizing /\ ~FinalizeTask /\ ~Crash /\ ~Start
       /\ \A p \in Procs : ~KillOne(p)
  BY <1>1 DEF OnKilling, EnterFinalizing, FinalizeTask, KillOne, Ready, Where, Crash, Start, Up
<1> QED
  BY <1>4, <1>5, <1>6, <1>7, <1>8, <1>9, <1>10, <1>11, <1>12, <1>13, <1>14, <1>15
     DEF Next, RunnerStep, WorldStep

-----------------------------------------------------------------------------
(* The FORKED records that wait to be dispatched. *)

\* Outside the runner nobody writes one for the latest run.
LEMMA WroteMarks ==
  ASSUME TypeOK, NEW q \in Procs, NEW r \in StreamRec, Wrote(q, r), mem' = mem, NEW p \in Procs
  PROVE  Marks(p)' \subseteq Marks(p)
<1>1. CASE p # q
  <2>1. stream'[p] = stream[p]
    BY <1>1, Appended DEF Wrote
  <2> QED
    BY <2>1 DEF Marks
<1>2. CASE p = q
  <2>1. r.seq # mem.proc[p].base + 1
    <3>1. mem.proc[p].base \in Int
      BY StreamTypes
    <3>2. \/ r.seq = mem.proc[p].base + 2 \/ r.seq = mem.proc[p].base + 3
          \/ r.seq <= mem.proc[p].base
      BY <1>2 DEF Wrote
    <3> QED
      BY <3>1, <3>2
  <2>2. /\ Len(stream'[p]) = Len(stream[p]) + 1 /\ stream'[p][Len(stream[p]) + 1] = r
        /\ \A i \in 1..Len(stream[p]) : stream'[p][i] = stream[p][i]
    <3>1. stream' = [stream EXCEPT ![p] = Append(@, r)]
      BY <1>2 DEF Wrote
    <3> QED
      BY <3>1, Appended
  <2>3. \A i \in 1..(Len(stream[p]) + 1) : i \in 1..Len(stream[p]) \/ i = Len(stream[p]) + 1
    BY StreamTypes
  <2> QED
    BY <2>1, <2>2, <2>3 DEF Marks
<1> QED
  BY <1>1, <1>2

\* A FORKED record that is not dispatched is what Marks counts.
LEMMA StartedMarks ==
  ASSUME NEW p \in Procs
  PROVE  Started(p) <=> mem.proc[p].st = "WAITING" /\ Marks(p) # {}
BY DEF Started, Marks

\* Every step of a runner that runs its plan keeps Fresh.
LEMMA NextFresh ==
  ASSUME TypeOK, LogInv, TrailInv, Early, Early', [Next]_vars, ~Start, NEW p \in Procs
  PROVE  Fresh(p)'
<1> SUFFICES ASSUME Active', Started(p)'
             PROVE  /\ pc' \in {"task", "resume", "launch", "fork", "poll", "collect"}
                    /\ pc' \in {"launch", "fork"} => p \notin work'
                    /\ pc' = "collect" => \A i \in Marks(p)' : i <= pos'[p]
  BY DEF Fresh
<1> DEFINE Goal == /\ pc' \in {"task", "resume", "launch", "fork", "poll", "collect"}
                   /\ pc' \in {"launch", "fork"} => p \notin work'
                   /\ pc' = "collect" => \A i \in Marks(p)' : i <= pos'[p]
<1>1. Active /\ LoopInv /\ ~GoDown /\ Up
  BY ActiveBefore, ForcedBefore DEF Active, TrailInv, GoDown, Up
<1>2. ASSUME Started(p), pc' = pc, work' \subseteq work, pos'[p] = pos[p] \/ pc # "collect",
             Marks(p)' \subseteq Marks(p)
      PROVE  Goal
  BY <1>1, <1>2 DEF LoopInv, Fresh
<1>3. ASSUME mem'.proc[p] = mem.proc[p], stream'[p] = stream[p]
      PROVE  Started(p) /\ Marks(p)' = Marks(p)
  BY <1>3 DEF Started, Marks
<1>4. CASE WorldStep
  <2>1. UNCHANGED <<mem, pc, work, pos>>
    BY <1>4, WorldStepEffect
  <2>2. Marks(p)' \subseteq Marks(p)
    <3>1. CASE stream' = stream
      BY <1>3, <2>1, <3>1
    <3>2. CASE \E q \in Procs, r \in StreamRec : Wrote(q, r)
      BY <2>1, <3>2, WroteMarks
    <3> QED
      BY <1>1, <1>4, <3>1, <3>2, WorldStream DEF LoopInv
  <2>3. Marks(p)' # {} /\ mem.proc[p].st = "WAITING"
    BY <2>1 DEF Started, Marks
  <2>4. Started(p)
    BY <2>2, <2>3, StartedMarks
  <2> QED
    BY <1>2, <2>1, <2>2, <2>4
<1>5. CASE Handler
  <2>1. /\ mem'.proc = mem.proc /\ stream' = stream /\ UNCHANGED <<pc, work>>
        /\ pos' = IF pend.st = "WAITING" THEN [pos EXCEPT ![pend.p] = Unbound] ELSE pos
        /\ pend # NoRec
    BY <1>1, <1>5, Handled DEF Handler
  <2>2. pend.st = "WAITING" => pc # "collect"
    BY <1>1, <2>1 DEF LoopInv, Where
  <2> QED
    BY <1>2, <1>3, <2>1, <2>2
<1>6. ASSUME NEW q \in Procs, NEW r \in ProcessRec, Told(q, r)
      PROVE  Goal
  <2>1. q = r.p /\ Checkpoint(r) /\ stream' = stream /\ pos' = pos /\ work' \subseteq work
    BY <1>6 DEF Told, Fits, Rec
  <2>2. CASE p = q
    <3>1. mem'.proc[p].st = r.st
      BY <2>1, <2>2, CheckpointEffect
    <3>2. SetProcessStatus(p, "WAITING") /\ mem.proc[p].st \in SourceStates("WAITING")
          /\ UNCHANGED <<stream, coord>>
      BY <1>6, <2>1, <2>2, <3>1 DEF Told, Fits, LegalRec, Started, SetProcessStatus
    <3> QED
      BY <1>1, <3>2, WaitingStream DEF LoopInv
  <2>3. CASE p # q
    <3>1. Started(p) /\ Marks(p)' = Marks(p)
      BY <1>3, <2>1, <2>3, CheckpointEffect
    <3>2. pc' = pc
      BY <1>1, <1>6, <3>1 DEF Told, LoopInv, Fresh
    <3> QED
      BY <1>2, <2>1, <3>1, <3>2
  <2> QED
    BY <2>2, <2>3
<1>7. ASSUME NEW q \in Procs, LaunchFork(q)
      PROVE  Goal
  <2>1. mem' = mem /\ stream' = stream /\ pc = "launch" /\ pc' = "fork" /\ work' = work
    BY <1>1, <1>7 DEF LaunchFork, Ready
  <2> QED
    BY <1>1, <1>3, <2>1 DEF LoopInv, Fresh
<1>8. CASE FinalizeFork
  <2>1. PICK q \in Procs : q = at
    BY <1>8 DEF FinalizeFork, Ready, TypeOK, ControlOK
  <2>2. mem' = mem /\ pc = "fork" /\ pc' = "launch" /\ work' = work \ {q}
    BY <1>8, <2>1 DEF FinalizeFork, Ready
  <2>3. CASE p = q
    BY <2>2, <2>3
  <2>4. CASE p # q
    <3>1. stream'[p] = stream[p]
      BY <1>8, <2>1, <2>4 DEF FinalizeFork, TypeOK, StreamsOK
    <3> QED
      BY <1>1, <1>3, <2>2, <3>1 DEF LoopInv, Fresh
  <2> QED
    BY <2>3, <2>4
<1>9. CASE Turn
  <2>1. /\ Started(p) /\ Marks(p)' = Marks(p) /\ pend = NoRec
        /\ mem.proc[p].st = "WAITING" /\ p \in mem.tp
    <3>1. Started(p) /\ Marks(p)' = Marks(p) /\ pend = NoRec
      BY <1>3, <1>9 DEF Turn, Active
    <3> QED
      BY <1>1, <3>1 DEF Started, LoopInv, Tracked, Active, Open
  <2>2. /\ pc \in {"task", "resume", "launch", "fork", "poll", "collect"}
        /\ pc \in {"launch", "fork"} => p \notin work
        /\ pc = "collect" => \A i \in Marks(p) : i <= pos[p]
        /\ pc = "task" => ret = "resume"
        /\ mem.task = "ACTIVE" /\ forced = "none" /\ mem'.task = "ACTIVE" /\ forced' = "none"
    BY <1>1, <2>1 DEF LoopInv, Fresh, Where, Active
  <2>3. CASE Resume \/ PollSome
    <3>1. pos'[p] = Len(stream[p]) /\ pc' = "collect"
      BY <2>1, <2>3 DEF Resume, PollSome, Select
    <3>2. \A i \in Marks(p) : i <= Len(stream[p])
      BY StreamTypes DEF Marks
    <3> QED
      BY <2>1, <3>1, <3>2
  <2>4. ~PollNone
    <3> SUFFICES ASSUME PollNone PROVE FALSE
      OBVIOUS
    <3>1. \A n \in Numbers(p) : n <= mem.proc[p].seq
      BY <1>1, <2>1, NothingUnread DEF PollNone, Ready, LoopInv, Open
    <3>2. mem.proc[p].seq = mem.proc[p].base /\ mem.proc[p].base \in Int
      BY <1>1, <2>1, StreamTypes DEF LoopInv, StreamInv, RunBooks
    <3>3. mem.proc[p].base + 1 \in Numbers(p)
      BY <2>1 DEF Started, Numbers
    <3> QED
      BY <3>1, <3>2, <3>3
  <2>5. ~EndCollect
    <3> SUFFICES ASSUME EndCollect PROVE FALSE
      OBVIOUS
    <3>1. PICK i \in 1..Len(stream[p]) : stream[p][i].seq = mem.proc[p].base + 1
      BY <2>1 DEF Started
    <3>2. pc = "collect" /\ ~(nxt[p] < pos[p]) /\ i <= pos[p]
      BY <2>2, <3>1 DEF EndCollect, Ready, Batched, Marks
    <3>3. nxt[p] \in Nat /\ pos[p] \in Int /\ i \in Int
      BY DEF TypeOK, StreamsOK, Unbound
    <3>4. i <= nxt[p]
      BY <3>2, <3>3
    <3>5. stream[p][i].seq <= mem.proc[p].seq
      BY <1>1, <2>1, <3>2, <3>4 DEF LoopInv, Reading, Read, Open, Active
    <3>6. mem.proc[p].seq = mem.proc[p].base /\ mem.proc[p].base \in Int
      BY <1>1, <2>1, StreamTypes DEF LoopInv, StreamInv, RunBooks
    <3> QED
      BY <3>1, <3>5, <3>6
  <2>6. CASE OnActive
    BY <2>2, <2>6 DEF OnActive, Ready
  <2>7. CASE EndPlan
    <3>1. \/ UNCHANGED <<disk, mem>> /\ pc' = "poll"
          \/ SetTaskStatus("CLEANING")
      BY <2>2, <2>7 DEF EndPlan
    <3>2. ~SetTaskStatus("CLEANING")
      BY <2>2, TaskWritten DEF TaskStates
    <3> QED
      BY <3>1, <3>2
  <2>8. /\ ~OnCleaning /\ ~StagePlan /\ ~StageKilled /\ ~StageCleaning /\ ~PickRunnable /\ ~ScanData
        /\ \A q \in Procs : ~ScanOne(q)
    BY <2>2 DEF OnCleaning, StagePlan, StageKilled, StageCleaning, PickRunnable, ScanData, ScanOne, Ready
  <2>9. \A status \in {"KILLED", "LOST"} : ~KillSignal(status)
    BY <1>1, <2>2 DEF KillSignal, Active
  <2>10. /\ ~OnKilling /\ ~EnterFinalizing /\ ~FinalizeTask /\ ~Crash
         /\ \A q \in Procs : ~KillOne(q)
    BY <1>1, <2>2 DEF OnKilling, EnterFinalizing, FinalizeTask, KillOne, Crash, Ready, TerminalTask
  <2>11. \A q \in Procs : ~LaunchWaiting(q) /\ ~LaunchFails(q) /\ ~DispatchUpdate(q)
    <3>1. \A q \in Procs : ~SetProcessStatus(q, "WAITING") /\ ~SetProcessStatus(q, "FAILED")
      BY <1>9, StatusWritten DEF Turn, ProcessStates
    <3>2. \A q \in Procs : ~DispatchUpdate(q)
      BY <1>1, <1>9, RunnerAssumption DEF Turn, DispatchUpdate, Checkpoint, NoRec
    <3> QED
      BY <1>1, <3>1, <3>2 DEF LaunchWaiting, LaunchFails
  <2>12. ~Start
    OBVIOUS
  <2> QED
    BY <1>4, <1>5, <1>7, <1>8, <2>3, <2>4, <2>5, <2>6, <2>7, <2>8, <2>9, <2>10, <2>11, <2>12
       DEF Next, RunnerStep, WorldStep
<1>10. ~Ended
  BY <1>1 DEF Ended
<1>11. WorldStep \/ Handler \/ Turn \/ FinalizeFork
       \/ (\E q \in Procs, r \in ProcessRec : Told(q, r)) \/ \E q \in Procs : LaunchFork(q)
  BY <1>1, <1>10, RunnerKinds
<1> QED
  BY <1>4, <1>5, <1>6, <1>7, <1>8, <1>9, <1>11

-----------------------------------------------------------------------------
(* The muxer's place in a stream. *)

\* A set of positions without gaps from the beginning is counted by its last one.
LEMMA PrefixCount ==
  ASSUME NEW n \in Nat, NEW S \in SUBSET (1..n), \A i \in S : 1..i \subseteq S
  PROVE  /\ Cardinality(S) \in 0..n
         /\ \A i \in 1..n : i \in S <=> i <= Cardinality(S)
<1>1. Cardinality(S) \in 0..n
  BY PositionCount
<1>2. IsFiniteSet(S)
  <2>1. IsFiniteSet(1..n)
    BY FS_Interval
  <2> QED
    BY <2>1, FS_Subset
<1>3. ASSUME NEW i \in 1..n, i \in S
      PROVE  i <= Cardinality(S)
  <2>1. Cardinality(1..i) <= Cardinality(S)
    BY <1>2, <1>3, FS_Subset
  <2>2. Cardinality(1..i) = i
    BY FS_Interval
  <2> QED
    BY <2>1, <2>2
<1>4. ASSUME NEW i \in 1..n, i \notin S
      PROVE  ~(i <= Cardinality(S))
  <2>1. S \in SUBSET (1..(i - 1))
    <3> SUFFICES ASSUME NEW j \in S
                 PROVE  j \in 1..(i - 1)
      OBVIOUS
    <3>1. i \notin 1..j /\ j \in 1..n
      BY <1>4
    <3> QED
      BY <3>1
  <2>2. Cardinality(S) \in 0..(i - 1)
    BY <2>1, PositionCount
  <2> QED
    BY <2>2
<1> QED
  BY <1>1, <1>3, <1>4

\* Fast-forwarding skips nothing beyond the high watermark and, in a stream that
\* counts up, everything else.
LEMMA FastForwardPlace ==
  ASSUME NEW s \in Seq(StreamRec), NEW w \in Int
  PROVE  /\ \A i \in 1..Len(s) : i <= FastForward(s, w) => s[i].seq <= w
         /\ (\A i, j \in 1..Len(s) : i < j => s[i].seq < s[j].seq) =>
              \A i \in 1..Len(s) : i > FastForward(s, w) => s[i].seq > w
<1> DEFINE c == Cardinality(Below(s, w))
           f == FastForward(s, w)
<1>1. Len(s) \in Nat /\ \A i \in 1..Len(s) : s[i].seq \in Int
  <2>1. \A i \in 1..Len(s) : s[i] \in StreamRec
    OBVIOUS
  <2> QED
    BY <2>1 DEF StreamRec
<1>2. c \in 0..Len(s) /\ \A i \in 1..Len(s) : i \in Below(s, w) <=> i <= c
  <2>1. Below(s, w) \in SUBSET (1..Len(s)) /\ \A i \in Below(s, w) : 1..i \subseteq Below(s, w)
    <3>1. Below(s, w) \in SUBSET (1..Len(s))
      BY DEF Below
    <3>2. ASSUME NEW i \in Below(s, w), NEW j \in 1..i
          PROVE  j \in Below(s, w)
      <4>1. i \in 1..Len(s) /\ \A k \in 1..i : s[k].seq < w
        BY DEF Below
      <4>2. j \in 1..Len(s) /\ 1..j \subseteq 1..i
        BY <1>1, <4>1
      <4> QED
        BY <4>1, <4>2 DEF Below
    <3> QED
      BY <3>1, <3>2
  <2> QED
    BY <1>1, <2>1, PrefixCount
<1>3. \/ f = c /\ ~(c < Len(s) /\ s[c + 1].seq = w)
      \/ f = c + 1 /\ c < Len(s) /\ s[c + 1].seq = w
  BY DEF FastForward
<1> HIDE DEF c, f
<1>4. ASSUME NEW i \in 1..Len(s), i <= f
      PROVE  s[i].seq <= w
  <2>1. CASE i <= c
    <3>1. s[i].seq < w
      BY <1>2, <2>1 DEF Below
    <3> QED
      BY <1>1, <3>1
  <2>2. CASE ~(i <= c)
    <3>1. i = c + 1 /\ s[c + 1].seq = w
      BY <1>1, <1>2, <1>3, <1>4, <2>2
    <3> QED
      BY <1>1, <3>1
  <2> QED
    BY <2>1, <2>2
<1>5. ASSUME \A i, j \in 1..Len(s) : i < j => s[i].seq < s[j].seq,
             NEW i \in 1..Len(s), i > f
      PROVE  s[i].seq > w
  <2>1. i \notin Below(s, w) /\ i > c
    BY <1>1, <1>2, <1>3, <1>5
  <2>2. PICK j \in 1..i : ~(s[j].seq < w)
    BY <2>1 DEF Below
  <2>3. j \in 1..Len(s) /\ s[j].seq \in Int /\ s[i].seq \in Int
    BY <1>1
  <2>4. CASE j < i
    <3>1. s[j].seq < s[i].seq
      BY <1>5, <2>3, <2>4
    <3> QED
      BY <2>2, <2>3, <3>1
  <2>5. CASE j = i
    <3> SUFFICES ASSUME s[i].seq = w PROVE FALSE
      BY <2>2, <2>3, <2>5
    <3>1. \A k \in 1..Len(s) : k < i => k \in Below(s, w)
      <4> SUFFICES ASSUME NEW k \in 1..Len(s), k < i, NEW m \in 1..k
                   PROVE  s[m].seq < w
        BY DEF Below
      <4>1. m \in 1..Len(s) /\ m < i
        OBVIOUS
      <4> QED
        BY <1>5, <4>1
    <3>2. i = c + 1
      <4>1. i - 1 >= 1 => i - 1 \in 1..Len(s) /\ i - 1 < i
        BY <1>1
      <4>2. i - 1 >= 1 => i - 1 <= c
        BY <1>2, <3>1, <4>1
      <4> QED
        BY <1>2, <2>1, <4>2
    <3> QED
      BY <1>2, <1>3, <1>5, <3>2
  <2> QED
    BY <2>4, <2>5
<1> QED
  BY <1>4, <1>5 DEF f

\* Where a newly registered stream is read: behind everything before the latest run.
LEMMA BoundPlace ==
  ASSUME TypeOK, NEW p \in Procs, pos[p] = Unbound, Ascending(p), RunBooks(p), NEW i \in 1..Len(stream[p])
  PROVE  /\ i <= ReadPos(p) => stream[p][i].seq <= mem.proc[p].base - 1
         /\ i > ReadPos(p) => stream[p][i].seq > mem.proc[p].base - 1
         /\ i <= ReadPos(p) => stream[p][i].seq <= mem.proc[p].seq
<1>1. /\ stream[p] \in Seq(StreamRec) /\ mem.proc[p].base - 1 \in Int
      /\ mem.proc[p].base \in Int /\ mem.proc[p].seq \in Int /\ stream[p][i].seq \in Int
  BY StreamTypes, StreamSeqType
<1>2. ReadPos(p) = FastForward(stream[p], mem.proc[p].base - 1)
  BY DEF ReadPos
<1>3. mem.proc[p].seq >= mem.proc[p].base
  BY DEF RunBooks
<1>4. /\ i <= ReadPos(p) => stream[p][i].seq <= mem.proc[p].base - 1
      /\ i > ReadPos(p) => stream[p][i].seq > mem.proc[p].base - 1
  BY <1>1, <1>2, FastForwardPlace DEF Ascending
<1>5. i <= ReadPos(p) => stream[p][i].seq <= mem.proc[p].seq
  BY <1>1, <1>3, <1>4
<1> QED
  BY <1>4, <1>5

-----------------------------------------------------------------------------
(* What is read is what is logged, step by step. *)

\* A stream that is not bound yet is read from behind the last run.
LEMMA BindReading ==
  ASSUME TypeOK', NEW p \in Procs, StreamInv(p)', pos'[p] = Unbound, pc' # "collect",
         mem'.proc[p].st = "WAITING" \/ ret' = "resume"
  PROVE  Reading(p)'
<1> DEFINE s == stream'[p]
           run == mem'.proc[p]
           w == run.base - 1
<1>1. run \in ProcessRun /\ s \in Seq(StreamRec)
  BY DEF TypeOK, RunnerState, StreamsOK
<1>2. run.base \in Int /\ run.seq \in Int /\ w \in Int /\ Len(s) \in Nat
  BY <1>1 DEF ProcessRun
<1>3. \A i \in 1..Len(s) : s[i].seq \in Int
  <2>1. \A i \in 1..Len(s) : s[i] \in StreamRec
    BY <1>1
  <2> QED
    BY <2>1 DEF StreamRec
<1>4. Read(p)' = FastForward(s, w)
  BY DEF Read, ReadPos
<1>5. /\ run.seq >= run.base /\ (run.st = "WAITING" => run.seq = run.base)
      /\ ~ForkTimeouts => \A i \in 1..Len(s) : s[i].seq # run.base
      /\ \A i, j \in 1..Len(s) : i < j => s[i].seq < s[j].seq
  BY DEF StreamInv, RunBooks, Line, Numbers, Ascending
<1>6. /\ \A i \in 1..Len(s) : i <= FastForward(s, w) => s[i].seq <= w
      /\ \A i \in 1..Len(s) : i > FastForward(s, w) => s[i].seq > w
  BY <1>1, <1>2, <1>5, FastForwardPlace
<1> HIDE DEF s, run
<1>7. \A i \in 1..Len(s) : i <= FastForward(s, w) => s[i].seq <= run.seq
  BY <1>2, <1>3, <1>5, <1>6
<1>8. ~ForkTimeouts /\ run.st = "WAITING" =>
        \A i \in 1..Len(s) : i > FastForward(s, w) => s[i].seq > run.seq
  BY <1>2, <1>3, <1>5, <1>6
<1>9. ret' # "resume" => run.st = "WAITING"
  BY DEF run
<1> HIDE DEF w
<1> QED
  BY <1>4, <1>7, <1>8, <1>9 DEF Reading, s, run

\* Neither the stream nor its reader is touched.
LEMMA KeepReading ==
  ASSUME NEW p \in Procs, Reading(p), Up, forced = "none", mem'.proc[p] = mem.proc[p],
         p \in mem'.tp => p \in mem.tp, stream'[p] = stream[p], pos'[p] = pos[p],
         nxt'[p] = nxt[p], ret' = ret, pc' = "collect" <=> pc = "collect"
  PROVE  Reading(p)'
<1>1. Read(p)' = Read(p)
  BY DEF Read, ReadPos
<1> QED
  BY <1>1 DEF Reading

\* A record is appended to a stream.
LEMMA AppendReading ==
  ASSUME TypeOK, TypeOK', NEW p \in Procs, Reading(p), Up, forced = "none", StreamInv(p), StreamInv(p)',
         UNCHANGED <<mem, pos, nxt, ret>>, pc' = "collect" <=> pc = "collect",
         NEW r \in StreamRec, stream' = [stream EXCEPT ![p] = Append(@, r)],
         ~ForkTimeouts => r.seq > mem.proc[p].base /\ \A n \in Numbers(p) : n < r.seq
  PROVE  Reading(p)'
<1> SUFFICES ASSUME mem.proc[p].st \in Open, p \in mem.tp
             PROVE  Reading(p)'
  BY DEF Reading
<1>1. CASE pos[p] = Unbound /\ pc # "collect" /\ (mem.proc[p].st = "WAITING" \/ ret = "resume")
  BY <1>1, BindReading
<1>2. CASE pc = "collect" \/ pos[p] # Unbound
  <2> DEFINE k == Len(stream[p])
             q == mem.proc[p].seq
             c == Read(p)
  <2>1. /\ k \in Nat /\ pos[p] \in Nat \union {Unbound} /\ nxt[p] \in Nat /\ pos[p] <= k /\ q \in Int
        /\ r.seq \in Int /\ \A i \in 1..k : stream[p][i].seq \in Int
    BY StreamTypes, StreamSeqType DEF TypeOK, StreamsOK, StreamRec
  <2>2. Len(stream'[p]) = k + 1 /\ stream'[p][k + 1] = r /\ \A i \in 1..k : stream'[p][i] = stream[p][i]
    BY Appended
  <2>3. c \in Nat /\ c <= k /\ Read(p)' = c
    BY <1>2, <2>1 DEF Reading, Read, ReadPos, Unbound
  <2>4. ~ForkTimeouts => r.seq > q
    <3>1. \/ mem.proc[p].st = "WAITING" /\ q = mem.proc[p].base
          \/ q \in Numbers(p)
      BY DEF Open, StreamInv, RunBooks, Line
    <3> QED
      BY <3>1
  <2>5. /\ \A i \in 1..k : i <= c => stream[p][i].seq <= q
        /\ ret = "stage" /\ ~ForkTimeouts => \A i \in 1..k : i > c => stream[p][i].seq > q
        /\ pc = "collect" => nxt[p] <= pos[p]
        /\ ret = "stage" /\ pos[p] = Unbound => mem.proc[p].st = "WAITING"
    BY DEF Reading
  <2>6. mem'.proc[p].seq = q
    OBVIOUS
  <2> HIDE DEF k, q, c
  <2>7. \A i \in 1..(k + 1) : i \in 1..k \/ (i = k + 1 /\ ~(i <= c))
    BY <2>1, <2>3
  <2>8. /\ \A i \in 1..(k + 1) : i <= c => stream'[p][i].seq <= q
        /\ ret = "stage" /\ ~ForkTimeouts => \A i \in 1..(k + 1) : i > c => stream'[p][i].seq > q
    BY <2>2, <2>4, <2>5, <2>7
  <2> QED
    BY <2>2, <2>3, <2>5, <2>6, <2>8 DEF Reading
<1> QED
  BY <1>1, <1>2 DEF Reading, TypeOK, ControlOK

\* The record that is next in the batch is dispatched.
LEMMA DispatchReading ==
  ASSUME TypeOK, NEW p \in Procs, Reading(p), Up, forced = "none", StreamInv(p), DispatchUpdate(p), Up'
  PROVE  Reading(p)'
<1> DEFINE k == nxt[p] + 1
           r == [p |-> p, st |-> stream[p][k].st, seq |-> stream[p][k].seq]
<1>1. /\ Dispatchable(mem, r) /\ Checkpoint(r) /\ nxt' = [nxt EXCEPT ![p] = @ + 1]
      /\ pc = "collect" /\ Batched(p) /\ UNCHANGED <<pc, ret, pos, forced, stream>>
  BY DEF DispatchUpdate, Ready, GoDown, Up, worldVars
<1>2. k \in 1..Len(stream[p]) /\ r \in ProcessRec
  BY <1>1, DispatchedType
<1>3. Fits(p, r) /\ r.p = p
  BY <1>1, DispatchFits
<1>4. /\ mem'.tp = mem.tp /\ mem'.proc[p].st = r.st /\ mem'.proc[p].seq = stream[p][k].seq
  BY <1>1, <1>2, CheckpointEffect
<1>5. mem.proc[p].st \in SourceStates(r.st) /\ r.st # "WAITING"
  BY <1>3 DEF Fits, LegalRec
<1>6. mem'.proc[p].st \in Open => mem.proc[p].st \in Open
  BY <1>4, <1>5 DEF Open, SourceStates
<1>7. /\ nxt[p] \in Nat /\ nxt'[p] = k /\ pos[p] \in Int /\ pos[p] # Unbound /\ k <= pos[p]
  BY <1>1 DEF TypeOK, StreamsOK, Batched, Unbound
<1>8. \A i, j \in 1..Len(stream[p]) : i < j => stream[p][i].seq < stream[p][j].seq
  BY DEF StreamInv, Ascending
<1>9. \A i \in 1..Len(stream[p]) : stream[p][i].seq \in Int
  BY StreamSeqType
<1>10. Read(p)' = k
  BY <1>1, <1>7 DEF Read
<1> HIDE DEF k, r
<1>11. /\ \A i \in 1..Len(stream[p]) : i <= k => stream[p][i].seq <= stream[p][k].seq
       /\ \A i \in 1..Len(stream[p]) : i > k => stream[p][i].seq > stream[p][k].seq
  BY <1>2, <1>8, <1>9
<1> QED
  BY <1>1, <1>4, <1>7, <1>10, <1>11 DEF Reading

\* A resumed runner reads the streams to their ends and dispatches what it does not know.
LEMMA ResumeReading ==
  ASSUME TypeOK, NEW p \in Procs, Up, forced = "none", StreamInv(p), pos[p] = Unbound, Resume
  PROVE  Reading(p)'
<1> DEFINE n == Len(stream[p])
           q == mem.proc[p].seq
<1>1. /\ pc' = "collect" /\ UNCHANGED <<mem, stream>>
      /\ p \in mem.tp => pos'[p] = n /\ nxt'[p] = Cardinality(Known(p))
  BY DEF Resume, Select, worldVars
<1>2. n \in Nat /\ q \in Int /\ \A i \in 1..n : stream[p][i].seq \in Int
  BY StreamTypes, StreamSeqType
<1>3. Known(p) \in SUBSET (1..n) /\ \A i \in 1..n : i \in Known(p) <=> stream[p][i].seq <= q
  BY BoundPlace DEF Known, StreamInv
<1>4. \A i, j \in 1..n : i < j => stream[p][i].seq < stream[p][j].seq
  BY DEF StreamInv, Ascending
<1>5. mem'.proc[p].seq = q /\ Len(stream'[p]) = n /\ \A i \in 1..n : stream'[p][i] = stream[p][i]
  BY <1>1
<1> HIDE DEF n, q
<1>6. \A i \in Known(p) : 1..i \subseteq Known(p)
  <2> SUFFICES ASSUME NEW i \in Known(p), NEW j \in 1..i
               PROVE  j \in Known(p)
    OBVIOUS
  <2>1. i \in 1..n /\ j \in 1..n /\ (j < i \/ j = i)
    BY <1>2, <1>3
  <2> QED
    BY <1>2, <1>3, <1>4, <2>1
<1>7. Cardinality(Known(p)) \in 0..n /\ \A i \in 1..n : i \in Known(p) <=> i <= Cardinality(Known(p))
  BY <1>2, <1>3, <1>6, PrefixCount
<1> DEFINE c == Cardinality(Known(p))
<1>8. p \in mem'.tp => Read(p)' = c /\ pos'[p] = n /\ nxt'[p] = c
  BY <1>1 DEF Read
<1> HIDE DEF c
<1>9. c \in 0..n /\ \A i \in 1..n : i <= c <=> stream[p][i].seq <= q
  BY <1>3, <1>7 DEF c
<1>10. \A i \in 1..n : i > c => stream[p][i].seq > q
  BY <1>2, <1>9
<1>11. n # Unbound /\ c <= n
  BY <1>2, <1>9 DEF Unbound
<1> QED
  BY <1>5, <1>8, <1>9, <1>10, <1>11 DEF Reading

\* Each step before FINALIZING reads what comes next.
LEMMA NextReading ==
  ASSUME TypeOK, TypeOK', LogInv, TrailInv, Early, Early', [Next]_vars, ~Start, NEW p \in Procs,
         StreamInv(p)'
  PROVE  Reading(p)'
<1> SUFFICES ASSUME Up', forced' = "none", mem'.proc[p].st \in Open, p \in mem'.tp
             PROVE  Reading(p)'
  BY DEF Reading
<1>1. Up /\ forced = "none" /\ LoopInv /\ Reading(p) /\ StreamInv(p) /\ Where
  BY ForcedBefore DEF TrailInv, LoopInv
<1>2. ~GoDown
  BY DEF GoDown, Up
<1>3. CASE WorldStep
  <2>1. UNCHANGED <<mem, pos, nxt, ret, pc>>
    BY <1>3, WorldStepEffect
  <2>2. CASE stream'[p] = stream[p]
    BY <1>1, <2>1, <2>2, KeepReading
  <2>3. ASSUME NEW r \in StreamRec, Wrote(p, r)
        PROVE  Reading(p)'
    <3>1. mem.proc[p].base \in Int
      BY StreamTypes
    <3>2. ~ForkTimeouts => r.seq > mem.proc[p].base
      BY <2>3, <3>1 DEF Wrote
    <3> QED
      BY <1>1, <2>1, <2>3, <3>2, AppendReading DEF Wrote
  <2>4. CASE \E q \in Procs, r \in StreamRec : q # p /\ Wrote(q, r)
    BY <2>2, <2>4, Appended DEF Wrote
  <2> QED
    BY <1>1, <1>3, <2>2, <2>3, <2>4, WorldStream DEF LoopInv
<1>4. CASE Handler
  <2>1. PICK r \in ProcessRec : r = pend /\ r # NoRec
    BY <1>4 DEF TypeOK, ControlOK, Handler
  <2>2. /\ mem'.proc = mem.proc /\ stream' = stream /\ UNCHANGED <<pc, nxt, ret>>
        /\ HandleProcess(mem, r).ok /\ mem' = HandleProcess(mem, r)
        /\ pos' = IF r.st = "WAITING" THEN [pos EXCEPT ![r.p] = Unbound] ELSE pos
    BY <1>1, <1>2, <1>4, <2>1, Handled
  <2>3. r.p \in Procs /\ r.st \in ProcessStates /\ mem \in RunnerState
    BY DEF ProcessRec, TypeOK
  <2>4. CASE r.st = "WAITING" /\ r.p = p
    <3>1. mem'.proc[p].st = "WAITING" /\ pc' # "collect" /\ pos'[p] = Unbound
      BY <1>1, <2>1, <2>2, <2>4 DEF Where, TypeOK, StreamsOK
    <3> QED
      BY <3>1, BindReading
  <2>5. CASE ~(r.st = "WAITING" /\ r.p = p)
    <3>1. p \in mem.tp
      BY <1>1, <2>1, <2>2, <2>5 DEF LoopInv, Tracked
    <3>2. pos'[p] = pos[p]
      BY <2>2, <2>3, <2>5 DEF TypeOK, StreamsOK
    <3> QED
      BY <1>1, <2>2, <3>1, <3>2, KeepReading
  <2> QED
    BY <2>4, <2>5
<1>5. ASSUME NEW q \in Procs, NEW r \in ProcessRec, Told(q, r)
      PROVE  Reading(p)'
  <2>1. /\ q = r.p /\ Checkpoint(r) /\ stream' = stream /\ UNCHANGED <<pos, ret>>
        /\ pc' = "collect" <=> pc = "collect"
    BY <1>5 DEF Told, Fits, Rec
  <2>2. mem'.tp = mem.tp /\ mem'.proc[q].st = r.st
        /\ \A x \in Procs \ {q} : mem'.proc[x] = mem.proc[x]
    BY <2>1, CheckpointEffect
  <2>3. CASE p # q
    <3>1. nxt'[p] = nxt[p]
      BY <1>2, <1>5, <2>3 DEF Told, DispatchUpdate, TypeOK, StreamsOK
    <3> QED
      BY <1>1, <2>1, <2>2, <2>3, <3>1, KeepReading
  <2>4. CASE p = q /\ DispatchUpdate(p)
    BY <1>1, <2>4, DispatchReading
  <2>5. CASE p = q /\ ~DispatchUpdate(p)
    <3>1. r.st = "WAITING" /\ LaunchWaiting(p)
      BY <1>5, <2>2, <2>5 DEF Told, Fits, LegalRec, Open
    <3> QED
      BY <2>2, <3>1 DEF LaunchWaiting
  <2> QED
    BY <2>3, <2>4, <2>5
<1>6. ASSUME NEW q \in Procs, LaunchFork(q)
      PROVE  Reading(p)'
  <2>1. mem' = mem /\ stream' = stream /\ pc = "launch" /\ pc' = "fork" /\ UNCHANGED <<pos, nxt, ret>>
    BY <1>2, <1>6 DEF LaunchFork, Ready
  <2> QED
    BY <1>1, <2>1, KeepReading
<1>7. CASE FinalizeFork
  <2>1. PICK q \in Procs : q = at
    BY <1>7 DEF FinalizeFork, Ready, TypeOK, ControlOK
  <2>2. /\ UNCHANGED <<mem, pos, nxt, ret, coord>> /\ pc = "fork" /\ pc' = "launch"
        /\ stream' = [stream EXCEPT ![q] = Append(@, [st |-> "FORKED", seq |-> mem.proc[q].base + 1])]
    BY <1>7, <2>1 DEF FinalizeFork, Ready
  <2>3. CASE p # q
    BY <1>1, <2>2, <2>3, KeepReading DEF TypeOK, StreamsOK
  <2>4. CASE p = q
    <3>1. PICK r \in StreamRec : /\ stream' = [stream EXCEPT ![p] = Append(@, r)]
                                 /\ r.st = "FORKED" /\ r.seq = mem.proc[p].base + 1
      <4>1. [st |-> "FORKED", seq |-> mem.proc[p].base + 1] \in StreamRec
        BY StreamTypes DEF StreamRec, ProcessStates
      <4> QED
        BY <2>2, <2>4, <4>1
    <3>2. mem.proc[p].st = "WAITING" /\ ~Started(p) /\ mem.proc[p].base \in Int
          /\ (coord[p].ph # "none" => coord[p].base = mem.proc[p].base)
      BY <1>1, <2>1, <2>2, <2>4, StreamTypes DEF LoopInv, Where, Fresh
    <3>3. \A n \in Numbers(p) : n <= mem.proc[p].base
      BY <1>1, <2>2, <3>1, <3>2, ForkedStream
    <3>4. \A n \in Numbers(p) : n \in Int
      BY StreamTypes
    <3>5. r.seq > mem.proc[p].base /\ \A n \in Numbers(p) : n < r.seq
      BY <3>1, <3>2, <3>3, <3>4
    <3> QED
      BY <1>1, <2>2, <3>1, <3>5, AppendReading
  <2> QED
    BY <2>3, <2>4
<1>8. CASE Turn
  <2>1. mem'.proc = mem.proc /\ mem'.tp = mem.tp /\ stream' = stream /\ pend = NoRec /\ pend' = NoRec
    BY <1>8 DEF Turn
  <2>2. CASE Resume
    <3>1. pos[p] = Unbound
      BY <1>1, <2>2 DEF Resume, Ready, Where
    <3> QED
      BY <1>1, <2>2, <3>1, ResumeReading
  <2>3. CASE PollSome
    <3>1. /\ pc = "poll" /\ pc' = "collect" /\ ret' = ret /\ mem' = mem
          /\ pos'[p] = Len(stream[p]) /\ nxt'[p] = ReadPos(p)
      BY <2>1, <2>3 DEF PollSome, Select, Ready
    <3>2. Read(p)' = Read(p) /\ ReadPos(p) \in 0..Len(stream[p]) /\ Len(stream[p]) \in Nat
      BY <3>1, ReadPosType, StreamTypes DEF Read
    <3>3. pos'[p] # Unbound /\ nxt'[p] <= pos'[p]
      BY <3>1, <3>2 DEF Unbound
    <3> QED
      BY <1>1, <2>1, <3>1, <3>2, <3>3 DEF Reading
  <2>4. CASE EndCollect
    <3>1. pc = "collect" /\ pc' = "stage" /\ ret' = ret /\ mem' = mem /\ pos' = pos
          /\ ~(nxt[p] < pos[p])
      BY <2>4 DEF EndCollect, Ready, Batched
    <3>2. nxt[p] <= pos[p] /\ nxt[p] \in Nat /\ pos[p] \in Int
      BY <1>1, <2>1, <3>1 DEF Reading, TypeOK, StreamsOK, Unbound
    <3>3. nxt[p] = pos[p] /\ pos[p] # Unbound
      BY <3>1, <3>2 DEF Unbound
    <3>4. Read(p)' = Read(p)
      BY <3>1, <3>3 DEF Read, ReadPos
    <3> QED
      BY <1>1, <2>1, <3>1, <3>3, <3>4 DEF Reading
  <2>5. CASE OnActive \/ OnCleaning \/ StagePlan \/ StageKilled \/ StageCleaning \/ PickRunnable
             \/ EndPlan \/ PollNone \/ ScanData \/ \E q \in Procs : ScanOne(q)
    <3>1. UNCHANGED <<pos, nxt, ret>>
      BY <2>5 DEF OnActive, OnCleaning, StagePlan, StageKilled, StageCleaning, PickRunnable, EndPlan,
         PollNone, ScanData, ScanOne
    <3>2. pc' # "collect" /\ pc # "collect"
      BY <2>5 DEF OnActive, OnCleaning, StagePlan, StageKilled, StageCleaning, PickRunnable, EndPlan,
         PollNone, ScanData, ScanOne, Ready, SetTaskStatus, TypeOK, ControlOK
    <3> QED
      BY <1>1, <2>1, <3>1, <3>2, KeepReading
  <2>6. \A status \in {"KILLED", "LOST"} : ~KillSignal(status)
    BY <1>2, <1>1 DEF KillSignal
  <2>7. ~OnKilling /\ ~EnterFinalizing /\ ~FinalizeTask /\ ~Crash /\ \A q \in Procs : ~KillOne(q)
    BY <1>1, <1>2 DEF Where, Active, OnKilling, EnterFinalizing, FinalizeTask, KillOne, Crash, Ready,
       Early, TerminalTask
  <2>8. \A q \in Procs : ~LaunchWaiting(q) /\ ~LaunchFails(q) /\ ~DispatchUpdate(q)
    <3>1. \A q \in Procs : ~SetProcessStatus(q, "WAITING") /\ ~SetProcessStatus(q, "FAILED")
      BY <2>1, StatusWritten DEF ProcessStates
    <3>2. \A q \in Procs : ~DispatchUpdate(q)
      BY <1>2, <2>1, RunnerAssumption DEF DispatchUpdate, Checkpoint, NoRec
    <3> QED
      BY <1>2, <3>1, <3>2 DEF LaunchWaiting, LaunchFails
  <2>9. ~Start
    OBVIOUS
  <2> QED
    BY <1>3, <1>4, <1>6, <1>7, <2>2, <2>3, <2>4, <2>5, <2>6, <2>7, <2>8, <2>9
       DEF Next, RunnerStep, WorldStep
<1>9. ~Ended
  BY <1>2 DEF Ended
<1>10. WorldStep \/ Handler \/ Turn \/ FinalizeFork
       \/ (\E q \in Procs, r \in ProcessRec : Told(q, r)) \/ \E q \in Procs : LaunchFork(q)
  BY <1>1, <1>9, RunnerKinds
<1> QED
  BY <1>3, <1>4, <1>5, <1>6, <1>7, <1>8, <1>10

-----------------------------------------------------------------------------
(* Every step. *)

\* A runner that is down remembers nothing, one whose task is over only kills.
LEMMA NextParked ==
  ASSUME TypeOK, LogInv, Parked, [Next]_vars
  PROVE  Parked'
<1>1. late' \subseteq late \/ ForkTimeouts
  BY DEF Next, RunnerStep, CoordinatorStep, vars, worldVars, countVars, Handler, Resume, OnActive,
     OnCleaning, OnKilling, KillOne, EnterFinalizing, FinalizeTask, StagePlan, StageKilled,
     StageCleaning, ScanOne, ScanData, PickRunnable, LaunchWaiting, LaunchFork, FinalizeFork,
     LaunchFails, EndPlan, PollSome, PollNone, DispatchUpdate, EndCollect, KillSignal, Crash,
     TakeControl, GiveUpControl, ExecCommand, WriteRunning, CommandExits, WriteTerminal,
     CoordinatorExits, CoordinatorDies, ForkOverdue, CoolDown, Expire, Start
<1>2. CASE Start
  BY <1>2, <1>1 DEF Start, Parked, Up
<1>3. CASE WorldStep
  BY <1>1, <1>3, WorldStepEffect DEF Parked, Up
<1> SUFFICES ASSUME Up, ~WorldStep, ~Start PROVE Parked'
  BY <1>2, <1>3, DownStep
<1>4. CASE GoDown
  BY <1>1, <1>4 DEF GoDown, Parked, Up
<1> SUFFICES ASSUME ~GoDown PROVE Parked'
  BY <1>4
<1>5. mem \in RunnerState /\ pc \in RunnerPCs /\ kills \in Nat
  BY DEF TypeOK, ControlOK, WorldOK
<1>6. Up'
  BY <1>5, StepKinds DEF Handler, FinalizeTask, EndStep, LoopStep, OnActive, EnterFinalizing, StageKilled,
     StageCleaning, EndPlan, KillSignal, SetTaskStatus, Up, TypeOK, ControlOK
<1>7. forced' # "none" => kills' > 0
  <2>1. (forced' = forced /\ kills' = kills) \/ kills' = kills + 1
    BY StepKinds DEF Handler, FinalizeTask, EndStep, LoopStep, OnActive, EnterFinalizing, StageKilled,
       StageCleaning, EndPlan, KillSignal, countVars
  <2> QED
    BY <1>5, <2>1 DEF Parked
<1>8. mem'.task \in TerminalTask => pc' \in {"task", "kill"}
  <2> SUFFICES ASSUME mem'.task \in TerminalTask, pc' # "task"
               PROVE  pc' = "kill"
    OBVIOUS
  <2>1. \A task : ~SetTaskStatus(task)
    BY DEF SetTaskStatus
  <2>2. mem.task \in TerminalTask
    <3>1. CASE Handler
      BY <1>5, <3>1, HandleKeeps DEF Handler, TypeOK, ControlOK
    <3>2. CASE OnActive \/ EnterFinalizing
      BY <1>5, <3>2 DEF OnActive, EnterFinalizing, RunnerState
    <3>3. CASE LoopStep
      BY <3>3, CheckpointEffect DEF LoopStep
    <3> QED
      BY <2>1, <3>1, <3>2, <3>3, StepKinds DEF FinalizeTask, EndStep, StageKilled, StageCleaning,
         EndPlan, KillSignal
  <2>3. pc \in {"task", "kill"} /\ mem.task \notin {"ACTIVE", "CLEANING", "FINALIZING"}
    BY <2>2 DEF Parked, TerminalTask
  <2>4. /\ ~Resume /\ ~OnActive /\ ~OnCleaning /\ ~EnterFinalizing /\ ~FinalizeTask /\ ~StagePlan
        /\ ~StageKilled /\ ~StageCleaning /\ ~ScanData /\ ~PickRunnable /\ ~FinalizeFork /\ ~EndPlan
        /\ ~PollSome /\ ~PollNone /\ ~EndCollect /\ ~Crash
        /\ \A p \in Procs : ~ScanOne(p) /\ ~LaunchWaiting(p) /\ ~LaunchFork(p) /\ ~LaunchFails(p)
                            /\ ~DispatchUpdate(p)
        /\ \A status \in {"KILLED", "LOST"} : ~KillSignal(status)
    BY <2>2, <2>3 DEF Ready, Resume, OnActive, OnCleaning, EnterFinalizing, FinalizeTask, StagePlan,
       StageKilled, StageCleaning, ScanData, PickRunnable, FinalizeFork, EndPlan, PollSome, PollNone,
       EndCollect, Crash, ScanOne, LaunchWaiting, LaunchFork, LaunchFails, DispatchUpdate, KillSignal
  <2>5. CASE Handler
    BY <2>3, <2>5 DEF Handler
  <2>6. CASE OnKilling \/ \E p \in Procs : KillOne(p)
    BY <2>3, <2>6 DEF OnKilling, KillOne, Ready
  <2> QED
    BY <2>4, <2>5, <2>6 DEF Next, RunnerStep, WorldStep
<1> QED
  BY <1>1, <1>6, <1>7, <1>8 DEF Parked

\* A successor finds the streams and the log as they were left.
LEMMA StartTrail ==
  ASSUME TypeOK, TypeOK', LogInv, TrailInv, Start
  PROVE  TrailInv'
<1>1. Parked'
  BY NextParked DEF TrailInv, Next
<1> SUFFICES ASSUME Early' PROVE LoopInv'
  BY <1>1 DEF TrailInv
<1>2. /\ ~Up /\ mem = disk /\ mem' = mem /\ pend = NoRec /\ pend' = NoRec /\ disk.ok
      /\ pc' = "task" /\ ret' = "resume" /\ UNCHANGED <<stream, coord, pos, forced>>
      /\ \A p \in Procs : pos[p] = Unbound
  BY DEF Start, Up, TrailInv, Parked, LogInv, worldVars
<1>3. LoopInv
  BY <1>2 DEF TrailInv, Early
<1>4. disk'.proc = disk.proc /\ disk'.tp = disk.tp /\ disk'.ok = disk.ok
  BY DEF Start, ReplayTask, TypeOK, RunnerState
<1>5. Where'
  BY <1>2 DEF Where, Active
<1>6. ASSUME NEW p \in Procs
      PROVE  StreamInv(p)' /\ Tracked(p)' /\ Fresh(p)' /\ Reading(p)'
  <2>1. StreamInv(p)'
    BY <1>2, <1>3, ShrinkStream DEF LoopInv
  <2>2. Tracked(p)'
    BY <1>2, <1>3, <1>4 DEF LoopInv, Tracked
  <2>3. Fresh(p)'
    BY <1>2 DEF Fresh
  <2>4. Reading(p)'
    BY <1>2, <2>1, BindReading
  <2> QED
    BY <2>1, <2>2, <2>3, <2>4
<1> QED
  BY <1>5, <1>6 DEF LoopInv

\* Before the first runner there is nothing to follow.
LEMMA InitTrail == Init => TrailInv
<1> SUFFICES ASSUME Init PROVE TrailInv
  OBVIOUS
<1>1. /\ mem = disk /\ pc = "down" /\ pend = NoRec /\ forced = "none" /\ ~Up /\ late = {} /\ ret = "stage"
      /\ mem.tp = {}
      /\ \A p \in Procs : /\ pos[p] = Unbound /\ stream[p] = <<>> /\ coord[p] = NoCoord
                          /\ mem.proc[p] = NoRun
  BY DEF Init, InitState, Up
<1>2. Parked
  BY <1>1 DEF Parked
<1>3. Where
  BY <1>1 DEF Where, Up, Active
<1>4. ASSUME NEW p \in Procs
      PROVE  StreamInv(p) /\ Tracked(p) /\ Fresh(p) /\ Reading(p)
  <2>1. Len(stream[p]) = 0 /\ Numbers(p) = {}
    BY <1>1 DEF Numbers
  <2>2. RunBooks(p) /\ RunRecords(p) /\ Ascending(p)
    BY <1>1, <2>1 DEF RunBooks, RunRecords, Ascending, NoRun, TerminalProcess
  <2>3. Line(p) /\ Grip(p)
    BY <1>1, <2>1 DEF Line, Grip, NoRun, NoCoord, TerminalProcess
  <2>4. Tracked(p) /\ Fresh(p) /\ Reading(p)
    BY <1>1 DEF Tracked, Fresh, Reading, Active, Open, NoRun
  <2> QED
    BY <2>2, <2>3, <2>4 DEF StreamInv
<1> QED
  BY <1>2, <1>3, <1>4 DEF TrailInv, LoopInv

\* Every step of every runner keeps the trail.
LEMMA NextTrail ==
  ASSUME TypeOK, TypeOK', LogInv, TrailInv, [Next]_vars
  PROVE  TrailInv'
<1>1. Parked'
  BY NextParked DEF TrailInv
<1>2. CASE Start
  BY <1>2, StartTrail
<1>3. ASSUME ~Start, Early'
      PROVE  LoopInv'
  <2>1. Early
    BY <1>3, EarlyBefore
  <2>2. Where'
    BY <1>3, <2>1, NextWhere
  <2>3. ASSUME NEW p \in Procs
        PROVE  StreamInv(p)' /\ Tracked(p)' /\ Fresh(p)' /\ Reading(p)'
    <3>1. StreamInv(p)'
      BY <1>3, <2>1, NextStream
    <3>2. Tracked(p)' /\ Fresh(p)'
      BY <1>3, <2>1, NextTracked, NextFresh
    <3>3. Reading(p)'
      BY <1>3, <2>1, <3>1, NextReading
    <3> QED
      BY <3>1, <3>2, <3>3
  <2> QED
    BY <2>2, <2>3 DEF LoopInv
<1> QED
  BY <1>1, <1>2, <1>3 DEF TrailInv

\* The invariants of the streams, of every runner.
LEMMA AlwaysTrail == Spec => [](TypeOK /\ LogInv /\ TrailInv)
<1>1. Init => LogInv
  BY DEF Init, LogInv, Up
<1>2. TypeOK /\ LogInv /\ [Next]_vars => LogInv'
  BY NextLogInv
<1>3. TypeOK /\ TypeOK' /\ LogInv /\ TrailInv /\ [Next]_vars => TrailInv'
  BY NextTrail
<1> QED
  BY <1>1, <1>2, <1>3, InitTrail, TypeCorrect, PTL DEF Spec

-----------------------------------------------------------------------------
(* LostMeansSilent and StreamInStep. *)

(***************************************************************************)
(* A process whose coordinator died is LOST only when its stream has no    *)
(* record that the runner does not know (is_process_lost: the coordinator  *)
(* first, has_data afterwards), under any number of crashes and restarts   *)
(* and with overdue forks: a run that ended regularly is not run again.    *)
(***************************************************************************)
THEOREM LostCorrect == Spec => []LostMeansSilent
<1>1. LogInv /\ TrailInv => LostMeansSilent
  <2> SUFFICES ASSUME LogInv, TrailInv, NEW p \in Procs, disk.task = "ACTIVE",
                      disk.proc[p].st = "LOST", disk.proc[p].pid, NEW i \in 1..Len(stream[p])
               PROVE  stream[p][i].seq < disk.proc[p].seq
    BY DEF LostMeansSilent
  <2>1. mem.proc = disk.proc /\ mem.task = disk.task
    BY DEF LogInv, TrailInv, Parked
  <2>2. Grip(p)
    BY <2>1 DEF TrailInv, Early, LoopInv, StreamInv
  <2> QED
    BY <2>1, <2>2 DEF Grip, Numbers
<1> QED
  BY <1>1, AlwaysTrail, PTL

(***************************************************************************)
(* What select() yields next is what dispatch expects, after any number of *)
(* crashes, restarts, deaths of coordinators and LOST runs: fast-forward   *)
(* (_fast_forward_stream), would_update and the batch never leave the      *)
(* muxer behind or ahead of the log.  Without overdue forks: a coordinator *)
(* that is declared LOST by LOST_TIMEOUT alone still writes to its stream. *)
(***************************************************************************)
THEOREM StreamCorrect ==
  ASSUME ~ForkTimeouts
  PROVE  Spec => []StreamInStep
<1>1. TypeOK /\ LogInv /\ TrailInv => StreamInStep
  <2> SUFFICES ASSUME TypeOK, LogInv, TrailInv, pc = "poll", pend = NoRec,
                      mem.task # "FINALIZING", kills = 0, NEW p \in Procs, HasData(p)
               PROVE  Dispatchable(mem, [p |-> p, st |-> stream[p][ReadPos(p) + 1].st,
                                         seq |-> stream[p][ReadPos(p) + 1].seq])
    BY DEF StreamInStep
  <2> DEFINE run == mem.proc[p]
             b == ReadPos(p)
             u == stream[p][b + 1]
  <2>1. Up /\ forced = "none" /\ LoopInv
    <3>1. Up
      BY DEF Up
    <3>2. forced = "none" /\ mem.task \notin TerminalTask
      BY <3>1 DEF TrailInv, Parked
    <3> QED
      BY <3>1, <3>2 DEF TrailInv, Early, TypeOK, RunnerState, TaskStates, TerminalTask
  <2>2. p \in mem.tp /\ run.st \in Open /\ ret = "stage"
    BY <2>1 DEF HasData, LoopInv, Tracked, Where
  <2>3. b \in 0..Len(stream[p]) /\ b < Len(stream[p]) /\ Len(stream[p]) \in Nat
    BY ReadPosType, StreamTypes DEF HasData
  <2>4. b + 1 \in 1..Len(stream[p]) /\ b + 1 > b
    BY <2>3
  <2>5. /\ \A i \in 1..Len(stream[p]) : i <= b => stream[p][i].seq <= run.seq
        /\ \A i \in 1..Len(stream[p]) : i > b => stream[p][i].seq > run.seq
    BY <2>1, <2>2 DEF LoopInv, Reading, Read
  <2>6. StreamInv(p)
    BY <2>1 DEF LoopInv
  <2>7. u \in StreamRec /\ u.seq \in Int /\ run.seq \in Int /\ run.base \in Int
    BY <2>4, StreamSeqType, StreamTypes
  <2>8. u.seq > run.seq /\ u.seq \in Numbers(p)
    BY <2>4, <2>5 DEF Numbers
  <2>9. u.seq = run.seq + 1
    <3> SUFFICES ASSUME u.seq > run.seq + 1 PROVE FALSE
      BY <2>7, <2>8
    <3>1. run.seq >= run.base
      BY <2>6 DEF StreamInv, RunBooks
    <3>2. u.seq - 1 \in Numbers(p)
      BY <2>6, <2>7, <2>8, <3>1 DEF StreamInv, Line
    <3>3. PICK i \in 1..Len(stream[p]) : stream[p][i].seq = u.seq - 1
      BY <3>2 DEF Numbers
    <3>4. i < b + 1
      <4>1. ~(b + 1 < i) /\ i # b + 1
        BY <2>4, <2>6, <2>7, <3>3 DEF StreamInv, Ascending
      <4> QED
        BY <2>3, <4>1
    <3>5. i <= b
      BY <2>3, <3>4
    <3> QED
      BY <2>5, <2>7, <3>3, <3>5
  <2>10. run.st \in SourceStates(u.st) /\ u.seq = mem.proc[p].seq + 1
    <3>1. \/ run.st = "WAITING" /\ run.seq = run.base
          \/ run.st = "FORKED" /\ run.seq = run.base + 1
          \/ run.st = "RUNNING" /\ run.seq = run.base + 2
      BY <2>2, <2>6 DEF StreamInv, RunBooks, Open
    <3>2. u.seq > run.base
      BY <2>7, <2>9, <3>1
    <3>3. \/ u.st = "FORKED" /\ u.seq = run.base + 1
          \/ u.st = "RUNNING" /\ u.seq = run.base + 2
          \/ u.st \in {"SUCCESS", "FAILED", "KILLED"} /\ u.seq = run.base + 3
      BY <2>4, <2>6, <3>2 DEF StreamInv, RunRecords
    <3> HIDE DEF run, u
    <3> QED
      BY <2>7, <2>9, <3>1, <3>3 DEF SourceStates, run
  <2> QED
    BY <2>10 DEF Dispatchable
<1> QED
  BY <1>1, AlwaysTrail, PTL
=============================================================================
