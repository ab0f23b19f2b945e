--------------------- MODULE ThermosFirstRunnerProofs ----------------------
(***************************************************************************)
(* What the first runner of a task guarantees, for every task, with any    *)
(* number of crashes of coordinators, retries, signals and LOST runs.      *)
(*                                                                         *)
(* A second runner knows of a run what the first one left on disk, and     *)
(* that is not all there is: see AtMostOneCommand.  Up to then the         *)
(* invariants build on each other:                                         *)
(*                                                                         *)
(*   OneInv      every coordinator, command and record belongs to the last *)
(*               run of its process, and what the runner plans to launch   *)
(*               or to kill is in the state that it takes it to be in;     *)
(*   SurviveInv  what _kill has been through is dead;                      *)
(*   VerdictInv  the task's state follows the plan and the signals;        *)
(*   ActiveInv   a process that lives is running in the eyes of the        *)
(*               planner, or will be before the planner is asked again;    *)
(*   LoadInv     so no more of them live than max_concurrency.             *)
(*                                                                         *)
(* LedgerInv, at the end, is of every runner: what is on record does not   *)
(* depend on what a successor can know, and implements TaskLedger.         *)
(***************************************************************************)
EXTENDS ThermosRunnerProofs

-----------------------------------------------------------------------------
(* Runs: the books, the streams and the world. *)

\* The latest run of p, in the books, in its stream and in the world.
RunInv(p) == RunBooks(p) /\ RunRecords(p) /\ LatestOnly(p)

\* Without a Process object nothing of the process is left.
ObjectInv(p) ==
  /\ p \notin mem.tp => /\ ~Live(p)
                        /\ mem.proc[p].st \in TerminalProcess => mem.proc[p].cpid
  /\ p \in mem.tp => mem.proc[p].st # "NONE"

\* A run that fails before its FORKED record never counted as running.
PendInv ==
  pend # NoRec => /\ pend.st = mem.proc[pend.p].st
                  /\ pend.st = "FAILED" /\ ~mem.proc[pend.p].cpid =>
                       mem.pst[pend.p] # "running"

\* The launches of a pass disturb nobody's runnable status.
LaunchInv ==
  pc \in {"launch", "fork"} =>
    /\ \A p \in work : mem.pst[p] = "runnable"
    /\ pend # NoRec => pend.st \in {"WAITING", "FAILED"} /\ mem.pst[pend.p] = "runnable"
    /\ pc = "fork" => /\ at \in work \intersect mem.tp /\ mem.proc[at].st = "WAITING"
                      /\ pend = NoRec

\* scan_tree finds only pids it was given.
SeenInv == pc = "kill" => \A p \in seen : mem.proc[p].cpid

\* is_process_lost asks for unread records of a process that is RUNNING.
LostInv == pc = "hasdata" => mem.proc[at].st = "RUNNING"

\* The first runner: before it there is nothing, and it knows of everything there is.
OneInv ==
  /\ starts = 0 =>
       ~Up /\ disk = InitState /\ mem = InitState /\ \A p \in Procs : ~Live(p)
  /\ starts <= 1 =>
       /\ \A p \in Procs : RunInv(p)
       /\ Up => (\A p \in Procs : ObjectInv(p)) /\ PendInv /\ LaunchInv /\ SeenInv /\ LostInv

-----------------------------------------------------------------------------
(* RunInv. *)

\* Coordinators and commands only go away.
LEMMA ShrinkRunInv ==
  ASSUME TypeOK, NEW p \in Procs, RunInv(p), mem'.proc[p] = mem.proc[p], stream'[p] = stream[p],
         coord'[p].ph # "none" => coord[p].ph # "none" /\ coord'[p].base = coord[p].base,
         kids'[p] \subseteq kids[p]
  PROVE  RunInv(p)'
BY DEF RunInv, RunBooks, RunRecords, LatestOnly

\* It leaves the latest run the latest.
LEMMA LegalRunInv ==
  ASSUME TypeOK, NEW r \in ProcessRec, LegalRec(r), Checkpoint(r), NEW p \in Procs, RunInv(p),
         UNCHANGED <<stream, coord, kids>>
  PROVE  RunInv(p)'
<1>1. CASE p # r.p
  <2>1. mem'.proc[p] = mem.proc[p]
    BY <1>1, CheckpointEffect
  <2> QED
    BY <2>1, ShrinkRunInv
<1>2. CASE p = r.p
  <2>1. mem'.proc[p].st = r.st /\ mem'.proc[p].base = mem.proc[p].base
    BY <1>2, CheckpointEffect DEF LegalRec
  <2>2. RunBooks(p)' /\ RunRecords(p)'
    BY <1>2, LegalBooks DEF RunInv
  <2>3. LatestOnly(p)'
    BY <2>1 DEF RunInv, LatestOnly, LegalRec, ProcessRec, ProcessStates
  <2> QED
    BY <2>2, <2>3 DEF RunInv
<1> QED
  BY <1>1, <1>2

\* A new run begins where nothing is left of the last one.
LEMMA WaitingRunInv ==
  ASSUME TypeOK, NEW p \in Procs, RunInv(p), ~Live(p),
         mem.proc[p].st \in SourceStates("WAITING"),
         mem.proc[p].st \in TerminalProcess => mem.proc[p].cpid,
         SetProcessStatus(p, "WAITING"), UNCHANGED <<stream, coord, kids>>
  PROVE  RunInv(p)' /\ ~Started(p)' /\ \A q \in Procs \ {p} : mem'.proc[q] = mem.proc[q]
<1> DEFINE old == mem.proc[p]
           new == mem'.proc[p]
<1>1. old \in ProcessRun /\ Rec(p, "WAITING") \in ProcessRec
  BY DEF TypeOK, RunnerState, Rec, ProcessRec, ProcessRun, ProcessStates
<1>2. /\ new.st = "WAITING" /\ new.seq = old.seq + 1 /\ new.base = old.seq + 1
      /\ ~new.cpid /\ ~new.pid
      /\ \A q \in Procs \ {p} : mem'.proc[q] = mem.proc[q]
  BY <1>1, CheckpointEffect DEF SetProcessStatus, Rec
<1>3. old.seq \in Int /\ old.base \in Int
  BY <1>1 DEF ProcessRun
<1>4. \A i \in 1..Len(stream[p]) : stream[p][i].seq \in Int
  BY StreamSeqType
<1>5. \A i \in 1..Len(stream[p]) : stream[p][i].seq <= new.base
  <2>1. CASE old.st = "NONE"
    BY <2>1 DEF RunInv, RunBooks
  <2>2. CASE old.st \in TerminalProcess
    <3>1. old.seq >= old.base + 2
      BY <2>2 DEF RunInv, RunBooks
    <3>2. ASSUME NEW i \in 1..Len(stream[p])
          PROVE  stream[p][i].seq <= old.base + 3
      <4> DEFINE seq == stream[p][i].seq
      <4>1. seq > old.base => seq = old.base + 1 \/ seq = old.base + 2 \/ seq = old.base + 3
        BY <3>2 DEF RunInv, RunRecords
      <4>2. seq \in Int
        BY <1>4, <3>2
      <4> HIDE DEF old, seq
      <4>3. seq <= old.base + 3
        BY <1>3, <4>1, <4>2
      <4> QED
        BY <4>3 DEF seq
    <3>3. new.base \in Int /\ new.base >= old.base + 3
      BY <1>2, <1>3, <3>1
    <3> HIDE DEF old, new
    <3> QED
      BY <1>3, <1>4, <3>2, <3>3
  <2> QED
    BY <2>1, <2>2 DEF SourceStates, TerminalProcess
<1>6. RunBooks(p)'
  BY <1>2, <1>3 DEF RunBooks, TerminalProcess
<1>7. RunRecords(p)' /\ LatestOnly(p)' /\ ~Started(p)'
  BY <1>2, <1>3, <1>4, <1>5 DEF RunRecords, LatestOnly, Live, Started
<1> QED
  BY <1>2, <1>6, <1>7 DEF RunInv

\* A coordinator writes its own next record.
LEMMA WriteRunInv ==
  ASSUME TypeOK, NEW q \in Procs, coord[q].ph # "none", RunInv(q),
         \/ Write(q, "RUNNING", 2)
         \/ \E st \in {"SUCCESS", "FAILED", "KILLED"} : Write(q, st, 3),
         UNCHANGED <<mem, kids>>, coord'[q].base = coord[q].base,
         NEW p \in Procs, RunInv(p), p # q => coord'[p] = coord[p]
  PROVE  RunInv(p)'
<1>1. PICK r \in [st : ProcessStates, seq : Int] :
        /\ stream' = [stream EXCEPT ![q] = Append(@, r)]
        /\ \/ r.st = "RUNNING" /\ r.seq = mem.proc[q].base + 2
           \/ r.st \in {"SUCCESS", "FAILED", "KILLED"} /\ r.seq = mem.proc[q].base + 3
  <2>1. coord[q].base = mem.proc[q].base /\ mem.proc[q].base \in Int
    BY DEF RunInv, LatestOnly, TypeOK, RunnerState, ProcessRun
  <2> QED
    BY <2>1 DEF Write, ProcessStates
<1>2. CASE p # q
  <2>1. stream'[p] = stream[p]
    BY <1>1, <1>2 DEF TypeOK, StreamsOK
  <2> QED
    BY <1>2, <2>1, ShrinkRunInv
<1>3. CASE p = q
  <2>1. stream[p] \in Seq(StreamRec) /\ stream'[p] = Append(stream[p], r)
    BY <1>1, <1>3 DEF TypeOK, StreamsOK
  <2>2. mem.proc[p].st # "NONE"
    BY <1>3 DEF RunInv, LatestOnly
  <2>3. RunBooks(p)' /\ LatestOnly(p)'
    BY <1>3, <2>2 DEF RunInv, RunBooks, LatestOnly
  <2>4. RunRecords(p)'
    <3> SUFFICES ASSUME NEW i \in 1..Len(stream'[p]), stream'[p][i].seq > mem.proc[p].base
                 PROVE  \/ stream'[p][i].st = "FORKED" /\ stream'[p][i].seq = mem.proc[p].base + 1
                        \/ stream'[p][i].st = "RUNNING" /\ stream'[p][i].seq = mem.proc[p].base + 2
                        \/ /\ stream'[p][i].st \in {"SUCCESS", "FAILED", "KILLED"}
                           /\ stream'[p][i].seq = mem.proc[p].base + 3
      BY DEF RunRecords
    <3>1. CASE i = Len(stream[p]) + 1
      BY <1>1, <1>3, <2>1, <3>1
    <3>2. CASE i \in 1..Len(stream[p])
      BY <2>1, <3>2 DEF RunInv, RunRecords
    <3> QED
      BY <2>1, <3>1, <3>2
  <2> QED
    BY <2>3, <2>4 DEF RunInv
<1> QED
  BY <1>2, <1>3

\* The parent writes FORKED for the run it launched.
LEMMA ForkedRunInv ==
  ASSUME TypeOK, FinalizeFork, mem.proc[at].st = "WAITING", NEW p \in Procs, RunInv(p)
  PROVE  RunInv(p)'
<1>1. at \in Procs /\ UNCHANGED <<mem, coord, kids>>
  BY DEF TypeOK, ControlOK, FinalizeFork, Ready
<1> DEFINE r == [st |-> "FORKED", seq |-> mem.proc[at].base + 1]
<1>2. CASE p # at
  <2>1. stream'[p] = stream[p]
    BY <1>1, <1>2 DEF TypeOK, StreamsOK, FinalizeFork
  <2> QED
    BY <1>1, <2>1, ShrinkRunInv
<1>3. CASE p = at
  <2>1. stream[p] \in Seq(StreamRec) /\ stream'[p] = Append(stream[p], r)
    BY <1>1, <1>3 DEF TypeOK, StreamsOK, FinalizeFork
  <2>2. RunBooks(p)' /\ LatestOnly(p)'
    BY <1>1, <1>3 DEF RunInv, RunBooks, LatestOnly
  <2>3. RunRecords(p)'
    <3> SUFFICES ASSUME NEW i \in 1..Len(stream'[p]), stream'[p][i].seq > mem.proc[p].base
                 PROVE  \/ stream'[p][i].st = "FORKED" /\ stream'[p][i].seq = mem.proc[p].base + 1
                        \/ stream'[p][i].st = "RUNNING" /\ stream'[p][i].seq = mem.proc[p].base + 2
                        \/ /\ stream'[p][i].st \in {"SUCCESS", "FAILED", "KILLED"}
                           /\ stream'[p][i].seq = mem.proc[p].base + 3
      BY <1>1 DEF RunRecords
    <3>1. CASE i = Len(stream[p]) + 1
      BY <1>3, <2>1, <3>1
    <3>2. CASE i \in 1..Len(stream[p])
      BY <2>1, <3>2 DEF RunInv, RunRecords
    <3> QED
      BY <2>1, <3>1, <3>2
  <2> QED
    BY <2>2, <2>3 DEF RunInv
<1> QED
  BY <1>2, <1>3

\* Only Start counts a runner.
LEMMA OnlyStartStarts ==
  ASSUME [Next]_vars, ~Start
  PROVE  starts' = starts
BY DEF Next, RunnerStep, CoordinatorStep, vars, countVars, Handler, Resume, OnActive, OnCleaning,
   OnKilling, KillOne, EnterFinalizing, FinalizeTask, StagePlan, StageKilled, StageCleaning,
   ScanOne, ScanData, PickRunnable, LaunchWaiting, LaunchFork, FinalizeFork, LaunchFails, EndPlan,
   PollSome, PollNone, DispatchUpdate, EndCollect, KillSignal, Crash, TakeControl, GiveUpControl,
   ExecCommand, WriteRunning, CommandExits, WriteTerminal, CoordinatorExits, CoordinatorDies,
   ForkOverdue, CoolDown, Expire

\* Every step of the first runner and of the world keeps a run's records in order.
LEMMA NextRunInv ==
  ASSUME TypeOK, LogInv, OneInv, [Next]_vars, starts' <= 1, NEW p \in Procs
  PROVE  RunInv(p)'
<1> DEFINE Same == /\ mem'.proc = mem.proc /\ stream' = stream
                   /\ coord'[p].ph # "none" => coord[p].ph # "none" /\ coord'[p].base = coord[p].base
                   /\ kids'[p] \subseteq kids[p]
<1>1. CASE Start
  <2>1. starts = 0
    BY <1>1 DEF Start, TypeOK, WorldOK
  <2>2. mem' = mem /\ UNCHANGED <<stream, coord, kids>> /\ starts <= 1
    BY <1>1, <2>1 DEF OneInv, Start, worldVars
  <2>3. RunInv(p)
    BY <2>2 DEF OneInv
  <2> QED
    BY <2>2, <2>3, ShrinkRunInv
<1> SUFFICES ASSUME ~Start, starts <= 1
             PROVE  RunInv(p)'
  <2> QED
    BY <1>1, OnlyStartStarts
<1>2. RunInv(p) /\ \A q \in Procs : RunInv(q)
  BY DEF OneInv
<1>3. Up => /\ \A q \in Procs : ObjectInv(q)
            /\ LaunchInv /\ SeenInv /\ LostInv
  BY DEF OneInv
<1>4. ASSUME Same PROVE RunInv(p)'
  BY <1>2, <1>4, ShrinkRunInv
<1>5. ASSUME Up, GoDown, disk' = disk PROVE mem'.proc = mem.proc
  BY <1>5, DownProc
<1>6. CASE Handler
  <2>1. pend \in ProcessRec /\ pend.p \in Procs /\ Up
    BY <1>6 DEF TypeOK, ControlOK, ProcessRec, Handler, LogInv
  <2>2. mem'.proc = mem.proc
    BY <1>5, <1>6, <2>1, HandleKeeps DEF Handler, TypeOK
  <2>3. coord'[p] \in {coord[p], NoCoord} /\ kids'[p] \subseteq kids[p] /\ stream' = stream
    BY <1>6, <2>1, KillProcessEffect DEF Handler
  <2> QED
    BY <1>4, <2>2, <2>3 DEF NoCoord
<1>7. CASE \/ Resume \/ OnKilling \/ StagePlan \/ PickRunnable \/ PollSome \/ PollNone
           \/ EndCollect \/ Expire
  BY <1>4, <1>7 DEF worldVars, Resume, OnKilling, StagePlan, PickRunnable, PollSome, PollNone,
     EndCollect, Expire
<1>8. CASE OnActive \/ EnterFinalizing
  BY <1>4, <1>8 DEF worldVars, OnActive, EnterFinalizing, TypeOK, RunnerState
<1>9. CASE OnCleaning
  BY <1>4, <1>9 DEF OnCleaning, TerminateOrphans, NoCoord
<1>10. CASE FinalizeTask \/ Crash
  BY <1>4, <1>5, <1>10 DEF worldVars, FinalizeTask, Crash, Ready, Up
<1>11. CASE \/ StageKilled \/ StageCleaning \/ EndPlan
  <2>1. UNCHANGED worldVars /\ (mem' = mem \/ \E task : SetTaskStatus(task))
    BY <1>11 DEF StageKilled, StageCleaning, EndPlan
  <2>2. mem'.proc = mem.proc
    BY <2>1 DEF SetTaskStatus, TypeOK, RunnerState
  <2> QED
    BY <1>4, <2>1, <2>2 DEF worldVars
<1>12. ASSUME NEW q \in Procs, NEW st \in {"LOST", "KILLED", "FAILED"}, SetProcessStatus(q, st),
             \/ st = "LOST" /\ mem.proc[q].st \in {"FORKED", "RUNNING"}
             \/ st = "FAILED" /\ mem.proc[q].st = "WAITING"
             \/ st = "KILLED" /\ mem.proc[q].st \notin TerminalProcess /\ mem.proc[q].cpid,
             UNCHANGED <<stream, coord, kids>>
      PROVE  RunInv(p)'
  <2>1. Rec(q, st) \in ProcessRec /\ LegalRec(Rec(q, st))
    BY <1>2, <1>12, OwnRecLegal DEF RunInv
  <2> QED
    BY <1>2, <1>12, <2>1, LegalRunInv DEF SetProcessStatus
<1>13. CASE ScanData
  <2>1. at \in Procs /\ mem.proc[at].st = "RUNNING" /\ UNCHANGED <<stream, coord, kids>>
    BY <1>3, <1>13 DEF worldVars, ScanData, TypeOK, ControlOK, Ready, Up, LostInv
  <2> QED
    BY <1>4, <1>12, <1>13, <2>1 DEF ScanData
<1>14. ASSUME NEW q \in Procs, KillOne(q)
       PROVE  RunInv(p)'
  <2>1. Up
    BY <1>14 DEF KillOne, Ready, Up
  <2>2. CASE KillProcess(q) /\ UNCHANGED <<disk, mem, pend>>
    BY <1>4, <1>14, <2>2, KillProcessEffect DEF KillOne, NoCoord
  <2>3. q \in seen => mem.proc[q].cpid
    BY <1>3, <1>14, <2>1 DEF SeenInv, KillOne, Ready
  <2> QED
    BY <1>4, <1>12, <1>14, <2>2, <2>3 DEF KillOne
<1>15. ASSUME NEW q \in Procs, ScanOne(q) \/ LaunchFails(q)
       PROVE  RunInv(p)'
  BY <1>4, <1>12, <1>15 DEF worldVars, ScanOne, LaunchFails
<1>16. ASSUME NEW q \in Procs, LaunchWaiting(q)
       PROVE  RunInv(p)'
  <2>1. Up /\ UNCHANGED <<stream, coord, kids>> /\ q \notin mem.tp
    BY <1>16 DEF LaunchWaiting, Ready, Up, worldVars
  <2>2. CASE GoDown /\ disk' = disk
    BY <1>4, <1>5, <2>1, <2>2
  <2>3. CASE SetProcessStatus(q, "WAITING") /\ mem.proc[q].st \in SourceStates("WAITING")
    <3>1. RunInv(q)' /\ \A x \in Procs \ {q} : mem'.proc[x] = mem.proc[x]
      BY <1>2, <1>3, <2>1, <2>3, WaitingRunInv DEF ObjectInv
    <3>2. CASE p # q
      BY <1>2, <2>1, <3>1, <3>2, ShrinkRunInv
    <3> QED
      BY <3>1, <3>2
  <2> QED
    BY <1>16, <2>2, <2>3 DEF LaunchWaiting
<1>17. ASSUME NEW q \in Procs, LaunchFork(q)
       PROVE  RunInv(p)'
  <2>1. Up /\ UNCHANGED <<stream, kids>>
    BY <1>17 DEF LaunchFork, Ready, Up
  <2>2. CASE GoDown /\ disk' = disk /\ UNCHANGED coord
    BY <1>4, <1>5, <2>1, <2>2
  <2>3. CASE /\ mem' = mem /\ mem.proc[q].st = "WAITING"
             /\ coord' = [coord EXCEPT ![q] =
                            [ph |-> "await", base |-> mem.proc[q].base, by |-> starts]]
    BY <1>2, <2>1, <2>3 DEF RunInv, RunBooks, RunRecords, LatestOnly, TypeOK, WorldOK
  <2> QED
    BY <1>17, <2>2, <2>3 DEF LaunchFork
<1>18. CASE FinalizeFork
  BY <1>2, <1>3, <1>18, ForkedRunInv DEF LaunchInv, FinalizeFork, Ready, Up
<1>19. ASSUME NEW q \in Procs, DispatchUpdate(q)
       PROVE  RunInv(p)'
  <2> DEFINE r == [p |-> q, st |-> stream[q][nxt[q] + 1].st, seq |-> stream[q][nxt[q] + 1].seq]
  <2>1. Up /\ UNCHANGED <<stream, coord, kids>>
    BY <1>19 DEF DispatchUpdate, Ready, Up, worldVars
  <2>2. nxt[q] + 1 \in 1..Len(stream[q]) /\ r \in ProcessRec
    BY <1>19, DispatchedType DEF DispatchUpdate
  <2>3. (Checkpoint(r) /\ Dispatchable(mem, r)) \/ (GoDown /\ disk' = disk)
    BY <1>19 DEF DispatchUpdate
  <2>4. CASE GoDown /\ disk' = disk
    BY <1>4, <1>5, <2>1, <2>4
  <2>5. CASE Checkpoint(r) /\ Dispatchable(mem, r)
    <3>1. LegalRec(r)
      BY <1>2, <2>2, <2>5, StreamRecLegal DEF RunInv
    <3> HIDE DEF r
    <3> QED
      BY <1>2, <2>1, <2>2, <2>5, <3>1, LegalRunInv
  <2> QED
    BY <2>3, <2>4, <2>5
<1>20. ASSUME NEW status \in {"KILLED", "LOST"}, KillSignal(status)
       PROVE  RunInv(p)'
  <2>1. UNCHANGED <<stream, coord, kids>> /\ Up
    BY <1>20 DEF KillSignal, worldVars
  <2>2. mem'.proc = mem.proc
    BY <1>5, <1>20, <2>1 DEF KillSignal, SetTaskStatus, TypeOK, RunnerState
  <2> QED
    BY <1>4, <2>1, <2>2
<1>21. ASSUME NEW q \in Procs,
              \/ TakeControl(q) \/ GiveUpControl(q) \/ CoordinatorExits(q)
              \/ CommandExits(q) \/ CoordinatorDies(q) \/ ForkOverdue(q) \/ CoolDown(q)
       PROVE  RunInv(p)'
  BY <1>4, <1>21 DEF runnerVars, worldVars, NoCoord, TypeOK, WorldOK, TakeControl, GiveUpControl,
     CoordinatorExits, CommandExits, CoordinatorDies, ForkOverdue, CoolDown
<1>22. ASSUME NEW q \in Procs, ExecCommand(q)
       PROVE  RunInv(p)'
  BY <1>2, <1>22 DEF runnerVars, TypeOK, WorldOK, ExecCommand, RunInv, RunBooks, RunRecords,
     LatestOnly
<1>23. ASSUME NEW q \in Procs,
              WriteRunning(q) \/ \E st \in {"SUCCESS", "FAILED", "KILLED"} : WriteTerminal(q, st)
       PROVE  RunInv(p)'
  <2>1. /\ coord[q].ph # "none" /\ UNCHANGED <<mem, kids>>
        /\ coord'[q].base = coord[q].base /\ (p # q => coord'[p] = coord[p])
    BY <1>23 DEF runnerVars, TypeOK, WorldOK, WriteRunning, WriteTerminal
  <2>2. \/ Write(q, "RUNNING", 2)
        \/ \E st \in {"SUCCESS", "FAILED", "KILLED"} : Write(q, st, 3)
    BY <1>23 DEF WriteRunning, WriteTerminal
  <2> QED
    BY <1>2, <2>1, <2>2, WriteRunInv
<1>24. CASE UNCHANGED vars
  BY <1>4, <1>24 DEF vars, runnerVars, worldVars
<1> QED
  BY <1>6, <1>7, <1>8, <1>9, <1>10, <1>11, <1>13, <1>14, <1>15, <1>16, <1>17, <1>18, <1>19, <1>20,
     <1>21, <1>22, <1>23, <1>24 DEF Next, RunnerStep, CoordinatorStep

-----------------------------------------------------------------------------
(* The books of a runner that is up. *)

\* The part of OneInv about a runner that is up.
UpInv ==
  (\A p \in Procs : ObjectInv(p)) /\ PendInv /\ LaunchInv /\ SeenInv /\ LostInv

\* Steps of the coordinators, of the commands and of time.
LEMMA WorldUpInv ==
  ASSUME TypeOK, UpInv,
         UNCHANGED <<mem, pc, pend, work, at, seen>>,
         \A p \in Procs : Live(p)' => Live(p)
  PROVE  UpInv'
BY DEF UpInv, ObjectInv, PendInv, LaunchInv, SeenInv, LostInv

\* Steps of the runner that touch neither the process states nor the plan's books.
LEMMA QuietUpInv ==
  ASSUME TypeOK, UpInv, pend = NoRec, pend' = NoRec,
         mem'.proc = mem.proc, mem'.tp = mem.tp, mem'.pst = mem.pst,
         \A p \in Procs : Live(p)' => Live(p),
         pc' \in {"launch", "fork"} =>
           /\ \A p \in work' : mem.pst[p] = "runnable"
           /\ pc' = "fork" => at' \in work' \intersect mem.tp /\ mem.proc[at'].st = "WAITING",
         pc' = "kill" => \A p \in seen' : mem.proc[p].cpid,
         pc' = "hasdata" => mem.proc[at'].st = "RUNNING"
  PROVE  UpInv'
BY DEF UpInv, ObjectInv, PendInv, LaunchInv, SeenInv, LostInv

\* Steps that checkpoint a record and stay where no process is being launched.
LEMMA CheckpointUpInv ==
  ASSUME TypeOK, UpInv, NEW r \in ProcessRec, LegalRec(r), Checkpoint(r), RunBooks(r.p),
         r.st = "FAILED" /\ ~mem.proc[r.p].cpid => mem.pst[r.p] = "runnable" /\ r.p \in mem.tp,
         UNCHANGED <<coord, kids>>,
         pc' \in {"launch", "fork"} =>
           /\ pc' = pc /\ work' \subseteq work /\ pc = "launch"
           /\ r.st \in {"WAITING", "FAILED"} /\ mem.pst[r.p] = "runnable",
         pc' = "kill" => pc = "kill" /\ seen' = seen,
         pc' # "hasdata"
  PROVE  UpInv'
<1>1. \A p \in Procs : ObjectInv(p)'
  <2> SUFFICES ASSUME NEW p \in Procs PROVE ObjectInv(p)'
    OBVIOUS
  <2>1. mem'.tp = mem.tp /\ (Live(p)' <=> Live(p))
    BY CheckpointEffect DEF Live
  <2>2. CASE p # r.p
    BY <2>1, <2>2, CheckpointEffect DEF UpInv, ObjectInv
  <2>3. CASE p = r.p
    <3>1. mem'.proc[p].st = r.st /\ mem'.proc[p].cpid = (mem.proc[p].cpid \/ r.st = "FORKED")
      BY <2>3, CheckpointEffect DEF LegalRec
    <3>2. r.st \in ProcessStates \ {"WAITING"} /\ mem.proc[p].st \in SourceStates(r.st)
      BY <2>3 DEF LegalRec, ProcessRec
    <3>3. r.st \in {"SUCCESS", "KILLED", "LOST"} => mem.proc[p].cpid
      BY <2>3, <3>2, Sources DEF RunBooks
    <3> QED
      BY <2>1, <2>3, <3>1, <3>2, <3>3 DEF UpInv, ObjectInv, ProcessStates, TerminalProcess
  <2> QED
    BY <2>2, <2>3
<1>2. PendInv'
  <2>1. pend' = r /\ mem'.proc[r.p].st = r.st /\ mem'.pst = mem.pst
    BY CheckpointEffect
  <2>2. r.st = "FAILED" => mem'.proc[r.p].cpid = (mem.proc[r.p].cpid \/ FALSE)
    BY CheckpointEffect
  <2> QED
    BY <2>1, <2>2 DEF PendInv
<1>3. LaunchInv'
  BY CheckpointEffect DEF UpInv, LaunchInv
<1>4. SeenInv'
  <2> SUFFICES ASSUME pc' = "kill", NEW p \in seen PROVE mem'.proc[p].cpid
    BY DEF SeenInv
  <2>1. p \in Procs /\ mem.proc[p].cpid
    BY DEF UpInv, SeenInv, TypeOK, ControlOK
  <2> QED
    BY <2>1, CheckpointEffect DEF LegalRec
<1> QED
  BY <1>1, <1>2, <1>3, <1>4 DEF UpInv, LostInv

\* A handler that does not raise.
LEMMA HandlerUpInv ==
  ASSUME TypeOK, LogInv, UpInv, \A p \in Procs : RunInv(p), Handler, Up'
  PROVE  UpInv'
<1> DEFINE r == pend
           s == HandleProcess(mem, r)
<1>1. r \in ProcessRec /\ r.p \in Procs /\ r # NoRec
  BY DEF TypeOK, ControlOK, ProcessRec, Handler
<1>2. s.ok
  BY DEF Handler, GoDown, Up
<1>3. /\ mem' = s /\ pend' = NoRec /\ UNCHANGED <<pc, work, at, seen>>
      /\ IF r.st \in TerminalProcess THEN KillProcess(r.p) ELSE UNCHANGED <<coord, kids>>
  BY <1>2 DEF Handler
<1>4. s.proc = mem.proc
  BY <1>1, HandleKeeps DEF TypeOK
<1>5. /\ r.st = "WAITING" => r.p \notin mem.tp /\ s.tp = mem.tp \union {r.p} /\ s.pst = mem.pst
      /\ r.st \in {"FORKED", "RUNNING"} => s.tp = mem.tp
      /\ r.st \in TerminalProcess =>
           r.p \in mem.tp /\ s.tp = mem.tp \ {r.p} /\ mem.pst[r.p] = "running"
  BY <1>1, <1>2, HandleEffect DEF TypeOK
<1>6. r.st \in {"WAITING", "FORKED", "RUNNING"} \union TerminalProcess
  BY <1>1 DEF ProcessRec, ProcessStates, TerminalProcess
<1>7. mem.proc[r.p].st = r.st /\ (r.st = "FAILED" /\ ~mem.proc[r.p].cpid => mem.pst[r.p] # "running")
  BY <1>1 DEF UpInv, PendInv
<1> HIDE DEF r, s
<1>8. r.st \in TerminalProcess => mem.proc[r.p].cpid
  BY <1>1, <1>5, <1>7 DEF RunInv, RunBooks, TerminalProcess
<1>9. \A p \in Procs : Live(p)' => Live(p)
  BY <1>1, <1>3, KillProcessEffect DEF Live, NoCoord
<1>10. r.st \in TerminalProcess => coord'[r.p].ph = "none" /\ kids'[r.p] = {}
  <2> SUFFICES ASSUME r.st \in TerminalProcess
               PROVE  coord'[r.p].ph = "none" /\ kids'[r.p] = {}
    OBVIOUS
  <2>1. r.p \in Procs /\ RunInv(r.p) /\ KillProcess(r.p)
    BY <1>1, <1>3
  <2>2. LatestOnly(r.p) /\ mem.proc[r.p].cpid
    BY <1>8, <2>1 DEF RunInv
  <2> QED
    BY <2>1, <2>2, KillProcessEffect
<1>11. \A p \in Procs : ObjectInv(p)'
  <2> SUFFICES ASSUME NEW p \in Procs PROVE ObjectInv(p)'
    OBVIOUS
  <2>1. CASE p # r.p
    <3>1. p \in mem'.tp <=> p \in mem.tp
      BY <1>3, <1>5, <1>6, <2>1
    <3>2. mem'.proc[p] = mem.proc[p] /\ ObjectInv(p) /\ (Live(p)' => Live(p))
      BY <1>3, <1>4, <1>9 DEF UpInv
    <3> QED
      BY <3>1, <3>2 DEF ObjectInv
  <2>2. CASE p = r.p /\ r.st = "WAITING"
    BY <1>3, <1>4, <1>5, <1>7, <2>2 DEF UpInv, ObjectInv
  <2>3. CASE p = r.p /\ r.st \in {"FORKED", "RUNNING"}
    BY <1>3, <1>4, <1>5, <1>9, <2>3 DEF UpInv, ObjectInv
  <2>4. CASE p = r.p /\ r.st \in TerminalProcess
    BY <1>3, <1>4, <1>5, <1>7, <1>8, <1>10, <2>4 DEF ObjectInv, Live
  <2> QED
    BY <1>6, <2>1, <2>2, <2>3, <2>4
<1>12. LaunchInv'
  <2> SUFFICES ASSUME pc \in {"launch", "fork"} PROVE LaunchInv'
    BY <1>3 DEF LaunchInv
  <2>1. r.st \in {"WAITING", "FAILED"} /\ mem.pst[r.p] = "runnable" /\ pc # "fork"
    BY <1>1 DEF UpInv, LaunchInv, r
  <2>2. r.st = "WAITING"
    BY <1>5, <2>1 DEF TerminalProcess
  <2> QED
    BY <1>3, <1>5, <2>1, <2>2 DEF UpInv, LaunchInv
<1>13. PendInv' /\ SeenInv' /\ LostInv'
  BY <1>3, <1>4 DEF UpInv, PendInv, SeenInv, LostInv
<1> QED
  BY <1>11, <1>12, <1>13 DEF UpInv

\* Every step that leaves the first runner up.
LEMMA NextUpInv ==
  ASSUME TypeOK, LogInv, OneInv, [Next]_vars, starts' <= 1, Up'
  PROVE  UpInv'
<1>1. CASE Start
  <2>1. starts = 0
    BY <1>1 DEF Start, TypeOK, WorldOK
  <2>2. /\ mem' = InitState /\ pc' = "task" /\ pend' = NoRec
        /\ \A p \in Procs : ~Live(p)'
    BY <1>1, <2>1 DEF OneInv, Start, worldVars, LogInv, Live
  <2>3. \A p \in Procs : mem'.proc[p] = NoRun /\ p \notin mem'.tp
    BY <2>2 DEF InitState
  <2> QED
    BY <2>2, <2>3 DEF UpInv, ObjectInv, PendInv, LaunchInv, SeenInv, LostInv, NoRun, TerminalProcess
<1> SUFFICES ASSUME ~Start, starts <= 1
             PROVE  UpInv'
  BY <1>1, OnlyStartStarts
<1>2. \A p \in Procs : RunInv(p)
  BY DEF OneInv
<1>3. Up => UpInv
  BY DEF OneInv, UpInv
<1>4. ASSUME GoDown PROVE FALSE
  BY <1>4 DEF GoDown, Up
<1>5. CASE Handler
  BY <1>2, <1>3, <1>5, HandlerUpInv DEF LogInv, Handler
<1>6. CASE \/ Resume \/ StagePlan \/ PollSome \/ PollNone \/ EndCollect
           \/ StageKilled \/ StageCleaning \/ EndPlan \/ OnActive \/ EnterFinalizing
  <2>1. /\ Up /\ pend = NoRec /\ pend' = NoRec /\ UNCHANGED <<coord, kids>>
        /\ pc' \notin {"launch", "fork", "kill", "hasdata"}
    BY <1>6 DEF worldVars, Ready, Up, Resume, StagePlan, PollSome, PollNone, EndCollect,
       StageKilled, StageCleaning, EndPlan, OnActive, EnterFinalizing, SetTaskStatus, TypeOK,
       ControlOK
  <2>2. mem' = mem \/ (\E t : mem' = [mem EXCEPT !.task = t]) \/ (\E x : mem' = [mem EXCEPT !.plan = x])
    BY <1>6 DEF Resume, StagePlan, PollSome, PollNone, EndCollect, StageKilled, StageCleaning,
       EndPlan, OnActive, EnterFinalizing, SetTaskStatus
  <2>3. mem'.proc = mem.proc /\ mem'.tp = mem.tp /\ mem'.pst = mem.pst
    BY <2>2 DEF TypeOK, RunnerState
  <2> QED
    BY <1>3, <2>1, <2>3, QuietUpInv DEF Live
<1>7. CASE OnCleaning
  <2>1. /\ Up /\ pend = NoRec /\ pend' = NoRec /\ mem' = mem
        /\ pc' \notin {"launch", "fork", "kill", "hasdata"}
    BY <1>7 DEF OnCleaning, Ready, Up, TypeOK, ControlOK
  <2>2. \A p \in Procs : Live(p)' => Live(p)
    BY <1>7 DEF OnCleaning, TerminateOrphans, Live, NoCoord
  <2> QED
    BY <1>3, <2>1, <2>2, QuietUpInv
<1>8. CASE OnKilling
  <2>1. /\ Up /\ pend = NoRec /\ pend' = NoRec /\ mem' = mem /\ UNCHANGED <<coord, kids>>
        /\ pc' = "kill"
    BY <1>8 DEF OnKilling, Ready, Up, worldVars
  <2>2. \A p \in seen' : mem.proc[p].cpid
    BY <1>2, <1>8 DEF OnKilling, PidsSeen, CoordinatorSeen, ProcessSeen, RunInv, RunBooks
  <2> QED
    BY <1>3, <2>1, <2>2, QuietUpInv DEF Live
<1>9. CASE FinalizeTask \/ Crash
  BY <1>4, <1>9 DEF FinalizeTask, Crash
<1>10. CASE PickRunnable
  <2>1. /\ Up /\ pend = NoRec /\ pend' = NoRec /\ mem' = mem /\ UNCHANGED <<coord, kids>>
        /\ pc' = "launch"
    BY <1>10 DEF PickRunnable, Ready, Up, worldVars
  <2>2. \A p \in work' : mem.pst[p] = "runnable"
    BY <1>10 DEF PickRunnable, Runnable
  <2> QED
    BY <1>3, <2>1, <2>2, QuietUpInv DEF Live
<1>11. CASE FinalizeFork
  <2>1. /\ Up /\ pend = NoRec /\ pend' = NoRec /\ mem' = mem /\ UNCHANGED <<coord, kids>>
        /\ pc = "fork" /\ pc' = "launch" /\ work' \subseteq work
    BY <1>11 DEF FinalizeFork, Ready, Up
  <2> QED
    BY <1>3, <2>1, QuietUpInv DEF Live, UpInv, LaunchInv
<1>12. ASSUME NEW q \in Procs, LaunchFork(q)
       PROVE  UpInv'
  <2>1. /\ Up /\ pend = NoRec /\ pend' = NoRec /\ mem' = mem /\ UNCHANGED kids
        /\ pc = "launch" /\ pc' = "fork" /\ UNCHANGED work
        /\ at' = q /\ q \in work \intersect mem.tp /\ mem.proc[q].st = "WAITING"
        /\ \A p \in Procs \ {q} : coord'[p] = coord[p]
    BY <1>4, <1>12 DEF LaunchFork, Ready, Up, TypeOK, WorldOK
  <2>2. \A p \in Procs : ObjectInv(p)'
    BY <1>3, <2>1 DEF UpInv, ObjectInv, Live
  <2> QED
    BY <1>3, <2>1, <2>2 DEF UpInv, PendInv, LaunchInv, SeenInv, LostInv
<1>13. ASSUME NEW q \in Procs, LaunchWaiting(q)
       PROVE  UpInv'
  <2>1. /\ Up /\ pend = NoRec /\ UNCHANGED <<coord, kids, pc, work, at, seen>>
        /\ pc = "launch" /\ q \in work \ mem.tp /\ SetProcessStatus(q, "WAITING")
    BY <1>4, <1>13 DEF LaunchWaiting, Ready, Up, worldVars
  <2>2. Rec(q, "WAITING") \in ProcessRec
    BY DEF TypeOK, RunnerState, ProcessRun, Rec, ProcessRec, ProcessStates
  <2>3. /\ pend' = Rec(q, "WAITING") /\ mem'.tp = mem.tp /\ mem'.pst = mem.pst
        /\ mem'.proc[q].st = "WAITING" /\ \A p \in Procs \ {q} : mem'.proc[p] = mem.proc[p]
    BY <2>1, <2>2, CheckpointEffect DEF SetProcessStatus, Rec
  <2>4. \A p \in Procs : ObjectInv(p)'
    BY <1>3, <2>1, <2>3 DEF UpInv, ObjectInv, Live, TerminalProcess
  <2> QED
    BY <1>3, <2>1, <2>3, <2>4 DEF UpInv, PendInv, LaunchInv, SeenInv, LostInv, Rec
<1>14. ASSUME NEW q \in Procs, NEW st \in {"LOST", "KILLED", "FAILED"}, SetProcessStatus(q, st), Up,
             \/ st = "LOST" /\ mem.proc[q].st \in {"FORKED", "RUNNING"}
             \/ st = "FAILED" /\ mem.proc[q].st = "WAITING" /\ pc = "launch"
                /\ q \in work \intersect mem.tp
             \/ st = "KILLED" /\ mem.proc[q].st \notin TerminalProcess /\ mem.proc[q].cpid,
             UNCHANGED <<coord, kids>>,
             pc' \in {"launch", "fork"} => pc' = pc /\ st = "FAILED" /\ work' \subseteq work,
             pc' = "kill" => pc = "kill" /\ seen' = seen,
             pc' # "hasdata"
       PROVE  UpInv'
  <2>1. Rec(q, st) \in ProcessRec /\ LegalRec(Rec(q, st)) /\ RunBooks(q)
    BY <1>2, <1>14, OwnRecLegal DEF RunInv
  <2>2. st = "FAILED" => mem.pst[q] = "runnable" /\ q \in mem.tp /\ pc = "launch"
    BY <1>3, <1>14 DEF UpInv, LaunchInv
  <2>3. Rec(q, st).p = q /\ Rec(q, st).st = st
    BY DEF Rec
  <2> QED
    BY <1>3, <1>14, <2>1, <2>2, <2>3, CheckpointUpInv DEF SetProcessStatus
<1>15. CASE ScanData
  <2>1. /\ Up /\ at \in Procs /\ UNCHANGED <<coord, kids>> /\ pc' = "scan" /\ pend = NoRec
    BY <1>15 DEF ScanData, Ready, Up, worldVars, TypeOK, ControlOK
  <2>2. mem.proc[at].st = "RUNNING"
    BY <1>3, <1>15, <2>1 DEF ScanData, Ready, UpInv, LostInv
  <2>3. CASE UNCHANGED <<disk, mem, pend>>
    BY <1>3, <2>1, <2>3, QuietUpInv DEF Live
  <2>4. CASE SetProcessStatus(at, "LOST")
    BY <1>14, <2>1, <2>2, <2>4
  <2> QED
    BY <1>15, <2>3, <2>4 DEF ScanData
<1>16. ASSUME NEW q \in Procs, ScanOne(q)
       PROVE  UpInv'
  <2>1. /\ Up /\ UNCHANGED <<coord, kids>> /\ pend = NoRec /\ pc = "scan"
    BY <1>16 DEF ScanOne, Ready, Up, worldVars
  <2>2. CASE UNCHANGED <<disk, mem, pend>>
    BY <1>3, <1>16, <2>1, <2>2, QuietUpInv DEF ScanOne, Live
  <2>3. CASE SetProcessStatus(q, "LOST") /\ mem.proc[q].st = "FORKED" /\ UNCHANGED pc
    BY <1>14, <2>1, <2>3
  <2> QED
    BY <1>16, <2>2, <2>3 DEF ScanOne
<1>17. ASSUME NEW q \in Procs, LaunchFails(q)
       PROVE  UpInv'
  BY <1>14, <1>17 DEF LaunchFails, Ready, Up, worldVars
<1>18. ASSUME NEW q \in Procs, KillOne(q)
       PROVE  UpInv'
  <2>1. Up /\ pend = NoRec /\ pc = "kill" /\ UNCHANGED <<pc, seen>>
    BY <1>18 DEF KillOne, Ready, Up
  <2>2. CASE KillProcess(q) /\ UNCHANGED <<disk, mem, pend>>
    BY <1>3, <2>1, <2>2, KillProcessEffect, QuietUpInv DEF Live, NoCoord, UpInv, SeenInv
  <2>3. CASE UNCHANGED <<disk, mem, pend, coord, kids>>
    BY <1>3, <2>1, <2>3, QuietUpInv DEF Live, UpInv, SeenInv
  <2>4. q \in seen => mem.proc[q].cpid
    BY <1>3, <2>1 DEF UpInv, SeenInv
  <2> QED
    BY <1>14, <1>18, <2>1, <2>2, <2>3, <2>4 DEF KillOne
<1>19. ASSUME NEW q \in Procs, DispatchUpdate(q)
       PROVE  UpInv'
  <2> DEFINE r == [p |-> q, st |-> stream[q][nxt[q] + 1].st, seq |-> stream[q][nxt[q] + 1].seq]
  <2>1. Up /\ UNCHANGED <<coord, kids, pc>> /\ pc = "collect"
    BY <1>4, <1>19 DEF DispatchUpdate, Ready, Up, worldVars
  <2>2. nxt[q] + 1 \in 1..Len(stream[q]) /\ r \in ProcessRec
    BY <1>19, DispatchedType DEF DispatchUpdate
  <2>3. Checkpoint(r) /\ Dispatchable(mem, r)
    BY <1>4, <1>19 DEF DispatchUpdate
  <2>4. LegalRec(r) /\ (r.st = "FAILED" => mem.proc[q].cpid) /\ RunBooks(q) /\ r.p = q
    BY <1>2, <2>2, <2>3, StreamRecLegal DEF RunInv
  <2> HIDE DEF r
  <2> QED
    BY <1>3, <2>1, <2>2, <2>3, <2>4, CheckpointUpInv
<1>20. ASSUME NEW status \in {"KILLED", "LOST"}, KillSignal(status)
       PROVE  UpInv'
  <2>1. /\ Up /\ UNCHANGED <<coord, kids>> /\ pend' = NoRec /\ pc' = "task"
        /\ mem' = [mem EXCEPT !.task = mem.task]
    BY <1>4, <1>20 DEF KillSignal, worldVars, SetTaskStatus
  <2>2. mem'.proc = mem.proc /\ mem'.tp = mem.tp /\ mem'.pst = mem.pst
    BY <2>1 DEF TypeOK, RunnerState
  <2> QED
    BY <1>3, <2>1, <2>2 DEF UpInv, ObjectInv, PendInv, LaunchInv, SeenInv, LostInv, Live
<1>21. ASSUME NEW q \in Procs,
              \/ TakeControl(q) \/ GiveUpControl(q) \/ ExecCommand(q) \/ WriteRunning(q)
              \/ CoordinatorExits(q) \/ CommandExits(q) \/ CoordinatorDies(q)
              \/ ForkOverdue(q) \/ CoolDown(q)
              \/ \E st \in {"SUCCESS", "FAILED", "KILLED"} : WriteTerminal(q, st)
       PROVE  UpInv'
  <2>1. UNCHANGED <<mem, pc, pend, work, at, seen>> /\ Up
    BY <1>21 DEF runnerVars, TakeControl, GiveUpControl, ExecCommand, WriteRunning,
       CoordinatorExits, CommandExits, CoordinatorDies, ForkOverdue, CoolDown, WriteTerminal, Up
  <2>2. \A p \in Procs : Live(p)' => Live(p)
    BY <1>21 DEF worldVars, TypeOK, WorldOK, Live, NoCoord, TakeControl, GiveUpControl,
       ExecCommand, WriteRunning, CoordinatorExits, CommandExits, CoordinatorDies, ForkOverdue,
       CoolDown, WriteTerminal
  <2> QED
    BY <1>3, <2>1, <2>2, WorldUpInv
<1>22. CASE UNCHANGED vars \/ Expire
  BY <1>3, <1>22, WorldUpInv DEF vars, runnerVars, worldVars, Expire, Live, Up
<1> QED
  BY <1>5, <1>6, <1>7, <1>8, <1>9, <1>10, <1>11, <1>12, <1>13, <1>15, <1>16, <1>17, <1>18, <1>19,
     <1>20, <1>21, <1>22 DEF Next, RunnerStep, CoordinatorStep

-----------------------------------------------------------------------------
(* Every step, and AtMostOneCommand. *)

\* Every step keeps OneInv.
LEMMA NextOneInv ==
  ASSUME TypeOK, LogInv, OneInv, [Next]_vars
  PROVE  OneInv'
<1>1. ASSUME starts' <= 1
      PROVE  (\A p \in Procs : RunInv(p)') /\ (Up' => UpInv')
  BY <1>1, NextRunInv, NextUpInv
<1>2. ASSUME starts' = 0
      PROVE  ~Start /\ starts = 0
  <2>1. ~Start
    BY <1>2 DEF Start, TypeOK, WorldOK
  <2> QED
    BY <1>2, <2>1, OnlyStartStarts
<1>3. ASSUME starts' = 0
      PROVE  ~Up' /\ disk' = InitState /\ mem' = InitState /\ \A p \in Procs : ~Live(p)'
  <2>1. WorldStep /\ ~Up /\ disk = InitState /\ mem = InitState /\ \A p \in Procs : ~Live(p)
    BY <1>2, <1>3, DownStep DEF OneInv
  <2> QED
    BY <2>1, WorldStepEffect DEF Up
<1> QED
  BY <1>1, <1>3 DEF OneInv, UpInv

\* Together with the type invariant, everything above.
BaseInv == TypeOK /\ LogInv /\ OneInv

\* BaseInv is inductive.
LEMMA NextBaseInv == BaseInv /\ [Next]_vars => BaseInv'
BY NextStatesOK, NextControlOK, NextStreamsOK, NextWorldOK, NextLogInv, NextOneInv DEF BaseInv, TypeOK

\* Initially there is no run.
LEMMA InitBaseInv == Init => BaseInv
<1> SUFFICES ASSUME Init PROVE BaseInv
  OBVIOUS
<1>1. TypeOK
  BY InitTypeOK
<1>2. LogInv
  BY DEF Init, LogInv, Up
<1>3. \A p \in Procs : RunInv(p) /\ ~Live(p)
  BY DEF Init, InitState, NoRun, NoCoord, RunInv, RunBooks, RunRecords, LatestOnly, Live,
     TerminalProcess
<1> QED
  BY <1>1, <1>2, <1>3 DEF Init, OneInv, Up, BaseInv

\* BaseInv holds always.
LEMMA AlwaysBaseInv == Spec => []BaseInv
BY InitBaseInv, NextBaseInv, PTL DEF Spec

(***************************************************************************)
(* Two runs of one process never overlap under the first runner: the       *)
(* launch of a retry (Process.start) finds nothing left of the run before, *)
(* because the handler of the terminal record (_cleanup, kill_process)     *)
(* comes first, even when the coordinator died and left its command        *)
(* behind.                                                                 *)
(***************************************************************************)
THEOREM OneCommandCorrect == Spec => []AtMostOneCommand
<1>1. BaseInv => AtMostOneCommand
  <2> SUFFICES ASSUME BaseInv, starts <= 1, NEW p \in Procs
               PROVE  Cardinality(kids[p]) <= 1
    BY DEF AtMostOneCommand
  <2>1. kids[p] \subseteq {mem.proc[p].base}
    BY DEF BaseInv, OneInv, RunInv, LatestOnly
  <2>2. IsFiniteSet({mem.proc[p].base}) /\ Cardinality({mem.proc[p].base}) = 1
    BY FS_Singleton
  <2>3. Cardinality(kids[p]) <= Cardinality({mem.proc[p].base})
    BY <2>1, <2>2, FS_Subset
  <2> QED
    BY <2>2, <2>3
<1> QED
  BY <1>1, AlwaysBaseInv, PTL

-----------------------------------------------------------------------------
(* What survives. *)

\* What _kill has visited is dead or was never read of; what it finalized stays so.
SurviveInv ==
  /\ fin => ~Up /\ disk.task \in TerminalTask
  /\ starts <= 1 =>
       /\ pc = "kill" =>
            /\ pend # NoRec => pend.st \in {"KILLED", "LOST"}
            /\ \A p \in Procs \ work :
                 mem.proc[p].cpid /\ ~(pend # NoRec /\ pend.p = p) => ~Live(p)
       /\ fin => \A p \in Procs : disk.proc[p].cpid => ~Live(p)

\* Only _kill goes on killing.
LEMMA KillSteps ==
  ASSUME TypeOK, pc' = "kill", [Next]_vars
  PROVE  WorldStep \/ OnKilling \/ Handler \/ \E p \in Procs : KillOne(p)
BY DEF Next, WorldStep, RunnerStep, Ready, GoDown, Resume, OnActive, OnCleaning,
     EnterFinalizing, FinalizeTask, StagePlan, StageKilled, StageCleaning, ScanOne, ScanData,
     PickRunnable, LaunchWaiting, LaunchFork, FinalizeFork, LaunchFails, EndPlan, PollSome,
     PollNone, DispatchUpdate, EndCollect, SetTaskStatus, Start, Crash, KillSignal, TypeOK, ControlOK

\* Every step keeps SurviveInv.
LEMMA NextSurviveInv ==
  ASSUME BaseInv, SurviveInv, [Next]_vars
  PROVE  SurviveInv'
<1> USE DEF BaseInv
<1>1. CASE WorldStep
  BY <1>1, WorldStepEffect DEF SurviveInv, Up
<1>2. CASE Start
  BY <1>2 DEF Start, SurviveInv, worldVars
<1> SUFFICES ASSUME Up, ~Start, ~WorldStep PROVE SurviveInv'
  BY <1>1, <1>2, DownStep
<1>3. ~fin /\ starts' = starts
  BY OnlyStartStarts DEF SurviveInv
<1>4. CASE FinalizeTask
  <2>1. /\ pc = "kill" /\ pend = NoRec /\ work = {} /\ ~Up' /\ pc' = "down"
        /\ disk' = disk /\ disk.proc = mem.proc /\ UNCHANGED <<coord, kids>>
        /\ disk.task \in TerminalTask
    BY <1>4 DEF FinalizeTask, Ready, GoDown, worldVars, LogInv, Up
  <2> QED
    BY <1>3, <2>1 DEF SurviveInv, Live
<1>5. CASE ~FinalizeTask
  <2>1. ~fin'
    BY <1>3, <1>5 DEF Next, RunnerStep, CoordinatorStep, vars, runnerVars, worldVars, countVars,
       Handler, Resume, OnActive, OnCleaning, OnKilling, KillOne, EnterFinalizing, StagePlan,
       StageKilled, StageCleaning, ScanOne, ScanData, PickRunnable, LaunchWaiting, LaunchFork,
       FinalizeFork, LaunchFails, EndPlan, PollSome, PollNone, DispatchUpdate, EndCollect,
       KillSignal, Crash, TakeControl, GiveUpControl, ExecCommand, WriteRunning, CommandExits,
       WriteTerminal, CoordinatorExits, CoordinatorDies, ForkOverdue, CoolDown, Expire
  <2> SUFFICES ASSUME pc' = "kill", starts <= 1
               PROVE  /\ pend' # NoRec => pend'.st \in {"KILLED", "LOST"}
                      /\ \A p \in Procs \ work' :
                           mem'.proc[p].cpid /\ ~(pend' # NoRec /\ pend'.p = p) => ~Live(p)'
    BY <1>3, <2>1 DEF SurviveInv
  <2>2. \A p \in Procs : RunInv(p) /\ SeenInv
    BY DEF OneInv
  <2>3. CASE OnKilling
    BY <2>2, <2>3 DEF OnKilling, Ready, RunInv, RunBooks, NoRun
  <2>4. CASE Handler
    <3> DEFINE r == pend
               s == HandleProcess(mem, r)
    <3>1. r \in ProcessRec /\ r.p \in Procs /\ r # NoRec /\ UNCHANGED pc
      BY <2>4 DEF TypeOK, ControlOK, ProcessRec, Handler, GoDown
    <3>2. s.ok /\ mem' = s /\ pend' = NoRec /\ work' = work
      BY <2>4 DEF Handler, GoDown
    <3>3. mem'.proc = mem.proc
      BY <3>1, <3>2, HandleKeeps DEF TypeOK
    <3>4. r.st \in TerminalProcess /\ KillProcess(r.p)
      BY <2>4, <3>1 DEF Handler, SurviveInv, TerminalProcess
    <3>5. \A p \in Procs : Live(p)' => Live(p)
      BY <3>1, <3>4, KillProcessEffect DEF Live, NoCoord
    <3>6. mem.proc[r.p].cpid => coord'[r.p].ph = "none" /\ kids'[r.p] = {}
      BY <2>2, <3>1, <3>4, KillProcessEffect DEF RunInv
    <3> HIDE DEF r, s
    <3>7. \A p \in Procs \ work : mem.proc[p].cpid /\ p # r.p => ~Live(p)
      BY <3>1 DEF SurviveInv, r
    <3>8. \A p \in Procs : p = r.p /\ mem.proc[p].cpid => ~Live(p)'
      BY <3>6 DEF Live
    <3> QED
      BY <3>2, <3>3, <3>5, <3>7, <3>8
  <2>5. ASSUME NEW q \in Procs, KillOne(q)
        PROVE  /\ pend' # NoRec => pend'.st \in {"KILLED", "LOST"}
               /\ \A p \in Procs \ work' :
                    mem'.proc[p].cpid /\ ~(pend' # NoRec /\ pend'.p = p) => ~Live(p)'
    <3>1. pc = "kill" /\ pend = NoRec /\ work' = work \ {q}
      BY <2>5 DEF KillOne, Ready
    <3>2. \A p \in Procs \ work : mem.proc[p].cpid => ~Live(p)
      BY <3>1 DEF SurviveInv
    <3>3. CASE KillProcess(q) /\ UNCHANGED <<mem, pend>>
      <4>1. mem.proc[q].cpid => coord'[q].ph = "none" /\ kids'[q] = {}
        BY <2>2, <3>3, KillProcessEffect DEF RunInv
      <4>2. \A p \in Procs : Live(p)' => Live(p)
        BY <3>3, KillProcessEffect DEF Live, NoCoord
      <4> QED
        BY <3>1, <3>2, <3>3, <4>1, <4>2 DEF Live
    <3>4. ASSUME NEW st \in {"KILLED", "LOST"}, SetProcessStatus(q, st), UNCHANGED <<coord, kids>>
          PROVE  /\ pend' # NoRec => pend'.st \in {"KILLED", "LOST"}
                 /\ \A p \in Procs \ work' :
                      mem'.proc[p].cpid /\ ~(pend' # NoRec /\ pend'.p = p) => ~Live(p)'
      <4>1. Rec(q, st) \in ProcessRec
        BY DEF TypeOK, RunnerState, ProcessRun, Rec, ProcessRec, ProcessStates
      <4>2. pend' = Rec(q, st) /\ \A p \in Procs \ {q} : mem'.proc[p] = mem.proc[p]
        BY <3>4, <4>1, CheckpointEffect DEF SetProcessStatus, Rec
      <4>3. pend'.p = q /\ pend'.st = st /\ pend' # NoRec
        BY <4>2, RunnerAssumption DEF Rec, NoRec
      <4>4. \A p \in Procs : Live(p)' <=> Live(p)
        BY <3>4 DEF Live
      <4> QED
        BY <3>1, <3>2, <4>2, <4>3, <4>4
    <3>5. CASE mem.proc[q].st = "WAITING" /\ UNCHANGED <<mem, pend, coord, kids>>
      <4>1. ~mem.proc[q].cpid
        BY <2>2, <3>5 DEF RunInv, RunBooks
      <4> QED
        BY <3>1, <3>2, <3>5, <4>1 DEF Live
    <3> QED
      BY <2>5, <3>3, <3>4, <3>5 DEF KillOne
  <2> QED
    BY <2>3, <2>4, <2>5, KillSteps
<1> QED
  BY <1>4, <1>5

(***************************************************************************)
(* When the first runner has moved the task's file to finished/            *)
(* (finalize_task), its _kill has ended every process whose coordinator    *)
(* pid it had read, also when a signal restarted _kill in between.         *)
(***************************************************************************)
THEOREM SurvivorsCorrect == Spec => []OnlyUnreadSurvive
<1>1. Init => SurviveInv
  BY DEF Init, SurviveInv
<1>2. BaseInv /\ SurviveInv /\ [Next]_vars => SurviveInv'
  BY NextSurviveInv
<1>3. SurviveInv => OnlyUnreadSurvive
  BY DEF SurviveInv, OnlyUnreadSurvive, Live
<1> QED
  BY <1>1, <1>2, <1>3, AlwaysBaseInv, PTL DEF Spec

-----------------------------------------------------------------------------
(* VerdictFits. *)

\* The regular plan has nothing more to do.
Settled(s) == IsComplete(s, Regular) \/ ~IsHealthy(s)

\* Fewer lasting processes than max_failures have failed for good.
FewFailed(s) ==
  \/ TaskMaxFailures = 0
  \/ Cardinality(WithStatus(s, Regular \ Ephemeral, "failed")) < TaskMaxFailures

\* What a handler may do to the books of the plans, t after s: only a process
\* that runs or could be run changes its status.
Moves(s, t) ==
  \A p \in Procs : t.pst[p] # s.pst[p] =>
    \/ s.pst[p] = "running"
    \/ s.pst[p] = "runnable" /\ (p \in Regular => p \in Runnable(s, Regular))

\* No handler does more, and one that raises does nothing.
LEMMA HandleMoves ==
  ASSUME NEW s \in RunnerState, NEW r \in ProcessRec
  PROVE  /\ Moves(s, HandleProcess(s, r))
         /\ s.ok /\ ~HandleProcess(s, r).ok => HandleProcess(s, r).pst = s.pst
<1> DEFINE Small(u, v) == Moves(u, v) /\ (u.ok /\ ~v.ok => v.pst = u.pst)
<1>1. \A u \in RunnerState : Small(u, Raised(u)) /\ Small(u, u)
  BY DEF Raised, RunnerState, Moves
<1>2. \A u \in RunnerState : Small(u, SetRunning(u, r.p))
  <2> SUFFICES ASSUME NEW u \in RunnerState,
                      r.p \in PlanProcs(u), u.pst[r.p] = "running" \/ r.p \in Runnable(u, PlanProcs(u))
               PROVE  Small(u, [u EXCEPT !.pst[r.p] = "running"])
    BY <1>1 DEF SetRunning
  <2>1. r.p \in Regular => PlanProcs(u) = Regular
    BY PlanAssumption DEF PlanProcs
  <2> QED
    BY <2>1 DEF RunnerState, Moves, Runnable
<1>3. \A u \in RunnerState : Small(u, EndRun(u, r.p, r.st))
  BY <1>1 DEF EndRun, RunnerState, Moves
<1>4. \A u \in RunnerState : [u EXCEPT !.tp = @ \union {r.p}].pst = u.pst
  BY DEF RunnerState
<1>5. Small(s, EndRun([s EXCEPT !.tp = @ \ {r.p}], r.p, r.st))
  <2> DEFINE u == [s EXCEPT !.tp = @ \ {r.p}]
  <2>1. u \in RunnerState /\ u.pst = s.pst /\ u.ok = s.ok
    BY DEF RunnerState
  <2>2. Small(u, EndRun(u, r.p, r.st))
    BY <1>3, <2>1
  <2> QED
    BY <2>1, <2>2 DEF Moves, Runnable
<1>6. HandleProcess(s, r) \in
        {Raised(s), [s EXCEPT !.tp = @ \union {r.p}], SetRunning(s, r.p),
         EndRun([s EXCEPT !.tp = @ \ {r.p}], r.p, r.st)}
  BY DEF HandleProcess
<1>7. Small(s, [s EXCEPT !.tp = @ \union {r.p}])
  BY <1>4 DEF Moves
<1> QED
  BY <1>1, <1>2, <1>5, <1>6, <1>7

\* So a plan that is complete stays complete, one that is settled stays settled,
\* and health does not come back.
LEMMA MovesSettled ==
  ASSUME NEW s \in RunnerState, NEW t \in RunnerState, Moves(s, t)
  PROVE  /\ IsComplete(s, Regular) => IsComplete(t, Regular)
         /\ ~IsHealthy(s) => ~IsHealthy(t)
         /\ Settled(s) => Settled(t)
         /\ IsComplete(s, Regular) /\ FewFailed(s) => FewFailed(t)
<1>1. IsComplete(s, Regular) => IsComplete(t, Regular)
  BY DEF IsComplete, Moves, Procs
<1>2. Deadlocked(s, Regular) => Deadlocked(t, Regular)
  <2> SUFFICES ASSUME Deadlocked(s, Regular) PROVE Deadlocked(t, Regular)
    OBVIOUS
  <2>1. \A p \in Regular : t.pst[p] = s.pst[p]
    BY DEF Deadlocked, Moves, WithStatus, Procs
  <2>2. \A p \in Regular : Deps[p] \subseteq Regular
    BY PlanAssumption DEF AcceptedOrder
  <2> QED
    BY <2>1, <2>2 DEF Deadlocked, WithStatus, Runnable, IsComplete
<1>3. IsFiniteSet(Regular)
  BY PlanAssumption, FS_Subset DEF Procs
<1>4. WithStatus(s, Regular, "failed") \subseteq WithStatus(t, Regular, "failed")
  BY DEF WithStatus, Moves, Procs
<1>5. /\ Cardinality(WithStatus(s, Regular, "failed")) \in Nat
      /\ Cardinality(WithStatus(t, Regular, "failed")) \in Nat
      /\ Cardinality(WithStatus(s, Regular, "failed")) <= Cardinality(WithStatus(t, Regular, "failed"))
  <2>1. IsFiniteSet(WithStatus(s, Regular, "failed")) /\ IsFiniteSet(WithStatus(t, Regular, "failed"))
    BY <1>3, FS_Subset DEF WithStatus
  <2> QED
    BY <1>4, <2>1, FS_Subset, FS_CardinalityType
<1>6. ~IsHealthy(s) => ~IsHealthy(t)
  BY <1>2, <1>5, PlanAssumption DEF IsHealthy
<1>7. IsComplete(s, Regular) =>
        WithStatus(t, Regular \ Ephemeral, "failed") = WithStatus(s, Regular \ Ephemeral, "failed")
  BY DEF IsComplete, WithStatus, Moves, Procs
<1> QED
  BY <1>1, <1>6, <1>7 DEF Settled, FewFailed

\* Only the books of the plans matter.
LEMMA SamePst ==
  ASSUME NEW s, NEW t, s.pst = t.pst
  PROVE  /\ IsComplete(s, Regular) <=> IsComplete(t, Regular)
         /\ IsHealthy(s) <=> IsHealthy(t)
         /\ Settled(s) <=> Settled(t)
         /\ FewFailed(s) <=> FewFailed(t)
<1>1. IsComplete(s, Regular) <=> IsComplete(t, Regular)
  BY DEF IsComplete
<1>2. IsHealthy(s) <=> IsHealthy(t)
  BY <1>1 DEF IsHealthy, Deadlocked, WithStatus, Runnable
<1> QED
  BY <1>1, <1>2 DEF Settled, FewFailed, WithStatus

\* A replayed record moves the books as its handler does.
LEMMA ReplayMoves ==
  ASSUME NEW s \in RunnerState, NEW r \in ProcessRec
  PROVE  /\ Moves(s, ReplayProcess(s, r))
         /\ ~ReplayProcess(s, r).ok => ReplayProcess(s, r).pst = s.pst
<1> DEFINE u == UpdateProcess(s, r)
<1>1. u \in RunnerState /\ u.pst = s.pst /\ u.ok = s.ok
  BY UpdateProcessType, UpdateKeeps DEF SameBooks
<1>2. Moves(u, HandleProcess(u, r)) /\ (u.ok /\ ~HandleProcess(u, r).ok => HandleProcess(u, r).pst = u.pst)
  BY <1>1, HandleMoves
<1> HIDE DEF u
<1>3. Moves(s, HandleProcess(u, r))
  BY <1>1, <1>2 DEF Moves, Runnable
<1>4. Moves(s, u)
  BY <1>1 DEF Moves
<1> QED
  BY <1>1, <1>2, <1>3, <1>4 DEF ReplayProcess, u

\* Whether a handler raises depends on the books and the plan pointer.
LEMMA HandleSameOk ==
  ASSUME NEW s \in RunnerState, NEW t \in RunnerState, NEW r \in ProcessRec,
         SameBooks(s, t), s.plan = t.plan, t.ok, HandleProcess(s, r).ok
  PROVE  HandleProcess(t, r).ok
<1>1. \A u \in RunnerState : ~Raised(u).ok
  BY DEF Raised, RunnerState
<1>2. PlanProcs(s) = PlanProcs(t) /\ s.pst = t.pst /\ s.tp = t.tp
  BY DEF PlanProcs, SameBooks
<1>3. SetRunning(s, r.p).ok => SetRunning(t, r.p).ok
  BY <1>1, <1>2 DEF SetRunning, Runnable, RunnerState
<1>4. EndRun([s EXCEPT !.tp = @ \ {r.p}], r.p, r.st).ok => EndRun([t EXCEPT !.tp = @ \ {r.p}], r.p, r.st).ok
  <2> DEFINE u == [s EXCEPT !.tp = @ \ {r.p}]
             v == [t EXCEPT !.tp = @ \ {r.p}]
  <2>1. /\ u \in RunnerState /\ v \in RunnerState /\ u.pst = v.pst /\ v.ok
        /\ PlanProcs(u) = PlanProcs(v)
    BY <1>2 DEF RunnerState, PlanProcs
  <2> HIDE DEF u, v
  <2>2. EndRun(u, r.p, r.st).ok => EndRun(v, r.p, r.st).ok
    BY <1>1, <2>1 DEF EndRun, RunnerState
  <2> QED
    BY <2>2 DEF u, v
<1>5. [t EXCEPT !.tp = @ \union {r.p}].ok
  BY DEF RunnerState
<1> QED
  BY <1>1, <1>2, <1>3, <1>4, <1>5 DEF HandleProcess

\* Beyond ACTIVE the regular plan is settled, in the log and in memory, and a
\* verdict is SUCCESS only of a healthy plan; a signal keeps its status until the end.
VerdictInv ==
  /\ kills > 0 => starts > 0
  /\ forced # "none" => kills > 0 /\ Up
  /\ starts <= 1 /\ kills > 0 /\ Up => forced # "none" /\ mem.task \notin {"SUCCESS", "FAILED"}
  /\ kills = 0 /\ disk.task # "ACTIVE" => Settled(disk) /\ (Up => Settled(mem))
  /\ kills = 0 /\ Up /\ mem.task = "ACTIVE" =>
       /\ pc # "task" => mem.plan = "regular"
       /\ pc = "task" => pend = NoRec
       /\ disk.plan = "regular"
       /\ IF pend = NoRec THEN disk.ok ELSE HandleProcess(mem, pend).ok => disk.ok
  /\ kills = 0 /\ Up /\ ~disk.ok /\ ~IsHealthy(disk) => ~IsHealthy(mem)
  /\ disk.task = "SUCCESS" /\ (kills = 0 \/ starts <= 1) => IsComplete(disk, Regular) /\ FewFailed(disk)
  /\ kills > 0 /\ fin /\ starts <= 1 => disk.task \in {"KILLED", "LOST"}

\* A checkpointed record moves the log's books, and not the verdict.
LEMMA CheckpointBooks ==
  ASSUME TypeOK, NEW r \in ProcessRec, Checkpoint(r)
  PROVE  /\ disk' \in RunnerState /\ mem' \in RunnerState /\ pend' = r
         /\ disk'.task = disk.task /\ disk'.plan = disk.plan /\ Moves(disk, disk')
         /\ ~disk'.ok => disk'.pst = disk.pst
         /\ mem'.task = mem.task /\ mem'.plan = mem.plan /\ mem'.pst = mem.pst
         /\ disk.ok /\ SameBooks(disk, mem) /\ disk.plan = mem.plan /\ HandleProcess(mem', r).ok =>
              disk'.ok
<1> DEFINE u == UpdateProcess(disk, r)
<1>1. disk \in RunnerState /\ mem \in RunnerState /\ u \in RunnerState /\ mem' \in RunnerState
      /\ disk' \in RunnerState
  BY UpdateProcessType, CheckpointType DEF TypeOK, Checkpoint
<1>2. /\ u.task = disk.task /\ u.plan = disk.plan /\ u.ok = disk.ok /\ SameBooks(disk, u)
      /\ mem'.task = mem.task /\ mem'.plan = mem.plan /\ SameBooks(mem, mem')
  BY <1>1, UpdateKeeps DEF Checkpoint
<1>3. disk' = IF disk.ok THEN HandleProcess(u, r) ELSE u
  BY DEF Checkpoint, ReplayProcess
<1> HIDE DEF u
<1>4. disk'.task = disk.task /\ disk'.plan = disk.plan
  BY <1>1, <1>2, <1>3, HandleKeeps
<1>5. Moves(disk, disk') /\ (~disk'.ok => disk'.pst = disk.pst)
  BY <1>1, ReplayMoves DEF Checkpoint
<1>6. ASSUME disk.ok, SameBooks(disk, mem), disk.plan = mem.plan, HandleProcess(mem', r).ok
      PROVE  disk'.ok
  <2>1. SameBooks(mem', u) /\ mem'.plan = u.plan /\ u.ok
    BY <1>2, <1>6 DEF SameBooks
  <2> QED
    BY <1>1, <1>3, <1>6, <2>1, HandleSameOk
<1> QED
  BY <1>1, <1>2, <1>4, <1>5, <1>6 DEF Checkpoint, SameBooks

\* A step inside a loop of the runner.
LEMMA LoopVerdictInv ==
  ASSUME BaseInv, VerdictInv, LoopStep
  PROVE  VerdictInv'
<1> USE DEF BaseInv
<1>1. CASE UNCHANGED <<disk, mem, pend>>
  BY <1>1 DEF LoopStep, VerdictInv
<1>2. ASSUME NEW r \in ProcessRec, Checkpoint(r)
      PROVE  VerdictInv'
  <2>1. disk \in RunnerState /\ mem \in RunnerState /\ r # NoRec
    BY RunnerAssumption DEF TypeOK, ProcessRec, NoRec
  <2>2. /\ disk' \in RunnerState /\ mem' \in RunnerState /\ pend' = r
        /\ disk'.task = disk.task /\ disk'.plan = disk.plan /\ Moves(disk, disk')
        /\ ~disk'.ok => disk'.pst = disk.pst
        /\ mem'.task = mem.task /\ mem'.plan = mem.plan /\ mem'.pst = mem.pst
        /\ disk.ok /\ SameBooks(disk, mem) /\ disk.plan = mem.plan /\ HandleProcess(mem', r).ok =>
             disk'.ok
    BY <1>2, CheckpointBooks
  <2>3. /\ IsComplete(disk, Regular) => IsComplete(disk', Regular)
        /\ Settled(disk) => Settled(disk')
        /\ IsComplete(disk, Regular) /\ FewFailed(disk) => FewFailed(disk')
    BY <2>1, <2>2, MovesSettled
  <2>4. (Settled(mem) <=> Settled(mem')) /\ (IsHealthy(mem) <=> IsHealthy(mem'))
    BY <2>2, SamePst
  <2>5. kills = 0 /\ disk.ok => SameBooks(disk, mem) /\ (IsHealthy(disk) <=> IsHealthy(mem))
    BY SamePst DEF LoopStep, LogInv, SameBooks
  <2>6. ~disk'.ok => (IsHealthy(disk') <=> IsHealthy(disk))
    BY <2>2, SamePst
  <2>7. /\ Up /\ Up' /\ pend = NoRec /\ UNCHANGED <<starts, kills, fin, forced>>
        /\ pc' # "task" /\ (pc = "task" => mem.task # "ACTIVE") /\ disk.task = mem.task
    BY DEF LoopStep, LogInv
  <2>8. kills = 0 /\ mem.task = "ACTIVE" =>
          mem.plan = "regular" /\ disk.plan = "regular" /\ (HandleProcess(mem', r).ok => disk'.ok)
    BY <2>2, <2>5, <2>7 DEF VerdictInv
  <2>9. kills = 0 /\ ~disk'.ok /\ ~IsHealthy(disk') => ~IsHealthy(mem')
    BY <2>4, <2>5, <2>6, <2>7 DEF VerdictInv
  <2>10. disk.task = "SUCCESS" /\ (kills = 0 \/ starts <= 1) => IsComplete(disk', Regular) /\ FewFailed(disk')
    BY <2>3 DEF VerdictInv
  <2>11. kills = 0 /\ disk.task # "ACTIVE" => Settled(disk') /\ Settled(mem')
    BY <2>3, <2>4, <2>7 DEF VerdictInv
  <2> QED
    BY <2>1, <2>2, <2>7, <2>8, <2>9, <2>10, <2>11 DEF VerdictInv
<1> QED
  BY <1>1, <1>2 DEF LoopStep

\* The runner is gone, what it wrote stays.
LEMMA EndVerdictInv ==
  ASSUME VerdictInv, Up, GoDown, UNCHANGED <<disk, starts>>,
         \/ kills' = kills
         \/ kills' = kills + 1 /\ kills \in Nat /\ starts > 0,
         fin' /\ starts' <= 1 /\ kills' > 0 => disk'.task \in {"KILLED", "LOST"}
  PROVE  VerdictInv'
BY DEF VerdictInv, GoDown, Up

\* A handler.
LEMMA HandlerVerdictInv ==
  ASSUME BaseInv, SurviveInv, VerdictInv, Handler
  PROVE  VerdictInv'
<1> USE DEF BaseInv
<1> DEFINE s == HandleProcess(mem, pend)
<1>1. pend \in ProcessRec /\ Up /\ UNCHANGED <<starts, kills, fin>> /\ ~fin
  BY DEF Handler, TypeOK, ControlOK, LogInv, countVars, SurviveInv
<1>2. CASE ~s.ok
  BY <1>1, <1>2, EndVerdictInv DEF Handler
<1>3. CASE s.ok
  <2>1. mem' = s /\ pend' = NoRec /\ UNCHANGED <<disk, pc, forced>>
    BY <1>3 DEF Handler
  <2>2. /\ mem \in RunnerState /\ s \in RunnerState /\ s.plan = mem.plan /\ s.task = mem.task
        /\ Moves(mem, s)
    BY <1>1, HandleKeeps, HandleProcessType, HandleMoves DEF TypeOK
  <2>3. (Settled(mem) => Settled(s)) /\ (~IsHealthy(mem) => ~IsHealthy(s))
    BY <2>2, MovesSettled
  <2>4. pend # NoRec
    BY DEF Handler
  <2>5. kills = 0 /\ mem.task = "ACTIVE" => disk.ok
    BY <1>1, <1>3, <2>4 DEF VerdictInv
  <2> HIDE DEF s
  <2> QED
    BY <1>1, <2>1, <2>2, <2>3, <2>5 DEF VerdictInv, Up
<1> QED
  BY <1>2, <1>3

\* A new task state is written.
LEMMA TaskVerdictInv ==
  ASSUME BaseInv, SurviveInv, VerdictInv, NEW task \in TaskStates \ {"ACTIVE"}, SetTaskStatus(task),
         Up, pend = NoRec, pend' = NoRec, UNCHANGED <<forced, starts, kills, fin>>,
         pc # "task", mem.task = "ACTIVE" /\ kills = 0 => Settled(mem),
         (task = TerminalState /\ mem.task # "ACTIVE") \/ task \notin TerminalTask
  PROVE  VerdictInv'
<1> USE DEF BaseInv
<1>1. /\ disk'.task = task /\ disk'.pst = disk.pst /\ disk'.ok = disk.ok
      /\ mem'.task = task /\ mem'.pst = mem.pst /\ Up' /\ ~fin
  BY DEF SetTaskStatus, ReplayTask, TypeOK, RunnerState, Up, SurviveInv
<1>2. /\ Settled(disk) <=> Settled(disk')
      /\ IsHealthy(disk) <=> IsHealthy(disk')
      /\ IsComplete(disk, Regular) <=> IsComplete(disk', Regular)
      /\ FewFailed(disk) <=> FewFailed(disk')
      /\ Settled(mem) <=> Settled(mem')
      /\ IsHealthy(mem) <=> IsHealthy(mem')
  BY <1>1, SamePst
<1>3. kills = 0 /\ disk.ok => (Settled(disk) <=> Settled(mem)) /\ (IsHealthy(disk) <=> IsHealthy(mem))
  BY SamePst DEF LogInv, SameBooks
<1>4. disk.task = mem.task
  BY DEF LogInv
<1>5. kills = 0 => Settled(disk) /\ Settled(mem)
  BY <1>3, <1>4 DEF VerdictInv
<1>6. task \in {"SUCCESS", "FAILED"} => forced = "none" /\ mem.task # "ACTIVE"
  BY DEF TerminalState, TerminalTask, TypeOK, ControlOK
<1>7. task = "SUCCESS" => IsHealthy(mem)
  BY DEF TerminalState, TerminalTask, TypeOK, ControlOK
<1>8. task = "SUCCESS" /\ (kills = 0 \/ starts <= 1) => IsComplete(disk, Regular) /\ FewFailed(disk)
  <2> SUFFICES ASSUME task = "SUCCESS", kills = 0 \/ starts <= 1
               PROVE  IsComplete(disk, Regular) /\ FewFailed(disk)
    OBVIOUS
  <2>1. kills = 0
    BY <1>6 DEF VerdictInv, TypeOK, WorldOK
  <2>2. IsHealthy(disk)
    BY <1>3, <1>7, <2>1 DEF VerdictInv
  <2>3. IsComplete(disk, Regular)
    BY <1>5, <2>1, <2>2 DEF Settled
  <2>4. IsFiniteSet(WithStatus(disk, Regular, "failed"))
    BY PlanAssumption, FS_Subset DEF WithStatus, Procs
  <2>5. /\ Cardinality(WithStatus(disk, Regular \ Ephemeral, "failed")) \in Nat
        /\ Cardinality(WithStatus(disk, Regular, "failed")) \in Nat
        /\ Cardinality(WithStatus(disk, Regular \ Ephemeral, "failed"))
              <= Cardinality(WithStatus(disk, Regular, "failed"))
    <3>1. WithStatus(disk, Regular \ Ephemeral, "failed") \subseteq WithStatus(disk, Regular, "failed")
      BY DEF WithStatus
    <3> QED
      BY <2>4, <3>1, FS_Subset, FS_CardinalityType
  <2>6. FewFailed(disk)
    BY <2>2, <2>5, PlanAssumption DEF IsHealthy, FewFailed
  <2> QED
    BY <2>3, <2>6
<1>9. starts <= 1 /\ kills > 0 => task \notin {"SUCCESS", "FAILED"}
  BY <1>6 DEF VerdictInv
<1>10. kills = 0 /\ ~disk.ok /\ ~IsHealthy(disk) => ~IsHealthy(mem)
  BY DEF VerdictInv
<1> QED
  BY <1>1, <1>2, <1>5, <1>8, <1>9, <1>10 DEF VerdictInv

\* Every step keeps VerdictInv.
LEMMA NextVerdictInv ==
  ASSUME BaseInv, SurviveInv, VerdictInv, [Next]_vars
  PROVE  VerdictInv'
<1> USE DEF BaseInv
<1>1. CASE WorldStep
  <2>1. UNCHANGED <<disk, mem, pc, pend, forced, fin, starts, kills>>
    BY <1>1, WorldStepEffect
  <2> QED
    BY <2>1 DEF VerdictInv, Up
<1>2. CASE Start
  <2>1. /\ mem' = disk /\ disk' = ReplayTask(disk, disk.task) /\ starts' = starts + 1
        /\ starts \in Nat /\ UNCHANGED <<forced, kills, fin>> /\ ~Up /\ Up' /\ pc' = "task"
        /\ disk.ok /\ disk.task \notin TerminalTask /\ pend = NoRec /\ pend' = NoRec /\ ~fin
    BY <1>2 DEF Start, TypeOK, WorldOK, Up, LogInv, SurviveInv
  <2>2. /\ disk'.task = disk.task /\ disk'.pst = disk.pst /\ disk'.ok
        /\ disk'.plan = PlanFor(disk, disk.task)
    BY <2>1 DEF ReplayTask, TypeOK, RunnerState
  <2>3. (Settled(disk) <=> Settled(disk'))
    BY <2>2, SamePst
  <2>4. starts' <= 1 => kills = 0
    BY <2>1 DEF VerdictInv, TypeOK, WorldOK
  <2> QED
    BY <2>1, <2>2, <2>3, <2>4 DEF VerdictInv, PlanFor, TerminalTask, TypeOK, WorldOK
<1> SUFFICES ASSUME Up, ~Start, ~WorldStep PROVE VerdictInv'
  BY <1>1, <1>2, DownStep
<1>3. ~fin /\ kills \in Nat /\ starts > 0 /\ disk.task = mem.task
  BY DEF SurviveInv, OneInv, TypeOK, WorldOK, LogInv
<1>4. CASE FinalizeTask
  <2>1. GoDown /\ UNCHANGED <<disk, starts, kills>> /\ mem.task \in TerminalTask
    BY <1>4 DEF FinalizeTask, countVars
  <2>2. starts <= 1 /\ kills > 0 => disk.task \in {"KILLED", "LOST"}
    BY <1>3, <2>1 DEF VerdictInv, TerminalTask
  <2> QED
    BY <2>1, <2>2, EndVerdictInv
<1>5. CASE EndStep
  BY <1>3, <1>5, EndVerdictInv DEF EndStep
<1>6. CASE OnActive \/ EnterFinalizing
  <2>1. /\ UNCHANGED <<disk, pend, forced, fin, starts, kills>> /\ pend = NoRec /\ Up'
        /\ mem'.task = mem.task /\ mem'.pst = mem.pst
        /\ mem.task = "ACTIVE" => mem'.plan = "regular"
    BY <1>6 DEF OnActive, EnterFinalizing, Ready, countVars, TypeOK, RunnerState, ControlOK, Up
  <2>2. (Settled(mem) <=> Settled(mem')) /\ (IsHealthy(mem) <=> IsHealthy(mem'))
    BY <2>1, SamePst
  <2> QED
    BY <2>1, <2>2 DEF VerdictInv, Up
<1>7. CASE StageKilled \/ StageCleaning \/ EndPlan
  <2>1. /\ pend = NoRec /\ UNCHANGED <<pend, forced, starts, kills, fin>> /\ pc # "task"
    BY <1>7 DEF StageKilled, StageCleaning, EndPlan, Ready, countVars
  <2>2. CASE pc' = "poll" /\ UNCHANGED <<disk, mem>>
    BY <2>1, <2>2 DEF VerdictInv, Up
  <2>3. CASE StageKilled
    BY <2>1, <2>3, TaskVerdictInv DEF StageKilled, VerdictInv, TaskStates, TerminalTask, TypeOK, WorldOK
  <2>4. CASE StageCleaning /\ ~(pc' = "poll" /\ UNCHANGED <<disk, mem>>)
    <3>1. mem.task = "CLEANING" /\ \/ SetTaskStatus(TerminalState)
                                   \/ SetTaskStatus("FINALIZING")
      BY <2>4 DEF StageCleaning
    <3>2. TerminalState \in TaskStates \ {"ACTIVE"}
      BY TerminalStateType DEF TerminalTask, TaskStates
    <3> QED
      BY <2>1, <3>1, <3>2, TaskVerdictInv DEF TaskStates, TerminalTask
  <2>5. CASE EndPlan /\ ~(pc' = "poll" /\ UNCHANGED <<disk, mem>>)
    <3>1. \/ mem.task = "ACTIVE" /\ Settled(mem) /\ SetTaskStatus("CLEANING")
          \/ mem.task # "ACTIVE" /\ SetTaskStatus(TerminalState)
      BY <2>5 DEF EndPlan, Settled
    <3>2. TerminalState \in TaskStates \ {"ACTIVE"}
      BY TerminalStateType DEF TerminalTask, TaskStates
    <3> QED
      BY <2>1, <3>1, <3>2, TaskVerdictInv DEF TaskStates, TerminalTask
  <2> QED
    BY <1>7, <2>2, <2>3, <2>4, <2>5
<1>8. ASSUME NEW status \in {"KILLED", "LOST"}, KillSignal(status)
      PROVE  VerdictInv'
  <2>1. kills' = kills + 1 /\ UNCHANGED <<starts, fin>>
    BY <1>8 DEF KillSignal
  <2>2. CASE mem.task \in TerminalTask
    BY <1>3, <1>8, <2>1, <2>2, EndVerdictInv DEF KillSignal
  <2>3. CASE mem.task \notin TerminalTask
    <3>1. forced' = status /\ pc' = "task" /\ disk'.task = mem.task /\ mem'.task = mem.task
      BY <1>8, <2>3 DEF KillSignal, SetTaskStatus, ReplayTask, TypeOK, RunnerState
    <3> QED
      BY <1>3, <2>1, <2>3, <3>1 DEF VerdictInv, Up, TerminalTask
  <2> QED
    BY <2>2, <2>3
<1> QED
  BY <1>4, <1>5, <1>6, <1>7, <1>8, StepKinds, LoopVerdictInv, HandlerVerdictInv

(***************************************************************************)
(* A task ends as SUCCESS only when its regular plan is complete and fewer *)
(* lasting processes failed for good than max_failures; and a task that    *)
(* got kill or lose is finalized as KILLED or LOST (terminal_state),       *)
(* wherever the signal struck.                                             *)
(***************************************************************************)
THEOREM VerdictCorrect == Spec => []VerdictFits
<1>1. Init => SurviveInv
  BY DEF Init, SurviveInv
<1>2. BaseInv /\ SurviveInv /\ [Next]_vars => SurviveInv'
  BY NextSurviveInv
<1>3. Init => VerdictInv
  BY DEF Init, VerdictInv, InitState, Up
<1>4. BaseInv /\ SurviveInv /\ VerdictInv /\ [Next]_vars => VerdictInv'
  BY NextVerdictInv
<1>5. VerdictInv => VerdictFits
  BY DEF VerdictInv, VerdictFits, FewFailed
<1> QED
  BY <1>1, <1>2, <1>3, <1>4, <1>5, AlwaysBaseInv, PTL DEF Spec

-----------------------------------------------------------------------------
(* Which processes count as running. *)

\* FORKED is checkpointed, its handler is next.
ForkPending(p) == pend # NoRec /\ pend.p = p /\ pend.st = "FORKED"

\* The runner counts p as running, or will before it plans again.
Counted(p) == mem.pst[p] = "running" \/ Started(p) \/ ForkPending(p)

\* The coordinator of p is forked, its FORKED record not yet written.
Forking(p) == pc = "fork" /\ at = p

\* A live process is counted or being forked, and a FORKED record that is not
\* dispatched lies ahead of the muxer, in the batch if there is one.
ForkInv(p) ==
  /\ Live(p) => Counted(p) \/ Forking(p)
  /\ mem.proc[p].st \in {"FORKED", "RUNNING"} => mem.pst[p] = "running" \/ ForkPending(p)
  /\ Started(p) =>
       /\ p \in mem.tp
       /\ pc \in {"launch", "fork", "poll", "collect"}
       /\ \A i \in Marks(p) : IF pc = "collect" THEN nxt[p] < i /\ i <= pos[p] ELSE pos[p] < i
       /\ pc \in {"launch", "fork"} => p \notin work
       /\ ~(pend # NoRec /\ pend.p = p /\ pend.st = "WAITING")

\* While it does, it neither kills nor touches the finalizing plan.
ActiveInv ==
  starts <= 1 /\ Up /\ mem.task = "ACTIVE" =>
    /\ forced # "none" => pc \in {"task", "resume", "collect", "stage"}
    /\ forced = "none" =>
         /\ pc # "kill" /\ mem.plan # "final"
         /\ \A p \in Final : mem.pst[p] = "runnable"
         /\ \A p \in Procs : ForkInv(p)

\* What counts against max_concurrency, and what this pass may still launch.
Charged ==
  {p \in Procs : Live(p) \/ Counted(p) \/ (pc \in {"launch", "fork"} /\ p \in work)}
\* The launches this pass has left.
Free == IF pc \in {"scan", "hasdata"} THEN quota ELSE 0

\* What is charged and what is free never exceed max_concurrency.
LoadInv ==
  MaxConcurrency > 0 /\ starts <= 1 /\ mem.task = "ACTIVE" =>
    /\ Cardinality({p \in Procs : Live(p)}) <= MaxConcurrency
    /\ Active => Cardinality(Charged) + Free <= MaxConcurrency

-----------------------------------------------------------------------------
(* Where the muxer stands. *)

\* Fast-forwarding stops before the first record beyond the high watermark.
LEMMA FastForwardStops ==
  ASSUME NEW s \in Seq(StreamRec), NEW w \in Int, NEW i \in 1..Len(s), s[i].seq > w
  PROVE  FastForward(s, w) < i
<1>1. FastForward(s, w) \in Int /\ s[i].seq \in Int
  <2>1. s[i] \in StreamRec /\ FastForward(s, w) \in 0..Len(s) /\ Len(s) \in Nat
    BY FastForwardType
  <2> QED
    BY <2>1 DEF StreamRec
<1>2. i <= FastForward(s, w) => s[i].seq <= w
  BY FastForwardPlace
<1> QED
  BY <1>1, <1>2

\* So the muxer never reads past a FORKED record that is not read.
LEMMA ReadPosStops ==
  ASSUME TypeOK, NEW p \in Procs, NEW i \in Marks(p), pos[p] < i
  PROVE  ReadPos(p) < i /\ i \in 1..Len(stream[p])
<1>1. /\ stream[p] \in Seq(StreamRec) /\ mem.proc[p].base \in Int
      /\ i \in 1..Len(stream[p]) /\ stream[p][i].seq = mem.proc[p].base + 1
  BY DEF TypeOK, StreamsOK, RunnerState, ProcessRun, Marks
<1>2. FastForward(stream[p], mem.proc[p].base - 1) < i
  BY <1>1, FastForwardStops
<1> QED
  BY <1>1, <1>2 DEF ReadPos

-----------------------------------------------------------------------------
(* One step of a runner that runs its regular plan, for one process. *)

\* What is counted after the step was charged before it.
Kept(p) == ForkInv(p)' /\ (Live(p)' \/ Counted(p)' => p \in Charged)

\* A step that does not concern p.
LEMMA OtherKept ==
  ASSUME NEW p \in Procs, ForkInv(p), Live(p)' => Live(p),
         mem'.proc[p] = mem.proc[p], mem'.pst[p] = mem.pst[p], p \in mem.tp => p \in mem'.tp,
         Marks(p)' = Marks(p), pos'[p] = pos[p], nxt'[p] = nxt[p],
         pc' = pc \/ (pc \in {"launch", "fork"} /\ pc' \in {"launch", "fork", "poll"}),
         p \in work' => p \in work,
         Forking(p) => Forking(p)',
         UNCHANGED pend \/ (~ForkPending(p) /\ (pend' # NoRec => pend'.p # p))
  PROVE  Kept(p)
<1>1. Started(p)' <=> Started(p)
  BY DEF Started, Marks
<1>2. ForkPending(p)' <=> ForkPending(p)
  BY DEF ForkPending
<1>3. ~(pend # NoRec /\ pend.p = p /\ pend.st = "WAITING") =>
        ~(pend' # NoRec /\ pend'.p = p /\ pend'.st = "WAITING")
  OBVIOUS
<1>5. Started(p)' =>
        /\ p \in mem'.tp
        /\ pc' \in {"launch", "fork", "poll", "collect"}
        /\ \A i \in Marks(p)' : IF pc' = "collect" THEN nxt'[p] < i /\ i <= pos'[p] ELSE pos'[p] < i
        /\ pc' \in {"launch", "fork"} => p \notin work'
        /\ ~(pend' # NoRec /\ pend'.p = p /\ pend'.st = "WAITING")
  BY <1>1, <1>3 DEF ForkInv
<1>6. Counted(p)' <=> Counted(p)
  BY <1>1, <1>2 DEF Counted
<1>7. Live(p)' => Counted(p)' \/ Forking(p)'
  BY <1>6 DEF ForkInv
<1>8. mem'.proc[p].st \in {"FORKED", "RUNNING"} => mem'.pst[p] = "running" \/ ForkPending(p)'
  BY <1>2 DEF ForkInv
<1>9. ForkInv(p)'
  BY <1>5, <1>7, <1>8 DEF ForkInv
<1> QED
  BY <1>6, <1>9 DEF Kept, Charged

\* A step while nothing of p is on its way from the fork to the plan.
LEMMA QuietKept ==
  ASSUME NEW p \in Procs, ForkInv(p), ~Started(p), ~Forking(p), ~ForkPending(p),
         Live(p)' => Live(p), mem'.proc[p] = mem.proc[p], mem'.pst[p] = mem.pst[p],
         Marks(p)' = Marks(p), pend' # NoRec => pend'.p # p
  PROVE  Kept(p)
<1>1. ~Started(p)'
  BY DEF Started, Marks
<1>2. ~ForkPending(p)'
  BY DEF ForkPending
<1>3. Counted(p)' <=> mem.pst[p] = "running"
  BY <1>1, <1>2 DEF Counted
<1>4. Live(p) => mem.pst[p] = "running"
  BY DEF ForkInv, Counted
<1>5. ForkInv(p)'
  BY <1>1, <1>3, <1>4 DEF ForkInv
<1> QED
  BY <1>3, <1>4, <1>5 DEF Kept, Charged, Counted

\* A record of p other than WAITING is checkpointed.
LEMMA RecordKept ==
  ASSUME NEW p \in Procs, p \in Charged, pend' # NoRec, pend'.p = p, pend'.st # "WAITING",
         mem'.proc[p].st = pend'.st, mem'.pst[p] = mem.pst[p],
         mem.pst[p] = "running" \/ pend'.st = "FORKED" \/ (~Live(p)' /\ pend'.st = "FAILED")
  PROVE  Kept(p)
<1>1. ~Started(p)'
  BY DEF Started
<1>2. ForkPending(p)' <=> pend'.st = "FORKED"
  BY DEF ForkPending
<1> QED
  BY <1>1, <1>2 DEF Kept, ForkInv, Counted

\* A process that has just ended, or has no Process object yet.
LEMMA GoneKept ==
  ASSUME NEW p \in Procs, ~Live(p)', mem'.pst[p] # "running", ~Started(p)',
         mem'.proc[p].st \notin {"FORKED", "RUNNING"}, ~ForkPending(p)'
  PROVE  Kept(p)
BY DEF Kept, ForkInv, Counted

\* Another record in the stream is not the FORKED record.
LEMMA AppendMarks ==
  ASSUME TypeOK, NEW p \in Procs, NEW r, stream' = [stream EXCEPT ![p] = Append(@, r)],
         r.seq # mem.proc[p].base + 1, UNCHANGED mem, r \in StreamRec
  PROVE  Marks(p)' = Marks(p)
<1>1. stream[p] \in Seq(StreamRec) /\ stream'[p] = Append(stream[p], r)
  BY DEF TypeOK, StreamsOK
<1>2. /\ Len(stream'[p]) = Len(stream[p]) + 1 /\ Len(stream[p]) \in Nat
      /\ stream'[p][Len(stream[p]) + 1] = r
      /\ \A i \in 1..Len(stream[p]) : stream'[p][i] = stream[p][i]
  BY <1>1
<1>3. \A i : i \in 1..(Len(stream[p]) + 1) <=> i \in 1..Len(stream[p]) \/ i = Len(stream[p]) + 1
  BY <1>2
<1> QED
  BY <1>2, <1>3 DEF Marks

\* Coordinators never write the FORKED record of their run.
LEMMA WorldMarks ==
  ASSUME TypeOK, WorldStep, NEW p \in Procs, \A q \in Procs : RunInv(q)
  PROVE  Marks(p)' = Marks(p)
<1>1. UNCHANGED mem
  BY WorldStepEffect
<1>2. ASSUME NEW q \in Procs, coord[q].ph # "none",
             \/ Write(q, "RUNNING", 2)
             \/ \E st \in {"SUCCESS", "FAILED", "KILLED"} : Write(q, st, 3)
      PROVE  Marks(p)' = Marks(p)
  <2>1. coord[q].base = mem.proc[q].base /\ mem.proc[q].base \in Int
    BY <1>2 DEF RunInv, LatestOnly, TypeOK, RunnerState, ProcessRun
  <2>2. PICK r \in StreamRec : /\ stream' = [stream EXCEPT ![q] = Append(@, r)]
                               /\ r.seq # mem.proc[q].base + 1
    BY <1>2, <2>1 DEF Write, StreamRec, ProcessStates
  <2>3. CASE p = q
    BY <1>1, <2>2, <2>3, AppendMarks
  <2>4. CASE p # q
    BY <1>1, <2>2, <2>4 DEF Marks, TypeOK, StreamsOK
  <2> QED
    BY <2>3, <2>4
<1>3. CASE UNCHANGED stream
  BY <1>1, <1>3 DEF Marks
<1>4. UNCHANGED stream \/ \E q \in Procs : WriteRunning(q) \/ \E st \in {"SUCCESS", "FAILED", "KILLED"} : WriteTerminal(q, st)
  BY DEF WorldStep, vars, worldVars, CoordinatorStep, TakeControl, GiveUpControl,
     ExecCommand, CoordinatorExits, CommandExits, CoordinatorDies, ForkOverdue, CoolDown, Expire
<1> QED
  BY <1>2, <1>3, <1>4 DEF WriteRunning, WriteTerminal

\* A handler loses sight of nothing.
LEMMA HandlerKept ==
  ASSUME BaseInv, Handler, starts <= 1, Up', \A p \in Procs : ForkInv(p), NEW p \in Procs
  PROVE  Kept(p)
<1> USE DEF BaseInv
<1> DEFINE r == pend
           s == HandleProcess(mem, r)
<1>1. r \in ProcessRec /\ r.p \in Procs /\ r # NoRec /\ Up
  BY DEF TypeOK, ControlOK, ProcessRec, Handler, LogInv
<1>2. s.ok
  BY DEF Handler, GoDown, Up
<1>3. /\ mem' = s /\ pend' = NoRec /\ UNCHANGED <<pc, work, at, nxt, stream>>
      /\ pos' = IF r.st = "WAITING" THEN [pos EXCEPT ![r.p] = Unbound] ELSE pos
      /\ IF r.st \in TerminalProcess THEN KillProcess(r.p) ELSE UNCHANGED <<coord, kids>>
  BY <1>2 DEF Handler
<1>4. s.proc = mem.proc
  BY <1>1, HandleKeeps DEF TypeOK
<1>5. /\ r.st = "WAITING" => r.p \notin mem.tp /\ s.tp = mem.tp \union {r.p} /\ s.pst = mem.pst
      /\ r.st \in {"FORKED", "RUNNING"} =>
           s.tp = mem.tp /\ s.pst = [mem.pst EXCEPT ![r.p] = "running"]
      /\ r.st \in TerminalProcess =>
           /\ r.p \in mem.tp /\ s.tp = mem.tp \ {r.p} /\ mem.pst[r.p] = "running"
           /\ \E x \in PlanStatus \ {"running"} : s.pst = [mem.pst EXCEPT ![r.p] = x]
  BY <1>1, <1>2, HandleEffect DEF TypeOK
<1>6. r.st \in {"WAITING", "FORKED", "RUNNING"} \union TerminalProcess
  BY <1>1 DEF ProcessRec, ProcessStates, TerminalProcess
<1>7. /\ mem.proc[r.p].st = r.st
      /\ r.st = "FAILED" /\ ~mem.proc[r.p].cpid => mem.pst[r.p] # "running"
      /\ RunInv(r.p) /\ ObjectInv(r.p)
  BY <1>1 DEF OneInv, PendInv
<1>8. mem.pst \in [Procs -> PlanStatus]
  BY DEF TypeOK, RunnerState
<1>9. pos \in [Procs -> Nat \union {Unbound}]
  BY DEF TypeOK, StreamsOK
<1>10. \A q \in Procs : Live(q)' => Live(q)
  BY <1>1, <1>3, KillProcessEffect DEF Live, NoCoord
<1>11. ~ForkPending(p)' /\ (p # r.p => ~ForkPending(p))
  BY <1>3 DEF ForkPending
<1> HIDE DEF r, s
<1>12. CASE p # r.p
  <2>1. mem'.proc[p] = mem.proc[p] /\ mem'.pst[p] = mem.pst[p] /\ (p \in mem.tp => p \in mem'.tp)
    BY <1>3, <1>4, <1>5, <1>6, <1>8, <1>12
  <2>2. Marks(p)' = Marks(p) /\ (Forking(p) => Forking(p)') /\ pos'[p] = pos[p]
    BY <1>3, <1>9, <1>12, <2>1 DEF Marks, Forking
  <2> QED
    BY <1>3, <1>10, <1>11, <2>1, <2>2, <1>12, OtherKept
<1>13. CASE p = r.p /\ r.st \in TerminalProcess
  <2>1. mem.proc[p].cpid
    BY <1>5, <1>7, <1>13 DEF RunInv, RunBooks, TerminalProcess
  <2>2. ~Live(p)'
    BY <1>3, <1>7, <1>13, <2>1, KillProcessEffect DEF Live, RunInv
  <2>3. mem'.pst[p] # "running" /\ mem'.proc[p].st = r.st
    BY <1>1, <1>3, <1>4, <1>5, <1>7, <1>8, <1>13
  <2>4. ~Started(p)'
    BY <1>13, <2>3 DEF Started, TerminalProcess
  <2> QED
    BY <1>11, <1>13, <2>2, <2>3, <2>4, GoneKept DEF TerminalProcess
<1>14. CASE p = r.p /\ r.st = "WAITING"
  <2>1. ~Started(p)
    BY <1>1, <1>14 DEF ForkInv, r
  <2>2. mem'.proc[p] = mem.proc[p] /\ mem'.pst[p] = mem.pst[p] /\ Marks(p)' = Marks(p)
    BY <1>3, <1>4, <1>5, <1>14 DEF Marks
  <2>3. ~Live(p) /\ ~Started(p)' /\ mem'.proc[p].st = "WAITING"
    BY <1>5, <1>7, <1>14, <2>1, <2>2 DEF ObjectInv, Started, Marks
  <2> QED
    BY <1>10, <1>11, <2>2, <2>3 DEF Kept, ForkInv, Counted, Charged
<1>15. CASE p = r.p /\ r.st \in {"FORKED", "RUNNING"}
  <2>1. mem'.pst[p] = "running" /\ mem'.proc[p].st = r.st
    BY <1>1, <1>3, <1>4, <1>5, <1>7, <1>8, <1>15
  <2>2. ~Started(p)'
    BY <1>15, <2>1 DEF Started
  <2>3. Counted(p)
    BY <1>7, <1>15 DEF ForkInv, Counted
  <2> QED
    BY <2>1, <2>2, <2>3 DEF Kept, ForkInv, Counted, Charged
<1> QED
  BY <1>6, <1>12, <1>13, <1>14, <1>15

\* Nor does the dispatch of a record.
LEMMA DispatchKept ==
  ASSUME BaseInv, NEW q \in Procs, DispatchUpdate(q), starts <= 1, Up',
         \A p \in Procs : ForkInv(p), NEW p \in Procs
  PROVE  Kept(p)
<1> USE DEF BaseInv
<1> DEFINE u == stream[q][nxt[q] + 1]
           r == [p |-> q, st |-> u.st, seq |-> u.seq]
<1>1. Ready("collect") /\ Batched(q) /\ Up /\ UNCHANGED <<coord, kids, stream>>
  BY DEF DispatchUpdate, Ready, Up, worldVars
<1>2. Dispatchable(mem, r) /\ Checkpoint(r) /\ nxt' = [nxt EXCEPT ![q] = @ + 1]
      /\ UNCHANGED <<pc, work, pos>>
  BY DEF DispatchUpdate, GoDown, Up
<1>3. nxt[q] + 1 \in 1..Len(stream[q]) /\ r \in ProcessRec
  BY <1>1, DispatchedType
<1>4. RunInv(q) /\ ForkInv(q)
  BY DEF OneInv
<1>5. LegalRec(r) /\ (r.st = "FAILED" => mem.proc[q].cpid) /\ r.st # "LOST"
  BY <1>2, <1>3, <1>4, StreamRecLegal DEF RunInv
<1>6. /\ pend = NoRec /\ pend' = r /\ mem'.tp = mem.tp /\ mem'.pst = mem.pst
      /\ mem'.proc[q].st = r.st
      /\ \A x \in Procs \ {q} : mem'.proc[x] = mem.proc[x]
  BY <1>1, <1>2, <1>3, CheckpointEffect DEF Ready
<1>7. r.p = q /\ r.st = u.st /\ r.seq = u.seq /\ r # NoRec
  BY RunnerAssumption DEF NoRec
<1> HIDE DEF r, u
<1>8. CASE p # q
  <2>1. ~Forking(p) /\ (Live(p)' <=> Live(p)) /\ Marks(p)' = Marks(p)
    BY <1>1, <1>6, <1>8 DEF Forking, Live, Marks, Ready
  <2>2. nxt'[p] = nxt[p] /\ ~ForkPending(p)
    BY <1>2, <1>6, <1>8 DEF TypeOK, StreamsOK, ForkPending
  <2> QED
    BY <1>2, <1>6, <1>7, <1>8, <2>1, <2>2, OtherKept
<1>9. CASE p = q
  <2>1. mem.proc[q].st \in SourceStates(r.st) /\ r.st \in ProcessStates \ {"WAITING"}
        /\ r.seq = mem.proc[q].seq + 1
    BY <1>3, <1>5, <1>7 DEF LegalRec, ProcessRec
  <2>2. CASE r.st = "FORKED"
    <3>1. mem.proc[q].st = "WAITING"
      BY <2>1, <2>2, Sources
    <3>2. u.seq = mem.proc[q].base + 1
      BY <1>4, <1>7, <2>1, <3>1 DEF RunInv, RunBooks
    <3>3. Started(q)
      BY <1>3, <3>1, <3>2 DEF Started, u
    <3> QED
      BY <1>6, <1>7, <1>9, <2>2, <3>3, RecordKept DEF Charged, Counted
  <2>3. CASE r.st # "FORKED"
    <3>1. mem.proc[q].st \in {"FORKED", "RUNNING"}
      <4>1. mem.proc[q].st = "WAITING" => ~mem.proc[q].cpid
        BY <1>4 DEF RunInv, RunBooks
      <4>2. r.st = "FAILED" => mem.proc[q].st = "RUNNING"
        BY <1>5, <2>1, <4>1, Sources
      <4> QED
        BY <2>1, <2>3, <4>2, Sources DEF ProcessStates
    <3>2. mem.pst[q] = "running"
      BY <1>4, <1>6, <3>1 DEF ForkInv, ForkPending
    <3> QED
      BY <1>6, <1>7, <1>9, <2>1, <3>2, RecordKept DEF Charged, Counted
  <2> QED
    BY <2>2, <2>3
<1> QED
  BY <1>8, <1>9

\* One step while the regular plan runs undisturbed, for one process.
LEMMA StepKept ==
  ASSUME BaseInv, ActiveInv, Active, Active', starts <= 1, [Next]_vars, ~Start,
         NEW p \in Procs
  PROVE  Kept(p)
<1> USE DEF BaseInv
<1>1. /\ Up /\ Up' /\ ~GoDown /\ mem.task = "ACTIVE" /\ mem'.task = "ACTIVE" /\ forced' = "none"
      /\ pc # "kill" /\ mem \in RunnerState /\ mem' \in RunnerState
  BY NextStatesOK DEF Active, ActiveInv, Up, GoDown, TypeOK
<1>2. /\ ForkInv(p) /\ (\A q \in Procs : ForkInv(q)) /\ (\A q \in Procs : RunInv(q))
      /\ (\A q \in Procs : ObjectInv(q)) /\ LaunchInv
  BY DEF Active, ActiveInv, OneInv
<1>3. \A task : SetTaskStatus(task) => task = "ACTIVE"
  <2> SUFFICES ASSUME NEW task, SetTaskStatus(task) PROVE task = "ACTIVE"
    OBVIOUS
  <2>1. mem'.task = task
    BY <1>1 DEF SetTaskStatus, RunnerState
  <2> QED
    BY <1>1, <2>1
<1>4. ASSUME pend = NoRec
      PROVE  ~ForkPending(p)
  BY <1>4 DEF ForkPending
<1>5. ASSUME pend = NoRec, pc \notin {"launch", "fork", "poll", "collect"}, UNCHANGED <<stream, coord, kids>>,
             mem'.proc[p] = mem.proc[p], mem'.pst[p] = mem.pst[p],
             pend' # NoRec => pend'.p # p
      PROVE  Kept(p)
  <2>1. ~Started(p) /\ ~Forking(p) /\ Marks(p)' = Marks(p) /\ (Live(p)' => Live(p))
    BY <1>2, <1>5 DEF ForkInv, Forking, Marks, Live
  <2> QED
    BY <1>2, <1>4, <1>5, <2>1, QuietKept
<1>6. CASE Resume \/ OnActive \/ StagePlan \/ PickRunnable
  <2>1. /\ pend = NoRec /\ pend' = NoRec /\ UNCHANGED <<stream, coord, kids>>
        /\ pc \notin {"launch", "fork", "poll", "collect"}
    BY <1>6 DEF Resume, OnActive, StagePlan, PickRunnable, Ready, worldVars
  <2>2. mem'.proc = mem.proc /\ mem'.pst = mem.pst
    BY <1>1, <1>6 DEF Resume, OnActive, StagePlan, PickRunnable, RunnerState
  <2> QED
    BY <1>5, <2>1, <2>2
<1>7. CASE WorldStep
  <2>1. /\ UNCHANGED <<mem, pc, pend, work, at, pos, nxt>> /\ (Live(p)' => Live(p))
        /\ Marks(p)' = Marks(p)
    BY <1>2, <1>7, WorldStepEffect, WorldMarks
  <2> QED
    BY <1>2, <2>1, OtherKept DEF Forking
<1>8. ASSUME NEW q \in Procs, SetProcessStatus(q, "LOST"), mem.proc[q].st \in {"FORKED", "RUNNING"},
             pend = NoRec, pc \in {"scan", "hasdata"}, UNCHANGED <<stream, coord, kids>>
      PROVE  Kept(p)
  <2>1. Rec(q, "LOST") \in ProcessRec
    BY DEF TypeOK, RunnerState, ProcessRun, Rec, ProcessRec, ProcessStates
  <2>2. /\ pend' = Rec(q, "LOST") /\ mem'.pst = mem.pst /\ mem'.proc[q].st = "LOST"
        /\ \A x \in Procs \ {q} : mem'.proc[x] = mem.proc[x]
    BY <1>8, <2>1, CheckpointEffect DEF SetProcessStatus, Rec
  <2>3. pend'.p = q /\ pend'.st = "LOST" /\ pend' # NoRec
    BY <2>2, RunnerAssumption DEF Rec, NoRec
  <2>4. CASE p # q
    BY <1>5, <1>8, <2>2, <2>3, <2>4
  <2>5. CASE p = q
    <3>1. mem.pst[p] = "running"
      BY <1>2, <1>4, <1>8, <2>5 DEF ForkInv
    <3> QED
      BY <2>2, <2>3, <2>5, <3>1, RecordKept DEF Charged, Counted
  <2> QED
    BY <2>4, <2>5
<1>9. CASE ScanData
  <2>1. /\ Ready("hasdata") /\ at \in Procs /\ mem.proc[at].st = "RUNNING"
        /\ UNCHANGED <<stream, coord, kids>>
        /\ SetProcessStatus(at, "LOST") \/ UNCHANGED <<disk, mem, pend>>
    BY <1>1, <1>9 DEF ScanData, worldVars, TypeOK, ControlOK, Ready, OneInv, LostInv
  <2> QED
    BY <1>5, <1>8, <2>1 DEF Ready
<1>10. ASSUME NEW q \in Procs, ScanOne(q)
       PROVE  Kept(p)
  <2>1. /\ Ready("scan") /\ UNCHANGED <<stream, coord, kids>>
        /\ \/ SetProcessStatus(q, "LOST") /\ mem.proc[q].st = "FORKED"
           \/ UNCHANGED <<disk, mem, pend>>
    BY <1>10 DEF ScanOne, worldVars
  <2> QED
    BY <1>5, <1>8, <2>1 DEF Ready
<1>11. CASE Handler
  BY <1>1, <1>2, <1>11, HandlerKept
<1>12. ASSUME NEW q \in Procs, DispatchUpdate(q)
       PROVE  Kept(p)
  BY <1>1, <1>2, <1>12, DispatchKept
<1>13. ASSUME NEW q \in Procs, LaunchWaiting(q)
       PROVE  Kept(p)
  <2>1. /\ pc = "launch" /\ pend = NoRec /\ q \in work \ mem.tp /\ SetProcessStatus(q, "WAITING")
        /\ mem.proc[q].st \in SourceStates("WAITING")
        /\ UNCHANGED <<pc, work, at, pos, nxt, stream, coord, kids>>
    BY <1>1, <1>13 DEF LaunchWaiting, Ready, worldVars
  <2>2. ~Live(q) /\ (mem.proc[q].st \in TerminalProcess => mem.proc[q].cpid) /\ mem.pst[q] = "runnable"
    BY <1>2, <2>1 DEF ObjectInv, LaunchInv
  <2>3. ~Started(q)' /\ \A x \in Procs \ {q} : mem'.proc[x] = mem.proc[x]
    BY <1>2, <2>1, <2>2, WaitingRunInv
  <2>4. Rec(q, "WAITING") \in ProcessRec
    BY DEF TypeOK, RunnerState, ProcessRun, Rec, ProcessRec, ProcessStates
  <2>5. pend' = Rec(q, "WAITING") /\ mem'.pst = mem.pst /\ mem'.tp = mem.tp /\ mem'.proc[q].st = "WAITING"
    BY <2>1, <2>4, CheckpointEffect DEF SetProcessStatus, Rec
  <2>6. pend'.p = q /\ pend'.st = "WAITING"
    BY <2>5 DEF Rec
  <2>7. CASE p # q
    <3>1. Marks(p)' = Marks(p) /\ (Live(p)' <=> Live(p)) /\ (Forking(p) => Forking(p)')
      BY <2>1, <2>3, <2>7 DEF Marks, Live, Forking
    <3> QED
      BY <1>2, <1>4, <2>1, <2>3, <2>5, <2>6, <2>7, <3>1, OtherKept
  <2>8. CASE p = q
    <3>1. ~Live(p)' /\ ~ForkPending(p)'
      BY <2>1, <2>2, <2>6, <2>8 DEF Live, ForkPending
    <3> QED
      BY <2>2, <2>3, <2>5, <2>8, <3>1, GoneKept
  <2> QED
    BY <2>7, <2>8
<1>14. ASSUME NEW q \in Procs, LaunchFork(q)
       PROVE  Kept(p)
  <2>1. /\ pc = "launch" /\ pend = NoRec /\ q \in work \intersect mem.tp
        /\ pc' = "fork" /\ at' = q
        /\ UNCHANGED <<mem, pend, work, pos, nxt, stream, kids>>
        /\ \A x \in Procs \ {q} : coord'[x] = coord[x]
    BY <1>1, <1>14 DEF LaunchFork, Ready, TypeOK, WorldOK
  <2>2. Marks(p)' = Marks(p) /\ ~Forking(p)
    BY <2>1 DEF Marks, Forking
  <2>3. CASE p # q
    BY <1>2, <2>1, <2>2, <2>3, OtherKept DEF Live
  <2>4. CASE p = q
    <3>1. ~Started(p) /\ (Started(p)' <=> Started(p)) /\ (ForkPending(p)' <=> ForkPending(p))
      BY <1>2, <2>1, <2>2, <2>4 DEF ForkInv, Started, Marks, ForkPending
    <3>2. Forking(p)' /\ p \in Charged
      BY <2>1, <2>4 DEF Forking, Charged
    <3> QED
      BY <1>2, <2>1, <3>1, <3>2 DEF Kept, ForkInv
  <2> QED
    BY <2>3, <2>4
<1>15. CASE FinalizeFork
  <2> DEFINE n == Len(stream[at]) + 1
  <2>1. /\ pc = "fork" /\ pend = NoRec /\ at \in Procs /\ pc' = "launch" /\ work' = work \ {at}
        /\ stream' = [stream EXCEPT ![at] =
                         Append(@, [st |-> "FORKED", seq |-> mem.proc[at].base + 1])]
        /\ UNCHANGED <<mem, pend, pos, nxt, coord, kids>>
    BY <1>15 DEF FinalizeFork, Ready, TypeOK, ControlOK
  <2>2. at \in work \intersect mem.tp /\ mem.proc[at].st = "WAITING"
    BY <1>2, <2>1 DEF LaunchInv
  <2>3. ForkInv(at)
    BY <1>2, <2>1
  <2>4. ~Started(at)
    BY <2>1, <2>2, <2>3 DEF ForkInv
  <2>5. CASE p # at
    <3>1. Marks(p)' = Marks(p) /\ ~Forking(p) /\ (Live(p)' <=> Live(p))
      BY <2>1, <2>5 DEF Marks, Forking, TypeOK, StreamsOK, Live
    <3> QED
      BY <1>2, <2>1, <2>5, <3>1, OtherKept
  <2>6. CASE p = at
    <3>1. stream[p] \in Seq(StreamRec) /\ pos[p] <= Len(stream[p]) /\ pos[p] \in Int
      BY DEF TypeOK, StreamsOK, Unbound
    <3>2. /\ Len(stream'[p]) = n /\ stream'[p][n].seq = mem.proc[p].base + 1 /\ n \in 1..n
          /\ \A i \in 1..n : i = n \/ (i \in 1..Len(stream[p]) /\ stream'[p][i] = stream[p][i])
      <4>1. stream'[p] = Append(stream[p], [st |-> "FORKED", seq |-> mem.proc[p].base + 1])
        BY <2>1, <2>6 DEF TypeOK, StreamsOK
      <4> QED
        BY <2>6, <3>1, <4>1
    <3>3. Marks(p)' = {n}
      BY <2>1, <2>2, <2>4, <2>6, <3>2 DEF Marks, Started
    <3>4. Started(p)' /\ ~ForkPending(p)'
      BY <2>1, <2>2, <2>6, <3>2 DEF Started, ForkPending
    <3>5. \A i \in Marks(p)' : pos'[p] < i
      BY <2>1, <2>6, <3>1, <3>3
    <3>6. p \in Charged
      BY <2>1, <2>2, <2>6 DEF Charged
    <3>7. ForkInv(p)'
      BY <2>1, <2>2, <2>6, <3>4, <3>5 DEF ForkInv, Counted
    <3> QED
      BY <3>6, <3>7 DEF Kept
  <2> QED
    BY <2>5, <2>6
<1>16. ASSUME NEW q \in Procs, LaunchFails(q)
       PROVE  Kept(p)
  <2>1. /\ pc = "launch" /\ pend = NoRec /\ q \in work \intersect mem.tp /\ SetProcessStatus(q, "FAILED")
        /\ work' = work \ {q} /\ UNCHANGED <<pc, at, pos, nxt, stream, coord, kids>>
    BY <1>16 DEF LaunchFails, Ready, worldVars
  <2>2. Rec(q, "FAILED") \in ProcessRec
    BY DEF TypeOK, RunnerState, ProcessRun, Rec, ProcessRec, ProcessStates
  <2>3. /\ pend' = Rec(q, "FAILED") /\ mem'.pst = mem.pst /\ mem'.tp = mem.tp /\ mem'.proc[q].st = "FAILED"
        /\ \A x \in Procs \ {q} : mem'.proc[x] = mem.proc[x]
    BY <2>1, <2>2, CheckpointEffect DEF SetProcessStatus, Rec
  <2>4. pend'.p = q /\ pend'.st = "FAILED" /\ pend' # NoRec
    BY <2>3, RunnerAssumption DEF Rec, NoRec
  <2>5. CASE p # q
    <3>1. Marks(p)' = Marks(p) /\ (Live(p)' <=> Live(p)) /\ (Forking(p) => Forking(p)')
      BY <2>1, <2>3, <2>5 DEF Marks, Live, Forking
    <3> QED
      BY <1>2, <1>4, <2>1, <2>3, <2>4, <2>5, <3>1, OtherKept
  <2>6. CASE p = q
    <3>1. mem.pst[p] = "runnable" /\ ~Started(p) /\ ~Forking(p) /\ p \in Charged
      BY <1>2, <2>1, <2>6 DEF LaunchInv, ForkInv, Forking, Charged
    <3>2. ~Live(p)
      BY <1>2, <1>4, <2>1, <3>1 DEF ForkInv, Counted
    <3>3. ~Live(p)'
      BY <2>1, <3>2 DEF Live
    <3> QED
      BY <2>3, <2>4, <2>6, <3>1, <3>3, RecordKept
  <2> QED
    BY <2>5, <2>6
<1>17. CASE EndPlan
  <2>1. /\ pc = "launch" /\ pc' = "poll" /\ UNCHANGED <<mem, pend, work, at, pos, nxt, stream, coord, kids>>
    BY <1>1, <1>3, <1>17 DEF EndPlan, Ready, worldVars
  <2>2. Marks(p)' = Marks(p) /\ (Live(p)' <=> Live(p)) /\ ~Forking(p)
    BY <2>1 DEF Marks, Live, Forking
  <2> QED
    BY <1>2, <2>1, <2>2, OtherKept
<1>18. CASE PollSome
  <2>1. /\ pc = "poll" /\ pc' = "collect" /\ pend = NoRec /\ pend' = NoRec
        /\ Select([x \in Procs |-> ReadPos(x)]) /\ UNCHANGED <<mem, work, at, stream, coord, kids>>
    BY <1>18 DEF PollSome, Ready, worldVars
  <2>2. Marks(p)' = Marks(p) /\ (Live(p)' <=> Live(p)) /\ ~Forking(p) /\ ~ForkPending(p)
    BY <1>4, <2>1 DEF Marks, Live, Forking
  <2>3. CASE ~Started(p)
    BY <1>2, <2>1, <2>2, <2>3, QuietKept
  <2>4. CASE Started(p)
    <3>1. p \in mem.tp /\ \A i \in Marks(p) : pos[p] < i
      BY <1>2, <2>1, <2>4 DEF ForkInv
    <3>2. \A i \in Marks(p) : ReadPos(p) < i /\ i \in 1..Len(stream[p])
      BY <3>1, ReadPosStops
    <3>3. nxt'[p] = ReadPos(p) /\ pos'[p] = Len(stream[p])
      BY <2>1, <3>1 DEF Select
    <3>4. \A i \in Marks(p)' : nxt'[p] < i /\ i <= pos'[p]
      <4>1. Len(stream[p]) \in Nat
        BY DEF TypeOK, StreamsOK
      <4> QED
        BY <2>2, <3>2, <3>3, <4>1
    <3>5. (Started(p)' <=> Started(p)) /\ ~ForkPending(p)'
      BY <2>1, <2>2 DEF Started, Marks, ForkPending
    <3>6. mem.proc[p].st = "WAITING"
      BY <2>4 DEF Started
    <3>7. ForkInv(p)'
      BY <2>1, <2>4, <3>1, <3>4, <3>5, <3>6 DEF ForkInv, Counted
    <3> QED
      BY <2>4, <3>7 DEF Kept, Charged, Counted
  <2> QED
    BY <2>3, <2>4
<1>19. CASE PollNone \/ EndCollect
  <2>1. /\ pc \in {"poll", "collect"} /\ pend = NoRec /\ pend' = NoRec
        /\ UNCHANGED <<mem, stream, coord, kids>>
        /\ pc = "poll" => ~HasData(p)
        /\ pc = "collect" => ~Batched(p)
    BY <1>19 DEF PollNone, EndCollect, Ready, worldVars
  <2>2. Marks(p)' = Marks(p) /\ (Live(p)' <=> Live(p)) /\ ~Forking(p)
    BY <2>1 DEF Marks, Live, Forking
  <2>3. ASSUME Started(p) PROVE FALSE
    <3>1. PICK i \in Marks(p) : TRUE
      BY <2>3 DEF Started, Marks
    <3>2. p \in mem.tp /\ (IF pc = "collect" THEN nxt[p] < i /\ i <= pos[p] ELSE pos[p] < i)
      BY <1>2, <2>3, <3>1 DEF ForkInv
    <3>3. i \in Nat /\ pos[p] \in Int /\ nxt[p] \in Nat
      BY <3>1 DEF Marks, TypeOK, StreamsOK, Unbound
    <3>4. CASE pc = "collect"
      BY <2>1, <3>2, <3>3, <3>4 DEF Batched
    <3>5. CASE pc = "poll"
      <4>1. ReadPos(p) < i /\ i \in 1..Len(stream[p]) /\ ReadPos(p) \in 0..Len(stream[p])
        BY <3>2, <3>5, ReadPosStops, ReadPosType
      <4>2. Len(stream[p]) \in Nat
        BY DEF TypeOK, StreamsOK
      <4> QED
        BY <2>1, <3>2, <3>5, <4>1, <4>2 DEF HasData
    <3> QED
      BY <2>1, <3>4, <3>5
  <2> QED
    BY <1>2, <1>4, <2>1, <2>2, <2>3, QuietKept
<1>20. ASSUME OnCleaning \/ OnKilling \/ StageKilled \/ StageCleaning \/ EnterFinalizing
              \/ FinalizeTask \/ Crash \/ (\E q \in Procs : KillOne(q))
              \/ (\E status \in {"KILLED", "LOST"} : KillSignal(status))
       PROVE  FALSE
  BY <1>1, <1>3, <1>20 DEF OnCleaning, OnKilling, StageKilled, StageCleaning, EnterFinalizing,
     FinalizeTask, Crash, KillOne, KillSignal, Ready, Active, TerminalTask
<1> QED
  BY <1>6, <1>7, <1>9, <1>10, <1>11, <1>12, <1>13, <1>14, <1>15, <1>16, <1>17, <1>18, <1>19, <1>20
  DEF Next, RunnerStep, WorldStep

-----------------------------------------------------------------------------
(* The regular plan. *)

\* A runner told to kill or lose an ACTIVE task only catches up with the streams.
LEMMA ForcedSteps ==
  ASSUME TypeOK, LogInv, [Next]_vars, ~Start, Up', mem'.task = "ACTIVE", forced' # "none",
         Up /\ forced # "none" => pc \in {"task", "resume", "collect", "stage"}
  PROVE  pc' \in {"task", "resume", "collect", "stage"}
<1>1. mem.task = "ACTIVE"
  BY ActiveBefore
<1>2. CASE WorldStep
  BY <1>2, WorldStepEffect DEF Up
<1> SUFFICES ASSUME Up, ~WorldStep PROVE pc' \in {"task", "resume", "collect", "stage"}
  BY <1>2, DownStep
<1>3. ~GoDown
  BY DEF GoDown, Up
<1>4. CASE \E status \in {"KILLED", "LOST"} : KillSignal(status)
  BY <1>3, <1>4 DEF KillSignal, SetTaskStatus
<1>5. CASE ~(\E status \in {"KILLED", "LOST"} : KillSignal(status))
  <2>1. forced' = forced
    BY <1>3, <1>5, StepKinds DEF Handler, FinalizeTask, OnActive, EnterFinalizing, StageKilled,
       StageCleaning, EndPlan, EndStep, LoopStep
  <2>2. pc \in {"task", "resume", "collect", "stage"} /\ forced # "none"
    BY <2>1
  <2> QED
    BY <1>1, <1>3, <1>5, <2>2, ZenonT(60) DEF Next, RunnerStep, WorldStep, Handler, Resume, OnActive,
       OnCleaning, OnKilling, KillOne, EnterFinalizing, FinalizeTask, StagePlan, StageKilled, StageCleaning,
       ScanOne, ScanData, PickRunnable, LaunchWaiting, LaunchFork, FinalizeFork, LaunchFails, EndPlan,
       PollSome, PollNone, DispatchUpdate, EndCollect, Crash, Ready, TypeOK, ControlOK, TerminalTask,
       SetTaskStatus
<1> QED
  BY <1>4, <1>5

\* The finalizing plan is not touched before its time.
LEMMA FinalUntouched ==
  ASSUME BaseInv, Active, Active', [Next]_vars, ~Start, mem.plan # "final"
  PROVE  mem'.plan # "final" /\ \A p \in Final : mem'.pst[p] = mem.pst[p]
<1> USE DEF BaseInv
<1>1. CASE WorldStep
  BY <1>1, WorldStepEffect
<1> SUFFICES ASSUME ~WorldStep
             PROVE  mem'.plan # "final" /\ \A p \in Final : mem'.pst[p] = mem.pst[p]
  BY <1>1
<1>2. /\ Up /\ ~GoDown /\ mem \in RunnerState /\ mem.task = "ACTIVE" /\ mem'.task = "ACTIVE"
      /\ forced = "none" /\ forced' = "none"
  BY DEF Active, Up, GoDown, TypeOK
<1>3. CASE Handler
  <2>1. pend \in ProcessRec /\ HandleProcess(mem, pend).ok /\ mem' = HandleProcess(mem, pend)
    BY <1>2, <1>3 DEF Handler, TypeOK, ControlOK
  <2>2. mem'.plan = mem.plan
    BY <1>2, <2>1, HandleKeeps
  <2>3. pend.p \in Procs /\ pend.st \in {"WAITING", "FORKED", "RUNNING"} \union TerminalProcess
    BY <2>1 DEF ProcessRec, ProcessStates, TerminalProcess
  <2>4. \/ mem'.pst = mem.pst
        \/ pend.p \in PlanProcs(mem) /\ \E x \in PlanStatus : mem'.pst = [mem.pst EXCEPT ![pend.p] = x]
    BY <1>2, <2>1, <2>3, HandleEffect, ZenonT(60) DEF PlanStatus
  <2>5. PlanProcs(mem) \intersect Final = {}
    BY PlanAssumption DEF PlanProcs
  <2>6. mem.pst \in [Procs -> PlanStatus]
    BY <1>2 DEF RunnerState
  <2>7. \A p \in Final : mem'.pst[p] = mem.pst[p]
    BY <2>4, <2>5, <2>6 DEF Procs
  <2> QED
    BY <2>2, <2>7
<1>4. CASE OnActive
  BY <1>2, <1>4 DEF OnActive, RunnerState
<1>5. CASE EndPlan
  <2>1. UNCHANGED mem \/ \E task : SetTaskStatus(task)
    BY <1>5 DEF EndPlan
  <2> QED
    BY <1>2, <2>1 DEF SetTaskStatus, RunnerState
<1>6. CASE LoopStep
  BY <1>6, CheckpointBooks DEF LoopStep
<1> QED
  BY <1>2, <1>3, <1>4, <1>5, <1>6, StepKinds DEF FinalizeTask, EnterFinalizing, StageKilled,
     StageCleaning, KillSignal, EndStep, TerminalTask

\* Every step keeps ActiveInv.
LEMMA NextActiveInv ==
  ASSUME BaseInv, ActiveInv, [Next]_vars
  PROVE  ActiveInv'
<1> USE DEF BaseInv
<1>1. CASE Start
  <2> SUFFICES ASSUME starts' <= 1 PROVE ActiveInv'
    BY DEF ActiveInv
  <2>1. starts = 0
    BY <1>1 DEF Start, TypeOK, WorldOK
  <2>2. /\ mem' = InitState /\ pc' = "task" /\ pend' = NoRec
        /\ \A p \in Procs : ~Live(p)'
    BY <1>1, <2>1 DEF OneInv, Start, worldVars, LogInv, Live
  <2>3. \A p \in Procs : mem'.proc[p].st = "NONE" /\ mem'.pst[p] = "runnable"
    BY <2>2 DEF InitState, NoRun
  <2>4. \A p \in Procs : ForkInv(p)'
    BY <2>2, <2>3 DEF ForkInv, Started
  <2> QED
    BY <2>2, <2>3, <2>4 DEF ActiveInv, InitState, Procs
<1> SUFFICES ASSUME ~Start, starts <= 1, Up', mem'.task = "ACTIVE" PROVE ActiveInv'
  BY <1>1, OnlyStartStarts DEF ActiveInv
<1>2. mem.task = "ACTIVE"
  BY ActiveBefore
<1>3. CASE forced' # "none"
  BY <1>2, <1>3, ForcedSteps DEF ActiveInv
<1>4. CASE forced' = "none"
  <2>1. Active /\ Active'
    BY <1>2, <1>4, ForcedBefore DEF Active
  <2>2. \A p \in Procs : ForkInv(p)'
    BY <2>1, StepKept DEF Kept
  <2>3. mem.plan # "final" /\ \A p \in Final : mem.pst[p] = "runnable"
    BY <2>1 DEF Active, ActiveInv
  <2>4. mem'.plan # "final" /\ \A p \in Final : mem'.pst[p] = "runnable"
    BY <2>1, <2>3, FinalUntouched
  <2>5. pc' # "kill"
    <3> SUFFICES ASSUME pc' = "kill" PROVE FALSE
      OBVIOUS
    <3>1. pc # "kill"
      BY <2>1 DEF Active, ActiveInv
    <3>2. WorldStep \/ OnKilling \/ Handler \/ \E p \in Procs : KillOne(p)
      BY KillSteps
    <3> QED
      BY <1>2, <3>1, <3>2, WorldStepEffect DEF OnKilling, Handler, KillOne, Ready, GoDown, TerminalTask
  <2> QED
    BY <2>2, <2>4, <2>5, <1>4 DEF ActiveInv
<1> QED
  BY <1>3, <1>4

-----------------------------------------------------------------------------
(* ConcurrencyLimit. *)

\* The greater and the smaller of two numbers.
LEMMA MaxMin ==
  ASSUME NEW a \in Int, NEW b \in Int
  PROVE  /\ Max({a, b}) = IF a >= b THEN a ELSE b
         /\ Min({a, b}) <= a
<1>1. \E x \in {a, b} : \A y \in {a, b} : x >= y
  BY a >= b \/ b >= a
<1>2. Max({a, b}) \in {a, b} /\ \A y \in {a, b} : Max({a, b}) >= y
  BY <1>1, Zenon DEF Max
<1>3. \E x \in {a, b} : \A y \in {a, b} : x <= y
  BY a >= b \/ b >= a
<1>4. Min({a, b}) \in {a, b} /\ \A y \in {a, b} : Min({a, b}) <= y
  BY <1>3, Zenon DEF Min
<1> QED
  BY <1>2, <1>4

\* Cardinalities of sets of processes.
LEMMA CountProcs ==
  ASSUME NEW S \in SUBSET Procs, NEW T \in SUBSET Procs
  PROVE  /\ Cardinality(S) \in Nat
         /\ S \subseteq T => Cardinality(S) <= Cardinality(T)
         /\ Cardinality(S \union T) <= Cardinality(S) + Cardinality(T)
<1>1. IsFiniteSet(S) /\ IsFiniteSet(T)
  BY PlanAssumption, FS_Subset
<1>2. /\ Cardinality(S) \in Nat /\ Cardinality(T) \in Nat
      /\ S \subseteq T => Cardinality(S) <= Cardinality(T)
  BY <1>1, FS_Subset, FS_CardinalityType
<1>3. IsFiniteSet(S \intersect T) /\ Cardinality(S \intersect T) \in Nat
  BY <1>1, FS_Subset, FS_CardinalityType
<1>4. Cardinality(S \union T) = Cardinality(S) + Cardinality(T) - Cardinality(S \intersect T)
  BY <1>1, FS_Union
<1> QED
  BY <1>2, <1>3, <1>4

\* Only LaunchFork brings a process to life.
LEMMA LiveShrinks ==
  ASSUME TypeOK, LogInv, [Next]_vars, NEW p \in Procs, Live(p)', ~Live(p)
  PROVE  \E q \in Procs : LaunchFork(q) /\ ~GoDown
<1>1. ~WorldStep
  BY WorldStepEffect
<1>2. ~UNCHANGED <<coord, kids>>
  BY DEF Live
<1>3. ~OnCleaning
  BY DEF OnCleaning, TerminateOrphans, Live, NoCoord
<1>4. ASSUME NEW q \in Procs, KillProcess(q)
      PROVE  FALSE
  BY <1>4, KillProcessEffect DEF Live, NoCoord
<1>5. ~Handler
  <2>1. pend # NoRec => pend.p \in Procs
    BY DEF TypeOK, ControlOK, ProcessRec
  <2> QED
    BY <1>2, <1>4, <2>1 DEF Handler
<1>6. ~(\E q \in Procs : KillOne(q))
  BY <1>2, <1>4 DEF KillOne
<1>7. \E q \in Procs : LaunchFork(q)
  BY <1>1, <1>2, <1>3, <1>5, <1>6 DEF Next, RunnerStep, WorldStep, worldVars, Resume, OnActive,
     OnKilling, EnterFinalizing, FinalizeTask, StagePlan, StageKilled, StageCleaning,
     ScanOne, ScanData, PickRunnable, LaunchWaiting, FinalizeFork, LaunchFails, EndPlan,
     PollSome, PollNone, DispatchUpdate, EndCollect, Start, Crash, KillSignal
<1> QED
  BY <1>2, <1>7 DEF LaunchFork, GoDown, Ready

\* Every other step of the regular plan leaves no more charged and no more free.
LEMMA ChargeShrinks ==
  ASSUME BaseInv, ActiveInv, Active, Active', starts <= 1, [Next]_vars, ~Start,
         ~PickRunnable
  PROVE  /\ Charged' \subseteq Charged
         /\ StagePlan \/ Free' = Free \/ Free' = 0
<1>1. \A p \in Procs : Kept(p)
  BY StepKept
<1>2. ~GoDown
  BY DEF Active, Up, GoDown
<1>3. CASE WorldStep
  <2>1. UNCHANGED <<pc, work, quota>>
    BY <1>3, WorldStepEffect DEF BaseInv
  <2> QED
    BY <1>1, <2>1 DEF Kept, Charged, Free
<1>4. CASE ~WorldStep
  <2>1. pc' \in {"launch", "fork"} => pc \in {"launch", "fork"} /\ work' \subseteq work
    BY <1>2, <1>4, ZenonT(60) DEF Next, RunnerStep, WorldStep, Handler, Resume, OnActive,
       OnCleaning, OnKilling, KillOne, EnterFinalizing, FinalizeTask, StagePlan, StageKilled, StageCleaning,
       ScanOne, ScanData, PickRunnable, LaunchWaiting, LaunchFork, FinalizeFork, LaunchFails, EndPlan,
       PollSome, PollNone, DispatchUpdate, EndCollect, Crash, Ready, BaseInv, TypeOK, ControlOK,
       SetTaskStatus, KillSignal
  <2>2. pc' \in {"scan", "hasdata"} /\ ~StagePlan => pc \in {"scan", "hasdata"} /\ quota' = quota
    BY <1>2, <1>4, ZenonT(60) DEF Next, RunnerStep, WorldStep, Handler, Resume, OnActive,
       OnCleaning, OnKilling, KillOne, EnterFinalizing, FinalizeTask, StagePlan, StageKilled, StageCleaning,
       ScanOne, ScanData, PickRunnable, LaunchWaiting, LaunchFork, FinalizeFork, LaunchFails, EndPlan,
       PollSome, PollNone, DispatchUpdate, EndCollect, Crash, Ready, BaseInv, TypeOK, ControlOK,
       SetTaskStatus, KillSignal
  <2> QED
    BY <1>1, <2>1, <2>2 DEF Kept, Charged, Free
<1> QED
  BY <1>3, <1>4

\* Every step keeps LoadInv.
LEMMA NextLoadInv ==
  ASSUME BaseInv, ActiveInv, LoadInv, [Next]_vars
  PROVE  LoadInv'
<1> USE DEF BaseInv
<1> SUFFICES ASSUME MaxConcurrency > 0, starts' <= 1, mem'.task = "ACTIVE"
             PROVE  /\ Cardinality({p \in Procs : Live(p)'}) <= MaxConcurrency
                    /\ Active' => Cardinality(Charged') + Free' <= MaxConcurrency
  BY DEF LoadInv
<1>1. MaxConcurrency \in Nat
  BY PlanAssumption
<1>2. CASE Start
  <2>1. starts = 0
    BY <1>2 DEF Start, TypeOK, WorldOK
  <2>2. /\ mem' = InitState /\ pc' = "task" /\ pend' = NoRec
        /\ \A p \in Procs : ~Live(p)'
    BY <1>2, <2>1 DEF OneInv, Start, worldVars, LogInv, Live
  <2>3. \A p \in Procs : mem'.proc[p].st = "NONE" /\ mem'.pst[p] = "runnable"
    BY <2>2 DEF InitState, NoRun
  <2>4. \A p \in Procs : ~Counted(p)'
    BY <2>2, <2>3 DEF Counted, Started, ForkPending
  <2>5. {p \in Procs : Live(p)'} = {} /\ Charged' = {} /\ Free' = 0
    BY <2>2, <2>4 DEF Charged, Free
  <2> QED
    BY <1>1, <2>5, FS_EmptySet
<1> SUFFICES ASSUME ~Start
             PROVE  /\ Cardinality({p \in Procs : Live(p)'}) <= MaxConcurrency
                    /\ Active' => Cardinality(Charged') + Free' <= MaxConcurrency
  BY <1>2
<1>3. starts <= 1 /\ mem.task = "ACTIVE"
  BY OnlyStartStarts, ActiveBefore
<1>4. /\ Cardinality({p \in Procs : Live(p)}) <= MaxConcurrency
      /\ Active => Cardinality(Charged) + Free <= MaxConcurrency
  BY <1>3 DEF LoadInv
<1>5. CASE ~Active'
  <2>1. \A p \in Procs : Live(p)' => Live(p)
    <3> SUFFICES ASSUME NEW q \in Procs, LaunchFork(q), ~GoDown PROVE FALSE
      BY LiveShrinks
    <3>1. pc = "launch" /\ Up /\ Up' /\ UNCHANGED <<mem, forced>>
      BY DEF LaunchFork, Ready, Up
    <3> QED
      BY <1>3, <1>5, <3>1 DEF Active, ActiveInv
  <2>2. Cardinality({p \in Procs : Live(p)'}) <= Cardinality({p \in Procs : Live(p)})
    <3> DEFINE S == {p \in Procs : Live(p)'}
               T == {p \in Procs : Live(p)}
    <3>1. S \subseteq T /\ S \subseteq Procs /\ T \subseteq Procs
      BY <2>1
    <3> HIDE DEF S, T
    <3>2. Cardinality(S) <= Cardinality(T)
      BY <3>1, CountProcs
    <3> QED
      BY <3>2 DEF S, T
  <2>3. /\ Cardinality({p \in Procs : Live(p)'}) \in Nat
        /\ Cardinality({p \in Procs : Live(p)}) \in Nat
    BY CountProcs
  <2> QED
    BY <1>1, <1>4, <1>5, <2>2, <2>3
<1>6. CASE Active'
  <2>1. Active
    BY <1>3, <1>6, ForcedBefore DEF Active
  <2>2. /\ Charged \subseteq Procs /\ Charged' \subseteq Procs /\ quota \in Nat
        /\ Free \in Nat /\ Free' \in Nat /\ quota' \in Nat
    BY NextControlOK DEF Charged, Free, TypeOK, ControlOK
  <2>3. Cardinality(Charged) \in Nat /\ Cardinality(Charged') \in Nat
    BY <2>2, CountProcs
  <2>4. Cardinality(Charged) + Free <= MaxConcurrency
    BY <1>4, <2>1
  <2>5. Cardinality(Charged') + Free' <= MaxConcurrency
    <3>1. CASE ~PickRunnable /\ ~StagePlan
      BY <1>3, <1>6, <1>1, <2>1, <2>2, <2>3, <2>4, <3>1, ChargeShrinks, CountProcs
    <3>2. CASE PickRunnable
      <4>1. /\ pc = "scan" /\ pc' = "launch" /\ work = {}
            /\ LET ready == Runnable(mem, Plan) \ cool
               IN  work' \subseteq ready /\ Cardinality(work') = Min({quota, Cardinality(ready)})
        BY <3>2 DEF PickRunnable, Ready
      <4>2. Plan = Regular
        BY <1>3 DEF Plan
      <4>3. work' \subseteq Procs
        BY <4>1, <4>2 DEF Runnable, Procs
      <4>4. Runnable(mem, Plan) \ cool \in SUBSET Procs
        BY <4>2 DEF Runnable, Procs
      <4>5. Cardinality(work') <= quota /\ Cardinality(work') \in Nat
        BY <2>2, <4>1, <4>3, <4>4, MaxMin, CountProcs
      <4>6. Charged' \subseteq Charged \union work'
        BY <1>3, <1>6, <2>1, StepKept DEF Kept, Charged
      <4>7. Cardinality(Charged') <= Cardinality(Charged \union work')
        BY <2>2, <4>3, <4>6, CountProcs
      <4>8. Cardinality(Charged \union work') <= Cardinality(Charged) + Cardinality(work')
        BY <2>2, <4>3, CountProcs
      <4>9. Cardinality(Charged \union work') \in Nat
        <5>1. Charged \union work' \in SUBSET Procs
          BY <2>2, <4>3
        <5> QED
          BY <5>1, CountProcs
      <4>10. Free = quota /\ Free' = 0
        BY <4>1 DEF Free
      <4> QED
        BY <1>1, <2>2, <2>3, <2>4, <4>5, <4>7, <4>8, <4>9, <4>10
    <3>3. CASE StagePlan
      <4> DEFINE running == WithStatus(mem, Regular, "running")
      <4>1. Plan = Regular
        BY <1>3 DEF Plan
      <4>2. /\ pc = "stage" /\ pend = NoRec /\ pc' = "scan"
            /\ quota' = Max({MaxConcurrency - Cardinality(running), 0})
        BY <3>3, <4>1 DEF StagePlan, Ready
      <4>3. running \in SUBSET Procs /\ Cardinality(running) \in Nat
        BY CountProcs DEF WithStatus, Procs
      <4>4. running \subseteq Charged
        BY DEF WithStatus, Charged, Counted, Procs
      <4>5. Charged \subseteq running
        <5> SUFFICES ASSUME NEW p \in Charged PROVE p \in running
          OBVIOUS
        <5>1. p \in Procs /\ ForkInv(p) /\ \A f \in Final : mem.pst[f] = "runnable"
          BY <1>3, <2>1, <2>2 DEF Active, ActiveInv
        <5>2. ~Started(p) /\ ~ForkPending(p) /\ ~Forking(p)
          BY <4>2, <5>1 DEF ForkInv, ForkPending, Forking
        <5>3. mem.pst[p] = "running"
          BY <4>2, <5>1, <5>2 DEF Charged, ForkInv, Counted
        <5> QED
          BY <5>1, <5>3 DEF WithStatus, Procs
      <4>6. Charged = running
        BY <4>4, <4>5
      <4>7. Cardinality(Charged') <= Cardinality(running)
        <5>1. Charged' \subseteq Charged
          BY <1>3, <1>6, <2>1, <4>2, ChargeShrinks DEF PickRunnable, Ready
        <5> QED
          BY <2>2, <4>6, <5>1, CountProcs
      <4>8. Cardinality(running) <= MaxConcurrency
        BY <1>1, <2>2, <2>3, <2>4, <4>6
      <4> HIDE DEF running
      <4>9. Free' = MaxConcurrency - Cardinality(running)
        <5>1. /\ MaxConcurrency - Cardinality(running) \in Int
              /\ MaxConcurrency - Cardinality(running) >= 0
          BY <1>1, <4>3, <4>8
        <5>2. Max({MaxConcurrency - Cardinality(running), 0}) = MaxConcurrency - Cardinality(running)
          <6> DEFINE left == MaxConcurrency - Cardinality(running)
          <6>1. left \in Int /\ left >= 0 /\ 0 \in Int
            BY <5>1
          <6> HIDE DEF left
          <6>2. Max({left, 0}) = left
            BY <6>1, MaxMin
          <6> QED
            BY <6>2 DEF left
        <5> QED
          BY <4>2, <5>2 DEF Free
      <4> QED
        BY <1>1, <2>2, <2>3, <4>3, <4>7, <4>9
    <3> QED
      BY <3>1, <3>2, <3>3
  <2>6. Cardinality({p \in Procs : Live(p)'}) <= Cardinality(Charged')
    <3> DEFINE S == {p \in Procs : Live(p)'}
    <3>1. S \subseteq Charged' /\ S \in SUBSET Procs
      BY DEF Charged
    <3> HIDE DEF S
    <3>2. Cardinality(S) <= Cardinality(Charged')
      BY <2>2, <3>1, CountProcs
    <3> QED
      BY <3>2 DEF S
  <2>7. Cardinality({p \in Procs : Live(p)'}) \in Nat
    BY CountProcs
  <2> QED
    BY <1>1, <2>2, <2>3, <2>5, <2>6, <2>7
<1> QED
  BY <1>5, <1>6

(***************************************************************************)
(* max_concurrency bounds the processes that have a live command, not just *)
(* those that the plan counts as running: between the fork and the         *)
(* dispatch of FORKED, a launched process is charged to no status of the   *)
(* planner, but _run_plan does not pass that way again before              *)
(* collect_updates.                                                        *)
(***************************************************************************)
THEOREM ConcurrencyCorrect == Spec => []ConcurrencyLimit
<1>1. Init => ActiveInv
  BY DEF Init, ActiveInv, Up
<1>2. BaseInv /\ ActiveInv /\ [Next]_vars => ActiveInv'
  BY NextActiveInv
<1>3. Init => LoadInv
  <2> SUFFICES ASSUME Init, MaxConcurrency > 0 PROVE LoadInv
    BY DEF LoadInv
  <2>1. {p \in Procs : Live(p)} = {} /\ ~Active
    BY DEF Init, Live, NoCoord, Active, Up
  <2>2. Cardinality({p \in Procs : Live(p)}) = 0
    BY <2>1, FS_EmptySet
  <2> QED
    BY <2>1, <2>2, PlanAssumption DEF LoadInv
<1>4. BaseInv /\ ActiveInv /\ LoadInv /\ [Next]_vars => LoadInv'
  BY NextLoadInv
<1>5. LoadInv => ConcurrencyLimit
  <2> SUFFICES ASSUME LoadInv, starts <= 1, mem.task = "ACTIVE", MaxConcurrency > 0
               PROVE  Cardinality({p \in Procs : kids[p] # {}}) <= MaxConcurrency
    BY DEF ConcurrencyLimit
  <2>1. {p \in Procs : kids[p] # {}} \subseteq {p \in Procs : Live(p)}
    BY DEF Live
  <2>2. Cardinality({p \in Procs : kids[p] # {}}) <= Cardinality({p \in Procs : Live(p)})
    BY <2>1, CountProcs
  <2>3. /\ Cardinality({p \in Procs : kids[p] # {}}) \in Nat
        /\ Cardinality({p \in Procs : Live(p)}) \in Nat
    BY CountProcs
  <2> QED
    BY <2>2, <2>3, PlanAssumption DEF LoadInv
<1> QED
  BY <1>1, <1>2, <1>3, <1>4, <1>5, AlwaysBaseInv, PTL DEF Spec

-----------------------------------------------------------------------------
(* ImplementsLedger. *)

\* Pids come with FORKED, and no coordinator writes WAITING.
RunFacts ==
  \A p \in Procs :
    /\ mem.proc[p].cpid \/ mem.proc[p].pid => mem.proc[p].st \notin {"NONE", "WAITING"}
    /\ \A i \in 1..Len(stream[p]) : stream[p][i].st # "WAITING"

\* What is launched belongs to the plan the task is at, and waits there for its launch.
StageFacts ==
  /\ pend # NoRec => pend.st = mem.proc[pend.p].st
  /\ pc \in {"scan", "hasdata", "launch", "fork"} => mem.task \in {"ACTIVE", "FINALIZING"}
  /\ pc = "hasdata" => mem.proc[at].st = "RUNNING"
  /\ pc \in {"launch", "fork"} =>
       /\ \A p \in work : p \in Plan /\ mem.pst[p] = "runnable"
       /\ pend # NoRec => pend.st = "WAITING" \/ pend.p \notin work

\* _kill leaves no process on record as running, and kills none that never ran.
KillFacts ==
  pc = "kill" =>
    /\ mem.task \in {"FINALIZING"} \union TerminalTask
    /\ \A p \in Procs : mem.proc[p].st \in {"FORKED", "RUNNING"} => p \in work
    /\ \A p \in seen : mem.proc[p].st \notin {"NONE", "WAITING"}

\* Under the finalizing plan a regular process comes to run only in a record whose
\* handler raises.
FinalFacts ==
  Up /\ pc \notin {"task", "kill"} /\ mem.task = "FINALIZING" =>
    /\ mem.plan = "final"
    /\ \A p \in Regular :
         mem.proc[p].st \in {"FORKED", "RUNNING"} => pend # NoRec /\ pend.p = p

\* A process that is done with in the plan.
Done(s, p) == s.pst[p] \in {"finished", "failed"}

\* While nobody interferes, what the log calls done has ended, and the runner knows.
BookFacts ==
  kills = 0 =>
    /\ \A p \in Procs : Done(disk, p) => disk.proc[p].st \in TerminalProcess
    /\ Up /\ ~disk.ok => \A p \in Procs : Done(disk, p) => Done(mem, p)

LedgerInv == RunFacts /\ StageFacts /\ KillFacts /\ FinalFacts /\ BookFacts

\* The log and the runner agree on the processes and on the task.
LEMMA SameStates ==
  ASSUME LogInv, Parked
  PROVE  disk.proc = mem.proc /\ disk.task = mem.task
BY DEF LogInv, Parked

\* A record is written that continues the story of its process.
Noted(r) ==
  /\ Up /\ pend = NoRec /\ Checkpoint(r) /\ UNCHANGED <<stream, kills, fin, seen>>
  /\ r.seq = mem.proc[r.p].seq + 1 /\ mem.proc[r.p].st \in SourceStates(r.st)
  /\ work' \subseteq work /\ work \ {r.p} \subseteq work'
  /\ pc' = IF pc = "hasdata" THEN "scan" ELSE pc
  /\ pc = "kill" => r.st \in {"KILLED", "LOST"}
  /\ pc = "launch" => r.st = "WAITING" \/ r.p \notin work'
  /\ r.st = "WAITING" => pc = "launch" /\ r.p \in work
  /\ pc \in {"scan", "hasdata", "launch", "collect", "kill"}

\* The task's state is written.
Turned(task) ==
  /\ Up /\ SetTaskStatus(task) /\ pend' = NoRec /\ fin' = fin /\ stream' = stream
  /\ \/ task = mem.task /\ kills' = kills + 1
     \/ /\ kills' = kills /\ pend = NoRec
        /\ \/ mem.task = "ACTIVE" /\ task = "CLEANING"
           \/ mem.task = "CLEANING" /\ task = "FINALIZING"
           \/ mem.task \in {"CLEANING", "FINALIZING"} /\ task = TerminalState

\* The runner ends, or puts the file away.
Left ==
  /\ GoDown /\ disk' = disk /\ kills' \in {kills, kills + 1} /\ stream' = stream
  /\ fin' = fin \/ (FinalizeTask /\ kills' = kills)

\* Nothing is written.
Quiet ==
  /\ Up /\ Up' /\ pend = NoRec /\ UNCHANGED <<disk, pend, kills, fin>>
  /\ mem'.proc = mem.proc /\ mem'.task = mem.task /\ mem'.pst = mem.pst

\* The steps of a runner, by what they write.
LEMMA LedgerKinds ==
  ASSUME TypeOK, LogInv, LedgerInv, Up, [Next]_vars, ~WorldStep
  PROVE  \/ Handler \/ Left \/ Quiet
         \/ \E r \in ProcessRec : Noted(r)
         \/ \E task \in TaskStates : Turned(task)
<1>1. \A p \in Procs, st \in ProcessStates : Rec(p, st) \in ProcessRec
  BY DEF TypeOK, RunnerState, ProcessRun, Rec, ProcessRec
<1>2. mem \in RunnerState /\ disk \in RunnerState /\ pc \in RunnerPCs /\ ret # "down" /\ kills \in Nat
  BY DEF TypeOK, ControlOK, WorldOK
<1>3. CASE Resume \/ OnCleaning \/ OnKilling \/ StagePlan \/ PickRunnable \/ FinalizeFork
           \/ PollSome \/ PollNone \/ EndCollect
  BY <1>2, <1>3 DEF Quiet, Up, Ready, countVars, Resume, OnCleaning, OnKilling, StagePlan,
     PickRunnable, FinalizeFork, PollSome, PollNone, EndCollect
<1>4. CASE OnActive \/ EnterFinalizing
  BY <1>2, <1>4 DEF Quiet, Up, Ready, countVars, OnActive, EnterFinalizing, RunnerState
<1>5. CASE FinalizeTask
  BY <1>5 DEF Left, FinalizeTask, countVars, worldVars
<1>6. CASE Crash
  BY <1>6 DEF Left, Crash, worldVars
<1>7. CASE StageKilled
  BY <1>7 DEF Turned, StageKilled, Ready, countVars, worldVars, TaskStates
<1>8. CASE StageCleaning
  <2>1. CASE pc' = "poll" /\ UNCHANGED <<disk, mem>>
    BY <1>8, <2>1 DEF Quiet, Up, Ready, StageCleaning, countVars
  <2>2. CASE ~(pc' = "poll" /\ UNCHANGED <<disk, mem>>)
    <3>1. PICK task \in {TerminalState, "FINALIZING"} : SetTaskStatus(task)
      BY <1>8, <2>2 DEF StageCleaning
    <3>2. task \in TaskStates
      BY <3>1, TerminalStateType DEF TerminalTask, TaskStates
    <3>3. Turned(task)
      BY <1>8, <3>1 DEF Turned, StageCleaning, Ready, countVars, worldVars
    <3> QED
      BY <3>2, <3>3
  <2> QED
    BY <2>1, <2>2
<1>9. CASE EndPlan
  <2>1. CASE pc' = "poll" /\ UNCHANGED <<disk, mem>>
    BY <1>9, <2>1 DEF Quiet, Up, Ready, EndPlan, countVars
  <2>2. CASE ~(pc' = "poll" /\ UNCHANGED <<disk, mem>>)
    <3>1. PICK task \in {TerminalState, "CLEANING"} :
             SetTaskStatus(task) /\ (IF mem.task = "ACTIVE" THEN task = "CLEANING" ELSE task = TerminalState)
      BY <1>9, <2>2 DEF EndPlan
    <3>2. task \in TaskStates
      BY <3>1, TerminalStateType DEF TerminalTask, TaskStates
    <3>3. mem.task \in {"ACTIVE", "FINALIZING"}
      BY <1>9 DEF EndPlan, Ready, LedgerInv, StageFacts
    <3>4. Turned(task)
      BY <1>9, <3>1, <3>3 DEF Turned, EndPlan, Ready, countVars, worldVars
    <3> QED
      BY <3>2, <3>4
  <2> QED
    BY <2>1, <2>2
<1>10. ASSUME NEW status \in {"KILLED", "LOST"}, KillSignal(status)
       PROVE  Left \/ \E task \in TaskStates : Turned(task)
  BY <1>2, <1>10 DEF Left, Turned, KillSignal, worldVars, RunnerState
<1>11. ASSUME NEW p \in Procs, NEW st \in {"LOST", "KILLED", "FAILED", "WAITING"},
              SetProcessStatus(p, st), Up, pend = NoRec, UNCHANGED <<stream, kills, fin, seen>>,
              mem.proc[p].st \in SourceStates(st), work' \subseteq work, work \ {p} \subseteq work',
              pc' = IF pc = "hasdata" THEN "scan" ELSE pc,
              pc = "kill" => st \in {"KILLED", "LOST"},
              pc = "launch" => st = "WAITING" \/ p \notin work',
              st = "WAITING" => pc = "launch" /\ p \in work,
              pc \in {"scan", "hasdata", "launch", "collect", "kill"}
       PROVE  \E r \in ProcessRec : Noted(r)
  <2>1. Rec(p, st) \in ProcessRec
    BY <1>1 DEF ProcessStates
  <2>2. Noted(Rec(p, st))
    BY <1>11 DEF Noted, Rec, SetProcessStatus
  <2> QED
    BY <2>1, <2>2
<1>12. ASSUME NEW p \in Procs, KillOne(p)
       PROVE  Quiet \/ \E r \in ProcessRec : Noted(r)
  <2>1. /\ Ready("kill") /\ work' = work \ {p} /\ pc' = "kill"
        /\ UNCHANGED <<stream, kills, fin, seen>>
    BY <1>12 DEF KillOne, Ready, countVars
  <2>2. CASE UNCHANGED <<disk, mem, pend>>
    BY <2>1, <2>2 DEF Quiet, Ready, Up
  <2>3. CASE mem.proc[p].st \notin TerminalProcess /\ p \in seen /\ SetProcessStatus(p, "KILLED")
    <3>1. mem.proc[p].st \in SourceStates("KILLED")
      BY <1>2, <2>1, <2>3 DEF LedgerInv, KillFacts, Ready, RunnerState, ProcessRun, ProcessStates,
         TerminalProcess, SourceStates
    <3> QED
      BY <1>11, <2>1, <2>3, <3>1 DEF Ready, Up
  <2>4. CASE mem.proc[p].st \in {"FORKED", "RUNNING"} /\ SetProcessStatus(p, "LOST")
    <3>1. mem.proc[p].st \in SourceStates("LOST")
      BY <2>4 DEF SourceStates
    <3> QED
      BY <1>11, <2>1, <2>4, <3>1 DEF Ready, Up
  <2> QED
    BY <1>12, <2>2, <2>3, <2>4 DEF KillOne
<1>13. ASSUME NEW p \in Procs, ScanOne(p)
       PROVE  Quiet \/ \E r \in ProcessRec : Noted(r)
  <2>1. Ready("scan") /\ p \in work /\ UNCHANGED <<stream, kills, fin, seen>>
    BY <1>13 DEF ScanOne, countVars, worldVars
  <2>2. CASE UNCHANGED <<disk, mem, pend>>
    BY <1>13, <2>1, <2>2 DEF Quiet, Ready, Up, ScanOne
  <2>3. CASE /\ mem.proc[p].st = "FORKED" /\ SetProcessStatus(p, "LOST")
             /\ work' = work \ {p} /\ UNCHANGED pc
    <3>1. mem.proc[p].st \in SourceStates("LOST")
      BY <2>3 DEF SourceStates
    <3> QED
      BY <1>11, <2>1, <2>3, <3>1 DEF Ready, Up
  <2> QED
    BY <1>13, <2>2, <2>3 DEF ScanOne
<1>14. CASE ScanData
  <2>1. PICK p \in Procs : p = at
    BY <1>14 DEF ScanData, Ready, TypeOK, ControlOK
  <2>2. /\ Ready("hasdata") /\ UNCHANGED <<stream, kills, fin, seen>> /\ pc' = "scan"
        /\ work' = work \ {p} /\ mem.proc[p].st = "RUNNING"
    BY <1>14, <2>1 DEF ScanData, Ready, countVars, worldVars, LedgerInv, StageFacts
  <2>3. CASE UNCHANGED <<disk, mem, pend>>
    BY <2>2, <2>3 DEF Quiet, Ready, Up
  <2>4. CASE SetProcessStatus(p, "LOST")
    <3>1. mem.proc[p].st \in SourceStates("LOST")
      BY <2>2 DEF SourceStates
    <3> QED
      BY <1>11, <2>2, <2>4, <3>1 DEF Ready, Up
  <2> QED
    BY <1>14, <2>1, <2>3, <2>4 DEF ScanData
<1>15. ASSUME NEW p \in Procs, LaunchWaiting(p)
       PROVE  Left \/ \E r \in ProcessRec : Noted(r)
  <2>1. CASE mem.proc[p].st \notin SourceStates("WAITING")
    BY <1>15, <2>1 DEF LaunchWaiting, Left, countVars, worldVars
  <2>2. CASE mem.proc[p].st \in SourceStates("WAITING")
    <3>1. /\ Ready("launch") /\ p \in work /\ SetProcessStatus(p, "WAITING")
          /\ UNCHANGED <<stream, kills, fin, seen, work, pc>>
      BY <1>15, <2>2 DEF LaunchWaiting, countVars, worldVars
    <3> QED
      BY <1>11, <2>2, <3>1 DEF Ready, Up
  <2> QED
    BY <2>1, <2>2
<1>16. ASSUME NEW p \in Procs, LaunchFork(p)
       PROVE  Left \/ Quiet
  BY <1>16 DEF LaunchFork, Left, Quiet, Up, Ready, countVars
<1>17. ASSUME NEW p \in Procs, LaunchFails(p)
       PROVE  \E r \in ProcessRec : Noted(r)
  <2>1. /\ Ready("launch") /\ SetProcessStatus(p, "FAILED") /\ work' = work \ {p}
        /\ UNCHANGED <<stream, kills, fin, seen, pc>> /\ mem.proc[p].st = "WAITING"
    BY <1>17 DEF LaunchFails, countVars, worldVars
  <2>2. mem.proc[p].st \in SourceStates("FAILED")
    BY <2>1 DEF SourceStates
  <2> QED
    BY <1>11, <2>1, <2>2 DEF Ready, Up
<1>18. ASSUME NEW p \in Procs, DispatchUpdate(p)
       PROVE  Left \/ \E r \in ProcessRec : Noted(r)
  <2> DEFINE r == [p |-> p, st |-> stream[p][nxt[p] + 1].st, seq |-> stream[p][nxt[p] + 1].seq]
  <2>1. CASE ~Dispatchable(mem, r)
    BY <1>18, <2>1 DEF DispatchUpdate, Left, countVars, worldVars
  <2>2. CASE Dispatchable(mem, r)
    <3>1. r \in ProcessRec /\ nxt[p] + 1 \in 1..Len(stream[p])
      BY <1>18, DispatchedType DEF DispatchUpdate
    <3>2. r.st # "WAITING"
      BY <3>1 DEF LedgerInv, RunFacts
    <3>3. mem.proc[p].st \in SourceStates(r.st) /\ r.st \in ProcessStates
      BY <2>2, <3>1 DEF Dispatchable, ProcessRec
    <3>4. mem.proc[p].st # "NONE"
      BY <3>2, <3>3, Sources
    <3>5. r.seq = mem.proc[p].seq + 1
      BY <2>2, <3>4 DEF Dispatchable
    <3>6. /\ Ready("collect") /\ Checkpoint(r)
          /\ UNCHANGED <<stream, kills, fin, seen, pc, work>>
      BY <1>18, <2>2 DEF DispatchUpdate, countVars, worldVars
    <3>7. Noted(r)
      BY <3>2, <3>3, <3>5, <3>6 DEF Noted, Ready, Up
    <3> QED
      BY <3>1, <3>7
  <2> QED
    BY <2>1, <2>2
<1> QED
  BY <1>3, <1>4, <1>5, <1>6, <1>7, <1>8, <1>9, <1>10, <1>12, <1>13, <1>14, <1>15, <1>16, <1>17,
     <1>18 DEF Next, RunnerStep, Start, WorldStep, Up

\* What a record that continues a story does to the states of the processes.
LEMMA NotedStates ==
  ASSUME TypeOK, NEW r \in ProcessRec, Noted(r)
  PROVE  /\ r.p \in Procs /\ pend' = r /\ Up' /\ mem'.task = mem.task /\ mem'.plan = mem.plan
         /\ mem'.pst = mem.pst /\ mem'.proc[r.p].st = r.st
         /\ \A p \in Procs \ {r.p} : mem'.proc[p] = mem.proc[p]
BY CheckpointEffect DEF Noted, ProcessRec, Up

\* The processes and their streams.
LEMMA NextRunFacts ==
  ASSUME TypeOK, LogInv, LedgerInv, Parked, [Next]_vars
  PROVE  RunFacts'
<1>1. ASSUME NEW p \in Procs, NEW i \in 1..Len(stream'[p])
      PROVE  stream'[p][i].st # "WAITING"
  <2>1. CASE stream' = stream
    BY <1>1, <2>1 DEF LedgerInv, RunFacts
  <2>2. ASSUME NEW q \in Procs, NEW r \in StreamRec, r.st # "WAITING",
               stream' = [stream EXCEPT ![q] = Append(@, r)]
        PROVE  stream'[p][i].st # "WAITING"
    <3>1. stream[p] \in Seq(StreamRec) /\ stream'[p] \in {stream[p], Append(stream[p], r)}
      BY <2>2 DEF TypeOK, StreamsOK
    <3>2. CASE stream'[p] = stream[p]
      BY <1>1, <3>2 DEF LedgerInv, RunFacts
    <3>3. CASE stream'[p] = Append(stream[p], r)
      <4>1. /\ Len(stream[p]) \in Nat /\ i \in 1..(Len(stream[p]) + 1)
            /\ i <= Len(stream[p]) => stream'[p][i] = stream[p][i]
            /\ i = Len(stream[p]) + 1 => stream'[p][i] = r
        BY <1>1, <3>1, <3>3
      <4>2. i <= Len(stream[p]) => i \in 1..Len(stream[p])
        BY <4>1
      <4> QED
        BY <2>2, <4>1, <4>2 DEF LedgerInv, RunFacts
    <3> QED
      BY <3>1, <3>2, <3>3
  <2> QED
    BY <2>1, <2>2, StreamGrows
<1>2. ASSUME mem'.proc = mem.proc
      PROVE  RunFacts'
  BY <1>1, <1>2 DEF LedgerInv, RunFacts
<1>3. CASE WorldStep
  BY <1>2, <1>3, WorldStepEffect
<1>4. CASE Start
  BY <1>2, <1>4 DEF Start, Parked, Up
<1> SUFFICES ASSUME Up, ~WorldStep PROVE RunFacts'
  BY <1>3, <1>4, DownStep
<1>5. CASE Handler
  BY <1>2, <1>5, Handled
<1>6. CASE Left
  BY <1>2, <1>6, DownProc DEF Left
<1>7. CASE Quiet
  BY <1>2, <1>7 DEF Quiet
<1>8. ASSUME NEW task \in TaskStates, Turned(task)
      PROVE  RunFacts'
  BY <1>2, <1>8, TaskWritten DEF Turned
<1>9. ASSUME NEW r \in ProcessRec, Noted(r)
      PROVE  RunFacts'
  <2> SUFFICES ASSUME NEW p \in Procs, mem'.proc[p].cpid \/ mem'.proc[p].pid
               PROVE  mem'.proc[p].st \notin {"NONE", "WAITING"}
    BY <1>1 DEF RunFacts
  <2>1. CASE p # r.p
    BY <1>9, <2>1, NotedStates DEF LedgerInv, RunFacts
  <2>2. CASE p = r.p
    BY <1>9, <2>2, CheckpointEffect DEF Noted, ProcessRec, ProcessStates
  <2> QED
    BY <2>1, <2>2
<1> QED
  BY <1>5, <1>6, <1>7, <1>8, <1>9, LedgerKinds

\* The stages of the loop, action by action where nothing is written.
LEMMA QuietStage ==
  ASSUME TypeOK, LedgerInv, Quiet, [Next]_vars, ~WorldStep
  PROVE  StageFacts' /\ KillFacts' /\ FinalFacts'
<1>1. /\ pend = NoRec /\ pend' = NoRec /\ Up /\ Up' /\ mem \in RunnerState
      /\ mem'.proc = mem.proc /\ mem'.task = mem.task /\ mem'.pst = mem.pst /\ kills' = kills
      /\ RunFacts /\ StageFacts /\ KillFacts /\ FinalFacts
  BY DEF Quiet, TypeOK, LedgerInv
<1>2. ~Handler /\ ~GoDown /\ ~FinalizeTask /\ ~Start /\ ~Crash
  BY <1>1 DEF Up, Handler, GoDown, FinalizeTask, Start, Crash
<1>3. \A status \in {"KILLED", "LOST"} : ~KillSignal(status)
  BY <1>1 DEF KillSignal, TypeOK, WorldOK
<1>4. \A p \in Procs : /\ \A st \in ProcessStates : ~SetProcessStatus(p, st)
                       /\ ~LaunchWaiting(p) /\ ~LaunchFails(p) /\ ~DispatchUpdate(p)
  BY <1>1, <1>2, RunnerAssumption DEF SetProcessStatus, Checkpoint, Rec, NoRec, ProcessStates,
     LaunchWaiting, LaunchFails, DispatchUpdate
<1>5. Plan' = Plan
  BY <1>1 DEF Plan
<1>6. ASSUME mem' = mem, pc \notin {"task", "kill"}
      PROVE  FinalFacts'
  BY <1>1, <1>6 DEF FinalFacts
<1>7. CASE pc' = "task"
  BY <1>1, <1>7 DEF StageFacts, KillFacts, FinalFacts
<1>8. CASE Resume \/ StagePlan \/ PollSome \/ PollNone \/ EndCollect
  BY <1>1, <1>6, <1>8 DEF Resume, StagePlan, PollSome, PollNone, EndCollect, Ready, StageFacts,
     KillFacts
<1>9. CASE OnActive \/ OnCleaning
  BY <1>1, <1>9 DEF OnActive, OnCleaning, TypeOK, ControlOK, StageFacts, KillFacts, FinalFacts
<1>10. CASE OnKilling
  <2>1. \A p \in seen' : p \in Procs /\ mem.proc[p].st \notin {"NONE", "WAITING"}
    BY <1>1, <1>10 DEF OnKilling, PidsSeen, CoordinatorSeen, ProcessSeen, RunFacts
  <2> QED
    BY <1>1, <1>10, <2>1 DEF OnKilling, StageFacts, KillFacts, FinalFacts
<1>11. CASE EnterFinalizing
  <2>1. \A p \in Procs : mem.proc[p].st \notin {"FORKED", "RUNNING"}
    BY <1>1, <1>11 DEF EnterFinalizing, Ready, KillFacts
  <2>2. mem'.plan = "final" /\ pc' \in {"resume", "stage"}
    BY <1>1, <1>11 DEF EnterFinalizing, RunnerState, TypeOK, ControlOK
  <2> QED
    BY <1>1, <2>1, <2>2 DEF Procs, StageFacts, KillFacts, FinalFacts
<1>12. CASE StageKilled \/ StageCleaning \/ EndPlan
  <2>1. pc' \in {"task", "poll"} /\ (pc' = "poll" => mem' = mem) /\ pc \notin {"task", "kill"}
    BY <1>12 DEF StageKilled, StageCleaning, EndPlan, Ready, SetTaskStatus
  <2> QED
    BY <1>1, <1>6, <1>7, <2>1 DEF StageFacts, KillFacts
<1>13. ASSUME NEW p \in Procs, KillOne(p)
       PROVE  StageFacts' /\ KillFacts' /\ FinalFacts'
  <2>1. pc = "kill" /\ pc' = "kill" /\ work' = work \ {p} /\ seen' = seen
    BY <1>13 DEF KillOne, Ready
  <2>2. mem.proc[p].st \notin {"FORKED", "RUNNING"}
    BY <1>4, <1>13 DEF KillOne, TerminalProcess, ProcessStates
  <2> QED
    BY <1>1, <2>1, <2>2 DEF StageFacts, KillFacts, FinalFacts
<1>14. ASSUME NEW p \in Procs, ScanOne(p)
       PROVE  StageFacts' /\ KillFacts' /\ FinalFacts'
  <2>1. /\ pc = "scan" /\ mem' = mem
        /\ pc' = "scan" \/ (pc' = "hasdata" /\ mem.proc[at'].st = "RUNNING")
    BY <1>4, <1>14 DEF ScanOne, Ready, ProcessStates
  <2> QED
    BY <1>1, <1>6, <2>1 DEF StageFacts, KillFacts
<1>15. CASE ScanData
  <2>1. pc = "hasdata" /\ pc' = "scan" /\ mem' = mem
    BY <1>4, <1>15 DEF ScanData, Ready, ProcessStates, TypeOK, ControlOK
  <2> QED
    BY <1>1, <1>6, <2>1 DEF StageFacts, KillFacts
<1>16. CASE PickRunnable
  <2>1. /\ pc = "scan" /\ pc' = "launch" /\ mem' = mem
        /\ \A p \in work' : p \in Plan /\ mem.pst[p] = "runnable"
    BY <1>16 DEF PickRunnable, Ready, Runnable
  <2> QED
    BY <1>1, <1>5, <1>6, <2>1 DEF StageFacts, KillFacts
<1>17. ASSUME FinalizeFork \/ \E p \in Procs : LaunchFork(p)
       PROVE  StageFacts' /\ KillFacts' /\ FinalFacts'
  <2>1. /\ pc \in {"launch", "fork"} /\ pc' \in {"launch", "fork"} /\ mem' = mem
        /\ work' \subseteq work
    BY <1>2, <1>17 DEF FinalizeFork, LaunchFork, Ready
  <2> QED
    BY <1>1, <1>5, <1>6, <2>1 DEF StageFacts, KillFacts
<1> QED
  BY <1>2, <1>3, <1>4, <1>8, <1>9, <1>10, <1>11, <1>12, <1>13, <1>14, <1>15, <1>16, <1>17
     DEF Next, RunnerStep, WorldStep

\* The stages of the loop.
LEMMA NextStageFacts ==
  ASSUME TypeOK, LogInv, LedgerInv, Parked, [Next]_vars
  PROVE  StageFacts' /\ KillFacts' /\ FinalFacts'
<1>1. StageFacts /\ KillFacts /\ FinalFacts /\ mem \in RunnerState
  BY DEF LedgerInv, TypeOK
<1>2. CASE WorldStep
  <2>1. UNCHANGED <<mem, pc, pend, work, at, seen>>
    BY <1>2, WorldStepEffect
  <2> QED
    BY <1>1, <2>1 DEF StageFacts, KillFacts, FinalFacts, Plan, Up
<1>3. CASE Start
  BY <1>3 DEF Start, StageFacts, KillFacts, FinalFacts, LogInv, Up
<1> SUFFICES ASSUME Up, ~WorldStep PROVE StageFacts' /\ KillFacts' /\ FinalFacts'
  BY <1>2, <1>3, DownStep
<1>4. CASE GoDown
  BY <1>4 DEF GoDown, StageFacts, KillFacts, FinalFacts, Up
<1>5. CASE Handler /\ ~GoDown
  <2> DEFINE r == pend
  <2>1. r \in ProcessRec /\ r # NoRec /\ r.p \in Procs
    BY <1>5 DEF Handler, TypeOK, ControlOK, ProcessRec
  <2>2. /\ HandleProcess(mem, r).ok /\ mem' = HandleProcess(mem, r) /\ pend' = NoRec
        /\ UNCHANGED <<pc, work, at>> /\ mem'.proc = mem.proc
    BY <1>5, Handled
  <2>3. seen' = seen
    BY <1>5 DEF Handler
  <2>4. mem'.task = mem.task /\ mem'.plan = mem.plan
    BY <1>1, <2>1, <2>2, HandleKeeps
  <2>5. ASSUME NEW p \in Procs, mem.pst[p] = "runnable", r.st = "WAITING" \/ r.p # p
        PROVE  mem'.pst[p] = "runnable"
    <3>1. mem.pst \in [Procs -> PlanStatus] /\ r.st \in ProcessStates
      BY <1>1, <2>1 DEF RunnerState, ProcessRec
    <3>2. r.st = "WAITING" => mem'.pst = mem.pst
      BY <1>1, <2>1, <2>2, HandleEffect
    <3>3. r.st # "WAITING" => \E x \in PlanStatus : mem'.pst = [mem.pst EXCEPT ![r.p] = x]
      <4>1. CASE r.st \in {"FORKED", "RUNNING"}
        BY <1>1, <2>1, <2>2, <4>1, HandleEffect DEF PlanStatus
      <4>2. CASE r.st \in TerminalProcess
        BY <1>1, <2>1, <2>2, <4>2, HandleEffect
      <4> QED
        BY <3>1, <4>1, <4>2 DEF ProcessStates, TerminalProcess
    <3> HIDE DEF r
    <3> QED
      BY <2>5, <3>1, <3>2, <3>3
  <2>6. StageFacts'
    BY <1>1, <2>1, <2>2, <2>4, <2>5 DEF StageFacts, Plan, TypeOK, ControlOK
  <2>7. KillFacts'
    BY <1>1, <2>2, <2>3, <2>4 DEF KillFacts
  <2>8. FinalFacts'
    <3> SUFFICES ASSUME Up, pc \notin {"task", "kill"}, mem.task = "FINALIZING"
                 PROVE  /\ mem.plan = "final"
                        /\ \A p \in Regular : mem.proc[p].st \notin {"FORKED", "RUNNING"}
      BY <2>2, <2>4 DEF FinalFacts, Up
    <3>1. mem.plan = "final" /\ r.st = mem.proc[r.p].st
      BY <1>1, <2>1 DEF FinalFacts, StageFacts
    <3>2. r.st \in {"FORKED", "RUNNING"} => r.p \in Final
      BY <1>1, <2>1, <2>2, <3>1, HandleEffect DEF PlanProcs
    <3>3. \A p \in Regular : mem.proc[p].st \in {"FORKED", "RUNNING"} => r.p = p
      BY <1>1 DEF FinalFacts
    <3> QED
      BY <3>1, <3>2, <3>3, PlanAssumption
  <2> QED
    BY <2>6, <2>7, <2>8
<1>6. CASE Quiet
  BY <1>6, QuietStage
<1>7. ASSUME NEW task \in TaskStates, Turned(task)
      PROVE  StageFacts' /\ KillFacts' /\ FinalFacts'
  BY <1>7 DEF Turned, SetTaskStatus, StageFacts, KillFacts, FinalFacts
<1>8. ASSUME NEW r \in ProcessRec, Noted(r)
      PROVE  StageFacts' /\ KillFacts' /\ FinalFacts'
  <2>1. /\ r.p \in Procs /\ pend' = r /\ Up' /\ mem'.task = mem.task /\ mem'.plan = mem.plan
        /\ mem'.pst = mem.pst /\ mem'.proc[r.p].st = r.st
        /\ \A p \in Procs \ {r.p} : mem'.proc[p] = mem.proc[p]
    BY <1>8, NotedStates
  <2>2. r # NoRec
    BY <2>1, RunnerAssumption DEF NoRec
  <2>3. /\ pend = NoRec /\ seen' = seen /\ work' \subseteq work /\ work \ {r.p} \subseteq work'
        /\ pc' = IF pc = "hasdata" THEN "scan" ELSE pc
        /\ pc = "kill" => r.st \in {"KILLED", "LOST"}
        /\ pc = "launch" => r.st = "WAITING" \/ r.p \notin work'
        /\ pc \in {"scan", "hasdata", "launch", "collect", "kill"}
    BY <1>8 DEF Noted
  <2>4. StageFacts'
    BY <1>1, <2>1, <2>3 DEF StageFacts, Plan
  <2>5. KillFacts'
    BY <1>1, <2>1, <2>3 DEF KillFacts, TypeOK, ControlOK
  <2>6. FinalFacts'
    BY <1>1, <2>1, <2>2, <2>3 DEF FinalFacts, Procs, Up
  <2> QED
    BY <2>4, <2>5, <2>6
<1> QED
  BY <1>4, <1>5, <1>6, <1>7, <1>8, LedgerKinds DEF Left

\* A handler changes the status of its process only, and one that raises that of none;
\* a process that begins to run is not done.
LEMMA HandleBooks ==
  ASSUME NEW s \in RunnerState, NEW r \in ProcessRec
  PROVE  /\ \A p \in Procs \ {r.p} : HandleProcess(s, r).pst[p] = s.pst[p]
         /\ r.st = "WAITING" => HandleProcess(s, r).pst = s.pst
         /\ r.st \in {"FORKED", "RUNNING"} /\ Done(HandleProcess(s, r), r.p) => Done(s, r.p)
<1> DEFINE v == [s EXCEPT !.tp = @ \ {r.p}]
<1>1. \A u \in RunnerState : Raised(u).pst = u.pst
  BY DEF Raised, RunnerState
<1>2. v \in RunnerState /\ v.pst = s.pst /\ [s EXCEPT !.tp = @ \union {r.p}].pst = s.pst
  BY DEF RunnerState
<1>3. \/ SetRunning(s, r.p).pst = s.pst
      \/ SetRunning(s, r.p).pst = [s.pst EXCEPT ![r.p] = "running"]
  BY <1>1 DEF SetRunning, RunnerState
<1>4. \A u \in RunnerState : \/ EndRun(u, r.p, r.st).pst = u.pst
                             \/ \E x : EndRun(u, r.p, r.st).pst = [u.pst EXCEPT ![r.p] = x]
  BY <1>1 DEF EndRun, RunnerState
<1>5. /\ r.st = "WAITING" => HandleProcess(s, r) \in {Raised(s), [s EXCEPT !.tp = @ \union {r.p}]}
      /\ r.st \in {"FORKED", "RUNNING"} => HandleProcess(s, r) \in {Raised(s), SetRunning(s, r.p)}
      /\ HandleProcess(s, r) \in {Raised(s), [s EXCEPT !.tp = @ \union {r.p}], SetRunning(s, r.p),
                                  EndRun(v, r.p, r.st)}
  BY DEF HandleProcess
<1> HIDE DEF v
<1>6. s.pst \in [Procs -> PlanStatus] /\ r.p \in Procs
  BY DEF RunnerState, ProcessRec
<1>7. \A p \in Procs \ {r.p} : HandleProcess(s, r).pst[p] = s.pst[p]
  <2>1. \/ HandleProcess(s, r).pst = s.pst
        \/ \E x : HandleProcess(s, r).pst = [s.pst EXCEPT ![r.p] = x]
    BY <1>1, <1>2, <1>3, <1>4, <1>5
  <2> QED
    BY <1>6, <2>1
<1>8. r.st = "WAITING" => HandleProcess(s, r).pst = s.pst
  BY <1>1, <1>2, <1>5
<1>9. r.st \in {"FORKED", "RUNNING"} =>
        \/ HandleProcess(s, r).pst = s.pst
        \/ HandleProcess(s, r).pst = [s.pst EXCEPT ![r.p] = "running"]
  BY <1>1, <1>3, <1>5
<1> QED
  BY <1>6, <1>7, <1>8, <1>9 DEF Done

\* A replayed record does to the books what its handler does.
LEMMA ReplayBooks ==
  ASSUME NEW s \in RunnerState, NEW r \in ProcessRec
  PROVE  LET t == ReplayProcess(s, r)
         IN  /\ \A p \in Procs \ {r.p} : t.pst[p] = s.pst[p]
             /\ r.st = "WAITING" => t.pst = s.pst
             /\ r.st \in {"FORKED", "RUNNING"} /\ Done(t, r.p) => Done(s, r.p)
             /\ t.proc = UpdateProcess(s, r).proc /\ t.task = s.task
             /\ t.ok => s.ok
<1> DEFINE u == UpdateProcess(s, r)
<1>1. u \in RunnerState /\ u.pst = s.pst /\ u.ok = s.ok /\ u.task = s.task
  BY UpdateProcessType, UpdateKeeps DEF SameBooks
<1> HIDE DEF u
<1>2. /\ \A p \in Procs \ {r.p} : HandleProcess(u, r).pst[p] = u.pst[p]
      /\ r.st = "WAITING" => HandleProcess(u, r).pst = u.pst
      /\ r.st \in {"FORKED", "RUNNING"} /\ Done(HandleProcess(u, r), r.p) => Done(u, r.p)
  BY <1>1, HandleBooks
<1>3. HandleProcess(u, r).proc = u.proc /\ HandleProcess(u, r).task = u.task
      /\ (HandleProcess(u, r).ok => u.ok)
  BY <1>1, HandleKeeps
<1>4. ReplayProcess(s, r) = IF s.ok THEN HandleProcess(u, r) ELSE u
  BY DEF ReplayProcess, u
<1> QED
  BY <1>1, <1>2, <1>3, <1>4 DEF Done, u

\* What the log calls done.
LEMMA NextBookFacts ==
  ASSUME TypeOK, TypeOK', LogInv, LogInv', LedgerInv, Parked, [Next]_vars
  PROVE  BookFacts'
<1> SUFFICES ASSUME kills' = 0
             PROVE  /\ \A p \in Procs : Done(disk', p) => disk'.proc[p].st \in TerminalProcess
                    /\ Up' /\ ~disk'.ok => \A p \in Procs : Done(disk', p) => Done(mem', p)
  BY DEF BookFacts, Done
<1>1. mem \in RunnerState /\ disk \in RunnerState /\ kills \in Nat
      /\ disk.proc = mem.proc /\ disk.task = mem.task
  BY SameStates DEF TypeOK, WorldOK
<1>2. ASSUME kills = 0
      PROVE  /\ \A p \in Procs : Done(disk, p) => disk.proc[p].st \in TerminalProcess
             /\ Up => \A p \in Procs : Done(disk, p) /\ (pend = NoRec \/ ~disk.ok) => Done(mem, p)
  BY <1>1, <1>2 DEF LedgerInv, BookFacts, LogInv, SameBooks, Done
<1>3. CASE WorldStep
  <2>1. UNCHANGED <<disk, mem, pc, kills>>
    BY <1>3, WorldStepEffect
  <2> QED
    BY <1>2, <2>1 DEF Up, LedgerInv, BookFacts, Done
<1>4. CASE Start
  <2>1. disk.ok /\ disk' = ReplayTask(disk, disk.task) /\ kills' = kills
    BY <1>4 DEF Start
  <2>2. disk'.ok /\ disk'.pst = disk.pst /\ disk'.proc = disk.proc
    BY <1>1, <2>1 DEF ReplayTask, RunnerState
  <2> QED
    BY <1>2, <2>1, <2>2 DEF Done
<1> SUFFICES ASSUME Up, ~WorldStep
             PROVE  /\ \A p \in Procs : Done(disk', p) => disk'.proc[p].st \in TerminalProcess
                    /\ Up' /\ ~disk'.ok => \A p \in Procs : Done(disk', p) => Done(mem', p)
  BY <1>3, <1>4, DownStep
<1>5. CASE Left
  <2>1. disk' = disk /\ ~Up' /\ kills = 0
    BY <1>1, <1>5 DEF Left, GoDown, Up
  <2> QED
    BY <1>2, <2>1
<1>6. CASE Handler
  <2>1. /\ disk' = disk /\ kills' = kills
        /\ GoDown \/ mem' = HandleProcess(mem, pend)
    BY <1>6, Handled DEF Handler, countVars
  <2>2. CASE GoDown
    BY <1>2, <2>1, <2>2 DEF GoDown, Up
  <2>3. CASE mem' = HandleProcess(mem, pend)
    <3>1. pend \in ProcessRec
      BY <1>6 DEF Handler, TypeOK, ControlOK
    <3>2. Moves(mem, mem')
      BY <1>1, <2>3, <3>1, HandleMoves
    <3>3. \A p \in Procs : Done(mem, p) => Done(mem', p)
      BY <3>2 DEF Moves, Done
    <3> QED
      BY <1>2, <2>1, <3>3
  <2> QED
    BY <2>1, <2>2, <2>3
<1>7. CASE Quiet
  <2>1. disk' = disk /\ kills' = kills /\ mem'.pst = mem.pst /\ pend = NoRec
    BY <1>7 DEF Quiet
  <2> QED
    BY <1>2, <2>1 DEF Done
<1>8. ASSUME NEW task \in TaskStates, Turned(task)
      PROVE  /\ \A p \in Procs : Done(disk', p) => disk'.proc[p].st \in TerminalProcess
             /\ Up' /\ ~disk'.ok => \A p \in Procs : Done(disk', p) => Done(mem', p)
  <2>1. kills = 0 /\ pend = NoRec /\ SetTaskStatus(task)
    BY <1>1, <1>8 DEF Turned
  <2>2. /\ disk'.pst = disk.pst /\ disk'.proc = disk.proc /\ disk'.ok = disk.ok
        /\ mem'.pst = mem.pst
    BY <1>1, <2>1 DEF SetTaskStatus, ReplayTask, RunnerState
  <2> QED
    BY <1>2, <2>1, <2>2 DEF Done
<1>9. ASSUME NEW r \in ProcessRec, Noted(r)
      PROVE  /\ \A p \in Procs : Done(disk', p) => disk'.proc[p].st \in TerminalProcess
             /\ Up' /\ ~disk'.ok => \A p \in Procs : Done(disk', p) => Done(mem', p)
  <2>1. /\ kills = 0 /\ pend = NoRec /\ Checkpoint(r) /\ disk' = ReplayProcess(disk, r)
        /\ r.p \in Procs /\ r.st \in ProcessStates
    BY <1>9 DEF Noted, Checkpoint, ProcessRec
  <2>2. /\ \A p \in Procs \ {r.p} : disk'.pst[p] = disk.pst[p]
        /\ r.st = "WAITING" => disk'.pst = disk.pst
        /\ r.st \in {"FORKED", "RUNNING"} /\ Done(disk', r.p) => Done(disk, r.p)
    BY <1>1, <2>1, ReplayBooks
  <2>3. mem'.pst = mem.pst /\ (~disk'.ok => disk'.pst = disk.pst)
    BY <2>1, CheckpointBooks, CheckpointEffect
  <2>4. disk'.proc = mem'.proc /\ mem'.proc[r.p].st = r.st
        /\ \A p \in Procs \ {r.p} : mem'.proc[p] = mem.proc[p]
    BY <1>9, NotedStates DEF LogInv
  <2>5. r.st = "WAITING" => ~Done(disk, r.p)
    <3>1. r.st = "WAITING" => mem.pst[r.p] = "runnable"
      BY <1>9 DEF Noted, LedgerInv, StageFacts
    <3> QED
      BY <1>2, <1>9, <2>1, <3>1 DEF Noted, Done
  <2>6. r.st \in {"FORKED", "RUNNING"} => ~Done(disk, r.p)
    <3>1. r.st \in {"FORKED", "RUNNING"} => mem.proc[r.p].st \in {"WAITING", "FORKED"}
      BY <1>9, Sources DEF Noted, ProcessStates
    <3> QED
      BY <1>1, <1>2, <2>1, <3>1 DEF TerminalProcess
  <2>7. \A p \in Procs : Done(disk', p) => disk'.proc[p].st \in TerminalProcess
    <3> SUFFICES ASSUME NEW p \in Procs, Done(disk', p) PROVE disk'.proc[p].st \in TerminalProcess
      OBVIOUS
    <3>1. CASE p # r.p
      BY <1>1, <1>2, <2>1, <2>2, <2>4, <3>1 DEF Done
    <3>2. CASE p = r.p
      BY <2>1, <2>2, <2>4, <2>5, <2>6, <3>2 DEF Done, ProcessStates, TerminalProcess
    <3> QED
      BY <3>1, <3>2
  <2>8. Up' /\ ~disk'.ok => \A p \in Procs : Done(disk', p) => Done(mem', p)
    BY <1>2, <2>1, <2>3 DEF Done
  <2> QED
    BY <2>7, <2>8
<1> QED
  BY <1>5, <1>6, <1>7, <1>8, <1>9, LedgerKinds

-----------------------------------------------------------------------------
(* The steps of the ledger. *)

\* What the ledger sees of a step that writes nothing.
LEMMA Unwritten ==
  ASSUME disk'.proc = disk.proc, disk'.task = disk.task, fin' = fin, kills' = kills
  PROVE  UNCHANGED Ledger!vars
BY DEF Ledger!vars

\* A record is the next one of its process.
LEMMA NotedLedger ==
  ASSUME TypeOK, LogInv, LogInv', Parked, LedgerInv, NEW r \in ProcessRec, Noted(r)
  PROVE  Ledger!Next
<1>1. /\ disk.proc = mem.proc /\ disk'.proc = mem'.proc /\ disk.task = mem.task
      /\ disk'.task = mem'.task
      /\ r.p \in Procs /\ mem'.task = mem.task /\ mem'.proc[r.p].st = r.st
      /\ \A p \in Procs \ {r.p} : mem'.proc[p] = mem.proc[p]
  BY SameStates, NotedStates DEF LogInv
<1>2. mem'.proc[r.p].seq = mem.proc[r.p].seq + 1 /\ UNCHANGED <<kills, fin>>
  BY CheckpointEffect DEF Noted
<1>3. r.st \in ProcessStates /\ mem.proc[r.p].st \in SourceStates(r.st)
  BY DEF Noted, ProcessRec
<1>4. r.st \in Ledger!Successors[mem.proc[r.p].st]
  BY <1>3 DEF Ledger!Successors, SourceStates, ProcessStates, TerminalProcess
<1>5. Ledger!Record(r.p, r.st)
  <2>1. [p \in Procs |-> disk'.proc[p].st] = [[p \in Procs |-> disk.proc[p].st] EXCEPT ![r.p] = r.st]
    BY <1>1
  <2>2. [p \in Procs |-> disk'.proc[p].seq] = [[p \in Procs |-> disk.proc[p].seq] EXCEPT ![r.p] = @ + 1]
    BY <1>1, <1>2
  <2> QED
    BY <1>1, <1>2, <1>4, <2>1, <2>2 DEF Ledger!Record
<1>6. CASE r.st = "WAITING"
  <2>1. pc = "launch" /\ r.p \in work /\ pend = NoRec /\ Up
    BY <1>6 DEF Noted
  <2>2. mem.task \in {"ACTIVE", "FINALIZING"} /\ r.p \in Plan
    BY <2>1 DEF LedgerInv, StageFacts
  <2>3. mem.task = "FINALIZING" => \A p \in Regular : mem.proc[p].st \notin {"FORKED", "RUNNING"}
    BY <2>1 DEF LedgerInv, FinalFacts
  <2>4. Ledger!Begin(r.p)
    BY <1>1, <1>5, <1>6, <2>2, <2>3 DEF Ledger!Begin, Ledger!Idle, Ledger!Busy, Plan, Procs
  <2> QED
    BY <1>1, <2>4 DEF Ledger!Next, Ledger!Procs, Procs
<1>7. CASE r.st # "WAITING"
  <2>1. r.st \in Ledger!Busy \union Ledger!Over
    BY <1>3, <1>7 DEF Ledger!Busy, Ledger!Over, ProcessStates
  <2>2. mem.task \in TerminalTask => r.st \in {"KILLED", "LOST"}
    BY DEF Noted, Parked
  <2>3. Ledger!Proceed(r.p, r.st) \/ Ledger!Cut(r.p, r.st)
    BY <1>1, <1>5, <1>7, <2>2 DEF Ledger!Proceed, Ledger!Cut, Ledger!Over, TerminalTask
  <2> QED
    BY <1>1, <2>1, <2>3 DEF Ledger!Next, Ledger!Procs, Procs
<1> QED
  BY <1>6, <1>7

\* The task's state moves on, is decided, or is written again under a signal.
LEMMA TurnedLedger ==
  ASSUME TypeOK, LogInv, Parked, LedgerInv, VerdictFits', NEW task \in TaskStates, Turned(task)
  PROVE  Ledger!Next
<1>1. /\ disk.proc = mem.proc /\ disk.task = mem.task /\ mem \in RunnerState
      /\ disk \in RunnerState /\ kills \in Nat
  BY SameStates DEF TypeOK, WorldOK
<1>2. /\ disk'.proc = disk.proc /\ disk'.pst = disk.pst /\ disk'.task = task /\ fin' = fin
  BY <1>1 DEF Turned, SetTaskStatus, ReplayTask, RunnerState
<1>3. CASE task = mem.task /\ kills' = kills + 1
  <2>1. Ledger!Signal
    BY <1>1, <1>2, <1>3 DEF Ledger!Signal
  <2> QED
    BY <2>1 DEF Ledger!Next
<1>4. CASE /\ kills' = kills
           /\ \/ mem.task = "ACTIVE" /\ task = "CLEANING"
              \/ mem.task = "CLEANING" /\ task = "FINALIZING"
  <2>1. Ledger!Advance
    BY <1>1, <1>2, <1>4 DEF Ledger!Advance
  <2> QED
    BY <2>1 DEF Ledger!Next
<1>5. CASE kills' = kills /\ mem.task \in {"CLEANING", "FINALIZING"} /\ task = TerminalState
  <2>1. task \in Ledger!Over
    BY <1>5, TerminalStateType DEF Ledger!Over, TerminalTask
  <2>2. kills = 0 => task \in {"SUCCESS", "FAILED"}
    BY <1>5 DEF Parked, TerminalState
  <2>3. ASSUME kills = 0, task = "SUCCESS", NEW p \in Regular \ Ephemeral
        PROVE  disk.proc[p].st \in TerminalProcess
    <3>1. IsComplete(disk', Regular)
      BY <1>2, <1>5, <2>3 DEF VerdictFits
    <3>2. Done(disk, p)
      BY <1>2, <3>1 DEF IsComplete, Done
    <3> QED
      BY <2>3, <3>2 DEF LedgerInv, BookFacts, Procs
  <2>4. Ledger!Decide(task)
    BY <1>1, <1>2, <1>5, <2>2, <2>3 DEF Ledger!Decide, Ledger!Over, TerminalProcess, Procs
  <2> QED
    BY <2>1, <2>4 DEF Ledger!Next
<1> QED
  BY <1>3, <1>4, <1>5 DEF Turned

\* The runner ends, or puts the file away.
LEMMA LeftLedger ==
  ASSUME TypeOK, LogInv, Parked, LedgerInv, Left
  PROVE  [Ledger!Next]_Ledger!vars
<1>1. disk.proc = mem.proc /\ disk.task = mem.task /\ kills \in Nat /\ disk' = disk
  BY SameStates DEF TypeOK, WorldOK, Left
<1>2. CASE fin' = fin /\ kills' = kills
  BY <1>1, <1>2, Unwritten
<1>3. CASE fin' = fin /\ kills' = kills + 1
  <2>1. Ledger!Signal
    BY <1>1, <1>3 DEF Ledger!Signal
  <2> QED
    BY <2>1 DEF Ledger!Next
<1>4. CASE FinalizeTask /\ kills' = kills
  <2>1. mem.task \in TerminalTask /\ \A p \in Procs : mem.proc[p].st \notin {"FORKED", "RUNNING"}
    BY <1>4 DEF FinalizeTask, Ready, LedgerInv, KillFacts
  <2>2. Ledger!Close
    BY <1>1, <1>4, <2>1 DEF FinalizeTask, Ledger!Close, Ledger!Over, Ledger!Idle, Ledger!Busy,
       Ledger!Procs, Procs, TerminalTask
  <2> QED
    BY <2>2 DEF Ledger!Next
<1> QED
  BY <1>2, <1>3, <1>4 DEF Left

\* Every step of the system is one of the ledger, or none.
LEMMA StepLedger ==
  ASSUME TypeOK, LogInv, LogInv', Parked, LedgerInv, VerdictFits', [Next]_vars
  PROVE  [Ledger!Next]_Ledger!vars
<1>1. CASE WorldStep
  BY <1>1, WorldStepEffect, Unwritten
<1>2. CASE Start
  <2>1. disk'.proc = disk.proc /\ disk'.task = disk.task /\ fin' = fin /\ kills' = kills
    BY <1>2 DEF Start, ReplayTask, TypeOK, RunnerState
  <2> QED
    BY <2>1, Unwritten
<1> SUFFICES ASSUME Up, ~WorldStep PROVE [Ledger!Next]_Ledger!vars
  BY <1>1, <1>2, DownStep
<1>3. CASE Handler
  <2>1. disk' = disk /\ fin' = fin /\ kills' = kills
    BY <1>3, Handled DEF Handler, countVars
  <2> QED
    BY <2>1, Unwritten
<1>4. CASE Quiet
  BY <1>4, Unwritten DEF Quiet
<1> QED
  BY <1>3, <1>4, NotedLedger, TurnedLedger, LeftLedger, LedgerKinds

(***************************************************************************)
(* The checkpoint that the runners of a task leave behind keeps the        *)
(* promises of TaskLedger to all its readers, over crashes, restarts,      *)
(* signals and coordinators that die: the numbers of a process's records   *)
(* have no gap, finalizing processes begin when no regular one is on       *)
(* record as running, a task that is left alone succeeds when its lasting  *)
(* processes have ended, and the file is put away when nothing runs on it. *)
(***************************************************************************)
THEOREM LedgerCorrect == Spec => ImplementsLedger
<1>1. Init => Ledger!Init
  BY DEF Init, InitState, NoRun, Ledger!Init, Ledger!Procs, Procs
<1>2. Init => LedgerInv
  <2>1. Init => RunFacts
    BY DEF Init, InitState, NoRun, RunFacts
  <2>2. Init => StageFacts /\ KillFacts /\ FinalFacts
    BY DEF Init, StageFacts, KillFacts, FinalFacts, Up
  <2>3. Init => BookFacts
    BY DEF Init, InitState, BookFacts, Done, Up
  <2> QED
    BY <2>1, <2>2, <2>3 DEF LedgerInv
<1>3. /\ TypeOK /\ TypeOK' /\ LogInv /\ LogInv' /\ TrailInv /\ LedgerInv /\ [Next]_vars
      => LedgerInv'
  BY NextRunFacts, NextStageFacts, NextBookFacts DEF LedgerInv, TrailInv
<1>4. /\ TypeOK /\ LogInv /\ LogInv' /\ TrailInv /\ LedgerInv /\ VerdictFits' /\ [Next]_vars
      => [Ledger!Next]_Ledger!vars
  BY StepLedger DEF TrailInv
<1> QED
  BY <1>1, <1>2, <1>3, <1>4, AlwaysTrail, VerdictCorrect, PTL
     DEF Spec, ImplementsLedger, Ledger!Spec
=============================================================================
