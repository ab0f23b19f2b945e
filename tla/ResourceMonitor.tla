--------------------------- MODULE ResourceMonitor ---------------------------
(***************************************************************************)
(* The threads that sample the processes of observed tasks                 *)
(* (thermos/monitoring/resource.py TaskResourceMonitor), one per task, and *)
(* the question of the observer's HTTP threads for one process.            *)
(*                                                                         *)
(* What a task runs is read from its checkpoint                            *)
(* (thermos/monitoring/monitor.py get_active_processes): the runs whose    *)
(* last record is RUNNING.  A run stands for its ProcessStatus and pid.    *)
(***************************************************************************)
EXTENDS Naturals

CONSTANTS
  Tasks,
  ProcsOf,  \* the processes of each task
  MaxRuns   \* bound on the runs of a process

ASSUME MonitorBounds == MaxRuns \in Nat

VARIABLES
  up,         \* per task and process: the run that is RUNNING, 0 if none is
  runs,       \* runs so far
  phase,      \* the thread: off, wait (between two polls), sample, dead
  killSignal, \* _kill_signal
  collectors  \* _process_collectors: the run whose pid is sampled, 0 for no entry

monitorVars == <<up, runs, phase, killSignal, collectors>>

PerProcess(S) == {f \in [Tasks -> UNION {[ProcsOf[t] -> S] : t \in Tasks}] :
                    \A t \in Tasks : f[t] \in [ProcsOf[t] -> S]}
Zero == [t \in Tasks |-> [p \in ProcsOf[t] |-> 0]]

MonitorTypeOK ==
  /\ \A t \in Tasks : \A f \in {up[t], runs[t], collectors[t]} : f \in [ProcsOf[t] -> 0 .. MaxRuns]
  /\ phase \in [Tasks -> {"off", "wait", "sample", "dead"}]
  /\ killSignal \in [Tasks -> BOOLEAN]

MonitorInit ==
  /\ up = Zero /\ runs = Zero /\ collectors = Zero
  /\ phase = [t \in Tasks |-> "off"] /\ killSignal = [t \in Tasks |-> FALSE]

-----------------------------------------------------------------------------

\* The runner records RUNNING, or the end of the run.
RunBegins(t, p) ==
  /\ up[t][p] = 0 /\ runs[t][p] < MaxRuns
  /\ runs' = [runs EXCEPT ![t][p] = @ + 1] /\ up' = [up EXCEPT ![t][p] = runs'[t][p]]
  /\ UNCHANGED <<phase, killSignal, collectors>>
RunEnds(t, p) ==
  /\ up[t][p] # 0 /\ up' = [up EXCEPT ![t][p] = 0]
  /\ UNCHANGED <<runs, phase, killSignal, collectors>>

\* One pass of the loop up to the samples: the entries are compared by the
\* name of the process.
Poll(t) ==
  /\ phase[t] = "wait" /\ ~killSignal[t]
  /\ collectors' = [collectors EXCEPT ![t] =
       [p \in ProcsOf[t] |-> IF up[t][p] # 0 /\ @[p] # 0 THEN @[p] ELSE up[t][p]]]
  /\ phase' = [phase EXCEPT ![t] = "sample"]
  /\ UNCHANGED <<up, runs, killSignal>>

\* The collectors have been sampled and the result is in the history.
Sampled(t) ==
  /\ phase[t] = "sample" /\ phase' = [phase EXCEPT ![t] = "wait"]
  /\ UNCHANGED <<up, runs, killSignal, collectors>>

Killed(t) ==
  /\ phase[t] = "wait" /\ killSignal[t] /\ phase' = [phase EXCEPT ![t] = "off"]
  /\ UNCHANGED <<up, runs, killSignal, collectors>>

\* sample_by_process, on a thread of the HTTP server: an entry that the poll
\* has not made yet is made here.  The loop over the entries that may be under
\* way then ends with a RuntimeError, and the thread with it.  Its exception
\* handler interrupts the main thread (excepthook.py:47): the observer ends soon
\* after, and the steps that the model takes from here are more than the code has.
SampleByProcess(t, p) ==
  /\ up[t][p] # 0
  /\ \/ /\ collectors[t][p] = 0
        /\ collectors' = [collectors EXCEPT ![t][p] = up[t][p]]
        /\ \/ UNCHANGED phase
           \/ /\ phase[t] = "sample" /\ \E q \in ProcsOf[t] : collectors[t][q] # 0
              /\ phase' = [phase EXCEPT ![t] = "dead"]
     \/ collectors[t][p] # 0 /\ UNCHANGED <<collectors, phase>>
  /\ UNCHANGED <<up, runs, killSignal>>

MonitorThread(t) == Poll(t) \/ Sampled(t) \/ Killed(t)
=============================================================================
