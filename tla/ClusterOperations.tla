-------------------------- MODULE ClusterOperations --------------------------
(***************************************************************************)
(* The commands that change a running job from outside, at work on one     *)
(* cluster at the same time: a rolling restart, a kill in batches and the  *)
(* maintenance of hosts.  Each is its own process and takes no lock.       *)
(***************************************************************************)
EXTENDS JobRestart, JobKill, HostMaintenance

CONSTANTS
  Commands,    \* those that may be given, of restart, kill, drain
  MaxCommands, \* bound on how many are
  MaxUpsets    \* bound on what else goes wrong: see Upsets

ASSUME CommandBounds ==
  /\ Commands \subseteq {"restart", "kill", "drain"} /\ MaxCommands \in Nat
  /\ MaxUpsets \in Nat

VARIABLE given  \* the commands given so far, each at most once

vars == <<clusterVars, watchVars, restartVars, killVars, maintenanceVars, given>>

TypeOK ==
  ClusterTypeOK /\ RestartTypeOK /\ KillTypeOK /\ MaintenanceTypeOK /\ given \subseteq Commands

Init ==
  ClusterInit /\ RestartInit /\ KillInit /\ MaintenanceInit /\ given = {}

Give(c) ==
  /\ c \in Commands \ given /\ Cardinality(given) < MaxCommands
  /\ given' = given \union {c}

Elsewhere == UNCHANGED <<watchVars, restartVars, killVars, maintenanceVars, given>>
RestartNext == RestartStep /\ UNCHANGED <<killVars, maintenanceVars, given>>
KillNext == KillStep /\ UNCHANGED <<watchVars, restartVars, maintenanceVars, given>>
DrainNext == DrainStep /\ UNCHANGED <<watchVars, restartVars, killVars, given>>

StartCommand ==
  \/ Give("restart") /\ RestartCommand /\ UNCHANGED <<killVars, maintenanceVars>>
  \/ Give("kill") /\ KillCommand /\ UNCHANGED <<watchVars, restartVars, maintenanceVars>>
  \/ Give("drain") /\ DrainCommand /\ UNCHANGED <<watchVars, restartVars, killVars>>

\* Tasks that failed, hosts that another operator activated or that an answer left out.
Upsets == failures + Cardinality(activated) + Cardinality(unnamed)

Next ==
  /\ \/ StartCommand \/ RestartNext \/ KillNext \/ DrainNext
     \/ /\ \E h \in Maintained : "drain" \in given /\ Activate(h)
        /\ UNCHANGED <<watchVars, restartVars, killVars, given>>
     \/ Scheduler /\ Elsewhere
  /\ Upsets' <= MaxUpsets

Spec == Init /\ [][Next]_vars

RestartGoesOn ==
  (Query \/ RestartBatch \/ PollLater) /\ UNCHANGED <<killVars, maintenanceVars, given>>

\* Every command goes on.  The scheduler goes on with what it began and places
\* tasks as long as there is a host for them; its status queries do not fail for
\* ever, and watch_secs pass.
FairSpec ==
  /\ Spec
  /\ WF_vars(RestartGoesOn) /\ WF_vars(KillNext) /\ WF_vars(DrainNext)
  /\ WF_vars(Placement /\ Elsewhere)

-----------------------------------------------------------------------------
(* Properties *)

\* The commands, each given at most once, end, whatever the others do to their tasks
\* and hosts: no wait of the kill and the drain is without a limit, and the watch of
\* a restart, which has none, is left open only by an instance that was killed
\* (instance_watcher.py:88-112, job_monitor.py:70-91, host_maintenance.py:66-85).
CommandsEnd ==
  <>[](/\ kill = "idle" /\ work = "idle"
       /\ rpc = "idle" \/ \E i \in watched : status[i] = "killed")
=============================================================================
