------------------------------- MODULE Cluster -------------------------------
(***************************************************************************)
(* The scheduler's side of one production job, as the client commands see  *)
(* and change it.  It is external: modelled by the calls and the answers   *)
(* that the code under client/ and admin/ relies on.                       *)
(*                                                                         *)
(* Instance i has one task at a time, the id[i]-th: a task that ends is    *)
(* replaced unless it was killed.  A task is live (LIVE_STATES) unless it  *)
(* is pending or killed.                                                   *)
(***************************************************************************)
EXTENDS Naturals, FiniteSets

CONSTANTS
  Instances,   \* instances of the job
  Hosts,
  HostOf,      \* the host of each instance's first task
  MaxFailures  \* bound on the tasks that fail

ASSUME ClusterBounds ==
  /\ Instances \subseteq Nat /\ IsFiniteSet(Instances)
  /\ Hosts \subseteq Nat \ {0} /\ HostOf \in [Instances -> Hosts] /\ MaxFailures \in Nat

VARIABLES
  id,       \* per instance: the number of its task
  status,   \* pending, running, leaving (RESTARTING, DRAINING), killing, killed
  host,     \* per instance: the host of its live task, or NoHost
  up,       \* instances whose task first ran at least the SLA's duration ago
  mode,     \* per host: its MaintenanceMode
  failures  \* tasks that failed

clusterVars == <<id, status, host, up, mode, failures>>

NoHost == 0

ClusterTypeOK ==
  /\ id \in [Instances -> Nat \ {0}]
  /\ status \in [Instances -> {"pending", "running", "leaving", "killing", "killed"}]
  /\ host \in [Instances -> Hosts \union {NoHost}] /\ up \subseteq Instances
  /\ mode \in [Hosts -> {"NONE", "SCHEDULED", "DRAINING", "DRAINED"}]
  /\ failures \in 0 .. MaxFailures

ClusterInit ==
  /\ id = [i \in Instances |-> 1]
  /\ status = [i \in Instances |-> "running"]
  /\ host = HostOf /\ up = Instances
  /\ mode = [h \in Hosts |-> "NONE"]
  /\ failures = 0

Live == {i \in Instances : status[i] \in {"running", "leaving", "killing"}}
Active == {i \in Instances : status[i] # "killed"}
Running == {i \in Instances : status[i] = "running"}

-----------------------------------------------------------------------------

\* A draining host without tasks is drained.
Drain(at, md) ==
  [h \in Hosts |->
     IF md[h] = "DRAINING" /\ ~\E i \in Instances : at[i] = h THEN "DRAINED" ELSE md[h]]

Place(i) ==
  /\ status[i] = "pending"
  /\ \E h \in Hosts : mode[h] \in {"NONE", "SCHEDULED"} /\ host' = [host EXCEPT ![i] = h]
  /\ status' = [status EXCEPT ![i] = "running"]
  /\ UNCHANGED <<id, up, mode, failures>>

Age(i) ==
  /\ i \in Running \ up /\ up' = up \union {i}
  /\ UNCHANGED <<id, status, host, mode, failures>>

\* The task of i is over, and another one takes its place.
Replace(i) ==
  /\ id' = [id EXCEPT ![i] = @ + 1]
  /\ status' = [status EXCEPT ![i] = "pending"]
  /\ host' = [host EXCEPT ![i] = NoHost]
  /\ up' = up \ {i} /\ mode' = Drain(host', mode)

Leave(i) == status[i] = "leaving" /\ Replace(i) /\ UNCHANGED failures

Fail(i) ==
  /\ status[i] = "running" /\ failures < MaxFailures
  /\ failures' = failures + 1 /\ Replace(i)

Die(i) ==
  /\ status[i] = "killing" /\ status' = [status EXCEPT ![i] = "killed"]
  /\ host' = [host EXCEPT ![i] = NoHost]
  /\ up' = up \ {i} /\ mode' = Drain(host', mode)
  /\ UNCHANGED <<id, failures>>

Placement == \E i \in Instances : Place(i) \/ Leave(i) \/ Die(i)
Scheduler == Placement \/ \E i \in Instances : Age(i) \/ Fail(i)

-----------------------------------------------------------------------------
(* The calls *)

\* restartShards: refused unless every instance is active; a pending task is new.
CanRestart(B) == B \subseteq Active
RestartShards(B) ==
  /\ status' = [i \in Instances |-> IF i \in B \intersect Running THEN "leaving" ELSE status[i]]
  /\ UNCHANGED <<id, host, up, mode, failures>>

KillTasks(B) ==
  /\ status' = [i \in Instances |->
       IF i \notin B THEN status[i]
       ELSE IF i \in Live THEN "killing" ELSE "killed"]
  /\ UNCHANGED <<id, host, up, mode, failures>>

StartMaintenance(H) ==
  /\ mode' = [h \in Hosts |-> IF h \in H /\ mode[h] = "NONE" THEN "SCHEDULED" ELSE mode[h]]
  /\ UNCHANGED <<id, status, host, up, failures>>

DrainHosts(H) ==
  /\ status' = [i \in Instances |-> IF i \in Running /\ host[i] \in H THEN "leaving" ELSE status[i]]
  /\ mode' = Drain(host, [h \in Hosts |-> IF h \in H /\ mode[h] # "DRAINED" THEN "DRAINING" ELSE mode[h]])
  /\ UNCHANGED <<id, host, up, failures>>

EndMaintenance(h) ==
  /\ mode' = [mode EXCEPT ![h] = "NONE"]
  /\ UNCHANGED <<id, status, host, up, failures>>
=============================================================================
