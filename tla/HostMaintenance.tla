--------------------------- MODULE HostMaintenance ---------------------------
(***************************************************************************)
(* Host maintenance (admin/host_maintenance.py HostMaintenance) with the   *)
(* SLA check of client/api/sla.py: group by group, hosts whose loss the    *)
(* job can bear are drained, waited for and handed to a script.            *)
(*                                                                         *)
(* Hosts are numbers in the order of their names.                          *)
(***************************************************************************)
EXTENDS Cluster

CONSTANTS
  Maintained,  \* hosts that are taken into maintenance
  Together,    \* all hosts are one group, otherwise each is its own
  Percentage, MinCount,  \* of the SLA: tasks up, SLA_MIN_JOB_INSTANCE_COUNT
  Unanswered,  \* queries of the check may fail, status answers leave out hosts
  MaxWaits     \* MAX_STATUS_WAIT / STATUS_POLL_INTERVAL: the polls of a wait

ASSUME MaintenanceBounds ==
  /\ Maintained \subseteq Hosts /\ Together \in BOOLEAN /\ Unanswered \in BOOLEAN
  /\ Percentage \in 0 .. 100 /\ MinCount \in Nat /\ MaxWaits \in Nat \ {0}

VARIABLES
  work,      \* the command: idle, start, hosts, job, drain, wait, script
  group,     \* the hosts that are worked on
  todo,      \* hosts of the groups to come
  waiting,   \* not_drained_hostnames of _drain_hosts
  waits,     \* polls of _drain_hosts so far
  kept,      \* not_drained_hostnames of perform_maintenance
  operated,  \* hosts that the script was run on
  activated, \* history: hosts that another operator took out of maintenance
  unnamed    \* history: hosts that a status answer left out before they were drained

maintenanceVars ==
  <<work, group, todo, waiting, waits, kept, operated, activated, unnamed>>

MaintenanceTypeOK ==
  /\ work \in {"idle", "start", "hosts", "job", "drain", "wait", "script"}
  /\ \A H \in {group, todo, waiting, kept, operated} : H \subseteq Maintained
  /\ activated \subseteq Maintained /\ unnamed \subseteq Maintained
  /\ waits \in 0 .. MaxWaits - 1

MaintenanceInit ==
  /\ work = "idle" /\ waits = 0
  /\ group = {} /\ todo = {} /\ waiting = {} /\ kept = {} /\ operated = {}
  /\ activated = {} /\ unnamed = {}

DrainCommand ==
  /\ work = "idle" /\ work' = "start"
  /\ UNCHANGED <<clusterVars, group, todo, waiting, waits, kept, operated, activated, unnamed>>

\* iter_batches: the next group, or the end.
NextGroup(left) ==
  LET first == {h \in left : \A g \in left : h <= g} IN
  /\ group' = IF Together THEN left ELSE first
  /\ todo' = left \ group'
  /\ work' = IF left = {} THEN "idle" ELSE "hosts"

\* check_and_log_response ends the program, and so does an exception of a call.
Dies ==
  /\ work' = "idle" /\ group' = {} /\ todo' = {} /\ waiting' = {} /\ waits' = 0
  /\ UNCHANGED <<clusterVars, kept>>

\* start_maintenance: hosts that the scheduler does not know are left out.
Start ==
  /\ work = "start"
  /\ \/ /\ \E known \in SUBSET Maintained : StartMaintenance(known) /\ NextGroup(known)
        /\ UNCHANGED <<waiting, waits, kept>>
     \/ Dies
  /\ UNCHANGED <<operated, activated, unnamed>>

-----------------------------------------------------------------------------
(* _check_sla *)

On(H) == {i \in Live : host[i] \in H}

\* DomainUpTimeSlaVector.probe_hosts of a snapshot of the job's tasks: the hosts
\* of the group that its tasks are on, if without them too few would be up.
Unsafe(tasks) ==
  LET jobHosts == group \intersect {host[i] : i \in tasks}
      above == {i \in tasks \intersect up : host[i] \notin jobHosts}
  IN IF /\ Cardinality(tasks) >= MinCount
        /\ 100 * Cardinality(above) < Percentage * Cardinality(tasks)
     THEN jobHosts ELSE {}

\* The tasks of the hosts tell which jobs to ask for; without any, and when the
\* query fails, there is no job to consider.
SlaHosts ==
  /\ work = "hosts"
  /\ \/ /\ \/ On(group) # {} /\ work' = "job"
           \/ (On(group) = {} \/ Unanswered) /\ work' = "drain"
        /\ UNCHANGED <<clusterVars, group, todo, waiting, waits, kept>>
     \/ Dies
  /\ UNCHANGED <<operated, activated, unnamed>>

\* The tasks of the job, or none when the query fails.
SlaJob ==
  /\ work = "job"
  /\ \/ /\ \E tasks \in {Live} \union (IF Unanswered THEN {{}} ELSE {}) :
             LET unsafe == Unsafe(tasks) IN
             /\ kept' = kept \union unsafe
             /\ \/ /\ unsafe # group /\ work' = "drain"
                   /\ group' = group \ unsafe /\ UNCHANGED todo
                \/ unsafe = group /\ NextGroup(todo)
        /\ UNCHANGED <<clusterVars, waiting, waits>>
     \/ Dies
  /\ UNCHANGED <<operated, activated, unnamed>>

-----------------------------------------------------------------------------
(* _drain_hosts and the script *)

DrainGroup ==
  /\ work = "drain"
  /\ \/ /\ DrainHosts(group) /\ waiting' = group
        /\ work' = "wait" /\ UNCHANGED <<group, todo, waits, kept>>
     \/ Dies
  /\ UNCHANGED <<operated, activated, unnamed>>

\* Mutant: all hosts of the group, waited for or not.
OperableAll == group \ operated

\* The hosts of the group that were drained, one after the other.
Operable == group \ (kept \union operated)

\* Mutant: one poll too many.
TimedOutLate == waits = MaxWaits

TimedOut == waits + 1 = MaxWaits

Undrained == {h \in waiting : mode[h] # "DRAINED"}

\* A poll; hosts that are not DRAINED at the end of the wait are given up.  One
\* that the answer leaves out counts as DRAINED.
PollDrain ==
  /\ work = "wait"
  /\ \/ \E out \in IF Unanswered THEN SUBSET Undrained ELSE {{}} :
        LET left == Undrained \ out IN
        /\ unnamed' = unnamed \union out
        /\ \/ /\ left # {} /\ ~TimedOut
              /\ waiting' = left /\ waits' = waits + 1 /\ UNCHANGED <<work, kept>>
           \/ /\ left = {} \/ TimedOut
              /\ kept' = kept \union left /\ work' = "script"
              /\ waiting' = {} /\ waits' = 0
        /\ UNCHANGED <<clusterVars, group, todo>>
     \/ Dies /\ UNCHANGED unnamed
  /\ UNCHANGED <<operated, activated>>

Script ==
  /\ work = "script"
  /\ \/ \E h \in Operable :
          operated' = operated \union {h} /\ UNCHANGED <<work, group, todo>>
     \/ Operable = {} /\ NextGroup(todo) /\ UNCHANGED operated
  /\ UNCHANGED <<clusterVars, waiting, waits, kept, activated, unnamed>>

DrainStep == Start \/ SlaHosts \/ SlaJob \/ DrainGroup \/ PollDrain \/ Script

\* host_activate, from another terminal.
Activate(h) ==
  /\ h \in Maintained /\ mode[h] # "NONE" /\ EndMaintenance(h)
  /\ activated' = activated \union {h}
  /\ UNCHANGED <<work, group, todo, waiting, waits, kept, operated, unnamed>>

-----------------------------------------------------------------------------
(* Properties *)

\* The post-drain script runs on a host only while that is DRAINED and none of
\* its tasks is left, although it was seen so at an earlier poll and the rest of
\* its group, or the end of the wait, came later (host_maintenance.py:211), unless
\* another operator activated it or an answer left it out; and it never runs on a
\* host that failed the check or was given up.
OperatedOnDrained ==
  \A h \in operated :
     /\ h \notin kept
     /\ \/ mode[h] = "DRAINED" /\ ~\E i \in Live : host[i] = h
        \/ h \in activated \union unnamed

\* --override_percentage: "Percentage of tasks required to be up all the time"
\* (admin_util.py:91).  A drain that the check let pass leaves that percentage of
\* the job up, when no task failed of itself and no other command interferes.
DrainKeepsPercentage ==
  work = "wait" /\ failures = 0 =>
     100 * Cardinality(Running \intersect up) >= Percentage * Cardinality(Instances)
=============================================================================
