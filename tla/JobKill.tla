------------------------------- MODULE JobKill -------------------------------
(***************************************************************************)
(* aurora job kill in batches (client/cli/jobs.py kill_in_batches and      *)
(* wait_kill_tasks), each waited for with JobMonitor.wait_until            *)
(* (client/api/job_monitor.py).                                            *)
(***************************************************************************)
EXTENDS Cluster

CONSTANTS
  KillBatch,   \* batch_size
  MaxErrors,   \* max_total_failures
  MaxPolls     \* polls of wait_until before the interval is MAX_POLL_INTERVAL

ASSUME KillBounds == KillBatch \in Nat \ {0} /\ MaxErrors \in Nat /\ MaxPolls \in Nat

VARIABLES
  kill,       \* the command: idle, list, batch, wait
  toKill,     \* instances_to_kill
  killing,    \* the batch
  polls,      \* polls of this wait
  errors,     \* batches that were not killed in time
  confirmed,  \* instances reported as "Successfully killed"
  blind       \* those among them whose status could not be read

killVars == <<kill, toKill, killing, polls, errors, confirmed, blind>>

KillTypeOK ==
  /\ kill \in {"idle", "list", "batch", "wait"}
  /\ toKill \subseteq Instances /\ killing \subseteq Instances
  /\ polls \in 0 .. MaxPolls /\ errors \in 0 .. MaxErrors + 1
  /\ confirmed \subseteq Instances /\ blind \subseteq confirmed

KillInit ==
  /\ kill = "idle" /\ toKill = {} /\ killing = {} /\ polls = 0 /\ errors = 0
  /\ confirmed = {} /\ blind = {}

KillCommand ==
  /\ kill = "idle" /\ kill' = "list"
  /\ UNCHANGED <<clusterVars, toKill, killing, polls, errors, confirmed, blind>>

\* The active instances among those given; without any there is nothing to do.
ListTasks ==
  /\ kill = "list"
  /\ \E given \in SUBSET Instances : toKill' = Active \intersect given
  /\ kill' = IF toKill' = {} THEN "idle" ELSE "batch"
  /\ UNCHANGED <<clusterVars, killing, polls, errors, confirmed, blind>>

\* An answer other than OK ends the command.
KillTheBatch ==
  /\ kill = "batch"
  /\ \/ /\ \E B \in SUBSET toKill :
             /\ Cardinality(B) = KillBatch \/ (B = toKill /\ Cardinality(B) < KillBatch)
             /\ killing' = B /\ toKill' = toKill \ B /\ KillTasks(B)
        /\ kill' = "wait"
     \/ kill' = "idle" /\ toKill' = {} /\ UNCHANGED <<clusterVars, killing>>
  /\ UNCHANGED <<polls, errors, confirmed, blind>>

\* Mutant: the state of the task that was listed first.
StatesOfFirst(B) == [i \in B |-> IF id[i] > 1 THEN "killed" ELSE status[i]]

\* JobMonitor.states: of all tasks of an instance, the one that was created last.
States(B) == [i \in B |-> status[i]]

\* JobMonitor.terminal, of every instance that the answer names.
AllTerminal(st) == \A i \in DOMAIN st : st[i] = "killed"

NextBatch ==
  /\ kill' = IF toKill = {} THEN "idle" ELSE "batch"
  /\ killing' = {} /\ polls' = 0 /\ UNCHANGED toKill

\* More errors than max_total_failures end the command.
WaitTimesOut ==
  /\ errors' = errors + 1
  /\ \/ errors' <= MaxErrors /\ NextBatch
     \/ errors' > MaxErrors /\ kill' = "idle" /\ toKill' = {} /\ killing' = {} /\ polls' = 0

\* One test of wait_until: no task is named when the answer is an error.
PollKill ==
  /\ kill = "wait"
  /\ \E B \in {killing, {}} :
       \/ /\ AllTerminal(States(B))
          /\ confirmed' = confirmed \union killing /\ blind' = blind \union (killing \ B)
          /\ NextBatch /\ UNCHANGED errors
       \/ /\ ~AllTerminal(States(B)) /\ UNCHANGED <<confirmed, blind>>
          /\ \/ /\ polls < MaxPolls /\ polls' = polls + 1
                /\ UNCHANGED <<kill, toKill, killing, errors>>
             \/ polls = MaxPolls /\ WaitTimesOut
  /\ UNCHANGED clusterVars

\* The query of wait_until is not retried: its exception ends the command.
QueryRaises ==
  /\ kill = "wait" /\ kill' = "idle"
  /\ toKill' = {} /\ killing' = {} /\ polls' = 0
  /\ UNCHANGED <<clusterVars, errors, confirmed, blind>>

KillStep == ListTasks \/ KillTheBatch \/ PollKill \/ QueryRaises

-----------------------------------------------------------------------------
(* Properties *)

\* "Successfully killed instances" (jobs.py:349): no task of theirs is left, old
\* or new, whatever failed, moved or restarted meanwhile, unless the status query
\* failed: wait_until takes the empty answer for a predicate that is met.
KillConfirmed == \A i \in confirmed \ blind : status[i] = "killed"
=============================================================================
