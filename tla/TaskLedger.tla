------------------------------ MODULE TaskLedger ------------------------------
(***************************************************************************)
(* What the checkpoint of a task promises to everybody who reads it: the   *)
(* observer, the executor, the command line and the next runner.  However  *)
(* many runners write it, crash and are signalled, the checkpoint tells    *)
(* one story: every process goes through its states one record at a time,  *)
(* the task moves forward only, the finalizing processes begin when no     *)
(* regular one is on record as running, and the file is put away when      *)
(* none is.                                                                *)
(***************************************************************************)
EXTENDS Integers

CONSTANTS
  Regular,   \* the processes of the task's regular plan
  Final,     \* the processes that finalize it
  Ephemeral  \* those that nobody waits for

VARIABLES
  task,       \* the status of the task
  status,     \* process -> the state its last record gives
  last,       \* process -> the number of that record
  signalled,  \* somebody killed the task, or lost it
  closed      \* the file is where finished tasks are

vars == <<task, status, last, signalled, closed>>

Procs == Regular \union Final
Over == {"SUCCESS", "FAILED", "KILLED", "LOST"}
Busy == {"FORKED", "RUNNING"}

\* The states that a process may be in after each of its states.
Successors == [NONE    |-> {"WAITING"},
               WAITING |-> {"FORKED", "FAILED"},
               FORKED  |-> {"RUNNING", "KILLED", "LOST"},
               RUNNING |-> {"SUCCESS", "FAILED", "KILLED", "LOST"},
               SUCCESS |-> {"WAITING"}, FAILED |-> {"WAITING"},
               KILLED  |-> {"WAITING"}, LOST   |-> {"WAITING"}]

Idle(ps) == \A p \in ps : status[p] \notin Busy

Init ==
  /\ task = "ACTIVE" /\ signalled = FALSE /\ closed = FALSE
  /\ status = [p \in Procs |-> "NONE"] /\ last = [p \in Procs |-> -1]

\* The next record of p: none is missing and none comes twice.
Record(p, st) ==
  /\ st \in Successors[status[p]]
  /\ status' = [status EXCEPT ![p] = st]
  /\ last' = [last EXCEPT ![p] = @ + 1]
  /\ UNCHANGED <<task, signalled, closed>>

\* A run of p begins: in the plan the task is at.
Begin(p) ==
  /\ \/ task = "ACTIVE" /\ p \in Regular
     \/ task = "FINALIZING" /\ p \in Final /\ Idle(Regular)
  /\ Record(p, "WAITING")

\* A run goes on, or ends.
Proceed(p, st) == task \notin Over /\ st # "WAITING" /\ Record(p, st)

\* A task that is over ends the runs it has left, and they cannot succeed.
Cut(p, st) == task \in Over /\ st \in {"KILLED", "LOST"} /\ Record(p, st)

Advance ==
  /\ \/ task = "ACTIVE" /\ task' = "CLEANING"
     \/ task = "CLEANING" /\ task' = "FINALIZING"
  /\ UNCHANGED <<status, last, signalled, closed>>

(***************************************************************************)
(* The verdict is given once.  It is KILLED or LOST only for a task that   *)
(* was signalled; one that was left alone succeeds only when every         *)
(* process somebody waits for has come to its end.                         *)
(***************************************************************************)
Decide(verdict) ==
  /\ task \in {"CLEANING", "FINALIZING"}
  /\ ~signalled =>
       /\ verdict \in {"SUCCESS", "FAILED"}
       /\ verdict = "SUCCESS" => \A p \in Regular \ Ephemeral : status[p] \in Over
  /\ task' = verdict
  /\ UNCHANGED <<status, last, signalled, closed>>

Signal == signalled' = TRUE /\ UNCHANGED <<task, status, last, closed>>

Close ==
  /\ task \in Over /\ Idle(Procs)
  /\ closed' = TRUE
  /\ UNCHANGED <<task, status, last, signalled>>

Next ==
  \/ \E p \in Procs : \/ Begin(p)
                       \/ \E st \in Busy \union Over : Proceed(p, st) \/ Cut(p, st)
  \/ Advance \/ Signal \/ Close
  \/ \E verdict \in Over : Decide(verdict)

Spec == Init /\ [][Next]_vars
=============================================================================
