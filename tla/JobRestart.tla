----------------------------- MODULE JobRestart ------------------------------
(***************************************************************************)
(* The rolling restart of a job (client/api/restarter.py Restarter, the    *)
(* FailureThreshold of client/api/updater_util.py): batches are restarted  *)
(* and watched, failed instances are queued again, until the queue is      *)
(* empty or too many instances failed too often.                           *)
(*                                                                         *)
(* restartShards is repeated after a lost answer (SchedulerProxy); a       *)
(* request executed late looks to the watch like a task that failed.       *)
(***************************************************************************)
EXTENDS InstanceWatcher, Integers, SequencesExt

CONSTANTS
  BatchSize,
  MaxPerInstance,  \* max_per_instance_failures
  MaxTotal         \* max_total_failures

ASSUME RestartBounds ==
  /\ BatchSize \in Nat \ {0}
  /\ MaxPerInstance \in Int /\ MaxTotal \in Nat

VARIABLES
  rpc,      \* the command: idle, query, batch, watch
  targets,  \* the instances to restart; {} until they are known
  queue,    \* instances
  counts,   \* _failures_by_instance
  verdict,  \* none, nothing, success, aborted, error
  before    \* per instance: the last task that ran before the command

restartVars == <<rpc, targets, queue, counts, verdict, before>>

RestartTypeOK ==
  /\ WatchTypeOK
  /\ rpc \in {"idle", "query", "batch", "watch"}
  /\ targets \subseteq Instances
  /\ queue \in Seq(Instances) /\ Len(queue) <= Cardinality(Instances)
  /\ counts \in [Instances -> Nat]
  /\ verdict \in {"none", "nothing", "success", "aborted", "error"}
  /\ before \in [Instances -> Nat]

RestartInit ==
  /\ WatchInit
  /\ rpc = "idle" /\ targets = {} /\ queue = <<>>
  /\ counts = [i \in Instances |-> 0] /\ verdict = "none"
  /\ before = [i \in Instances |-> 0]

RestartCommand ==
  /\ rpc = "idle" /\ verdict = "none" /\ rpc' = "query"
  /\ before' = [i \in Instances |-> IF status[i] = "pending" THEN id[i] - 1 ELSE id[i]]
  /\ UNCHANGED <<clusterVars, watchVars, targets, queue, counts, verdict>>

Ends(v) == verdict' = v /\ rpc' = "idle"

\* An answer other than OK, or an exception, ends the command: its memory is gone.
Errs ==
  /\ Ends("error")
  /\ targets' = {} /\ queue' = <<>> /\ watched' = {}
  /\ counts' = [i \in Instances |-> 0] /\ before' = [i \in Instances |-> 0]
  /\ states' = [i \in Instances |-> "unseen"] /\ known' = [i \in Instances |-> 0]
  /\ UNCHANGED clusterVars

\* The job is valid, and the instances are those given or all active ones, in order.
Query ==
  /\ rpc = "query"
  /\ \/ /\ \E given \in SUBSET Instances :
             LET chosen == IF given = {} THEN Active ELSE given IN
             \/ chosen = {} /\ Ends("nothing") /\ UNCHANGED <<targets, queue>>
             \/ /\ chosen # {} /\ targets' = chosen
                /\ queue' \in {q \in SetToSeqs(chosen) :
                                \A k, n \in DOMAIN q : k < n => q[k] < q[n]}
                /\ rpc' = "batch" /\ UNCHANGED verdict
        /\ UNCHANGED <<clusterVars, watchVars, counts, before>>
     \/ Errs

Batch == {queue[k] : k \in {n \in DOMAIN queue : n <= BatchSize}}

RestartBatch ==
  /\ rpc = "batch"
  /\ \/ /\ CanRestart(Batch) /\ RestartShards(Batch)
        /\ Watch(Batch) /\ rpc' = "watch"
        /\ queue' = SubSeq(queue, BatchSize + 1, Len(queue))
        /\ UNCHANGED <<targets, counts, verdict, before>>
     \/ Errs

\* FailureThreshold.is_failed_update, of the instances that have a count: a
\* negative limit is exceeded by the first failure.
Exceeded(cs) ==
  Cardinality({i \in Instances : cs[i] > 0 /\ cs[i] > MaxPerInstance}) > MaxTotal

\* Mutant: only the count remembers a failed instance.
RequeuedNot(failed) == {queue}

\* The failed instances go to the end, in the order of a set: any.
Requeued(failed) == {queue \o order : order \in SetToSeqs(failed)}

WatchReturns ==
  /\ Returns /\ watched' = {}
  /\ queue' \in Requeued(Failed)
  /\ counts' = [i \in Instances |-> IF i \in Failed THEN counts[i] + 1 ELSE counts[i]]
  /\ \/ Exceeded(counts') /\ Ends("aborted")
     \/ ~Exceeded(counts') /\ queue' = <<>> /\ Ends("success")
     \/ ~Exceeded(counts') /\ queue' # <<>> /\ rpc' = "batch" /\ UNCHANGED verdict

Poll(aged) ==
  /\ rpc = "watch" /\ Look(Running, aged)
  /\ \/ WatchReturns
     \/ ~Returns /\ UNCHANGED <<watched, queue, counts, rpc, verdict>>
  /\ UNCHANGED <<clusterVars, targets, before>>

Born == {i \in watched : states[i] = "born"}

\* An error answer, or an IOError, is a poll that sees no task and changes nothing.
PollWatch ==
  \/ \E aged \in SUBSET Born : Poll(aged)
  \/ rpc = "watch" /\ Errs

RestartStep == Query \/ RestartBatch \/ PollWatch

\* A poll that finds every birthday more than watch_secs old.
PollLater == Poll(Born)

-----------------------------------------------------------------------------
(* Properties *)

\* "All instances were restarted successfully" (restarter.py:100) is true: each
\* of them was last seen healthy in a task that came after every task it ran
\* before the command, through failures, moves and instances queued again.
SuccessMeansRestarted ==
  verdict = "success" =>
     \A i \in targets : states[i] = "healthy" /\ known[i] > before[i]
=============================================================================
