--------------------------- MODULE InstanceWatcher ---------------------------
(***************************************************************************)
(* InstanceWatcher.watch with StatusHealthCheck                            *)
(* (client/api/instance_watcher.py, client/api/health_check.py): the       *)
(* RUNNING tasks of a batch are polled until each instance was seen with   *)
(* the same task for more than watch_secs, or with two tasks.              *)
(*                                                                         *)
(* Time is which birthdays are more than watch_secs old at a poll: any of  *)
(* those of earlier polls.                                                 *)
(***************************************************************************)
EXTENDS Cluster

VARIABLES
  watched,  \* instance_ids of the watch that is going on
  states,   \* instance_states: unseen, born, healthy, failed
  known     \* StatusHealthCheck._task_ids, 0 when the instance is not there

watchVars == <<watched, states, known>>

WatchTypeOK ==
  /\ watched \subseteq Instances
  /\ states \in [Instances -> {"unseen", "born", "healthy", "failed"}]
  /\ known \in [Instances -> Nat]

WatchInit ==
  /\ watched = {}
  /\ states = [i \in Instances |-> "unseen"] /\ known = [i \in Instances |-> 0]

\* A new watch, with a new health check; what became of other instances is kept.
Watch(B) ==
  /\ watched' = B
  /\ states' = [i \in Instances |-> IF i \in B THEN "unseen" ELSE states[i]]
  /\ known' = [i \in Instances |-> IF i \in B THEN 0 ELSE known[i]]

Finished(st) == {i \in watched : st[i] \in {"healthy", "failed"}}

\* StatusHealthCheck.health of a RUNNING task: the first one seen, or the same.
Healthy(i) == known[i] \in {0, id[i]}

\* Mutant: every good poll is a birthday.
NextStateYoung(i, old) == IF Healthy(i) THEN "born" ELSE "failed"

\* What one poll makes of a RUNNING instance, set_instance_healthy or
\* set_instance_unhealthy.
NextState(i, old) ==
  IF ~Healthy(i) THEN "failed"
  ELSE IF states[i] = "born" /\ old THEN "healthy" ELSE "born"

\* One pass of the loop, over the RUNNING tasks that the query returned.
Look(seen, aged) ==
  LET news == (watched \ Finished(states)) \intersect seen IN
  /\ states' = [i \in Instances |-> IF i \in news THEN NextState(i, i \in aged) ELSE states[i]]
  /\ known' = [i \in Instances |-> IF i \in news /\ known[i] = 0 THEN id[i] ELSE known[i]]

\* The watch returns the instances that are not healthy.
Failed == {i \in watched : states'[i] = "failed"}
Returns == Finished(states') = watched
=============================================================================
