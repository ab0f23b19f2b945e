----------------------- MODULE ClusterOperationsProofs -----------------------
(***************************************************************************)
(* What the kill, the drain and the restart report is true, for any job,   *)
(* hosts, batches and limits, and whatever the other commands do           *)
(* meanwhile.                                                              *)
(*                                                                         *)
(* The arguments for kill and drain rest on two facts of the cluster that  *)
(* no call but an activation takes back: a killed instance stays killed,   *)
(* and a drained host stays drained and empty.  That for the restart rests *)
(* on a third one: a task that has to leave does not run again.            *)
(***************************************************************************)
EXTENDS ClusterOperations, FiniteSetTheorems, SequenceTheorems, TLAPS

Statuses == {"pending", "running", "leaving", "killing", "killed"}
Modes == {"NONE", "SCHEDULED", "DRAINING", "DRAINED"}

\* The types of the cluster, and that a drained host is empty.
ClusterInv ==
  /\ status \in [Instances -> Statuses]
  /\ host \in [Instances -> Hosts \union {NoHost}]
  /\ mode \in [Hosts -> Modes]
  /\ \A h \in Hosts : mode[h] = "DRAINED" => \A i \in Instances : host[i] # h

\* What a step of the cluster never takes back.
KilledStay == \A i \in Instances : status[i] = "killed" => status'[i] = "killed"
DrainedStay(H) == \A h \in H : mode[h] = "DRAINED" => mode'[h] = "DRAINED"

KillInv ==
  /\ toKill \subseteq Instances /\ killing \subseteq Instances
  /\ confirmed \subseteq Instances
  /\ KillConfirmed

\* The hosts of the group of which the wait said that they are drained.
Said == IF work = "wait" THEN (group \ kept) \ waiting
        ELSE IF work = "script" THEN group \ kept ELSE {}

\* The hosts of which an operator or an answer says that they are free.
Excused == activated \union unnamed

\* A host is worked on once: it is in one group, and operated on after the wait.
MaintenanceInv ==
  /\ work \in {"idle", "start", "hosts", "job", "drain", "wait", "script"}
  /\ \A H \in {group, todo, operated} : H \subseteq Maintained
  /\ work = "wait" => waiting \subseteq group
  /\ group \intersect todo = {} /\ operated \intersect todo = {}
  /\ work \in {"hosts", "job", "drain", "wait"} => operated \intersect group = {}
  /\ "drain" \notin given \/ work = "start" => operated = {}
  /\ work # "idle" => "drain" \in given
  /\ operated \intersect kept = {}
  /\ \A h \in (operated \union Said) \ Excused : mode[h] = "DRAINED"

CommandsInv == ClusterInv /\ KillInv /\ MaintenanceInv

-----------------------------------------------------------------------------
(* The cluster *)

\* Initially no host is drained, nothing is killed, and no command was given.
LEMMA InitInv == Init => CommandsInv
<1> SUFFICES ASSUME Init PROVE CommandsInv
  OBVIOUS
<1> USE DEF Init
<1>1. ClusterInv
  BY ClusterBounds DEF ClusterInit, ClusterInv, Statuses, Modes
<1>2. KillInv
  BY DEF KillInit, KillInv, KillConfirmed
<1>3. MaintenanceInv
  BY DEF MaintenanceInit, MaintenanceInv, Said, Excused
<1> QED
  BY <1>1, <1>2, <1>3 DEF CommandsInv

\* What Drain makes of the modes: only an empty host becomes drained.
LEMMA DrainFacts ==
  ASSUME NEW at, NEW md \in [Hosts -> Modes]
  PROVE  /\ Drain(at, md) \in [Hosts -> Modes]
         /\ \A h \in Hosts : md[h] = "DRAINED" => Drain(at, md)[h] = "DRAINED"
         /\ \A h \in Hosts : Drain(at, md)[h] = "DRAINED" /\ md[h] # "DRAINED" =>
              \A i \in Instances : at[i] # h
  BY DEF Drain, Modes

\* A step of the cluster that keeps its invariant and takes nothing back.
Kept(H) == ClusterInv' /\ KilledStay /\ DrainedStay(H)

\* A task that is over or dead leaves its host, which may thereby be drained.
LEMMA VacateKept ==
  ASSUME ClusterInv, NEW i \in Instances, NEW s \in Statuses,
         status[i] # "killed",
         status' = [status EXCEPT ![i] = s],
         host' = [host EXCEPT ![i] = NoHost],
         mode' = Drain(host', mode)
  PROVE  Kept(Hosts)
<1> USE DEF ClusterInv
<1>1. NoHost \notin Hosts
  BY ClusterBounds DEF NoHost
<1> DEFINE at == host'
<1>2. /\ mode' \in [Hosts -> Modes] /\ DrainedStay(Hosts)
      /\ \A h \in Hosts : mode'[h] = "DRAINED" /\ mode[h] # "DRAINED" =>
           \A j \in Instances : host'[j] # h
  <2>1. mode' = Drain(at, mode)
    OBVIOUS
  <2> HIDE DEF at
  <2>2. mode \in [Hosts -> Modes]
    OBVIOUS
  <2>3. /\ Drain(at, mode) \in [Hosts -> Modes]
        /\ \A h \in Hosts : mode[h] = "DRAINED" => Drain(at, mode)[h] = "DRAINED"
        /\ \A h \in Hosts : Drain(at, mode)[h] = "DRAINED" /\ mode[h] # "DRAINED" =>
             \A j \in Instances : at[j] # h
    BY <2>2, DrainFacts
  <2> QED
    BY <2>1, <2>3 DEF DrainedStay, at
<1>3. \A h \in Hosts : mode'[h] = "DRAINED" => \A j \in Instances : host'[j] # h
  BY <1>1, <1>2
<1>4. KilledStay
  BY DEF KilledStay, Statuses
<1> QED
  BY <1>2, <1>3, <1>4 DEF Kept, Statuses

\* A new task is placed on a host that is not in maintenance.
LEMMA PlaceKept ==
  ASSUME ClusterInv, NEW i \in Instances, Place(i)
  PROVE  Kept(Hosts)
<1> USE DEF ClusterInv, Place
<1>1. KilledStay /\ DrainedStay(Hosts)
  BY DEF KilledStay, DrainedStay
<1>2. PICK h \in Hosts :
        mode[h] \in {"NONE", "SCHEDULED"} /\ host' = [host EXCEPT ![i] = h]
  OBVIOUS
<1>3. \A g \in Hosts : mode'[g] = "DRAINED" => \A j \in Instances : host'[j] # g
  BY <1>2
<1> QED
  BY <1>1, <1>2, <1>3 DEF Kept, Statuses

\* The scheduler's own steps.
LEMMA SchedulerKept ==
  ASSUME ClusterInv, Scheduler
  PROVE  Kept(Hosts)
<1>1. ASSUME NEW i \in Instances, Place(i) PROVE Kept(Hosts)
  BY <1>1, PlaceKept
<1>2. ASSUME NEW i \in Instances, Leave(i) PROVE Kept(Hosts)
  BY <1>2, VacateKept DEF Leave, Replace, Statuses
<1>3. ASSUME NEW i \in Instances, Die(i) PROVE Kept(Hosts)
  BY <1>3, VacateKept DEF Die, Statuses
<1>4. ASSUME NEW i \in Instances, Fail(i) PROVE Kept(Hosts)
  BY <1>4, VacateKept DEF Fail, Replace, Statuses
<1>5. ASSUME NEW i \in Instances, Age(i) PROVE Kept(Hosts)
  BY <1>5 DEF Age, Kept, ClusterInv, KilledStay, DrainedStay
<1> QED
  BY <1>1, <1>2, <1>3, <1>4, <1>5 DEF Scheduler, Placement

\* Nothing changes in the cluster.
LEMMA SameKept ==
  ASSUME ClusterInv, UNCHANGED clusterVars
  PROVE  Kept(Hosts)
  BY DEF clusterVars, Kept, ClusterInv, KilledStay, DrainedStay

\* A restart touches no instance but the running ones.
LEMMA RestartShardsKept ==
  ASSUME ClusterInv, NEW B, RestartShards(B)
  PROVE  Kept(Hosts)
<1> USE DEF ClusterInv, RestartShards
<1>1. KilledStay
  BY DEF KilledStay, Running
<1>2. DrainedStay(Hosts)
  BY DEF DrainedStay
<1>3. status' \in [Instances -> Statuses]
  BY DEF Statuses
<1> QED
  BY <1>1, <1>2, <1>3 DEF Kept

\* What is killed already is not killed again.
LEMMA KillTasksKept ==
  ASSUME ClusterInv, NEW B, KillTasks(B)
  PROVE  Kept(Hosts)
<1> USE DEF ClusterInv, KillTasks
<1>1. KilledStay
  BY DEF KilledStay, Live
<1>2. DrainedStay(Hosts)
  BY DEF DrainedStay
<1>3. status' \in [Instances -> Statuses]
  BY DEF Statuses
<1> QED
  BY <1>1, <1>2, <1>3 DEF Kept

\* startMaintenance leaves a host alone that is in maintenance already.
LEMMA StartMaintenanceKept ==
  ASSUME ClusterInv, NEW H, StartMaintenance(H)
  PROVE  Kept(Hosts)
<1> USE DEF ClusterInv, StartMaintenance
<1>1. DrainedStay(Hosts)
  BY DEF DrainedStay
<1>2. KilledStay
  BY DEF KilledStay
<1>3. mode' \in [Hosts -> Modes]
  BY DEF Modes
<1>4. \A h \in Hosts : mode'[h] = "DRAINED" => mode[h] = "DRAINED"
  OBVIOUS
<1> QED
  BY <1>1, <1>2, <1>3, <1>4 DEF Kept

\* drainHosts drains an empty host at once, and leaves a drained one alone.
LEMMA DrainHostsKept ==
  ASSUME ClusterInv, NEW H, DrainHosts(H)
  PROVE  Kept(Hosts)
<1> DEFINE draining ==
      [h \in Hosts |-> IF h \in H /\ mode[h] # "DRAINED" THEN "DRAINING" ELSE mode[h]]
<1> USE DEF ClusterInv
<1>1. draining \in [Hosts -> Modes]
  BY DEF Modes
<1>2. mode' = Drain(host, draining) /\ host' = host
  BY DEF DrainHosts
<1>3. \A h \in Hosts : draining[h] = "DRAINED" <=> mode[h] = "DRAINED"
  OBVIOUS
<1> HIDE DEF draining
<1>4. /\ mode' \in [Hosts -> Modes] /\ DrainedStay(Hosts)
      /\ \A h \in Hosts : mode'[h] = "DRAINED" /\ mode[h] # "DRAINED" =>
           \A i \in Instances : host[i] # h
  BY <1>1, <1>2, <1>3, DrainFacts DEF DrainedStay
<1>5. KilledStay /\ status' \in [Instances -> Statuses]
  BY DEF DrainHosts, KilledStay, Running, Statuses
<1> QED
  BY <1>2, <1>4, <1>5 DEF Kept

\* Another operator takes a host out of maintenance, drained or not.
LEMMA EndMaintenanceKept ==
  ASSUME ClusterInv, NEW h \in Hosts, EndMaintenance(h)
  PROVE  Kept(Hosts \ {h})
  BY DEF EndMaintenance, Kept, ClusterInv, KilledStay, DrainedStay, Modes

-----------------------------------------------------------------------------
(* The kill *)

\* What was confirmed stays true when the kill does not move.
LEMMA KillFrame ==
  ASSUME KillInv, KilledStay, UNCHANGED killVars
  PROVE  KillInv'
  BY DEF KillInv, KilledStay, killVars, KillConfirmed

\* The end of a wait leaves the confirmations alone.
LEMMA NextBatchTypes ==
  ASSUME KillInv, NextBatch \/ WaitTimesOut
  PROVE  toKill' \subseteq Instances /\ killing' \subseteq Instances
  BY DEF KillInv, NextBatch, WaitTimesOut

\* A batch is confirmed when the answer says of each of its instances that its
\* last task is over; one that the answer does not name is confirmed blindly.
LEMMA KillStepInv ==
  ASSUME ClusterInv, KillInv, KillStep
  PROVE  Kept(Hosts) /\ KillInv'
<1> USE DEF KillInv
<1>1. CASE ListTasks
  <2>1. Kept(Hosts)
    BY <1>1, SameKept DEF ListTasks
  <2> QED
    BY <1>1, <2>1 DEF ListTasks, Active, clusterVars, KillConfirmed
<1>2. CASE KillTheBatch
  <2>1. Kept(Hosts)
    BY <1>2, SameKept, KillTasksKept DEF KillTheBatch
  <2>2. toKill' \subseteq Instances /\ killing' \subseteq Instances
    BY <1>2 DEF KillTheBatch
  <2> QED
    BY <1>2, <2>1, <2>2 DEF KillTheBatch, Kept, KilledStay, KillConfirmed
<1>3. CASE PollKill
  <2>1. Kept(Hosts) /\ status' = status
    BY <1>3, SameKept DEF PollKill, clusterVars
  <2>2. PICK B \in {killing, {}} :
          \/ /\ AllTerminal(States(B))
             /\ confirmed' = confirmed \union killing /\ blind' = blind \union (killing \ B)
             /\ NextBatch /\ UNCHANGED errors
          \/ /\ ~AllTerminal(States(B)) /\ UNCHANGED <<confirmed, blind>>
             /\ \/ /\ polls < MaxPolls /\ polls' = polls + 1
                   /\ UNCHANGED <<kill, toKill, killing, errors>>
                \/ polls = MaxPolls /\ WaitTimesOut
    BY <1>3 DEF PollKill
  <2>3. CASE AllTerminal(States(B)) /\ NextBatch
             /\ confirmed' = confirmed \union killing /\ blind' = blind \union (killing \ B)
    <3>1. \A i \in B : status[i] = "killed"
      BY <2>3 DEF AllTerminal, States
    <3>2. confirmed' \ blind' \subseteq (confirmed \ blind) \union B
      BY <2>3
    <3> QED
      BY <2>1, <2>3, <3>1, <3>2, NextBatchTypes DEF KillConfirmed
  <2>4. CASE UNCHANGED <<confirmed, blind>>
             /\ (UNCHANGED <<toKill, killing>> \/ WaitTimesOut)
    BY <2>1, <2>4, NextBatchTypes DEF KillConfirmed
  <2> QED
    BY <2>2, <2>3, <2>4
<1>4. CASE QueryRaises
  <2>1. Kept(Hosts) /\ status' = status
    BY <1>4, SameKept DEF QueryRaises, clusterVars
  <2> QED
    BY <1>4, <2>1 DEF QueryRaises, KillConfirmed
<1> QED
  BY <1>1, <1>2, <1>3, <1>4 DEF KillStep

-----------------------------------------------------------------------------
(* The maintenance *)

\* What was drained stays drained when the maintenance does not move.
LEMMA MaintenanceFrame ==
  ASSUME MaintenanceInv, DrainedStay(Hosts), UNCHANGED maintenanceVars, given \subseteq given',
         "drain" \in given' => "drain" \in given
  PROVE  MaintenanceInv'
<1>1. \A h \in (operated \union Said) \ Excused : h \in Hosts
  BY MaintenanceBounds DEF MaintenanceInv, Said
<1>2. Said' = Said /\ Excused' = Excused
  BY DEF Said, Excused, maintenanceVars
<1>3. \A h \in ((operated \union Said) \ Excused)' : mode'[h] = "DRAINED"
  BY <1>1, <1>2 DEF MaintenanceInv, DrainedStay, maintenanceVars
<1> QED
  BY <1>3 DEF MaintenanceInv, maintenanceVars

\* The next group is part of what is left.
LEMMA NextGroupFacts ==
  ASSUME NEW left, left \subseteq Maintained, NextGroup(left)
  PROVE  /\ group' \subseteq left /\ todo' = left \ group'
         /\ work' \in {"idle", "hosts"}
  BY DEF NextGroup

\* The program ends.
LEMMA DiesInv ==
  ASSUME ClusterInv, MaintenanceInv, Dies, UNCHANGED <<operated, activated, unnamed, given>>,
         work # "idle"
  PROVE  Kept(Hosts) /\ MaintenanceInv'
<1>1. Kept(Hosts) /\ mode' = mode
  BY SameKept DEF Dies, clusterVars
<1>2. Said' = {} /\ Excused' = Excused
  BY DEF Dies, Said, Excused
<1>3. \A h \in ((operated \union Said) \ Excused)' : mode'[h] = "DRAINED"
  BY <1>1, <1>2 DEF MaintenanceInv
<1>4. (operated \intersect kept)' = {} /\ ("drain" \in given)'
  BY DEF Dies, MaintenanceInv
<1> QED
  BY <1>1, <1>3, <1>4 DEF MaintenanceInv, Dies

\* The hosts that the scheduler knows are put into groups; nothing is operated on.
LEMMA StartInv ==
  ASSUME ClusterInv, MaintenanceInv, Start, UNCHANGED given
  PROVE  Kept(Hosts) /\ MaintenanceInv'
<1>1. CASE Dies
  BY <1>1, DiesInv DEF Start
<1>2. ASSUME NEW answered \in SUBSET Maintained, StartMaintenance(answered), NextGroup(answered),
             UNCHANGED <<waiting, waits, kept>>
      PROVE  Kept(Hosts) /\ MaintenanceInv'
  <2>1. Kept(Hosts)
    BY <1>2, StartMaintenanceKept
  <2>2. group' \subseteq answered /\ todo' = answered \ group' /\ work' \in {"idle", "hosts"}
    BY <1>2, NextGroupFacts
  <2>3. operated = {} /\ operated' = {} /\ "drain" \in given
    BY DEF Start, MaintenanceInv
  <2>4. Said' = {}
    BY <2>2 DEF Said
  <2> QED
    BY <1>2, <2>1, <2>2, <2>3, <2>4 DEF MaintenanceInv
<1> QED
  BY <1>1, <1>2 DEF Start

\* The check of the hosts moves on without touching one.
LEMMA SlaHostsInv ==
  ASSUME ClusterInv, MaintenanceInv, SlaHosts, UNCHANGED given
  PROVE  Kept(Hosts) /\ MaintenanceInv'
<1>1. CASE Dies
  BY <1>1, DiesInv DEF SlaHosts
<1>2. CASE work' \in {"job", "drain"} /\ UNCHANGED <<clusterVars, group, todo, waiting, waits, kept>>
  <2>1. Kept(Hosts) /\ mode' = mode
    BY <1>2, SameKept DEF clusterVars
  <2>2. Said' = {} /\ Excused' = Excused
    BY <1>2 DEF SlaHosts, Said, Excused
  <2> QED
    BY <1>2, <2>1, <2>2 DEF SlaHosts, MaintenanceInv
<1> QED
  BY <1>1, <1>2 DEF SlaHosts

\* Hosts that fail the check leave the group, and none of them was operated on.
LEMMA SlaJobInv ==
  ASSUME ClusterInv, MaintenanceInv, SlaJob, UNCHANGED given
  PROVE  Kept(Hosts) /\ MaintenanceInv'
<1>1. CASE Dies
  BY <1>1, DiesInv DEF SlaJob
<1>2. ASSUME NEW unsafe, unsafe \subseteq group, kept' = kept \union unsafe,
             UNCHANGED <<clusterVars, waiting, waits>>,
             \/ work' = "drain" /\ group' = group \ unsafe /\ UNCHANGED todo
             \/ NextGroup(todo)
      PROVE  Kept(Hosts) /\ MaintenanceInv'
  <2>1. Kept(Hosts) /\ mode' = mode /\ operated' = operated /\ Excused' = Excused
    BY <1>2, SameKept DEF SlaJob, clusterVars, Excused
  <2>2. work = "job" /\ "drain" \in given' /\ operated \intersect group = {}
    BY DEF SlaJob, MaintenanceInv
  <2>3. CASE work' = "drain" /\ group' = group \ unsafe /\ UNCHANGED todo
    <3>1. Said' = {}
      BY <2>3 DEF Said
    <3> QED
      BY <1>2, <2>1, <2>2, <2>3, <3>1 DEF MaintenanceInv
  <2>4. CASE NextGroup(todo)
    <3>1. group' \subseteq todo /\ todo' = todo \ group' /\ work' \in {"idle", "hosts"}
      BY <2>4, NextGroupFacts DEF MaintenanceInv
    <3>2. Said' = {}
      BY <3>1 DEF Said
    <3> QED
      BY <1>2, <2>1, <2>2, <3>1, <3>2 DEF MaintenanceInv
  <2> QED
    BY <1>2, <2>3, <2>4
<1>3. \A tasks : Unsafe(tasks) \subseteq group
  BY DEF Unsafe
<1> QED
  BY <1>1, <1>2, <1>3 DEF SlaJob

\* At the beginning of the wait no host of the group is said to be drained.
LEMMA DrainGroupInv ==
  ASSUME ClusterInv, MaintenanceInv, DrainGroup, UNCHANGED given
  PROVE  Kept(Hosts) /\ MaintenanceInv'
<1>1. CASE Dies
  BY <1>1, DiesInv DEF DrainGroup
<1>2. CASE /\ DrainHosts(group) /\ waiting' = group
           /\ work' = "wait" /\ UNCHANGED <<group, todo, waits, kept>>
  <2>1. Kept(Hosts)
    BY <1>2, DrainHostsKept
  <2>2. Said' = {}
    BY <1>2 DEF Said
  <2>3. \A h \in operated \ Excused : h \in Hosts /\ mode[h] = "DRAINED"
    BY MaintenanceBounds DEF MaintenanceInv
  <2>4. \A h \in ((operated \union Said) \ Excused)' : mode'[h] = "DRAINED"
    BY <2>1, <2>2, <2>3 DEF DrainGroup, Kept, DrainedStay, Excused
  <2> QED
    BY <1>2, <2>1, <2>4 DEF DrainGroup, MaintenanceInv
<1> QED
  BY <1>1, <1>2 DEF DrainGroup

\* A host leaves the wait when it is drained, or the maintenance when the wait ends.
LEMMA PollDrainInv ==
  ASSUME ClusterInv, MaintenanceInv, PollDrain, UNCHANGED given
  PROVE  Kept(Hosts) /\ MaintenanceInv'
<1>1. CASE Dies /\ UNCHANGED unnamed
  BY <1>1, DiesInv DEF PollDrain
<1>2. ASSUME NEW out, NEW left, left = Undrained \ out, unnamed' = unnamed \union out,
             UNCHANGED <<clusterVars, group, todo>>,
             \/ waiting' = left /\ UNCHANGED <<work, kept>>
             \/ kept' = kept \union left /\ work' = "script" /\ waiting' = {}
      PROVE  Kept(Hosts) /\ MaintenanceInv'
  <2>1. Kept(Hosts) /\ mode' = mode
    BY <1>2, SameKept DEF clusterVars
  <2>2. left \subseteq waiting /\ \A h \in waiting \ left : mode[h] = "DRAINED" \/ h \in unnamed'
    BY <1>2 DEF Undrained
  <2>3. Said' \subseteq Said \union (waiting \ left)
    BY <1>2, <2>2 DEF PollDrain, Said, MaintenanceInv
  <2>4. Excused \subseteq Excused' /\ unnamed' \subseteq Excused' /\ operated' = operated
    BY <1>2 DEF PollDrain, Excused
  <2>5. \A h \in ((operated \union Said) \ Excused)' : mode'[h] = "DRAINED"
    BY <2>1, <2>2, <2>3, <2>4 DEF MaintenanceInv
  <2>6. (operated \intersect kept)' = {}
    BY <1>2, <2>2, <2>4 DEF PollDrain, MaintenanceInv
  <2> QED
    BY <1>2, <2>1, <2>2, <2>4, <2>5, <2>6 DEF PollDrain, MaintenanceInv
<1> QED
  BY <1>1, <1>2 DEF PollDrain

\* The script runs on hosts of which the wait said that they are drained.
LEMMA ScriptInv ==
  ASSUME ClusterInv, MaintenanceInv, Script, UNCHANGED given
  PROVE  Kept(Hosts) /\ MaintenanceInv'
<1>1. Kept(Hosts) /\ mode' = mode
  BY SameKept DEF Script, clusterVars
<1>2. ASSUME NEW h \in Operable, operated' = operated \union {h},
             UNCHANGED <<work, group, todo>>
      PROVE  MaintenanceInv'
  <2>1. h \in Said /\ h \in group \ kept
    BY <1>2 DEF Script, Operable, Said
  <2>2. Said' = Said /\ Excused' = Excused
    BY <1>2 DEF Script, Said, Excused
  <2>3. \A g \in ((operated \union Said) \ Excused)' : mode'[g] = "DRAINED"
    BY <1>1, <1>2, <2>1, <2>2 DEF Script, MaintenanceInv
  <2> QED
    BY <1>2, <2>1, <2>3 DEF Script, MaintenanceInv
<1>3. CASE NextGroup(todo) /\ UNCHANGED operated
  <2>1. group' \subseteq todo /\ todo' = todo \ group' /\ work' \in {"idle", "hosts"}
    BY <1>3, NextGroupFacts DEF MaintenanceInv
  <2>2. Said' = {} /\ Excused' = Excused
    BY <2>1 DEF Said, Script, Excused
  <2> QED
    BY <1>1, <1>3, <2>1, <2>2 DEF Script, MaintenanceInv
<1> QED
  BY <1>1, <1>2, <1>3 DEF Script

\* A step of the maintenance.
LEMMA DrainStepInv ==
  ASSUME ClusterInv, MaintenanceInv, DrainStep, UNCHANGED given
  PROVE  Kept(Hosts) /\ MaintenanceInv'
  BY StartInv, SlaHostsInv, SlaJobInv, DrainGroupInv, PollDrainInv, ScriptInv DEF DrainStep

\* What another operator takes out of maintenance is not the command's any more.
LEMMA ActivateInv ==
  ASSUME ClusterInv, MaintenanceInv, NEW h \in Maintained, Activate(h), UNCHANGED given
  PROVE  Kept(Hosts \ {h}) /\ MaintenanceInv'
<1>1. Kept(Hosts \ {h})
  BY EndMaintenanceKept, MaintenanceBounds DEF Activate
<1>2. Said' = Said /\ Excused' = Excused \union {h}
  BY DEF Activate, Said, Excused
<1>3. Said \subseteq Hosts /\ operated \subseteq Hosts
  BY MaintenanceBounds DEF MaintenanceInv, Said
<1>4. \A g \in ((operated \union Said) \ Excused)' : mode'[g] = "DRAINED"
  BY <1>1, <1>2, <1>3 DEF Activate, Kept, DrainedStay, MaintenanceInv
<1> QED
  BY <1>1, <1>4 DEF Activate, MaintenanceInv

-----------------------------------------------------------------------------
(* All commands together *)

\* The first step of a command changes nothing in the cluster.
LEMMA StartCommandInv ==
  ASSUME CommandsInv, StartCommand
  PROVE  CommandsInv'
<1> USE DEF CommandsInv
<1>1. CASE Give("restart") /\ RestartCommand /\ UNCHANGED <<killVars, maintenanceVars>>
  <2>1. Kept(Hosts)
    BY <1>1, SameKept DEF RestartCommand
  <2>2. given \subseteq given' /\ ("drain" \in given' => "drain" \in given)
    BY <1>1 DEF Give
  <2> QED
    BY <1>1, <2>1, <2>2, KillFrame, MaintenanceFrame DEF Kept
<1>2. CASE Give("kill") /\ KillCommand /\ UNCHANGED <<watchVars, restartVars, maintenanceVars>>
  <2>1. Kept(Hosts) /\ status' = status
    BY <1>2, SameKept DEF KillCommand, clusterVars
  <2>2. given \subseteq given' /\ ("drain" \in given' => "drain" \in given)
    BY <1>2 DEF Give
  <2>3. KillInv'
    BY <1>2, <2>1 DEF KillCommand, KillInv, KillConfirmed
  <2> QED
    BY <1>2, <2>1, <2>2, <2>3, MaintenanceFrame DEF Kept
<1>3. CASE Give("drain") /\ DrainCommand /\ UNCHANGED <<watchVars, restartVars, killVars>>
  <2>1. Kept(Hosts) /\ mode' = mode
    BY <1>3, SameKept DEF DrainCommand, clusterVars
  <2>2. operated' = {} /\ "drain" \in given' /\ Said' = {}
    BY <1>3 DEF Give, DrainCommand, MaintenanceInv, Said
  <2>3. MaintenanceInv'
    BY <1>3, <2>1, <2>2 DEF DrainCommand, MaintenanceInv
  <2> QED
    BY <1>3, <2>1, <2>3, KillFrame DEF Kept
<1> QED
  BY <1>1, <1>2, <1>3 DEF StartCommand

\* The restart touches neither what was killed nor what was drained.
LEMMA RestartKept ==
  ASSUME ClusterInv, RestartStep
  PROVE  Kept(Hosts)
<1>1. CASE Query
  BY <1>1, SameKept DEF Query, Errs
<1>2. CASE RestartBatch
  BY <1>2, SameKept, RestartShardsKept DEF RestartBatch, Errs
<1>3. CASE PollWatch
  BY <1>3, SameKept DEF PollWatch, Poll, Errs
<1> QED
  BY <1>1, <1>2, <1>3 DEF RestartStep

\* Every step keeps the invariant: of the command that moves by its own argument,
\* of the others because no step takes back what they rely on.
LEMMA NextInv ==
  ASSUME CommandsInv, [Next]_vars
  PROVE  CommandsInv'
<1> USE DEF CommandsInv
<1>1. CASE StartCommand
  BY <1>1, StartCommandInv
<1>2. CASE RestartNext
  <2>1. Kept(Hosts)
    BY <1>2, RestartKept DEF RestartNext
  <2> QED
    BY <1>2, <2>1, KillFrame, MaintenanceFrame DEF RestartNext, Kept
<1>3. CASE KillNext
  <2>1. Kept(Hosts) /\ KillInv'
    BY <1>3, KillStepInv DEF KillNext
  <2> QED
    BY <1>3, <2>1, MaintenanceFrame DEF KillNext, Kept
<1>4. CASE DrainNext
  <2>1. Kept(Hosts) /\ MaintenanceInv'
    BY <1>4, DrainStepInv DEF DrainNext
  <2> QED
    BY <1>4, <2>1, KillFrame DEF DrainNext, Kept
<1>5. CASE /\ \E h \in Maintained : "drain" \in given /\ Activate(h)
           /\ UNCHANGED <<watchVars, restartVars, killVars, given>>
  <2>1. PICK h \in Maintained : Activate(h)
    BY <1>5
  <2>2. Kept(Hosts \ {h}) /\ MaintenanceInv'
    BY <1>5, <2>1, ActivateInv
  <2> QED
    BY <1>5, <2>2, KillFrame DEF Kept
<1>6. CASE Scheduler /\ Elsewhere
  <2>1. Kept(Hosts)
    BY <1>6, SchedulerKept
  <2> QED
    BY <1>6, <2>1, KillFrame, MaintenanceFrame DEF Elsewhere, Kept
<1>7. CASE UNCHANGED vars
  <2>1. Kept(Hosts) /\ UNCHANGED <<killVars, maintenanceVars, given>>
    BY <1>7, SameKept DEF vars
  <2> QED
    BY <2>1, KillFrame, MaintenanceFrame DEF Kept
<1> QED
  BY <1>1, <1>2, <1>3, <1>4, <1>5, <1>6, <1>7 DEF Next

\* The invariant holds of every behaviour.
LEMMA CommandsInvariant == Spec => []CommandsInv
  BY InitInv, NextInv, PTL DEF Spec

\* What "aurora job kill" reports as killed is killed, and no task of it is left,
\* whatever failed, was placed again, restarted or drained meanwhile, unless the
\* status query failed (cli/jobs.py:339-349, client/api/job_monitor.py:70-91).
THEOREM KillCorrect == Spec => []KillConfirmed
<1>1. CommandsInv => KillConfirmed
  BY DEF CommandsInv, KillInv
<1> QED
  BY <1>1, CommandsInvariant, PTL

\* The script after a drain runs only on hosts that are drained, empty and passed
\* the check, for groups of any size and in any order, unless another operator took
\* the host out of maintenance or a status answer left it out; on a host that failed
\* the check or was given up it never runs (admin/host_maintenance.py:57-85, 191-211).
THEOREM DrainCorrect == Spec => []OperatedOnDrained
<1>1. CommandsInv => OperatedOnDrained
  <2> SUFFICES ASSUME CommandsInv, NEW h \in operated
               PROVE  /\ h \notin kept
                      /\ \/ mode[h] = "DRAINED" /\ ~\E i \in Live : host[i] = h
                         \/ h \in activated \union unnamed
    BY DEF OperatedOnDrained
  <2>1. h \in Hosts /\ h \notin kept
    BY MaintenanceBounds DEF CommandsInv, MaintenanceInv
  <2>2. CASE h \notin Excused
    <3>1. mode[h] = "DRAINED"
      BY <2>2 DEF CommandsInv, MaintenanceInv
    <3> QED
      BY <2>1, <3>1 DEF CommandsInv, ClusterInv, Live
  <2> QED
    BY <2>1, <2>2 DEF Excused
<1> QED
  BY <1>1, CommandsInvariant, PTL

-----------------------------------------------------------------------------
(***************************************************************************)
(* The restart: an instance that the command is through with was seen in a *)
(* task that came after all those it had before.                           *)
(*                                                                         *)
(* Three facts lead there.  No instance is older than it was when the      *)
(* command began, and its task is pending only if it is a new one.  What   *)
(* is watched has been told to leave, so only a newer task of it can be    *)
(* seen running.  And every target is in the queue, watched, or done.      *)
(***************************************************************************)

RestartTypes ==
  /\ id \in [Instances -> Nat \ {0}] /\ before \in [Instances -> Nat]
  /\ watched \subseteq Instances /\ known \in [Instances -> Nat]
  /\ states \in [Instances -> {"unseen", "born", "healthy", "failed"}]
  /\ rpc \in {"idle", "query", "batch", "watch"}
  /\ verdict \in {"none", "nothing", "success", "aborted", "error"}
  /\ verdict # "none" => rpc = "idle"
  /\ targets \subseteq Instances /\ counts \in [Instances -> Nat]
  /\ queue \in Seq(Instances)

\* A pending task is a new one.
Newer ==
  \A i \in Instances : id[i] >= before[i] /\ (status[i] = "pending" => id[i] > before[i])

\* What is watched runs only in a new task, and only that is known of it.
Seen ==
  rpc = "watch" => \A i \in watched :
     /\ id[i] = before[i] => status[i] \in {"leaving", "killing", "killed"}
     /\ known[i] # 0 => known[i] > before[i]
     /\ states[i] \in {"born", "healthy"} => known[i] # 0

\* An instance waits once, and not while it is watched.
Queued ==
  /\ IsInjective(queue)
  /\ rpc = "watch" => Range(queue) \intersect watched = {}

Restarted(i) == states[i] = "healthy" /\ known[i] > before[i]

\* No target is lost.
Followed ==
  rpc \in {"batch", "watch"} => \A i \in targets :
    \/ i \in Range(queue)
    \/ rpc = "watch" /\ i \in watched
    \/ Restarted(i)

RestartInv == RestartTypes /\ Newer /\ Seen /\ Queued /\ Followed /\ SuccessMeansRestarted

-----------------------------------------------------------------------------

\* Initially no task is older than the first.
LEMMA InitRestart == Init => RestartInv
<1> SUFFICES ASSUME Init PROVE RestartInv
  OBVIOUS
<1> USE DEF Init, ClusterInit, RestartInit, WatchInit
<1>1. RestartTypes
  BY DEF RestartTypes
<1>2. Newer /\ Seen /\ Queued /\ Followed
  BY DEF Newer, Seen, Queued, Followed, IsInjective
<1>3. SuccessMeansRestarted
  BY DEF SuccessMeansRestarted
<1> QED
  BY <1>1, <1>2, <1>3 DEF RestartInv

\* What the cluster may do to an instance: a task that has to leave does not run
\* again, and one that is pending is new.
Moves ==
  /\ id' \in [Instances -> Nat \ {0}]
  /\ \A i \in Instances :
       \/ id'[i] > id[i]
       \/ /\ id'[i] = id[i]
          /\ status'[i] = "pending" => status[i] = "pending"
          /\ status[i] \in {"leaving", "killing", "killed"} =>
               status'[i] \in {"leaving", "killing", "killed"}

LEMMA ReplaceMoves ==
  ASSUME id \in [Instances -> Nat \ {0}], ClusterInv, NEW i \in Instances, Replace(i)
  PROVE  Moves
<1>1. \A j \in Instances : id'[j] = IF j = i THEN id[j] + 1 ELSE id[j]
  BY DEF Replace
<1>2. \A j \in Instances : j # i => status'[j] = status[j]
  BY DEF Replace, ClusterInv
<1>3. id' \in [Instances -> Nat \ {0}]
  BY DEF Replace
<1>4. \A j \in Instances : id[j] \in Nat
  OBVIOUS
<1> QED
  BY <1>1, <1>2, <1>3, <1>4 DEF Moves

LEMMA SchedulerMoves ==
  ASSUME id \in [Instances -> Nat \ {0}], ClusterInv, Scheduler
  PROVE  Moves
<1> USE DEF ClusterInv
<1>1. ASSUME NEW i \in Instances, Place(i) \/ Die(i) \/ Age(i) PROVE Moves
  BY <1>1 DEF Place, Die, Age, Moves
<1>2. ASSUME NEW i \in Instances, Leave(i) \/ Fail(i) PROVE Moves
  BY <1>2, ReplaceMoves DEF Leave, Fail
<1> QED
  BY <1>1, <1>2 DEF Scheduler, Placement

LEMMA CallMoves ==
  ASSUME id \in [Instances -> Nat \ {0}], ClusterInv,
         \/ UNCHANGED clusterVars
         \/ \E B \in SUBSET Instances : RestartShards(B) \/ KillTasks(B)
         \/ \E H \in SUBSET Hosts : StartMaintenance(H) \/ DrainHosts(H)
         \/ \E h \in Hosts : EndMaintenance(h)
  PROVE  Moves
  BY DEF ClusterInv, clusterVars, RestartShards, KillTasks, StartMaintenance, DrainHosts,
     EndMaintenance, Moves, Live, Running

\* The cluster moves, the restart does not.
LEMMA RestartFrame ==
  ASSUME RestartInv, Moves, UNCHANGED <<watchVars, restartVars>>
  PROVE  RestartInv'
<1> USE DEF watchVars, restartVars
<1>1. RestartTypes'
  BY DEF RestartInv, RestartTypes, Moves
<1>2. \A i \in Instances : id[i] \in Nat /\ id'[i] \in Nat /\ before[i] \in Nat
  BY DEF RestartInv, RestartTypes, Moves
<1>3. Newer'
  BY <1>2 DEF RestartInv, Newer, Moves
<1>4. Seen'
  <2> SUFFICES ASSUME rpc = "watch", NEW i \in watched
               PROVE  /\ id'[i] = before[i] => status'[i] \in {"leaving", "killing", "killed"}
                      /\ known[i] # 0 => known[i] > before[i]
                      /\ states[i] \in {"born", "healthy"} => known[i] # 0
    BY DEF Seen
  <2>1. i \in Instances
    BY DEF RestartInv, RestartTypes
  <2>2. id[i] >= before[i]
    BY <2>1 DEF RestartInv, Newer
  <2> QED
    BY <1>2, <2>1, <2>2 DEF RestartInv, Seen, Moves
<1>5. Queued' /\ Followed'
  BY DEF RestartInv, Queued, Followed, Restarted
<1>6. SuccessMeansRestarted'
  BY DEF RestartInv, SuccessMeansRestarted
<1> QED
  BY <1>1, <1>3, <1>4, <1>5, <1>6 DEF RestartInv

\* The command begins: a task that is pending then counts as new.
LEMMA RestartCommandInv ==
  ASSUME RestartInv, RestartCommand
  PROVE  RestartInv'
<1> USE DEF RestartCommand, clusterVars, watchVars
<1>1. RestartTypes'
  BY DEF RestartInv, RestartTypes
<1>2. \A i \in Instances : id[i] \in Nat \ {0}
                           /\ before'[i] = IF status[i] = "pending" THEN id[i] - 1 ELSE id[i]
  BY DEF RestartInv, RestartTypes
<1>3. Newer'
  BY <1>2 DEF Newer
<1>4. Seen' /\ Queued' /\ Followed'
  BY DEF RestartInv, Seen, Queued, Followed
<1>5. SuccessMeansRestarted'
  BY DEF SuccessMeansRestarted
<1> QED
  BY <1>1, <1>3, <1>4, <1>5 DEF RestartInv

\* The elements of a set in some order, once each.
LEMMA Ordered ==
  ASSUME NEW S, IsFiniteSet(S), NEW q \in SetToSeqs(S)
  PROVE  /\ q \in Seq(S) /\ DOMAIN q = 1 .. Len(q)
         /\ IsInjective(q) /\ Range(q) = S
<1>1. Cardinality(S) \in Nat
  BY FS_CardinalityType
<1> DEFINE D == 1 .. Cardinality(S)
<1>2. q \in [D -> S] /\ \A k, n \in D : k # n => q[k] # q[n]
  BY DEF SetToSeqs
<1>3. q \in Seq(S) /\ Len(q) = Cardinality(S) /\ DOMAIN q = 1 .. Len(q)
  BY <1>1, <1>2
<1>4. q \in Injection(D, S)
  <2>1. q \in [D -> S] /\ DOMAIN q = D /\ \A k, n \in D : q[k] = q[n] => k = n
    BY <1>2
  <2> QED
    BY <2>1 DEF Injection, IsInjective
<1>5. Cardinality(D) = Cardinality(S)
  BY <1>1, FS_Interval
<1>6. q \in Surjection(D, S)
  BY <1>4, <1>5, FS_Injection
<1> QED
  BY <1>2, <1>3, <1>4, <1>6 DEF Injection, Surjection, Range

\* A command that ended with an error knows nothing.
LEMMA ErrsInv ==
  ASSUME RestartInv, Errs
  PROVE  RestartInv'
<1>1. /\ rpc' = "idle" /\ verdict' = "error"
      /\ queue' = <<>> /\ watched' = {} /\ targets' = {}
      /\ \A i \in Instances : before'[i] = 0
      /\ id' = id /\ status' = status
  BY DEF Errs, Ends, clusterVars
<1>2. RestartTypes'
  <2>1. queue' \in Seq(Instances)
    BY <1>1
  <2> QED
    BY <1>1, <2>1 DEF RestartInv, RestartTypes, Errs
<1>3. Newer'
  <2>1. \A i \in Instances : id[i] \in Nat /\ id[i] > 0
    BY DEF RestartInv, RestartTypes
  <2> QED
    BY <1>1, <2>1 DEF Newer
<1>4. Queued'
  <2>1. IsInjective(<<>>)
    BY DEF IsInjective
  <2> QED
    BY <1>1, <2>1 DEF Queued
<1>5. Seen' /\ Followed' /\ SuccessMeansRestarted'
  BY <1>1 DEF Seen, Followed, SuccessMeansRestarted
<1> QED
  BY <1>2, <1>3, <1>4, <1>5 DEF RestartInv

\* The command asks which instances there are, and queues each of them once.
LEMMA QueryInv ==
  ASSUME RestartInv, ClusterInv, Query
  PROVE  RestartInv'
<1> USE DEF RestartInv, Query, clusterVars, watchVars
<1>1. verdict = "none" /\ rpc = "query"
  BY DEF RestartTypes
<1>2. CASE Errs
  BY <1>2, ErrsInv
<1>3. CASE Ends("nothing")
           /\ UNCHANGED <<targets, queue, clusterVars, watchVars, counts, before>>
  <2>1. RestartTypes' /\ Newer'
    BY <1>3 DEF RestartTypes, Ends, Newer
  <2>2. Seen' /\ Queued' /\ Followed' /\ SuccessMeansRestarted'
    BY <1>3 DEF Ends, Seen, Queued, Followed, SuccessMeansRestarted
  <2> QED
    BY <2>1, <2>2
<1>4. ASSUME NEW chosen \in SUBSET Instances, targets' = chosen, queue' \in SetToSeqs(chosen),
             rpc' = "batch", UNCHANGED <<verdict, clusterVars, watchVars, counts, before>>
      PROVE  RestartInv'
  <2>1. IsFiniteSet(chosen)
    BY ClusterBounds, FS_Subset
  <2>2. queue' \in Seq(chosen) /\ IsInjective(queue') /\ Range(queue') = chosen
    BY <1>4, <2>1, Ordered
  <2>3. queue' \in Seq(Instances)
    BY <2>2
  <2>4. RestartTypes' /\ Newer'
    BY <1>1, <1>4, <2>3 DEF RestartTypes, Newer
  <2>5. Seen' /\ Queued' /\ Followed' /\ SuccessMeansRestarted'
    BY <1>1, <1>4, <2>2 DEF Seen, Queued, Followed, SuccessMeansRestarted
  <2> QED
    BY <2>4, <2>5
<1> QED
  BY <1>2, <1>3, <1>4 DEF Active

\* What is left of the queue without its first elements.
LEMMA RestOfQueue ==
  ASSUME NEW S, NEW q \in Seq(S), NEW b \in Nat, NEW r, r = SubSeq(q, b + 1, Len(q))
  PROVE  /\ r \in Seq(S)
         /\ \A k \in DOMAIN r : k + b \in DOMAIN q /\ r[k] = q[k + b]
         /\ \A k \in DOMAIN q : k > b => k - b \in DOMAIN r /\ r[k - b] = q[k]
<1>1. DOMAIN q = 1 .. Len(q) /\ Len(q) \in Nat
  OBVIOUS
<1>2. \A i \in b + 1 .. Len(q) : q[i] \in S
  BY <1>1
<1>3. b + 1 \in Int /\ Len(q) \in Int
  BY <1>1
<1>4. /\ r \in Seq(S)
      /\ Len(r) = IF b + 1 <= Len(q) THEN Len(q) - (b + 1) + 1 ELSE 0
      /\ \A k \in 1 .. Len(q) - (b + 1) + 1 : r[k] = q[(b + 1) + k - 1]
  BY <1>2, <1>3, SubSeqProperties
<1>5. DOMAIN r = 1 .. Len(r)
  BY <1>4
<1>6. ASSUME NEW k \in DOMAIN r PROVE k + b \in DOMAIN q /\ r[k] = q[k + b]
  <2>1. k \in Nat /\ k >= 1 /\ k <= Len(q) - (b + 1) + 1
    <3>1. k \in 1 .. Len(r) /\ Len(r) \in Nat
      BY <1>4, <1>5
    <3>2. CASE b + 1 <= Len(q)
      BY <1>1, <1>4, <3>1, <3>2
    <3>3. CASE ~(b + 1 <= Len(q))
      BY <1>4, <3>1, <3>3
    <3> QED
      BY <3>2, <3>3
  <2>2. r[k] = q[(b + 1) + k - 1]
    BY <1>1, <1>4, <2>1
  <2>3. (b + 1) + k - 1 = k + b
    BY <2>1
  <2> QED
    BY <1>1, <2>1, <2>2, <2>3
<1>7. ASSUME NEW k \in DOMAIN q, k > b PROVE k - b \in DOMAIN r /\ r[k - b] = q[k]
  <2>1. k - b \in 1 .. Len(q) - (b + 1) + 1 /\ b + 1 <= Len(q)
    BY <1>1, <1>7
  <2>2. r[k - b] = q[(b + 1) + (k - b) - 1] /\ k - b \in DOMAIN r
    BY <1>4, <1>5, <2>1
  <2>3. (b + 1) + (k - b) - 1 = k
    BY <1>1
  <2> QED
    BY <2>2, <2>3
<1> QED
  BY <1>4, <1>6, <1>7

\* A batch is asked to leave: those of it that run leave, and a pending task is new.
LEMMA RestartBatchInv ==
  ASSUME RestartInv, ClusterInv, RestartBatch
  PROVE  RestartInv'
<1> USE DEF RestartInv, RestartBatch
<1>1. verdict = "none" /\ rpc = "batch"
  BY DEF RestartTypes
<1>2. CASE Errs
  BY <1>2, ErrsInv
<1>3. CASE /\ CanRestart(Batch) /\ RestartShards(Batch)
           /\ Watch(Batch) /\ rpc' = "watch"
           /\ queue' = SubSeq(queue, BatchSize + 1, Len(queue))
           /\ UNCHANGED <<targets, counts, verdict, before>>
  <2>1. queue \in Seq(Instances) /\ BatchSize \in Nat
    BY RestartBounds DEF RestartTypes
  <2>2. /\ queue' \in Seq(Instances)
        /\ \A k \in DOMAIN queue' :
             k + BatchSize \in DOMAIN queue /\ queue'[k] = queue[k + BatchSize]
        /\ \A k \in DOMAIN queue :
             k > BatchSize => k - BatchSize \in DOMAIN queue' /\ queue'[k - BatchSize] = queue[k]
    BY <1>3, <2>1, RestOfQueue
  <2>3. DOMAIN queue \subseteq Nat /\ DOMAIN queue' \subseteq Nat
    <3>1. DOMAIN queue = 1 .. Len(queue) /\ DOMAIN queue' = 1 .. Len(queue')
      BY <2>1, <2>2
    <3> QED
      BY <3>1
  <2>4. Batch \subseteq Instances
    BY <2>1 DEF Batch
  <2>5. RestartTypes'
    BY <1>1, <1>3, <2>2, <2>4 DEF RestartTypes, RestartShards, Watch
  <2>6. Newer'
    BY <1>3 DEF Newer, RestartShards
  <2>7. Seen'
    <3> SUFFICES ASSUME NEW i \in Batch
                 PROVE  /\ id[i] = before[i] => status'[i] \in {"leaving", "killing", "killed"}
                        /\ known'[i] = 0 /\ states'[i] = "unseen"
      BY <1>3 DEF Seen, RestartShards, Watch
    <3>1. status[i] \in Statuses
      BY <2>4 DEF ClusterInv
    <3>2. id[i] \in Nat /\ before[i] \in Nat
      BY <2>4 DEF RestartTypes
    <3>3. status[i] = "pending" => id[i] # before[i]
      BY <2>4, <3>2 DEF Newer
    <3>4. status'[i] = IF status[i] = "running" THEN "leaving" ELSE status[i]
      BY <1>3, <2>4 DEF RestartShards, Running
    <3> QED
      BY <1>3, <2>4, <3>1, <3>3, <3>4 DEF Statuses, Watch
  <2>8. Queued'
    <3>1. \A k, n \in DOMAIN queue' : queue'[k] = queue'[n] => k = n
      <4> SUFFICES ASSUME NEW k \in DOMAIN queue', NEW n \in DOMAIN queue', queue'[k] = queue'[n]
                   PROVE  k = n
        OBVIOUS
      <4>1. k + BatchSize = n + BatchSize
        BY <2>2 DEF Queued, IsInjective
      <4> QED
        BY <2>1, <2>3, <4>1
    <3>2. \A k \in DOMAIN queue' : queue'[k] \notin Batch
      <4> SUFFICES ASSUME NEW k \in DOMAIN queue', NEW n \in DOMAIN queue, n <= BatchSize,
                          queue'[k] = queue[n]
                   PROVE  FALSE
        BY DEF Batch
      <4>1. k + BatchSize = n
        BY <2>2 DEF Queued, IsInjective
      <4> QED
        BY <2>1, <2>3, <4>1
    <3>3. IsInjective(queue') /\ Range(queue') \intersect Batch = {}
      BY <3>1, <3>2 DEF IsInjective, Range
    <3> QED
      BY <1>3, <3>3 DEF Queued, Watch
  <2>9. Followed'
    <3> SUFFICES ASSUME NEW i \in targets
                 PROVE  \/ \E k \in DOMAIN queue' : queue'[k] = i
                        \/ i \in Batch
                        \/ Restarted(i)'
      BY <1>3 DEF Followed, Watch, Range
    <3>1. CASE i \in Range(queue)
      <4>1. PICK k \in DOMAIN queue : queue[k] = i
        BY <3>1 DEF Range
      <4>2. CASE k <= BatchSize
        BY <4>1, <4>2 DEF Batch
      <4>3. CASE k > BatchSize
        BY <2>2, <4>1, <4>3
      <4> QED
        BY <2>1, <2>3, <4>2, <4>3
    <3>2. CASE Restarted(i)
      BY <1>3, <3>2 DEF Restarted, Watch, RestartTypes
    <3> QED
      BY <1>1, <3>1, <3>2 DEF Followed
  <2>10. SuccessMeansRestarted'
    BY <1>1, <1>3 DEF SuccessMeansRestarted
  <2> QED
    BY <2>5, <2>6, <2>7, <2>8, <2>9, <2>10
<1> QED
  BY <1>2, <1>3

\* A poll writes only of what is watched, and what it sees running is a new task.
LEMMA LookFacts ==
  ASSUME RestartInv, rpc = "watch", NEW aged, Look(Running, aged)
  PROVE  /\ states' \in [Instances -> {"unseen", "born", "healthy", "failed"}]
         /\ known' \in [Instances -> Nat]
         /\ \A i \in Instances \ watched : states'[i] = states[i] /\ known'[i] = known[i]
         /\ \A i \in watched :
              /\ known'[i] # 0 => known'[i] > before[i]
              /\ states'[i] \in {"born", "healthy"} => known'[i] # 0
<1> USE DEF RestartInv
<1> DEFINE news == (watched \ Finished(states)) \intersect Running
<1>1. news \subseteq watched /\ watched \subseteq Instances
  BY DEF RestartTypes
<1>2. \A i \in Instances :
        /\ states'[i] = IF i \in news THEN NextState(i, i \in aged) ELSE states[i]
        /\ known'[i] = IF i \in news /\ known[i] = 0 THEN id[i] ELSE known[i]
  BY DEF Look
<1>3. states' \in [Instances -> {"unseen", "born", "healthy", "failed"}]
  BY DEF Look, NextState, RestartTypes
<1>4. known' \in [Instances -> Nat]
  BY DEF Look, RestartTypes
<1>5. ASSUME NEW i \in watched
      PROVE  /\ known'[i] # 0 => known'[i] > before[i]
             /\ states'[i] \in {"born", "healthy"} => known'[i] # 0
  <2>1. i \in Instances /\ id[i] \in Nat \ {0} /\ before[i] \in Nat
    BY <1>1 DEF RestartTypes
  <2>2. CASE i \in news
    <3>1. status[i] = "running"
      BY <2>2 DEF Running
    <3>2. id[i] > before[i]
      BY <2>1, <3>1 DEF Newer, Seen
    <3>3. known'[i] # 0
      BY <1>2, <2>1, <2>2
    <3> QED
      BY <1>2, <2>1, <2>2, <3>2, <3>3 DEF Seen
  <2>3. CASE i \notin news
    BY <1>2, <2>1, <2>3 DEF Seen
  <2> QED
    BY <2>2, <2>3
<1> HIDE DEF news
<1> QED
  BY <1>1, <1>2, <1>3, <1>4, <1>5

\* One sequence of different elements after the other.
LEMMA Appended ==
  ASSUME NEW S, NEW p \in Seq(S), NEW q \in Seq(S),
         IsInjective(p), IsInjective(q),
         Range(p) \intersect Range(q) = {}
  PROVE  /\ p \o q \in Seq(S) /\ IsInjective(p \o q)
         /\ Range(p \o q) = Range(p) \union Range(q)
<1> USE DEF IsInjective
<1> DEFINE r == p \o q
<1>1. /\ r \in Seq(S) /\ Len(r) = Len(p) + Len(q)
      /\ \A k \in 1 .. Len(p) + Len(q) : r[k] = IF k <= Len(p) THEN p[k] ELSE q[k - Len(p)]
  BY ConcatProperties
<1> HIDE DEF r
<1>2. /\ DOMAIN p = 1 .. Len(p) /\ DOMAIN q = 1 .. Len(q)
      /\ Len(p) \in Nat /\ Len(q) \in Nat
  OBVIOUS
<1>3. DOMAIN r = 1 .. Len(p) + Len(q)
  BY <1>1
<1>4. \A k \in DOMAIN p, n \in DOMAIN q : p[k] # q[n]
  BY DEF Range
<1>5. ASSUME NEW k \in DOMAIN r, NEW n \in DOMAIN r, r[k] = r[n] PROVE k = n
  <2>1. k \in 1 .. Len(p) + Len(q) /\ n \in 1 .. Len(p) + Len(q)
    BY <1>3
  <2>2. CASE k <= Len(p) /\ n <= Len(p)
    BY <1>1, <1>2, <1>5, <2>1, <2>2
  <2>3. CASE k > Len(p) /\ n > Len(p)
    <3>1. k - Len(p) \in DOMAIN q /\ n - Len(p) \in DOMAIN q
      BY <1>2, <2>1, <2>3
    <3>2. q[k - Len(p)] = q[n - Len(p)]
      BY <1>1, <1>2, <1>5, <2>1, <2>3
    <3>3. k - Len(p) = n - Len(p)
      BY <3>1, <3>2
    <3> QED
      BY <1>2, <2>1, <3>3
  <2>4. CASE k <= Len(p) /\ n > Len(p)
    <3>1. k \in DOMAIN p /\ n - Len(p) \in DOMAIN q
      BY <1>2, <2>1, <2>4
    <3> QED
      BY <1>1, <1>2, <1>5, <1>4, <2>1, <2>4, <3>1
  <2>5. CASE k > Len(p) /\ n <= Len(p)
    <3>1. n \in DOMAIN p /\ k - Len(p) \in DOMAIN q
      BY <1>2, <2>1, <2>5
    <3> QED
      BY <1>1, <1>2, <1>5, <1>4, <2>1, <2>5, <3>1
  <2> QED
    BY <1>2, <2>1, <2>2, <2>3, <2>4, <2>5
<1>6. ASSUME NEW k \in DOMAIN p PROVE k \in DOMAIN r /\ r[k] = p[k]
  BY <1>1, <1>2, <1>3
<1>7. ASSUME NEW k \in DOMAIN q PROVE k + Len(p) \in DOMAIN r /\ r[k + Len(p)] = q[k]
  <2>1. k + Len(p) \in 1 .. Len(p) + Len(q) /\ ~(k + Len(p) <= Len(p))
    BY <1>2
  <2>2. (k + Len(p)) - Len(p) = k
    BY <1>2
  <2> QED
    BY <1>1, <1>3, <2>1, <2>2
<1>8. ASSUME NEW k \in DOMAIN r PROVE r[k] \in Range(p) \union Range(q)
  <2>1. CASE k <= Len(p)
    <3>1. k \in DOMAIN p /\ r[k] = p[k]
      BY <1>1, <1>2, <1>3, <2>1
    <3> QED
      BY <3>1 DEF Range
  <2>2. CASE ~(k <= Len(p))
    <3>1. k - Len(p) \in DOMAIN q /\ r[k] = q[k - Len(p)]
      BY <1>1, <1>2, <1>3, <2>2
    <3> QED
      BY <3>1 DEF Range
  <2> QED
    BY <2>1, <2>2
<1>9. Range(r) = Range(p) \union Range(q)
  <2>1. Range(r) \subseteq Range(p) \union Range(q)
    BY <1>8 DEF Range
  <2>2. Range(p) \subseteq Range(r)
    BY <1>6 DEF Range
  <2>3. Range(q) \subseteq Range(r)
    <3> SUFFICES ASSUME NEW k \in DOMAIN q PROVE q[k] \in Range(r)
      BY DEF Range
    <3> QED
      BY <1>7 DEF Range
  <2> QED
    BY <2>1, <2>2, <2>3
<1> QED
  BY <1>1, <1>5, <1>9 DEF r

\* The watch returns: what was not healthy is queued again, what was is through.
LEMMA WatchReturnsInv ==
  ASSUME RestartInv, rpc = "watch", NEW aged, Look(Running, aged), WatchReturns,
         UNCHANGED <<clusterVars, targets, before>>
  PROVE  RestartInv'
<1> USE DEF RestartInv, WatchReturns, clusterVars
<1>1. watched \subseteq Instances /\ queue \in Seq(Instances)
  BY DEF RestartTypes
<1>2. PICK order \in SetToSeqs(Failed) : queue' = queue \o order
  BY DEF Requeued
<1>3. IsFiniteSet(Failed) /\ Failed \subseteq Instances
  BY <1>1, ClusterBounds, FS_Subset DEF Failed
<1>4. order \in Seq(Failed) /\ IsInjective(order) /\ Range(order) = Failed
  BY <1>3, Ordered
<1>5. order \in Seq(Instances)
  BY <1>3, <1>4
<1>6. IsInjective(queue) /\ Range(queue) \intersect Range(order) = {}
  BY <1>4 DEF Queued, Failed
<1>7. /\ queue' \in Seq(Instances) /\ IsInjective(queue')
      /\ Range(queue') = Range(queue) \union Failed
  <2> HIDE DEF RestartInv, WatchReturns, clusterVars
  <2>1. /\ queue \o order \in Seq(Instances) /\ IsInjective(queue \o order)
        /\ Range(queue \o order) = Range(queue) \union Range(order)
    BY <1>1, <1>4, <1>5, <1>6, Appended
  <2> QED
    BY <1>2, <1>4, <2>1
<1>8. verdict = "none"
  BY DEF RestartTypes
<1>9. /\ rpc' \in {"idle", "batch"} /\ verdict' \in {"none", "success", "aborted"}
      /\ verdict' # "none" => rpc' = "idle"
      /\ verdict' = "success" => queue' = <<>>
  BY DEF Ends, RestartTypes
<1>10. /\ states' \in [Instances -> {"unseen", "born", "healthy", "failed"}]
       /\ known' \in [Instances -> Nat]
       /\ \A i \in Instances \ watched : states'[i] = states[i] /\ known'[i] = known[i]
       /\ \A i \in watched :
            /\ known'[i] # 0 => known'[i] > before[i]
            /\ states'[i] \in {"born", "healthy"} => known'[i] # 0
  <2> HIDE DEF RestartInv, WatchReturns, clusterVars
  <2> QED
    BY LookFacts
<1>11. RestartTypes'
  <2>1. counts' \in [Instances -> Nat]
    BY DEF RestartTypes
  <2>2. UNCHANGED <<id, before, targets>> /\ watched' = {}
    OBVIOUS
  <2> HIDE DEF RestartInv, WatchReturns, clusterVars
  <2> QED
    BY <1>1, <1>7, <1>9, <1>10, <2>1, <2>2 DEF RestartInv, RestartTypes
<1>12. Newer'
  BY DEF Newer
<1>13. Seen' /\ Queued'
  BY <1>7, <1>9 DEF Seen, Queued
<1>14. ASSUME NEW i \in targets
       PROVE  i \in Range(queue') \/ Restarted(i)'
  <2>1. CASE i \in Range(queue)
    BY <1>7, <2>1
  <2>2. CASE i \in watched
    <3>1. states'[i] \in {"healthy", "failed"}
      BY <2>2 DEF Returns, Finished
    <3>2. CASE states'[i] = "failed"
      BY <1>7, <2>2, <3>2 DEF Failed
    <3>3. CASE states'[i] = "healthy"
      BY <1>10, <2>2, <3>3 DEF Restarted
    <3> QED
      BY <3>1, <3>2, <3>3
  <2>3. CASE Restarted(i) /\ i \notin watched
    BY <1>10, <2>3 DEF Restarted, RestartTypes
  <2> QED
    BY <2>1, <2>2, <2>3 DEF Followed
<1>15. Followed'
  BY <1>14 DEF Followed
<1>16. SuccessMeansRestarted'
  <2>1. queue' = <<>> => Range(queue') = {}
    BY DEF Range
  <2> QED
    BY <1>9, <1>14, <2>1 DEF SuccessMeansRestarted, Restarted
<1> QED
  BY <1>11, <1>12, <1>13, <1>15, <1>16

\* A poll leaves the watch going on, or the watch returns.
LEMMA PollWatchInv ==
  ASSUME RestartInv, PollWatch
  PROVE  RestartInv'
<1>0. CASE rpc = "watch" /\ Errs
  BY <1>0, ErrsInv
<1> SUFFICES ASSUME NEW aged, Poll(aged) PROVE RestartInv'
  BY <1>0 DEF PollWatch
<1>2. /\ rpc = "watch" /\ Look(Running, aged) /\ UNCHANGED <<clusterVars, targets, before>>
      /\ WatchReturns \/ UNCHANGED <<watched, queue, counts, rpc, verdict>>
  BY DEF Poll
<1>3. CASE WatchReturns
  BY <1>2, <1>3, WatchReturnsInv
<1>4. CASE UNCHANGED <<watched, queue, counts, rpc, verdict>>
  <2> USE DEF RestartInv, clusterVars
  <2>1. /\ states' \in [Instances -> {"unseen", "born", "healthy", "failed"}]
        /\ known' \in [Instances -> Nat]
        /\ \A i \in Instances \ watched : states'[i] = states[i] /\ known'[i] = known[i]
        /\ \A i \in watched :
             /\ known'[i] # 0 => known'[i] > before[i]
             /\ states'[i] \in {"born", "healthy"} => known'[i] # 0
    BY <1>2, LookFacts
  <2>2. RestartTypes'
    BY <1>2, <1>4, <2>1 DEF RestartTypes
  <2>3. Newer' /\ Queued'
    BY <1>2, <1>4 DEF Newer, Queued
  <2>4. Seen'
    BY <1>2, <1>4, <2>1 DEF Seen
  <2>5. Followed'
    BY <1>2, <1>4, <2>1 DEF Followed, Restarted, RestartTypes
  <2>6. SuccessMeansRestarted'
    BY <1>2, <1>4 DEF SuccessMeansRestarted, RestartTypes
  <2> QED
    BY <2>2, <2>3, <2>4, <2>5, <2>6
<1> QED
  BY <1>2, <1>3, <1>4

\* What the other commands do to the cluster, and the scheduler.
LEMMA OthersMove ==
  ASSUME CommandsInv, id \in [Instances -> Nat \ {0}],
         \/ KillNext \/ DrainNext \/ (Scheduler /\ Elsewhere)
         \/ \E h \in Maintained : Activate(h)
  PROVE  Moves
<1> USE DEF CommandsInv
<1>1. CASE KillNext
  <2>1. UNCHANGED clusterVars \/ \E B \in SUBSET Instances : KillTasks(B)
    BY <1>1 DEF KillNext, KillStep, ListTasks, KillTheBatch, PollKill, QueryRaises, KillInv
  <2> QED
    BY <2>1, CallMoves
<1>2. CASE DrainNext
  <2>1. /\ group \subseteq Hosts /\ Maintained \subseteq Hosts
    BY MaintenanceBounds DEF MaintenanceInv
  <2>2. UNCHANGED clusterVars \/ \E H \in SUBSET Hosts : StartMaintenance(H) \/ DrainHosts(H)
    BY <1>2, <2>1
    DEF DrainNext, DrainStep, Start, Dies, SlaHosts, SlaJob, DrainGroup, PollDrain, Script
  <2> QED
    BY <2>2, CallMoves
<1>3. CASE Scheduler /\ Elsewhere
  BY <1>3, SchedulerMoves
<1>4. CASE \E h \in Maintained : Activate(h)
  <2>1. \E h \in Hosts : EndMaintenance(h)
    BY <1>4, MaintenanceBounds DEF Activate
  <2> QED
    BY <2>1, CallMoves
<1> QED
  BY <1>1, <1>2, <1>3, <1>4

\* Every step of every command keeps what the restart relies on.
LEMMA RestartNextInv ==
  ASSUME CommandsInv, RestartInv, [Next]_vars
  PROVE  RestartInv'
<1>1. ClusterInv /\ id \in [Instances -> Nat \ {0}]
  BY DEF CommandsInv, RestartInv, RestartTypes
<1>2. CASE StartCommand
  <2>1. CASE RestartCommand
    BY <2>1, RestartCommandInv
  <2>2. CASE UNCHANGED <<clusterVars, watchVars, restartVars>>
    BY <1>1, <2>2, CallMoves, RestartFrame
  <2> QED
    BY <1>2, <2>1, <2>2 DEF StartCommand, KillCommand, DrainCommand
<1>3. CASE RestartNext
  BY <1>1, <1>3, QueryInv, RestartBatchInv, PollWatchInv DEF RestartNext, RestartStep
<1>4. CASE KillNext \/ DrainNext \/ (Scheduler /\ Elsewhere)
  <2>1. Moves
    BY <1>1, <1>4, OthersMove
  <2>2. UNCHANGED <<watchVars, restartVars>>
    BY <1>4 DEF KillNext, DrainNext, Elsewhere
  <2> QED
    BY <2>1, <2>2, RestartFrame
<1>5. CASE /\ \E h \in Maintained : "drain" \in given /\ Activate(h)
           /\ UNCHANGED <<watchVars, restartVars, killVars, given>>
  <2>1. Moves
    BY <1>1, <1>5, OthersMove
  <2> QED
    BY <1>5, <2>1, RestartFrame
<1>6. CASE UNCHANGED vars
  BY <1>1, <1>6, CallMoves, RestartFrame DEF vars
<1> QED
  BY <1>2, <1>3, <1>4, <1>5, <1>6 DEF Next

\* Of every behaviour.
LEMMA RestartInvariant == Spec => []RestartInv
  BY InitRestart, RestartNextInv, CommandsInvariant, PTL DEF Spec

\* "All instances were restarted successfully": each of them was last seen healthy
\* in a task that came after all those it had before the command, for any batch
\* size and thresholds and whatever failed, was killed, drained or queued again
\* meanwhile (client/api/restarter.py:60-108, client/api/instance_watcher.py:72-138).
THEOREM RestartCorrect == Spec => []SuccessMeansRestarted
<1>1. RestartInv => SuccessMeansRestarted
  BY DEF RestartInv
<1> QED
  BY <1>1, RestartInvariant, PTL

-----------------------------------------------------------------------------
(***************************************************************************)
(* The types.  What is left to show is about bounds: the tasks that fail,  *)
(* the polls, the errors of a kill, which go one beyond their limit only   *)
(* with its end, and the queue, which has every instance once.             *)
(***************************************************************************)

ClusterBounded == up \subseteq Instances /\ failures \in 0 .. MaxFailures

KillBounded ==
  /\ kill \in {"idle", "list", "batch", "wait"} /\ blind \subseteq confirmed
  /\ polls \in 0 .. MaxPolls /\ errors \in 0 .. MaxErrors + 1
  /\ kill # "idle" => errors <= MaxErrors /\ "kill" \in given
  /\ "kill" \notin given => errors = 0

MaintenanceBounded ==
  /\ waiting \subseteq Maintained /\ kept \subseteq Maintained /\ activated \subseteq Maintained
  /\ unnamed \subseteq Maintained /\ waits \in 0 .. MaxWaits - 1

Bounded == ClusterBounded /\ KillBounded /\ MaintenanceBounded /\ given \subseteq Commands

\* Initially everything is empty and nothing was counted.
LEMMA InitBounded == Init => Bounded
<1> SUFFICES ASSUME Init PROVE Bounded
  OBVIOUS
<1> USE DEF Init
<1>1. ClusterBounded
  BY ClusterBounds DEF ClusterInit, ClusterBounded
<1>2. KillBounded
  BY KillBounds DEF KillInit, KillBounded
<1>3. MaintenanceBounded
  BY MaintenanceBounds DEF MaintenanceInit, MaintenanceBounded
<1> QED
  BY <1>1, <1>2, <1>3 DEF Bounded

\* Only a task that fails is counted, up to the bound.
LEMMA ClusterNextBounded ==
  ASSUME ClusterBounded, [Next]_vars
  PROVE  ClusterBounded'
<1>1. CASE Scheduler
  <2>1. ASSUME NEW i \in Instances, Place(i) \/ Leave(i) \/ Die(i) \/ Age(i)
        PROVE  ClusterBounded'
    BY <2>1 DEF Place, Leave, Die, Age, Replace, Running, ClusterBounded
  <2>2. ASSUME NEW i \in Instances, Fail(i) PROVE ClusterBounded'
    <3>1. failures' = failures + 1 /\ failures < MaxFailures /\ up' = up \ {i}
      BY <2>2 DEF Fail, Replace
    <3> QED
      BY <3>1, ClusterBounds DEF ClusterBounded
  <2> QED
    BY <1>1, <2>1, <2>2 DEF Scheduler, Placement
<1>2. CASE UNCHANGED <<up, failures>>
  BY <1>2 DEF ClusterBounded
<1>3. CASE RestartNext
  BY <1>2, <1>3
  DEF RestartNext, RestartStep, Query, RestartBatch, PollWatch, Poll, Errs, RestartShards,
      clusterVars
<1>4. CASE KillNext
  BY <1>2, <1>4 DEF KillNext, KillStep, ListTasks, KillTheBatch, PollKill, QueryRaises, KillTasks,
     clusterVars
<1>5. CASE DrainNext
  BY <1>2, <1>5
  DEF DrainNext, DrainStep, Start, Dies, SlaHosts, SlaJob, DrainGroup, PollDrain, Script,
      StartMaintenance, DrainHosts, clusterVars
<1>6. CASE StartCommand \/ UNCHANGED vars
  BY <1>2, <1>6 DEF StartCommand, RestartCommand, KillCommand, DrainCommand, clusterVars, vars
<1>7. CASE \E h \in Maintained : Activate(h)
  BY <1>2, <1>7 DEF Activate, EndMaintenance
<1> QED
  BY <1>1, <1>3, <1>4, <1>5, <1>6, <1>7 DEF Next

\* The error that is one too many ends the command, which is given once.
LEMMA KillNextBounded ==
  ASSUME KillBounded, [Next]_vars
  PROVE  KillBounded'
<1> USE KillBounds DEF KillBounded
<1>1. CASE KillNext
  <2>1. kill # "idle" /\ errors \in 0 .. MaxErrors /\ "kill" \in given /\ given' = given
    BY <1>1 DEF KillNext, KillStep, ListTasks, KillTheBatch, PollKill, QueryRaises
  <2>2. CASE ListTasks \/ KillTheBatch
    BY <2>1, <2>2 DEF ListTasks, KillTheBatch
  <2>3. CASE PollKill
    <3>1. CASE /\ \E B \in {killing, {}} :
                    confirmed' = confirmed \union killing /\ blind' = blind \union (killing \ B)
               /\ NextBatch /\ UNCHANGED errors
      BY <2>1, <3>1 DEF NextBatch
    <3>2. CASE /\ polls < MaxPolls /\ polls' = polls + 1
               /\ UNCHANGED <<confirmed, blind, kill, errors>>
      BY <2>1, <3>2
    <3>3. CASE WaitTimesOut /\ UNCHANGED <<confirmed, blind>>
      <4>1. errors' \in 0 .. MaxErrors + 1 /\ polls' = 0
            /\ kill' \in {"idle", "batch"} /\ (kill' # "idle" => errors' <= MaxErrors)
        BY <2>1, <3>3 DEF WaitTimesOut, NextBatch
      <4> QED
        BY <2>1, <3>3, <4>1
    <3> QED
      BY <2>3, <3>1, <3>2, <3>3 DEF PollKill
  <2>4. CASE QueryRaises
    BY <2>1, <2>4 DEF QueryRaises
  <2> QED
    BY <1>1, <2>2, <2>3, <2>4 DEF KillNext, KillStep
<1>2. CASE UNCHANGED killVars /\ given \subseteq given' /\ ("kill" \in given' => "kill" \in given)
  BY <1>2 DEF killVars
<1>3. CASE StartCommand
  <2>1. CASE Give("kill") /\ KillCommand
    <3>1. "kill" \in given' /\ errors' = 0 /\ kill' = "list"
      BY <2>1 DEF Give, KillCommand
    <3> QED
      BY <2>1, <3>1 DEF KillCommand
  <2>2. CASE (Give("restart") \/ Give("drain")) /\ UNCHANGED killVars
    BY <1>2, <2>2 DEF Give
  <2> QED
    BY <1>3, <2>1, <2>2 DEF StartCommand
<1>4. CASE UNCHANGED <<killVars, given>>
  BY <1>2, <1>4
<1> QED
  BY <1>1, <1>3, <1>4 DEF Next, RestartNext, DrainNext, Elsewhere, vars

\* The hosts that are waited for or kept are of the group; the wait is limited.
LEMMA MaintenanceNextBounded ==
  ASSUME MaintenanceInv, MaintenanceBounded, [Next]_vars
  PROVE  MaintenanceBounded'
<1> USE MaintenanceBounds DEF MaintenanceBounded
<1>1. group \subseteq Maintained
  BY DEF MaintenanceInv
<1>2. CASE DrainNext
  <2>1. CASE Dies /\ UNCHANGED <<activated, unnamed>>
    BY <2>1 DEF Dies
  <2>2. CASE Start \/ SlaHosts \/ Script \/ DrainGroup
    BY <1>1, <2>1, <2>2 DEF Start, SlaHosts, Script, DrainGroup
  <2>3. CASE SlaJob
    BY <1>1, <2>1, <2>3 DEF SlaJob, Unsafe
  <2>4. CASE PollDrain
    <3>1. waits \in Nat /\ waits' \in Nat /\ (waits' = waits + 1 /\ ~TimedOut => waits' <= MaxWaits - 1)
      BY <2>1, <2>4 DEF PollDrain, TimedOut, Dies
    <3> QED
      BY <2>1, <2>4, <3>1 DEF PollDrain, TimedOut, Undrained
  <2> QED
    BY <1>2, <2>2, <2>3, <2>4 DEF DrainNext, DrainStep
<1>3. CASE \E h \in Maintained : Activate(h)
  BY <1>3 DEF Activate
<1>4. CASE UNCHANGED <<waiting, waits, kept, activated, unnamed>>
  BY <1>4
<1> QED
  BY <1>2, <1>3, <1>4
  DEF Next, StartCommand, DrainCommand, RestartNext, KillNext, Elsewhere, maintenanceVars, vars

\* Every step keeps the bounds.
LEMMA NextBounded ==
  ASSUME CommandsInv, Bounded, [Next]_vars
  PROVE  Bounded'
<1>1. ClusterBounded' /\ KillBounded' /\ MaintenanceBounded'
  BY ClusterNextBounded, KillNextBounded, MaintenanceNextBounded DEF CommandsInv, Bounded
<1>2. given' \subseteq Commands
  BY DEF Bounded, Next, StartCommand, Give, RestartNext, KillNext, DrainNext, Elsewhere, vars
<1> QED
  BY <1>1, <1>2 DEF Bounded

\* A queue that has no instance twice is no longer than there are instances.
LEMMA QueueShort ==
  ASSUME NEW q \in Seq(Instances), IsInjective(q)
  PROVE  Len(q) <= Cardinality(Instances)
<1> DEFINE D == 1 .. Len(q)
<1>1. Len(q) \in Nat /\ q \in [D -> Instances]
  OBVIOUS
<1>2. q \in Injection(D, Instances)
  BY <1>1 DEF Injection
<1>3. Cardinality(D) <= Cardinality(Instances)
  BY <1>2, ClusterBounds, FS_Injection
<1>4. Cardinality(D) = Len(q)
  BY <1>1, FS_Interval
<1> QED
  BY <1>3, <1>4

\* Each variable keeps its type, whatever commands run at the same time.
THEOREM OperationsTypeCorrect == Spec => []TypeOK
<1>1. CommandsInv /\ RestartInv /\ Bounded => TypeOK
  <2> SUFFICES ASSUME CommandsInv, RestartInv, Bounded PROVE TypeOK
    OBVIOUS
  <2> USE DEF CommandsInv, RestartInv, Bounded
  <2>1. ClusterTypeOK
    BY DEF ClusterTypeOK, ClusterInv, RestartTypes, ClusterBounded, Statuses, Modes
  <2>2. Len(queue) <= Cardinality(Instances)
    BY QueueShort DEF RestartTypes, Queued
  <2>3. RestartTypeOK
    BY <2>2 DEF RestartTypeOK, WatchTypeOK, RestartTypes
  <2>4. KillTypeOK
    BY DEF KillTypeOK, KillInv, KillBounded
  <2>5. MaintenanceTypeOK
    BY DEF MaintenanceTypeOK, MaintenanceInv, MaintenanceBounded
  <2> QED
    BY <2>1, <2>3, <2>4, <2>5 DEF TypeOK
<1>2. Init /\ [][Next]_vars /\ []CommandsInv => []Bounded
  BY InitBounded, NextBounded, PTL
<1> QED
  BY <1>1, <1>2, CommandsInvariant, RestartInvariant, PTL DEF Spec
=============================================================================
