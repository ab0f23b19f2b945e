------------------------- MODULE TaskObserverProofs --------------------------
(***************************************************************************)
(* Every active task of the observer has one resource monitor that nobody  *)
(* has killed, and no other task has one; no task that is on the disk is   *)
(* missed twice in a row; and the types: for any tasks, roots and order in *)
(* which files are listed, move and disappear.                             *)
(*                                                                         *)
(* The observer and its detector keep sets of their own.  The monitors     *)
(* rest on what ties these: the observer knows no task that the detector   *)
(* does not know, so a task that is new to the detector has no monitor.    *)
(* A task is missed only when its file moves from active to finished       *)
(* between the two listings of its root; then it is finished, and files do *)
(* not move back, so the next refresh finds it.                            *)
(***************************************************************************)
EXTENDS TaskObserver, TLAPS

Phases == {"off", "wait", "sample", "dead"}

\* What the observer knows, its detector knows too.
Known ==
  /\ active \subseteq detActive \union detFinished
  /\ finished \subseteq detActive \union detFinished
  /\ active \subseteq Tasks

\* The types of the monitors, and the property itself.
Monitors ==
  /\ phase \in [Tasks -> Phases] /\ killSignal \in [Tasks -> BOOLEAN]
  /\ OneMonitor

ObserverInv == Known /\ Monitors

-----------------------------------------------------------------------------

\* Initially nothing is known and no monitor runs.
LEMMA InitInv == Init => ObserverInv
  BY DEF Init, MonitorInit, ObserverInv, Known, Monitors, OneMonitor, Phases

\* Steps of the disk, and of the refresh without a callback, change neither.
LEMMA FrameInv ==
  ASSUME ObserverInv, UNCHANGED <<active, finished, leaked, phase, killSignal>>,
         detActive \union detFinished \subseteq detActive' \union detFinished'
  PROVE  ObserverInv'
  BY DEF ObserverInv, Known, Monitors, OneMonitor

\* A monitor's own step ends only what was killed.
LEMMA MonitorInv ==
  ASSUME ObserverInv, NEW t \in Tasks, Monitor(t)
  PROVE  ObserverInv'
<1> USE DEF ObserverInv
<1>1. /\ UNCHANGED <<active, finished, leaked, detActive, detFinished, killSignal>>
      /\ \/ phase[t] # "off" /\ phase' = [phase EXCEPT ![t] = "sample"]
         \/ phase[t] # "off" /\ phase' = [phase EXCEPT ![t] = "wait"]
         \/ killSignal[t] /\ phase' = [phase EXCEPT ![t] = "off"]
  BY DEF Monitor, MonitorThread, Poll, Sampled, Killed, detectorVars, observerVars
<1>2. Known'
  BY <1>1 DEF Known
<1>3. Monitors'
  BY <1>1 DEF Monitors, OneMonitor, Phases
<1> QED
  BY <1>2, <1>3

-----------------------------------------------------------------------------
(* The refresh *)

\* A task found active is new, or the observer knows it and does nothing.
LEMMA EntryActiveInv ==
  ASSUME ObserverInv, NEW t \in Tasks, EntryActive(t)
  PROVE  ObserverInv'
<1>1. CASE UNCHANGED <<detActive, observerVars, phase, killSignal, collectors>>
  BY <1>1, FrameInv DEF EntryActive, observerVars
<1>2. CASE /\ t \notin detActive \union detFinished
           /\ detActive' = detActive \union {t} /\ OnActive(t)
  <2>1. t \notin active /\ t \notin finished
    BY <1>2 DEF ObserverInv, Known
  <2>2. /\ leaked' = leaked /\ phase' = [phase EXCEPT ![t] = "wait"]
        /\ killSignal' = [killSignal EXCEPT ![t] = FALSE]
        /\ active' = active \union {t} /\ finished' = finished
    BY <1>2, <2>1 DEF OnActive
  <2>3. Known'
    BY <1>2, <2>2 DEF EntryActive, ObserverInv, Known
  <2>4. Monitors'
    BY <2>2 DEF ObserverInv, Monitors, OneMonitor, Phases
  <2> QED
    BY <2>3, <2>4 DEF ObserverInv
<1> QED
  BY <1>1, <1>2 DEF EntryActive

\* Killing the monitors of tasks that stop being active keeps the two in step.
LEMMA KillMonitorsInv ==
  ASSUME Monitors, Known, NEW ts, KillMonitors(ts), active' = active \ ts,
         UNCHANGED <<leaked, phase>>
  PROVE  Monitors'
  BY DEF Monitors, Known, KillMonitors, OneMonitor

\* A task found finished loses its monitor, or never has one that goes on.
LEMMA EntryFinishedInv ==
  ASSUME ObserverInv, NEW t \in Tasks, EntryFinished(t)
  PROVE  ObserverInv'
<1> USE DEF ObserverInv
<1>1. /\ detActive' = detActive \ {t} /\ detFinished' = detFinished \union {t}
      /\ detActive \union detFinished \subseteq detActive' \union detFinished'
  BY DEF EntryFinished
<1>2. CASE t \in detActive /\ OnFinished(t)
  <2>1. Monitors'
    BY <1>2, KillMonitorsInv DEF OnFinished
  <2>2. Known'
    BY <1>1, <1>2 DEF OnFinished, Known
  <2> QED
    BY <2>1, <2>2
<1>3. CASE UNCHANGED <<observerVars, phase, killSignal, collectors>>
  BY <1>1, <1>3, FrameInv DEF observerVars
<1>4. CASE t \notin detActive \union detFinished /\ OnActiveAndFinished(t)
  <2>1. t \notin active /\ t \notin finished
    BY <1>4 DEF Known
  <2>2. /\ leaked' = leaked /\ phase' = [phase EXCEPT ![t] = "wait"]
        /\ active' = active /\ finished' = finished \union {t}
    BY <1>4, <2>1 DEF OnActiveAndFinished
  <2>3. killSignal' = [killSignal EXCEPT ![t] = TRUE]
    BY <1>4, <2>1 DEF OnActiveAndFinished
  <2>4. Known'
    BY <1>1, <2>2 DEF Known
  <2>5. Monitors'
    BY <2>1, <2>2, <2>3 DEF Monitors, OneMonitor, Phases
  <2> QED
    BY <2>4, <2>5
<1> QED
  BY <1>2, <1>3, <1>4 DEF EntryFinished

\* What no listing had is forgotten by both.
LEMMA RemovalInv ==
  ASSUME ObserverInv, Removal
  PROVE  ObserverInv'
<1> USE DEF ObserverInv
<1>1. Monitors'
  BY KillMonitorsInv DEF Removal, OnRemoved
<1>2. Known'
  BY DEF Known, Removal, OnRemoved
<1> QED
  BY <1>1, <1>2

\* The steps of the refresh.
LEMMA RefreshInv ==
  ASSUME ObserverInv, RefreshStep
  PROVE  ObserverInv'
<1>1. CASE Refresh \/ ListSecond \/ NextRoot \/ \E r \in Roots, s \in States : ListFirst(r, s)
  BY <1>1, FrameInv DEF Refresh, ListSecond, NextRoot, ListFirst, observerVars, monitorVars
<1> QED
  BY <1>1, EntryActiveInv, EntryFinishedInv, RemovalInv DEF RefreshStep

-----------------------------------------------------------------------------
(* All together *)

\* The disk and the runners change nothing of the observer.
LEMMA DiskInv ==
  ASSUME ObserverInv, NEW t \in Tasks,
         Launch(t) \/ Finalize(t) \/ Collect(t) \/ \E p \in ProcsOf[t] : Run(t, p)
  PROVE  ObserverInv'
  BY FrameInv DEF Launch, Finalize, Collect, Move, Run, RunBegins, RunEnds, detectorVars,
                  observerVars, monitorVars

\* A query may end a monitor's loop; the monitor is still the task's.
LEMMA QueryInv ==
  ASSUME ObserverInv, NEW t \in Tasks, NEW p \in ProcsOf[t], ProcessQuery(t, p)
  PROVE  ObserverInv'
<1> USE DEF ObserverInv
<1>1. /\ UNCHANGED <<detectorVars, observerVars, killSignal>>
      /\ \/ UNCHANGED phase
         \/ phase[t] = "sample" /\ phase' = [phase EXCEPT ![t] = "dead"]
  BY DEF ProcessQuery, SampleByProcess
<1>2. Known'
  BY <1>1 DEF Known, detectorVars, observerVars
<1>3. Monitors'
  BY <1>1 DEF Monitors, OneMonitor, Phases, observerVars
<1> QED
  BY <1>2, <1>3

\* Every step keeps the invariant.
LEMMA NextInv ==
  ASSUME ObserverInv, [Next]_vars
  PROVE  ObserverInv'
<1>1. CASE UNCHANGED vars
  BY <1>1, FrameInv DEF vars, monitorVars, detectorVars, observerVars
<1> QED
  BY <1>1, RefreshInv, DiskInv, MonitorInv, QueryInv DEF Next

\* No monitor is started over another, and those that run and are not killed are
\* those of the active tasks (task_observer.py __on_active, __on_finished,
\* __on_removed; detector.py refresh).
THEOREM OneMonitorCorrect == Spec => []OneMonitor
<1>1. ObserverInv => OneMonitor
  BY DEF ObserverInv, Monitors
<1> QED
  BY <1>1, InitInv, NextInv, PTL DEF Spec

-----------------------------------------------------------------------------
(* Types *)

\* TypeOK, and that the functions of the monitors are functions of the tasks.
Types ==
  /\ TypeOK
  /\ DOMAIN up = Tasks /\ DOMAIN runs = Tasks /\ DOMAIN collectors = Tasks

\* Entries of one task, or of one of its processes, are replaced by runs.
LEMMA EntryType ==
  ASSUME NEW f, DOMAIN f = Tasks, \A t \in Tasks : f[t] \in [ProcsOf[t] -> 0 .. MaxRuns],
         NEW t \in Tasks
  PROVE  /\ \A e \in [ProcsOf[t] -> 0 .. MaxRuns] : LET g == [f EXCEPT ![t] = e] IN
              DOMAIN g = Tasks /\ \A u \in Tasks : g[u] \in [ProcsOf[u] -> 0 .. MaxRuns]
         /\ \A p \in ProcsOf[t], n \in 0 .. MaxRuns : LET g == [f EXCEPT ![t][p] = n] IN
              /\ DOMAIN g = Tasks /\ g[t][p] = n
              /\ \A u \in Tasks : g[u] \in [ProcsOf[u] -> 0 .. MaxRuns]
  OBVIOUS

\* No process of a task is sampled, or running, at first.
LEMMA ZeroType ==
  /\ DOMAIN Zero = Tasks
  /\ \A t \in Tasks : Zero[t] \in [ProcsOf[t] -> 0 .. MaxRuns]
  BY MonitorBounds DEF Zero

\* The monitors' threads, the queries and the runners keep the types.
LEMMA MonitorTypes ==
  ASSUME Types, NEW t \in Tasks,
         \/ MonitorThread(t)
         \/ \E p \in ProcsOf[t] : SampleByProcess(t, p) \/ RunBegins(t, p) \/ RunEnds(t, p)
  PROVE  MonitorTypeOK' /\ DOMAIN up' = Tasks /\ DOMAIN runs' = Tasks /\ DOMAIN collectors' = Tasks
<1> DEFINE Fits(f) == DOMAIN f = Tasks /\ \A u \in Tasks : f[u] \in [ProcsOf[u] -> 0 .. MaxRuns]
<1>1. Fits(up) /\ Fits(runs) /\ Fits(collectors)
  BY DEF Types, TypeOK, MonitorTypeOK
<1>2. /\ phase \in [Tasks -> {"off", "wait", "sample", "dead"}]
      /\ killSignal \in [Tasks -> BOOLEAN]
  BY DEF Types, TypeOK, MonitorTypeOK
<1>3. ASSUME Fits(up'), Fits(runs'), Fits(collectors'), killSignal' = killSignal,
             phase' \in [Tasks -> {"off", "wait", "sample", "dead"}]
      PROVE  MonitorTypeOK' /\ DOMAIN up' = Tasks /\ DOMAIN runs' = Tasks /\ DOMAIN collectors' = Tasks
  BY <1>2, <1>3 DEF MonitorTypeOK
<1>4. CASE Poll(t)
  <2> DEFINE e == [p \in ProcsOf[t] |-> IF up[t][p] # 0 /\ collectors[t][p] # 0
                                        THEN collectors[t][p] ELSE up[t][p]]
  <2>1. collectors' = [collectors EXCEPT ![t] = e] /\ UNCHANGED <<up, runs, killSignal>>
        /\ phase' = [phase EXCEPT ![t] = "sample"]
    BY <1>1, <1>4 DEF Poll
  <2>2. e \in [ProcsOf[t] -> 0 .. MaxRuns]
    BY <1>1
  <2> HIDE DEF e
  <2>3. Fits(collectors')
    BY <1>1, <2>1, <2>2, EntryType
  <2> QED
    BY <1>1, <1>2, <1>3, <2>1, <2>3
<1>5. CASE Sampled(t) \/ Killed(t)
  BY <1>1, <1>2, <1>3, <1>5 DEF Sampled, Killed
<1>6. ASSUME NEW p \in ProcsOf[t], SampleByProcess(t, p)
      PROVE  MonitorTypeOK' /\ DOMAIN up' = Tasks /\ DOMAIN runs' = Tasks /\ DOMAIN collectors' = Tasks
  <2>1. up[t][p] \in 0 .. MaxRuns /\ UNCHANGED <<up, runs, killSignal>>
    BY <1>1, <1>6 DEF SampleByProcess
  <2>2. Fits(collectors')
    <3>1. CASE collectors' = [collectors EXCEPT ![t][p] = up[t][p]]
      BY <1>1, <2>1, <3>1, EntryType
    <3> QED
      BY <1>1, <1>6, <3>1 DEF SampleByProcess
  <2>3. phase' \in [Tasks -> {"off", "wait", "sample", "dead"}]
    BY <1>2, <1>6 DEF SampleByProcess
  <2> QED
    BY <1>1, <1>3, <2>1, <2>2, <2>3
<1>7. ASSUME NEW p \in ProcsOf[t], RunBegins(t, p)
      PROVE  MonitorTypeOK' /\ DOMAIN up' = Tasks /\ DOMAIN runs' = Tasks /\ DOMAIN collectors' = Tasks
  <2>1. runs[t][p] + 1 \in 0 .. MaxRuns
    BY <1>1, <1>7, MonitorBounds DEF RunBegins
  <2>2. runs' = [runs EXCEPT ![t][p] = runs[t][p] + 1]
        /\ up' = [up EXCEPT ![t][p] = runs'[t][p]] /\ UNCHANGED <<phase, killSignal, collectors>>
    BY <1>1, <1>7 DEF RunBegins
  <2>3. Fits(runs') /\ runs'[t][p] \in 0 .. MaxRuns
    BY <1>1, <2>1, <2>2, EntryType
  <2>4. Fits(up')
    BY <1>1, <2>2, <2>3, EntryType
  <2> QED
    BY <1>1, <1>2, <1>3, <2>2, <2>3, <2>4
<1>8. ASSUME NEW p \in ProcsOf[t], RunEnds(t, p)
      PROVE  MonitorTypeOK' /\ DOMAIN up' = Tasks /\ DOMAIN runs' = Tasks /\ DOMAIN collectors' = Tasks
  <2>1. up' = [up EXCEPT ![t][p] = 0] /\ UNCHANGED <<runs, phase, killSignal, collectors>>
    BY <1>8 DEF RunEnds
  <2>2. Fits(up')
    BY <1>1, <2>1, EntryType, MonitorBounds
  <2> QED
    BY <1>1, <1>2, <1>3, <2>1, <2>2
<1> QED
  BY <1>4, <1>5, <1>6, <1>7, <1>8 DEF MonitorThread

\* The refresh keeps them.
LEMMA RefreshTypes ==
  ASSUME Types, RefreshStep
  PROVE  Types'
<1> USE DEF Types
<1>1. CASE Refresh
  BY <1>1 DEF TypeOK, Refresh, MonitorTypeOK, monitorVars, observerVars, OnDisk
<1>2. ASSUME NEW r \in Roots, NEW s \in States, ListFirst(r, s)
      PROVE  Types'
  BY <1>2 DEF TypeOK, ListFirst, List, MonitorTypeOK, monitorVars, observerVars, historyVars
<1>3. CASE ListSecond
  BY <1>3 DEF TypeOK, ListSecond, List, MonitorTypeOK, monitorVars, observerVars, historyVars
<1>4. CASE NextRoot
  BY <1>4 DEF TypeOK, NextRoot, MonitorTypeOK, monitorVars, observerVars, historyVars
<1>5. CASE Removal
  BY <1>5 DEF TypeOK, Removal, OnRemoved, KillMonitors, MonitorTypeOK
<1> DEFINE Reset(t) == /\ phase' \in {phase, [phase EXCEPT ![t] = "wait"]}
                       /\ collectors' \in {collectors, [collectors EXCEPT ![t] = Zero[t]]}
                       /\ UNCHANGED <<up, runs>>
                       /\ killSignal' \in [Tasks -> BOOLEAN]
<1>6. ASSUME NEW t \in Tasks, Reset(t)
      PROVE  MonitorTypeOK' /\ DOMAIN up' = Tasks /\ DOMAIN runs' = Tasks /\ DOMAIN collectors' = Tasks
  <2>1. /\ DOMAIN collectors' = Tasks
        /\ \A u \in Tasks : collectors'[u] \in [ProcsOf[u] -> 0 .. MaxRuns]
    BY <1>6, ZeroType, EntryType DEF TypeOK, MonitorTypeOK
  <2> QED
    BY <1>6, <2>1, SMTT(30) DEF TypeOK, MonitorTypeOK
<1>7. ASSUME NEW t \in Tasks, EntryActive(t)
      PROVE  Types'
  <2>1. Reset(t)
    BY <1>7 DEF EntryActive, Entry, OnActive, observerVars, TypeOK, MonitorTypeOK
  <2>2. MonitorTypeOK' /\ DOMAIN up' = Tasks /\ DOMAIN runs' = Tasks /\ DOMAIN collectors' = Tasks
    BY <1>6, <2>1
  <2> QED
    BY <1>7, <2>2, ZenonT(60) DEF TypeOK, EntryActive, Entry, OnActive, observerVars, historyVars
<1>8. ASSUME NEW t \in Tasks, EntryFinished(t)
      PROVE  Types'
  <2>1. Reset(t)
    BY <1>8 DEF EntryFinished, Entry, OnFinished, OnActiveAndFinished, KillMonitors, observerVars,
       TypeOK, MonitorTypeOK
  <2>2. MonitorTypeOK' /\ DOMAIN up' = Tasks /\ DOMAIN runs' = Tasks /\ DOMAIN collectors' = Tasks
    BY <1>6, <2>1
  <2> QED
    BY <1>8, <2>2, ZenonT(60) DEF TypeOK, EntryFinished, Entry, OnFinished, OnActiveAndFinished, observerVars,
       historyVars
<1> QED
  BY <1>1, <1>2, <1>3, <1>4, <1>5, <1>7, <1>8 DEF RefreshStep

\* Every step keeps them.
LEMMA NextTypes ==
  ASSUME Types, [Next]_vars
  PROVE  Types'
<1>1. ASSUME NEW t \in Tasks, Launch(t) \/ Finalize(t) \/ Collect(t)
      PROVE  Types'
  <2>1. /\ UNCHANGED <<monitorVars, detectorVars, observerVars, historyVars>>
        /\ loc' \in [Tasks -> States \union {"none", "gone"}]
    BY <1>1 DEF Types, TypeOK, Launch, Finalize, Collect, Move, States
  <2>2. MonitorTypeOK' /\ DOMAIN up' = Tasks /\ DOMAIN runs' = Tasks /\ DOMAIN collectors' = Tasks
    BY <2>1 DEF Types, TypeOK, MonitorTypeOK, monitorVars
  <2> QED
    BY <2>1, <2>2 DEF Types, TypeOK, detectorVars, observerVars, historyVars
<1>2. ASSUME NEW t \in Tasks, \/ Monitor(t)
                              \/ \E p \in ProcsOf[t] : Run(t, p) \/ ProcessQuery(t, p)
      PROVE  Types'
  <2>1. MonitorTypeOK' /\ DOMAIN up' = Tasks /\ DOMAIN runs' = Tasks /\ DOMAIN collectors' = Tasks
    BY <1>2, MonitorTypes DEF Monitor, Run, ProcessQuery
  <2>2. UNCHANGED <<loc, detectorVars, observerVars, historyVars>>
    BY <1>2 DEF Monitor, Run, ProcessQuery
  <2> QED
    BY <2>1, <2>2 DEF Types, TypeOK, detectorVars, observerVars, historyVars
<1>3. CASE UNCHANGED vars
  BY <1>3 DEF Types, TypeOK, vars, MonitorTypeOK, monitorVars, detectorVars, observerVars, historyVars
<1> QED
  BY <1>1, <1>2, <1>3, RefreshTypes DEF Next

\* The observer, its detector and the monitors keep their types for any tasks, roots and
\* bound on the runs; no task is active and finished at once (task_observer.py).
THEOREM ObserverTypeCorrect == Spec => []TypeOK
<1>1. Init => Types
  BY ZeroType DEF Init, MonitorInit, Types, TypeOK, MonitorTypeOK, NothingListed, States
<1>2. Types => TypeOK
  BY DEF Types
<1> QED
  BY <1>1, <1>2, NextTypes, PTL DEF Spec

-----------------------------------------------------------------------------
(* NeverMissedTwice *)

(***************************************************************************)
(* A refresh misses a task of the disk only when its file moves between    *)
(* the two listings, and then it has moved to where it stays.  So it is in *)
(* the listing of the next refresh, and what a refresh lists the observer  *)
(* knows at its end.                                                       *)
(***************************************************************************)

\* This refresh has listed directory s of the task's root.
Listed(t, s) ==
  /\ pc \in {"roots", "second", "entries", "removal"} /\ RootOf[t] \notin roots
  /\ pc = "second" /\ root = RootOf[t] => s = first

\* Where the refresh stands.
Places ==
  /\ pc \in {"idle", "roots", "removal"} => listed = NothingListed
  /\ pc = "removal" => roots = {}
  /\ pc = "second" => first \in States /\ listed[Other(first)] = {}
  /\ pc \in {"second", "entries"} => root \notin roots

\* What has been listed is kept: by the detector, and by the observer.
ListedKept ==
  /\ detFinished \subseteq finished /\ detActive \subseteq active \union finished
  /\ allFinished \subseteq finished /\ allActive \subseteq active \union finished

\* A task that stays where it is is in the listing of its directory.
Found ==
  \A t \in Tasks :
    /\ t \in present => loc[t] # "none"
    /\ Listed(t, "active") /\ t \in present /\ loc[t] = "active" =>
         t \in listed["active"] \union allActive
    /\ Listed(t, "finished") /\ missed[t] # 0 /\ loc[t] = "finished" =>
         t \in listed["finished"] \union allFinished

\* What was missed has moved.
MissedMoved == \A t \in Tasks : missed[t] # 0 => missed[t] = 1 /\ loc[t] \in {"finished", "gone"}

MissInv == Places /\ ListedKept /\ Found /\ MissedMoved

\* A root has two directories.
LEMMA OtherDirectory ==
  ASSUME NEW s \in States
  PROVE  Other(s) \in States /\ Other(s) # s /\ \A o \in States : o = s \/ o = Other(s)
<1>1. \E o \in States : o # s
  BY DEF States
<1>2. Other(s) \in States /\ Other(s) # s
  BY <1>1 DEF Other
<1> QED
  BY <1>2 DEF States

\* Tasks move one way; what the refresh has in hand does not change with them.
LEMMA MovedMiss ==
  ASSUME MissInv, UNCHANGED <<detectorVars, active, finished, historyVars>>,
         \A t \in Tasks : \/ loc'[t] = loc[t]
                          \/ loc'[t] # "none" /\ loc[t] = "none"
                          \/ loc'[t] \in {"finished", "gone"} /\ loc[t] = "active"
                          \/ loc'[t] = "gone"
  PROVE  MissInv'
<1> USE DEF MissInv
<1>1. Places' /\ ListedKept'
  BY DEF Places, ListedKept, detectorVars
<1>2. \A t \in Tasks, s \in States : Listed(t, s)' = Listed(t, s)
  BY DEF Listed, detectorVars
<1>3. MissedMoved'
  BY DEF MissedMoved, historyVars
<1>4. Found'
  BY <1>2 DEF Found, MissedMoved, historyVars, detectorVars, States
<1> QED
  BY <1>1, <1>3, <1>4

\* An entry moves from the listing to what the refresh has seen of the directory.
LEMMA EntryMiss ==
  ASSUME TypeOK, MissInv, NEW e \in Tasks, EntryActive(e) \/ EntryFinished(e)
  PROVE  MissInv'
<1> USE DEF MissInv
<1>1. CASE EntryActive(e)
  <2>1. /\ listed' = [listed EXCEPT !["active"] = @ \ {e}] /\ allActive' = allActive \union {e}
        /\ UNCHANGED <<loc, roots, root, first, historyVars, allFinished, detFinished>>
        /\ pc = "entries" /\ pc' \in {"entries", "dead"} /\ finished' = finished
    BY <1>1 DEF EntryActive, Entry, OnActive, observerVars
  <2>2. Places' /\ MissedMoved'
    BY <2>1 DEF Places, MissedMoved, historyVars
  <2>3. /\ active \subseteq active'
        /\ e \in active' \union finished
        /\ detActive' \subseteq detActive \union {e}
    BY <1>1 DEF EntryActive, OnActive, ListedKept, observerVars
  <2>4. ListedKept'
    BY <2>1, <2>3 DEF ListedKept
  <2>5. \A t \in Tasks, s \in States : Listed(t, s)' => Listed(t, s)
    BY <2>1 DEF Listed
  <2>6. listed'["finished"] = listed["finished"]
        /\ listed["active"] \union allActive \subseteq listed'["active"] \union allActive'
    BY <2>1 DEF TypeOK, States
  <2>7. Found'
    BY <2>1, <2>5, <2>6 DEF Found, historyVars, States
  <2> QED
    BY <2>2, <2>4, <2>7
<1>2. CASE EntryFinished(e)
  <2>1. /\ listed' = [listed EXCEPT !["finished"] = @ \ {e}] /\ allActive' = allActive
        /\ allFinished' = allFinished \union {e}
        /\ UNCHANGED <<loc, roots, root, first, historyVars>>
        /\ pc = "entries" /\ pc' = "entries"
        /\ detActive' = detActive \ {e} /\ detFinished' = detFinished \union {e}
    BY <1>2 DEF EntryFinished, Entry
  <2>2. Places' /\ MissedMoved'
    BY <2>1 DEF Places, MissedMoved, historyVars
  <2>3. finished' = finished \union {e} /\ active \ {e} \subseteq active'
    BY <1>2 DEF EntryFinished, OnFinished, OnActiveAndFinished, ListedKept, observerVars
  <2>4. ListedKept'
    BY <2>1, <2>3 DEF ListedKept
  <2>5. \A t \in Tasks, s \in States : Listed(t, s)' => Listed(t, s)
    BY <2>1 DEF Listed
  <2>6. listed'["active"] = listed["active"]
        /\ listed["finished"] \union allFinished \subseteq listed'["finished"] \union allFinished'
    BY <2>1 DEF TypeOK, States
  <2>7. Found'
    BY <2>1, <2>5, <2>6 DEF Found, historyVars, States
  <2> QED
    BY <2>2, <2>4, <2>7
<1> QED
  BY <1>1, <1>2

\* A listing has every task of the directory at that moment.
LEMMA ListMiss ==
  ASSUME TypeOK, MissInv, ListSecond \/ \E r \in Roots, s \in States : ListFirst(r, s)
  PROVE  MissInv'
<1> USE DEF MissInv
<1>1. ASSUME NEW r \in Roots, NEW s \in States, ListFirst(r, s)
      PROVE  MissInv'
  <2>1. /\ pc = "roots" /\ r \in roots /\ pc' = "second" /\ roots' = roots \ {r} /\ root' = r
        /\ first' = s /\ listed' = List(r, s) /\ listed = NothingListed
        /\ UNCHANGED <<loc, allActive, allFinished, detActive, detFinished, active, finished, historyVars>>
    BY <1>1 DEF ListFirst, Places, observerVars
  <2>2. /\ listed'[s] = {t \in Tasks : RootOf[t] = r /\ loc[t] = s}
        /\ listed'[Other(s)] = {}
    BY <2>1, OtherDirectory DEF List, NothingListed
  <2>3. Places' /\ MissedMoved' /\ ListedKept'
    BY <2>1, <2>2 DEF Places, MissedMoved, ListedKept, historyVars
  <2>4. ASSUME NEW t \in Tasks, NEW o \in States, Listed(t, o)'
        PROVE  (Listed(t, o) /\ listed[o] = {}) \/ (RootOf[t] = r /\ o = s)
    BY <2>1, <2>4 DEF Listed, NothingListed
  <2>5. Found'
    BY <2>1, <2>2, <2>4 DEF Found, historyVars, States
  <2> QED
    BY <2>3, <2>5
<1>2. CASE ListSecond
  <2> DEFINE s == Other(first)
  <2>1. /\ pc = "second" /\ pc' = "entries" /\ listed' = List(root, s) /\ first \in States
        /\ listed[s] = {}
        /\ UNCHANGED <<loc, roots, root, first, allActive, allFinished, detActive, detFinished,
                       active, finished, historyVars>>
    BY <1>2 DEF ListSecond, Places, observerVars
  <2>2. /\ listed'[s] = {t \in Tasks : RootOf[t] = root /\ loc[t] = s}
        /\ listed'[first] = listed[first] /\ s \in States /\ s # first
        /\ \A o \in States : o = s \/ o = first
    BY <2>1, OtherDirectory DEF List, TypeOK
  <2> HIDE DEF s
  <2>3. Places' /\ MissedMoved' /\ ListedKept'
    BY <2>1 DEF Places, MissedMoved, ListedKept, historyVars
  <2>4. ASSUME NEW t \in Tasks, NEW o \in States, Listed(t, o)'
        PROVE  Listed(t, o) \/ (RootOf[t] = root /\ o = s)
    BY <2>1, <2>2, <2>4 DEF Listed
  <2>5. ASSUME NEW t \in Tasks, NEW o \in States, t \in listed[o]
        PROVE  t \in listed'[o]
    BY <2>1, <2>2, <2>5
  <2>6. Found'
    BY <2>1, <2>2, <2>4, <2>5 DEF Found, historyVars, States
  <2> QED
    BY <2>3, <2>6
<1> QED
  BY <1>1, <1>2

\* The refresh ends: a task that it missed, it misses for the first time.
LEMMA RemovalMiss ==
  ASSUME TypeOK, MissInv, Removal
  PROVE  MissInv'
<1> USE DEF MissInv
<1>1. /\ pc = "removal" /\ pc' = "idle" /\ roots = {} /\ listed = NothingListed
      /\ detActive' = allActive /\ detFinished' = allFinished /\ present' = {}
      /\ UNCHANGED <<loc, roots, root, first, listed, allActive, allFinished>>
  BY DEF Removal, Places
<1>2. /\ active \intersect (allActive \union allFinished) \subseteq active'
      /\ finished \intersect (allActive \union allFinished) \subseteq finished'
  BY DEF Removal, OnRemoved
<1>3. ListedKept' /\ Places'
  BY <1>1, <1>2 DEF ListedKept, Places
<1>4. Found'
  BY <1>1 DEF Found, Listed
<1>5. ASSUME NEW t \in Tasks, missed'[t] # 0
      PROVE  missed'[t] = 1 /\ loc[t] \in {"finished", "gone"}
  <2>1. /\ t \in present /\ loc[t] \in States /\ t \notin active' \union finished'
        /\ missed'[t] = missed[t] + 1
    BY <1>5 DEF Removal, OnDisk
  <2>2. t \notin allActive \union allFinished
    BY <1>2, <2>1 DEF ListedKept
  <2>3. Listed(t, "active") /\ Listed(t, "finished")
    BY <1>1 DEF Listed
  <2>4. loc[t] = "finished" /\ missed[t] = 0
    BY <1>1, <2>1, <2>2, <2>3 DEF Found, NothingListed, States
  <2> QED
    BY <2>1, <2>4
<1>6. MissedMoved'
  BY <1>1, <1>5 DEF MissedMoved
<1> QED
  BY <1>3, <1>4, <1>6

\* Every step keeps the invariant.
LEMMA NextMiss ==
  ASSUME TypeOK, MissInv, [Next]_vars
  PROVE  MissInv'
<1>1. CASE Refresh
  <2>1. /\ pc' = "roots" /\ roots' = Roots /\ allActive' = {} /\ allFinished' = {}
        /\ present' = OnDisk /\ UNCHANGED <<loc, listed, detActive, detFinished, active, finished, missed>>
    BY <1>1 DEF Refresh, observerVars
  <2>2. listed = NothingListed
    BY <1>1 DEF Refresh, MissInv, Places
  <2> QED
    BY <2>1, <2>2, RootAssumption DEF MissInv, Places, ListedKept, Found, MissedMoved, Listed,
       OnDisk, States
<1>2. CASE NextRoot
  <2>1. \A t \in Tasks, s \in States : Listed(t, s)' => Listed(t, s)
    BY <1>2 DEF NextRoot, Listed
  <2> QED
    BY <1>2, <2>1 DEF NextRoot, MissInv, Places, ListedKept, Found, MissedMoved, observerVars,
       historyVars, States
<1>3. ASSUME NEW t \in Tasks, Launch(t) \/ Finalize(t) \/ Collect(t)
      PROVE  MissInv'
  <2>1. UNCHANGED <<detectorVars, active, finished, historyVars>>
    BY <1>3 DEF Launch, Finalize, Collect, Move, observerVars
  <2>2. \A u \in Tasks : \/ loc'[u] = loc[u]
                         \/ loc'[u] # "none" /\ loc[u] = "none"
                         \/ loc'[u] \in {"finished", "gone"} /\ loc[u] = "active"
                         \/ loc'[u] = "gone"
    BY <1>3 DEF Launch, Finalize, Collect, Move, TypeOK
  <2> QED
    BY <2>1, <2>2, MovedMiss
<1>4. ASSUME NEW t \in Tasks, \/ Monitor(t)
                              \/ \E p \in ProcsOf[t] : Run(t, p) \/ ProcessQuery(t, p)
      PROVE  MissInv'
  BY <1>4, MovedMiss DEF Monitor, Run, ProcessQuery, observerVars
<1>5. CASE UNCHANGED vars
  BY <1>5, MovedMiss DEF vars, observerVars
<1> QED
  BY <1>1, <1>2, <1>3, <1>4, <1>5, EntryMiss, ListMiss, RemovalMiss DEF Next, RefreshStep

\* A task whose file moves while its root is listed (detector.py: the active directory
\* may be read before the move and the finished one after it, or the other way
\* round) is forgotten by the observer for one refresh at most.
THEOREM MissCorrect == Spec => []NeverMissedTwice
<1>1. Init => MissInv
  BY DEF Init, MissInv, Places, ListedKept, Found, MissedMoved, Listed
<1>2. MissInv => NeverMissedTwice
  <2> SUFFICES ASSUME MissInv, NEW t \in Tasks PROVE missed[t] <= 1
    BY DEF NeverMissedTwice
  <2>1. missed[t] = 0 \/ missed[t] = 1
    BY DEF MissInv, MissedMoved
  <2> QED
    BY <2>1
<1> QED
  BY <1>1, <1>2, NextMiss, ObserverTypeCorrect, PTL DEF Spec
=============================================================================
