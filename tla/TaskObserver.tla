---------------------------- MODULE TaskObserver -----------------------------
(***************************************************************************)
(* The Thermos observer (thermos/observer/task_observer.py, detector.py,   *)
(* observed_task.py): a thread that lists the checkpoint roots every few   *)
(* seconds and turns what it sees into active and finished tasks, each     *)
(* active one with a resource monitor.                                     *)
(*                                                                         *)
(* A task is a file: tasks/active/<id>, renamed to tasks/finished/<id> by  *)
(* the runner and removed by the garbage collector or with its sandbox.    *)
(* The two directories of a root are listed one after the other, in the    *)
(* order in which the file system returns them, while files move.          *)
(* The refresh holds the observer's lock, so do the queries.               *)
(***************************************************************************)
EXTENDS ResourceMonitor, FiniteSets

CONSTANT Roots, RootOf   \* the checkpoint roots and the one of each task

ASSUME RootAssumption == RootOf \in [Tasks -> Roots]

VARIABLES
  loc,          \* where the task's file is: none, active, finished, gone
  pc,           \* the refresh: idle, roots, second, entries, removal, dead
  roots,        \* detectors that iter_tasks has yet to list
  root, first,  \* the root in hand, and which of its directories is listed first
  listed,       \* entries of the root in hand, by directory
  allActive, allFinished,   \* of the refresh
  detActive, detFinished,   \* _active_tasks and _finished_tasks of the detector
  active, finished,         \* those of the observer
  present,      \* tasks that were on disk when the refresh began
  missed,       \* refreshes in a row that ended without a task of the disk
  leaked        \* resource monitors that run and that nobody can kill

detectorVars == <<pc, roots, root, first, listed, allActive, allFinished, detActive, detFinished>>
observerVars == <<active, finished, leaked>>
historyVars == <<present, missed>>
vars == <<monitorVars, loc, detectorVars, observerVars, historyVars>>

States == {"active", "finished"}
OnDisk == {t \in Tasks : loc[t] \in States}

TypeOK ==
  /\ MonitorTypeOK
  /\ loc \in [Tasks -> States \union {"none", "gone"}]
  /\ pc \in {"idle", "roots", "second", "entries", "removal", "dead"}
  /\ roots \subseteq Roots /\ root \in Roots /\ first \in States \union {"none"}
  /\ listed \in [States -> SUBSET Tasks]
  /\ allActive \subseteq Tasks /\ allFinished \subseteq Tasks
  /\ detActive \subseteq Tasks /\ detFinished \subseteq Tasks
  /\ active \subseteq Tasks /\ finished \subseteq Tasks /\ active \intersect finished = {}
  /\ present \subseteq Tasks
  /\ missed \in [Tasks -> Nat] /\ leaked \subseteq Tasks

NothingListed == [s \in States |-> {}]

Init ==
  /\ MonitorInit
  /\ loc = [t \in Tasks |-> "none"]
  /\ pc = "idle" /\ roots = {} /\ root \in Roots /\ first = "none" /\ listed = NothingListed
  /\ allActive = {} /\ allFinished = {} /\ detActive = {} /\ detFinished = {}
  /\ active = {} /\ finished = {} /\ leaked = {}
  /\ present = {} /\ missed = [t \in Tasks |-> 0]

-----------------------------------------------------------------------------
(* The disk: the runner (core/helper.py initialize_task, finalize_task) and *)
(* whoever removes a checkpoint.                                            *)

Move(t, from, to) ==
  /\ loc[t] \in from /\ loc' = [loc EXCEPT ![t] = to]
  /\ UNCHANGED <<detectorVars, observerVars, historyVars>>

Launch(t) == Move(t, {"none"}, "active") /\ UNCHANGED monitorVars
Finalize(t) ==
  /\ \A p \in ProcsOf[t] : up[t][p] = 0
  /\ Move(t, {"active"}, "finished") /\ UNCHANGED monitorVars
Collect(t) ==
  /\ \A p \in ProcsOf[t] : up[t][p] = 0
  /\ Move(t, States, "gone") /\ UNCHANGED monitorVars

Run(t, p) ==
  /\ loc[t] = "active" /\ (RunBegins(t, p) \/ RunEnds(t, p))
  /\ UNCHANGED <<loc, detectorVars, observerVars, historyVars>>

-----------------------------------------------------------------------------
(* The callbacks of the observer: what they do to its tasks and monitors.  *)

\* __on_active
OnActive(t) ==
  IF t \in finished THEN UNCHANGED <<active, finished, leaked, phase, killSignal, collectors>>
  ELSE /\ leaked' = IF t \in active THEN leaked \union {t} ELSE leaked
       /\ phase' = [phase EXCEPT ![t] = "wait"]
       /\ killSignal' = [killSignal EXCEPT ![t] = FALSE]
       /\ collectors' = [collectors EXCEPT ![t] = Zero[t]]
       /\ active' = active \union {t}
       /\ UNCHANGED finished

KillMonitors(ts) ==
  killSignal' = [t \in Tasks |-> killSignal[t] \/ (t \in ts /\ t \in active)]

\* Mutant: the task stays active.
OnFinishedKeeps(t) ==
  /\ KillMonitors({t}) /\ active' = active
  /\ finished' = finished \union {t}
  /\ UNCHANGED <<leaked, phase, collectors>>

\* __on_finished
OnFinished(t) ==
  /\ KillMonitors({t}) /\ active' = active \ {t}
  /\ finished' = finished \union {t}
  /\ UNCHANGED <<leaked, phase, collectors>>

\* __on_active and __on_finished of a task that is found finished at once: its
\* resource monitor is started and killed.
OnActiveAndFinished(t) ==
  /\ leaked' = IF t \in active \ finished THEN leaked \union {t} ELSE leaked
  /\ phase' = IF t \in finished THEN phase ELSE [phase EXCEPT ![t] = "wait"]
  /\ killSignal' = [killSignal EXCEPT ![t] = @ \/ t \notin finished \/ t \in active]
  /\ collectors' = IF t \in finished THEN collectors ELSE [collectors EXCEPT ![t] = Zero[t]]
  /\ active' = active \ {t} /\ finished' = finished \union {t}

\* Mutant: the resource monitor of a removed task goes on.
OnRemovedSilent(ts) ==
  /\ active' = active \ ts /\ finished' = finished \ ts
  /\ UNCHANGED <<leaked, phase, killSignal, collectors>>

\* __on_finished and __on_removed
OnRemoved(ts) ==
  /\ KillMonitors(ts) /\ active' = active \ ts /\ finished' = finished \ ts
  /\ UNCHANGED <<leaked, phase, collectors>>

-----------------------------------------------------------------------------
(* ObserverTaskDetector.refresh *)

\* TaskObserver.run takes the lock.  A root that appears later may still be
\* listed here: that is a refresh in which its detector came last.
Refresh ==
  /\ pc = "idle" /\ pc' = "roots"
  /\ roots' = Roots /\ allActive' = {} /\ allFinished' = {}
  /\ present' = OnDisk
  /\ UNCHANGED <<monitorVars, loc, root, first, listed, detActive, detFinished, observerVars, missed>>

\* get_task_ids: one directory of the root, then the other.
List(r, s) == [listed EXCEPT ![s] = {t \in Tasks : RootOf[t] = r /\ loc[t] = s}]
Other(s) == CHOOSE o \in States : o # s

ListFirst(r, s) ==
  /\ pc = "roots" /\ r \in roots /\ pc' = "second"
  /\ roots' = roots \ {r} /\ root' = r /\ first' = s /\ listed' = List(r, s)
  /\ UNCHANGED <<monitorVars, loc, allActive, allFinished, detActive, detFinished,
                 observerVars, historyVars>>

ListSecond ==
  /\ pc = "second" /\ pc' = "entries" /\ listed' = List(root, Other(first))
  /\ UNCHANGED <<monitorVars, loc, roots, root, first, allActive, allFinished, detActive,
                 detFinished, observerVars, historyVars>>

\* The next entry of the listing.
Entry(t, s) ==
  /\ pc = "entries" /\ t \in listed[s]
  /\ s = Other(first) => listed[first] = {}
  /\ listed' = [listed EXCEPT ![s] = @ \ {t}]
  /\ UNCHANGED <<up, runs, loc, roots, root, first, historyVars>>

EntryActive(t) ==
  /\ Entry(t, "active")
  /\ allActive' = allActive \union {t}
  /\ \/ /\ t \in detActive
        /\ UNCHANGED <<pc, detActive, observerVars, phase, killSignal, collectors>>
     \/ /\ t \in detFinished \ detActive   \* assert False
        /\ pc' = "dead"
        /\ UNCHANGED <<detActive, observerVars, phase, killSignal, collectors>>
     \/ /\ t \notin detActive \union detFinished
        /\ detActive' = detActive \union {t} /\ OnActive(t)
        /\ UNCHANGED pc
  /\ UNCHANGED <<allFinished, detFinished>>

\* Mutant: a task that is first seen when it is finished is only noted.
EntryFinishedSilent(t) ==
  /\ Entry(t, "finished")
  /\ allFinished' = allFinished \union {t}
  /\ detActive' = detActive \ {t}
  /\ detFinished' = detFinished \union {t}
  /\ \/ t \in detActive /\ OnFinished(t)
     \/ t \notin detActive /\ UNCHANGED <<observerVars, phase, killSignal, collectors>>
  /\ UNCHANGED <<pc, allActive>>

\* Mutant: a finished task must have been seen active.
EntryFinishedAsserts(t) ==
  /\ Entry(t, "finished")
  /\ allFinished' = allFinished \union {t}
  /\ detActive' = detActive \ {t}
  /\ detFinished' = detFinished \union {t}
  /\ \/ t \in detActive /\ OnFinished(t) /\ UNCHANGED pc
     \/ /\ t \notin detActive
        /\ pc' = IF t \in detFinished THEN pc ELSE "dead"
        /\ UNCHANGED <<observerVars, phase, killSignal, collectors>>
  /\ UNCHANGED allActive

EntryFinished(t) ==
  /\ Entry(t, "finished")
  /\ allFinished' = allFinished \union {t}
  /\ detActive' = detActive \ {t}
  /\ detFinished' = detFinished \union {t}
  /\ \/ t \in detActive /\ OnFinished(t)
     \/ /\ t \in detFinished \ detActive
        /\ UNCHANGED <<observerVars, phase, killSignal, collectors>>
     \/ t \notin detActive \union detFinished /\ OnActiveAndFinished(t)
  /\ UNCHANGED <<pc, allActive>>

NextRoot ==
  /\ pc = "entries" /\ listed = NothingListed
  /\ pc' = IF roots = {} THEN "removal" ELSE "roots"
  /\ first' = "none"
  /\ UNCHANGED <<monitorVars, loc, roots, root, listed, allActive, allFinished, detActive,
                 detFinished, observerVars, historyVars>>

\* Tasks that no listing had are finished and removed; the lock is released.
Removal ==
  /\ pc = "removal" /\ pc' = "idle"
  /\ OnRemoved((detActive \union detFinished) \ (allActive \union allFinished))
  /\ detActive' = allActive /\ detFinished' = allFinished
  /\ missed' = [t \in Tasks |-> IF t \in (present \intersect OnDisk) \ (active' \union finished')
                                THEN missed[t] + 1 ELSE 0]
  /\ present' = {}
  /\ UNCHANGED <<up, runs, loc, roots, root, first, listed, allActive, allFinished>>

RefreshStep ==
  \/ Refresh \/ ListSecond \/ NextRoot \/ Removal
  \/ \E r \in Roots, s \in States : ListFirst(r, s)
  \/ \E t \in Tasks : EntryActive(t) \/ EntryFinished(t)

-----------------------------------------------------------------------------
(* Queries hold the lock too; only process() changes anything. *)

ProcessQuery(t, p) ==
  /\ pc = "idle" /\ t \in active /\ SampleByProcess(t, p)
  /\ UNCHANGED <<loc, detectorVars, observerVars, historyVars>>

Monitor(t) == MonitorThread(t) /\ UNCHANGED <<loc, detectorVars, observerVars, historyVars>>

Next ==
  \/ RefreshStep
  \/ \E t \in Tasks : Launch(t) \/ Finalize(t) \/ Collect(t) \/ Monitor(t)
                      \/ \E p \in ProcsOf[t] : Run(t, p) \/ ProcessQuery(t, p)

Spec == Init /\ [][Next]_vars

\* The refreshing thread polls for ever, the monitors run.
FairSpec == Spec /\ WF_vars(RefreshStep) /\ \A t \in Tasks : WF_vars(Monitor(t))

-----------------------------------------------------------------------------
(* Properties *)

\* No resource monitor is started over one that nobody has killed; those that
\* are started and not killed are exactly the ones of the active tasks
\* (task_observer.py __on_active, __on_finished, __on_removed).
OneMonitor ==
  /\ leaked = {}
  /\ \A t \in Tasks : (phase[t] # "off" /\ ~killSignal[t]) <=> t \in active

\* A task whose file moves between the two listings may be missed by a refresh,
\* and the observer forgets it; the next one finds it.
NeverMissedTwice == \A t \in Tasks : missed[t] <= 1

\* The observer shows a finished task as finished until it is removed; its
\* thread does not die of the order in which it saw the two files
\* (detector.py:86).  A monitor's thread that dies ends the observer.
FinishedShown ==
  \A t \in Tasks : loc[t] = "finished" ~>
     (t \in finished \/ loc[t] = "gone" \/ \E k \in Tasks : phase[k] = "dead")
=============================================================================
