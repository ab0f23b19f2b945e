------------------------------ MODULE Announcer ------------------------------
(***************************************************************************)
(* The announcer of a task (executor/common/announcer.py): it joins the    *)
(* task's server set, joins again when its session expires, and leaves it  *)
(* when the executor stops it.  The server set passes join and cancel on   *)
(* to a KazooGroup.                                                        *)
(*                                                                         *)
(* The join thread runs here, the expiry callback on kazoo's threads, and  *)
(* start and stop of the status checker on deferred threads.               *)
(***************************************************************************)
EXTENDS KazooGroup

VARIABLES
  checker,    \* AnnouncerChecker: waiting for the connection, failed, started
  thread,     \* _thread is set
  pc,         \* the ServerSetJoinThread: none, check, wait, clear, enter, joining,
              \* assign, assigned, dead, exited
  rejoin,     \* _rejoin_event
  stopEvent,  \* _stopped of the thread
  membership, \* _membership; NoMember is None
  connected,  \* _membership_termination is None: disconnected_time() is 0
  joins,      \* calls of join so far
  stopping,   \* Announcer.stop: none, test, cancel, wait, done, raised
  untracked   \* znodes that came after stop looked, or that a late expiry call forgot

annVars == <<checker, thread, pc, rejoin, stopEvent, membership, connected, joins, stopping, untracked>>
vars == <<groupVars, annVars>>

NoMember == 0
Gone == pc \in {"dead", "exited"}

TypeOK ==
  /\ GroupTypeOK
  /\ checker \in {"waiting", "failed", "started"}
  /\ thread \in BOOLEAN /\ rejoin \in BOOLEAN /\ stopEvent \in BOOLEAN /\ connected \in BOOLEAN
  /\ pc \in {"none", "check", "wait", "clear", "enter", "joining", "assign", "assigned",
             "dead", "exited"}
  /\ membership \in Memberships \union {NoMember}
  /\ joins \in 0 .. MaxJoins
  /\ stopping \in {"none", "test", "cancel", "wait", "done", "raised"}
  /\ untracked \subseteq 1 .. MaxNodes

Init ==
  /\ GroupInit
  /\ checker = "waiting" /\ thread = FALSE /\ pc = "none" /\ rejoin = FALSE
  /\ stopEvent = FALSE /\ membership = NoMember /\ connected = FALSE /\ joins = 0
  /\ stopping = "none" /\ untracked = {}

-----------------------------------------------------------------------------
(* AnnouncerChecker: _start waits for the connection, stop is deferred too. *)

Start ==
  /\ checker = "waiting" /\ listening /\ zk = "CONNECTED"
  /\ checker' = "started" /\ thread' = TRUE /\ pc' = "check" /\ rejoin' = TRUE
  /\ UNCHANGED <<groupVars, stopEvent, membership, connected, joins, stopping, untracked>>

\* "Creating Announcer Serverset timed out."
StartTimesOut ==
  /\ checker = "waiting" /\ listening /\ zk # "CONNECTED"
  /\ checker' = "failed"
  /\ UNCHANGED <<groupVars, thread, pc, rejoin, stopEvent, membership, connected, joins,
                 stopping, untracked>>

\* Announcer.stop; an announcer that has not started has no thread to stop.
Stop ==
  /\ stopping = "none" /\ listening
  /\ \/ /\ thread
        /\ thread' = FALSE /\ stopEvent' = TRUE /\ stopping' = "test"
     \/ /\ ~thread /\ stopping' = "raised"
        /\ UNCHANGED <<thread, stopEvent>>
  /\ UNCHANGED <<groupVars, checker, pc, rejoin, membership, connected, joins, untracked>>

\* if self._membership
StopTest ==
  /\ stopping = "test"
  /\ stopping' = IF membership = NoMember THEN "done" ELSE "cancel"
  /\ UNCHANGED <<groupVars, checker, thread, pc, rejoin, stopEvent, membership, connected,
                 joins, untracked>>

\* self._serverset.cancel(self._membership): it may have expired since.
StopCancel ==
  /\ stopping = "cancel"
  /\ \/ /\ membership = NoMember /\ stopping' = "raised"
        /\ UNCHANGED reqs
     \/ /\ membership # NoMember /\ stopping' = "wait"
        /\ Cancel(membership)
  /\ UNCHANGED <<zkVars, ensembleVars, captureVars, state, listening, queue, unseen, unwatched>>
  /\ UNCHANGED <<checker, thread, pc, rejoin, stopEvent, membership, connected, joins, untracked>>

StopDone ==
  /\ stopping = "wait" /\ cancelled /\ stopping' = "done"
  /\ UNCHANGED <<groupVars, checker, thread, pc, rejoin, stopEvent, membership, connected,
                 joins, untracked>>

-----------------------------------------------------------------------------
(* ServerSetJoinThread *)

Goto(l) ==
  /\ pc' = l
  /\ UNCHANGED <<groupVars, checker, thread, stopEvent, membership, connected, joins, stopping, untracked>>

\* Mutant: the loop never looks at the stop event.
CheckNot == pc = "check" /\ Goto("wait") /\ UNCHANGED rejoin

Check == pc = "check" /\ Goto(IF stopEvent THEN "exited" ELSE "wait") /\ UNCHANGED rejoin

\* The event is set, or the wait times out.
Wait == pc = "wait" /\ Goto(IF rejoin THEN "clear" ELSE "check") /\ UNCHANGED rejoin

Clear == pc = "clear" /\ rejoin' = FALSE /\ Goto("enter")

\* _join: with a membership it raises and the thread dies.  A join that raises
\* is tried again after a pause: no step here.
Enter ==
  /\ pc = "enter"
  /\ \/ /\ membership # NoMember /\ pc' = "dead"
        /\ UNCHANGED <<joins, reqs>>
     \/ /\ membership = NoMember /\ joins < MaxJoins
        /\ joins' = joins + 1 /\ Join(joins') /\ pc' = "joining"
  /\ UNCHANGED <<zkVars, ensembleVars, captureVars, state, listening, queue, unseen, unwatched>>
  /\ UNCHANGED <<checker, thread, rejoin, stopEvent, membership, connected, stopping, untracked>>

Joined == pc = "joining" /\ result[joins] # Pending /\ Goto("assign") /\ UNCHANGED rejoin

\* self._membership = self._join_inner()
Assign ==
  /\ pc = "assign" /\ pc' = "assigned"
  /\ membership' = result[joins]
  /\ untracked' = IF stopping \in {"none", "test"} THEN untracked ELSE untracked \union ({result[joins]} \ {Error})
  /\ UNCHANGED <<groupVars, checker, thread, rejoin, stopEvent, connected, joins, stopping>>

\* self._membership_termination = None
Connected ==
  /\ pc = "assigned" /\ pc' = "check" /\ connected' = TRUE
  /\ UNCHANGED <<groupVars, checker, thread, rejoin, stopEvent, membership, joins, stopping, untracked>>

JoinThread == Check \/ Wait \/ Clear \/ Enter \/ Joined \/ Assign \/ Connected

\* on_expiration, on the thread of kazoo that found the membership gone.  Two
\* threads that enter Capture.set together both call it; a late call, for this or
\* for an earlier membership, may find a later one there and forget it.
OnExpiration(c) ==
  /\ c \in calls /\ Returned(c)
  /\ membership' = NoMember
  /\ \/ ~thread /\ UNCHANGED <<connected, rejoin>>
     \/ thread /\ connected' = FALSE /\ rejoin' = TRUE
  /\ untracked' = untracked \union ({membership} \ {NoMember, Error, result[c[1]]})
  /\ UNCHANGED <<zkVars, ensembleVars, result, cancelled, reqs, state, listening, queue, unseen, unwatched>>
  /\ UNCHANGED <<checker, thread, pc, stopEvent, joins, stopping>>

-----------------------------------------------------------------------------

Stopping == StopTest \/ StopCancel \/ StopDone
AnnouncerStep == Start \/ StartTimesOut \/ Stop \/ Stopping \/ JoinThread
                 \/ \E c \in calls : OnExpiration(c)

Next == ((Environment \/ GroupStep) /\ UNCHANGED annVars) \/ AnnouncerStep

Spec == Init /\ [][Next]_vars

\* Every thread runs; nobody has to stop the announcer or drop the connection.
FairSpec ==
  /\ Spec
  /\ WF_vars(Connect /\ UNCHANGED annVars)
  /\ WF_vars(GroupStep /\ UNCHANGED annVars)
  /\ WF_vars((\E r \in reqs : Execute(r)) /\ UNCHANGED annVars)
  /\ WF_vars((\E r \in reqs : Answer(r)) /\ UNCHANGED annVars)
  /\ WF_vars(JoinThread) /\ WF_vars(Stopping) /\ WF_vars(\E c \in calls : OnExpiration(c))

-----------------------------------------------------------------------------
(* Properties *)

\* The answers of joins that the thread has not assigned yet.
InFlight == {r.node : r \in {q \in reqs : q.op = "create"}}
            \union (IF pc \in {"joining", "assign"} THEN {result[joins]} ELSE {})

\* Whatever happens to connections, sessions and threads, a live znode of the
\* task is the one the announcer holds, the answer of the join in progress, one
\* whose create or cancel the ensemble did not answer, one that a join brought
\* after stop had looked, or one that a late expiry call made it forget: no other
\* way leads to a second live znode, and what the announcer holds it gives up when
\* it stops (announcer.py _join, stop, on_expiration).
Accounted ==
  nodes \subseteq orphans \union InFlight \union untracked
                  \union (IF stopping \in {"done", "raised"} THEN {} ELSE {membership})

\* A running announcer whose znode does not exist.
Away == thread /\ membership \notin nodes
\* It has one again, or an error membership; it was stopped; its thread died of an
\* expiry that overtook the assignment of the membership it ended, and the
\* executor with it; the group took a connection for none; or someone deleted the
\* znode after a lost connection had dropped its watch.
Back ==
  \/ membership \in nodes \union {Error} \union unwatched
  \/ ~thread \/ pc = "dead" \/ unseen

\* An announcer whose znode went, with its session or by someone's hand, before or
\* after the join that created it returned, announces the task again
\* (announcer.py on_expiration, kazoo_group.py exists_watch, exists_completion and
\* expire_notifier).  The callback is promised "for any reason"
\* (group_base.py:56-57, serverset.py:97-98): `unseen` and `unwatched` are the two
\* losses for which the code does not keep that promise.
Rejoins == Away ~> Back

\* A stop comes to its end, and the join thread with it, also when the
\* connection or the session is lost in the middle of a join or a cancel
\* (announcer.py stop, kazoo_group.py adelete_completion).
StopEnds == (stopping = "test") ~> (stopping \in {"done", "raised"} /\ Gone)
=============================================================================
