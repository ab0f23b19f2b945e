----------------------------- MODULE KazooGroup ------------------------------
(***************************************************************************)
(* One member's dealings with a ZooKeeper group                            *)
(* (twitter/common/zookeeper/group/kazoo_group.py): join, cancel and the   *)
(* expiry callback, over a kazoo client whose connection drops and whose   *)
(* session expires.                                                        *)
(*                                                                         *)
(* Three threads of kazoo run the group's callbacks: the connection thread *)
(* its state listener, the completion thread the completions of requests,  *)
(* the watch thread the watches.  The client and the ensemble (Connect,    *)
(* Disconnect, Expire, Execute, Answer, Deleted) are external.             *)
(***************************************************************************)
EXTENDS Integers, FiniteSets

CONSTANTS
  MaxJoins,   \* bound on the calls of join
  MaxDrops,   \* bound on the connection losses
  MaxDeletes  \* bound on the znodes that someone else deletes

ASSUME GroupBounds == MaxJoins \in Nat \ {0} /\ MaxDrops \in Nat /\ MaxDeletes \in Nat

VARIABLES
  zk,        \* kazoo: CONNECTED, SUSPENDED or LOST
  notify,    \* kazoo's connection thread has not told its listeners yet
  nodes,     \* the member's ephemeral znodes that exist
  made,      \* znodes created so far; their numbers are 1..made
  watches,   \* <<j, n>>: exists_watch of join j is set on znode n
  reqs,      \* requests of the group that are not completed
  drops,     \* connection losses so far
  deletes,   \* deletions by others so far
  state,     \* __state of the group
  listening, \* add_listener has been called
  queue,     \* __listener_queue: [on, what, join, node]
  armed,     \* joins whose expiry_capture has not called its callback
  calls,     \* <<j, thread>>: expire_callback of join j is being called
  result,    \* what membership_capture of join j holds
  cancelled, \* a cancel has completed
  orphans,   \* live znodes whose create or delete was not answered
  unseen,    \* a connection was made before the listener was added (see Construct)
  unwatched  \* history: znodes that others deleted while nothing would tell (see Deleted)

zkVars == <<zk, notify, drops>>
ensembleVars == <<nodes, made, watches, deletes, orphans>>
captureVars == <<armed, calls, result, cancelled>>
groupVars ==
  <<zkVars, ensembleVars, captureVars, reqs, state, listening, queue, unseen, unwatched>>

Joins == 1 .. MaxJoins
MaxNodes == MaxJoins + MaxDrops
Pending == 0
Error == -1   \* Membership.error()
Memberships == {Error} \union 1 .. MaxNodes
NoJoin == 0
Threads == {"connection", "completion", "watch"}

Request == [op : {"create", "exists", "delete"}, join : {NoJoin} \union Joins,
            node : {Error} \union 0 .. MaxNodes,
            stage : {"sent", "executed", "answered", "refused", "lost"}]
Entry == [on : {"CONNECTED", "LOST"}, what : {"create", "exists", "delete", "notifier", "expire"},
          join : {NoJoin} \union Joins, node : {Error} \union 0 .. MaxNodes]

GroupTypeOK ==
  /\ zk \in {"CONNECTED", "SUSPENDED", "LOST"} /\ state \in {"CONNECTED", "SUSPENDED", "LOST"}
  /\ notify \in BOOLEAN /\ listening \in BOOLEAN /\ cancelled \in BOOLEAN /\ unseen \in BOOLEAN
  /\ made \in 0 .. MaxNodes /\ drops \in 0 .. MaxDrops /\ deletes \in 0 .. MaxDeletes
  /\ nodes \subseteq 1 .. made /\ orphans \subseteq nodes
  /\ watches \subseteq Joins \X nodes
  /\ \A r \in reqs : r.op = "delete" => r.node # Pending
  /\ reqs \subseteq Request /\ queue \subseteq Entry
  /\ armed \subseteq Joins /\ calls \subseteq Joins \X Threads
  /\ result \in [Joins -> Memberships \union {Pending}]
  /\ unwatched \subseteq 1 .. MaxNodes

\* The client has been started (start_async) before the group is constructed.
GroupInit ==
  /\ zk = "LOST" /\ notify = FALSE /\ nodes = {} /\ made = 0 /\ watches = {}
  /\ reqs = {} /\ drops = 0 /\ deletes = 0
  /\ state = "LOST" /\ listening = FALSE /\ queue = {}
  /\ armed = Joins /\ calls = {} /\ result = [j \in Joins |-> Pending]
  /\ cancelled = FALSE /\ orphans = {} /\ unseen = FALSE /\ unwatched = {}

Send(op, j, n) == [op |-> op, join |-> j, node |-> n, stage |-> "sent"]
Free(thread) == \A c \in calls : c[2] # thread
\* expiry_capture.set() of the joins in js on a thread.
SetExpiry(js, thread) == calls \union ((js \intersect armed) \X {thread})

-----------------------------------------------------------------------------
(* External: the kazoo client and the ensemble. *)

\* The connection thread, when its listeners have returned.
Switch(s) == zk' = s /\ notify' = listening
ConnectionIdle == ~notify /\ Free("connection")
\* Requests that get no answer from this connection.
Fail(rs) == {[r EXCEPT !.stage = IF @ \in {"sent", "executed"} THEN "lost" ELSE @] : r \in rs}
\* Znodes whose create was executed although its answer is lost.
Unanswered == {r.node : r \in {q \in reqs : q.op = "create" /\ q.stage = "executed"}}

Connect ==
  /\ ConnectionIdle /\ zk # "CONNECTED" /\ Switch("CONNECTED")
  /\ UNCHANGED <<drops, ensembleVars, captureVars, reqs, state, listening, queue>>
  /\ UNCHANGED <<unseen, unwatched>>

\* Kazoo fails the requests and drops the watches of a lost connection.
Disconnect ==
  /\ ConnectionIdle /\ zk = "CONNECTED" /\ drops < MaxDrops
  /\ Switch("SUSPENDED") /\ drops' = drops + 1
  /\ reqs' = Fail(reqs) /\ watches' = {}
  /\ orphans' = orphans \union (Unanswered \intersect nodes)
  /\ UNCHANGED <<nodes, made, deletes, captureVars, state, listening, queue, unseen, unwatched>>

\* The session expires at the ensemble, its ephemeral znodes go, and the client learns of it.
Expire ==
  /\ ConnectionIdle /\ zk = "SUSPENDED" /\ Switch("LOST")
  /\ nodes' = {} /\ orphans' = {} /\ watches' = {} /\ reqs' = Fail(reqs)
  /\ UNCHANGED <<drops, made, deletes, captureVars, state, listening, queue, unseen, unwatched>>

\* A znode goes; the watches set on it call exists_watch with DELETED.
Vanish(n) ==
  /\ nodes' = nodes \ {n} /\ orphans' = orphans \ {n}
  /\ watches' = {w \in watches : w[2] # n}
  /\ calls' = SetExpiry({w[1] : w \in {v \in watches : v[2] = n}}, "watch")

Execute(r) ==
  /\ r \in reqs /\ r.stage = "sent" /\ zk = "CONNECTED"
  /\ \/ /\ r.op = "create"
        /\ made' = made + 1 /\ nodes' = nodes \union {made'}
        /\ reqs' = (reqs \ {r}) \union {[r EXCEPT !.stage = "executed", !.node = made']}
        /\ UNCHANGED <<watches, calls, orphans>>
     \/ /\ r.op = "exists"
        /\ watches' = IF r.node \in nodes THEN watches \union {<<r.join, r.node>>} ELSE watches
        /\ reqs' = (reqs \ {r}) \union
             {[r EXCEPT !.stage = IF r.node \in nodes THEN "executed" ELSE "refused"]}
        /\ UNCHANGED <<made, nodes, calls, orphans>>
     \/ /\ r.op = "delete" /\ Free("watch")
        /\ Vanish(r.node)
        /\ reqs' = (reqs \ {r}) \union {[r EXCEPT !.stage = "executed"]}
        /\ UNCHANGED made
     \/ /\ r.op \in {"create", "delete"}  \* any other KazooException
        /\ reqs' = (reqs \ {r}) \union {[r EXCEPT !.stage = "refused"]}
        /\ orphans' = orphans \union ({r.node} \intersect nodes)
        /\ UNCHANGED <<made, nodes, watches, calls>>
  /\ UNCHANGED <<zkVars, deletes, armed, result, cancelled, state, listening, queue>>
  /\ UNCHANGED <<unseen, unwatched>>

Answer(r) ==
  /\ r \in reqs /\ r.stage = "executed" /\ zk = "CONNECTED"
  /\ reqs' = (reqs \ {r}) \union {[r EXCEPT !.stage = "answered"]}
  /\ UNCHANGED <<zkVars, ensembleVars, captureVars, state, listening, queue, unseen, unwatched>>

\* A watch on the znode, or a request that is still to check and watch it.  A
\* watch that a lost connection dropped after its answer is not set again.
Watched(n) ==
  \/ \E w \in watches : w[2] = n
  \/ \E r \in reqs :
        /\ r.node = n
        /\ \/ r.op = "create" /\ r.stage \in {"executed", "answered"}
           \/ r.op = "exists" /\ r.stage \in {"sent", "lost"}
  \/ \E q \in queue : q.what = "exists" /\ q.node = n

\* Someone else deletes the znode.
Deleted(n) ==
  /\ zk = "CONNECTED" /\ n \in nodes /\ deletes < MaxDeletes /\ Free("watch")
  /\ deletes' = deletes + 1 /\ Vanish(n)
  /\ unwatched' = IF Watched(n) THEN unwatched ELSE unwatched \union {n}
  /\ UNCHANGED <<zkVars, made, reqs, armed, result, cancelled, state, listening, queue, unseen>>

-----------------------------------------------------------------------------
(* The group. *)

\* __init__: __state is read (LOST, in GroupInit) before the listener is
\* added; a connection made in between is not seen.
Construct ==
  /\ ~listening /\ listening' = TRUE
  /\ unseen' = (zk # state)
  /\ UNCHANGED <<zkVars, ensembleVars, captureVars, reqs, state, queue, unwatched>>

\* _once(CONNECTED, do_create), do_exists or do_cancel: at once, or queued.
OnceConnected(op, j, n, rest) ==
  IF state = "CONNECTED"
  THEN reqs' = rest \union {Send(op, j, n)} /\ UNCHANGED queue
  ELSE /\ reqs' = rest
       /\ queue' = queue \union {[on |-> "CONNECTED", what |-> op, join |-> j, node |-> n]}

\* __state_listener, on the connection thread: the entries that waited for this state.
StateListener ==
  /\ notify /\ notify' = FALSE /\ state' = zk
  /\ LET triggered == {q \in queue : q.on = zk} IN
       /\ queue' = (queue \ triggered) \union
            {[on |-> "LOST", what |-> "expire", join |-> q.join, node |-> 0] :
               q \in {t \in triggered : t.what = "notifier"}}
       /\ reqs' = reqs \union
            {Send(q.what, q.join, q.node) :
               q \in {t \in triggered : t.what \in {"create", "exists", "delete"}}}
       /\ calls' = SetExpiry({q.join : q \in {t \in triggered : t.what = "expire"}}, "connection")
  /\ UNCHANGED <<zk, drops, ensembleVars, armed, result, cancelled, listening, unseen, unwatched>>

\* Mutant: a lost connection is taken for a lost session.
NotifierTooEager(j) ==
  IF state = "CONNECTED" THEN [on |-> "SUSPENDED", what |-> "expire", join |-> j, node |-> 0]
                         ELSE [on |-> "CONNECTED", what |-> "notifier", join |-> j, node |-> 0]

\* The expire notifier waits for CONNECTED, then for LOST.
Notifier(j) ==
  IF state = "CONNECTED" THEN [on |-> "LOST", what |-> "expire", join |-> j, node |-> 0]
                         ELSE [on |-> "CONNECTED", what |-> "notifier", join |-> j, node |-> 0]

\* acreate_completion
CreateCompletion(r) ==
  /\ r.op = "create"
  /\ \/ /\ r.stage = "lost"
        /\ OnceConnected("create", r.join, 0, reqs \ {r})
        /\ UNCHANGED result
     \/ /\ r.stage = "refused"
        /\ result' = [result EXCEPT ![r.join] = Error]
        /\ reqs' = reqs \ {r} /\ UNCHANGED queue
     \/ /\ r.stage = "answered"
        /\ queue' = queue \union {Notifier(r.join)}
        /\ reqs' = (reqs \ {r}) \union {Send("exists", r.join, r.node)}
        /\ result' = [result EXCEPT ![r.join] = r.node]
  /\ UNCHANGED <<calls, cancelled>>

\* Mutant: a znode that is already gone is not reported.
ExistsCompletionSilent(r) ==
  /\ r.op = "exists"
  /\ \/ /\ r.stage = "lost"
        /\ OnceConnected("exists", r.join, r.node, reqs \ {r})
     \/ /\ r.stage \in {"answered", "refused"}
        /\ reqs' = reqs \ {r} /\ UNCHANGED queue
  /\ UNCHANGED <<calls, result, cancelled>>

\* exists_completion
ExistsCompletion(r) ==
  /\ r.op = "exists"
  /\ \/ /\ r.stage = "lost"
        /\ OnceConnected("exists", r.join, r.node, reqs \ {r})
        /\ UNCHANGED calls
     \/ /\ r.stage \in {"answered", "refused"}
        /\ calls' = IF r.stage = "refused" THEN SetExpiry({r.join}, "completion") ELSE calls
        /\ reqs' = reqs \ {r} /\ UNCHANGED queue
  /\ UNCHANGED <<result, cancelled>>

\* adelete_completion
DeleteCompletion(r) ==
  /\ r.op = "delete"
  /\ \/ /\ r.stage = "lost"
        /\ OnceConnected("delete", r.join, r.node, reqs \ {r})
        /\ UNCHANGED cancelled
     \/ /\ r.stage \in {"answered", "refused"}
        /\ cancelled' = TRUE /\ reqs' = reqs \ {r} /\ UNCHANGED queue
  /\ UNCHANGED <<calls, result>>

Complete(r) ==
  /\ r \in reqs /\ r.stage \in {"answered", "refused", "lost"} /\ Free("completion")
  /\ CreateCompletion(r) \/ ExistsCompletion(r) \/ DeleteCompletion(r)
  /\ UNCHANGED <<zkVars, ensembleVars, armed, state, listening, unseen, unwatched>>

\* join and cancel, on the caller's thread; the caller then waits for result or cancelled.
Join(j) == reqs' = reqs \union {Send("create", j, 0)}
Cancel(n) == reqs' = reqs \union {Send("delete", NoJoin, n)}

\* The callback of a Capture has returned: it is not called again.
Returned(c) == armed' = armed \ {c[1]} /\ calls' = calls \ {c}

Environment ==
  \/ Connect \/ Disconnect \/ Expire
  \/ \E r \in reqs : Execute(r) \/ Answer(r)
  \/ \E n \in nodes : Deleted(n)

GroupStep == Construct \/ StateListener \/ \E r \in reqs : Complete(r)

=============================================================================
