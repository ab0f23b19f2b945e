-------------------------- MODULE AnnouncerProofs ----------------------------
(***************************************************************************)
(* Every znode of the task is accounted for, for every number of joins,    *)
(* lost connections and deletes.                                           *)
(*                                                                         *)
(* The argument follows a znode.  A create is on its way only while the    *)
(* join thread waits for it, so there is at most one, and it is that of    *)
(* the join in progress; its answer is the result of that join, which the  *)
(* thread assigns before it joins again.  The membership is given up in    *)
(* two ways: on_expiration is called for a znode only when that is gone,   *)
(* and stop cancels it, where an answer to the delete means that it is     *)
(* gone and a lost one makes it an orphan.  What else is live is an orphan *)
(* or untracked.  Each join makes one znode, and a create that is sent     *)
(* again one more for a lost connection, which bounds their number.        *)
(***************************************************************************)
EXTENDS Announcer, TLAPS

\* What requests and entries are: their znodes are among those made.
Known == {Error} \union 0 .. made
Sent == [op : {"create", "exists", "delete"}, join : {NoJoin} \union Joins, node : Known,
         stage : {"sent", "executed", "answered", "refused", "lost"}]
Queued == [on : {"CONNECTED", "LOST"}, what : {"create", "exists", "delete", "notifier", "expire"},
           join : {NoJoin} \union Joins, node : Known]

Types ==
  /\ zk \in {"CONNECTED", "SUSPENDED", "LOST"} /\ state \in {"CONNECTED", "SUSPENDED", "LOST"}
  /\ notify \in BOOLEAN /\ listening \in BOOLEAN /\ cancelled \in BOOLEAN /\ unseen \in BOOLEAN
  /\ made \in Nat /\ drops \in 0 .. MaxDrops /\ deletes \in 0 .. MaxDeletes
  /\ nodes \subseteq 1 .. made /\ orphans \subseteq nodes
  /\ reqs \subseteq Sent /\ queue \subseteq Queued
  /\ watches \subseteq Joins \X nodes
  /\ armed \subseteq Joins /\ calls \subseteq Joins \X Threads
  /\ result \in [Joins -> Known] /\ unwatched \subseteq 1 .. made

ThreadTypes ==
  /\ checker \in {"waiting", "failed", "started"}
  /\ thread \in BOOLEAN /\ rejoin \in BOOLEAN /\ stopEvent \in BOOLEAN /\ connected \in BOOLEAN
  /\ pc \in {"none", "check", "wait", "clear", "enter", "joining", "assign", "assigned",
             "dead", "exited"}
  /\ membership \in Known /\ joins \in 0 .. MaxJoins
  /\ stopping \in {"none", "test", "cancel", "wait", "done", "raised"}
  /\ untracked \subseteq 1 .. made

\* The thread holds no membership while it joins, and joins in order.
Joining ==
  /\ checker = "waiting" => pc = "none"
  /\ stopping = "none" /\ pc # "none" => thread
  /\ pc \in {"none", "joining", "assign"} => membership = NoMember
  /\ pc \in {"joining", "assign"} => joins \in Joins
  /\ pc = "assign" => result[joins] # Pending
  /\ \A j \in Joins : j > joins => result[j] = Pending

\* At most one create is on its way, that of the join in progress.
Creates ==
  /\ \A r \in reqs : r.op = "create" =>
       /\ pc = "joining" /\ r.join = joins /\ result[joins] = Pending
       /\ r.stage \in {"sent", "refused"} => r.node = 0
       /\ r.stage \in {"executed", "answered"} => r.node \in 1 .. made
       /\ r.stage = "lost" => r.node \notin nodes \ orphans
  /\ \A q \in queue : q.what = "create" =>
       pc = "joining" /\ q.join = joins /\ q.node = 0 /\ result[joins] = Pending
  /\ \A r, s \in reqs : r.op = "create" /\ s.op = "create" => r = s
  /\ \A r \in reqs, q \in queue : ~(r.op = "create" /\ q.what = "create")

\* What is watched or was called for is the znode of a join; it is called for
\* only when it is gone.
Watching ==
  /\ \A r \in reqs : r.op = "exists" =>
       /\ r.join \in Joins /\ r.node = result[r.join] /\ r.node \in 1 .. made
       /\ r.stage = "refused" => r.node \notin nodes
  /\ \A q \in queue :
       /\ q.what = "exists" => q.join \in Joins /\ q.node = result[q.join] /\ q.node \in 1 .. made
       /\ q.what \in {"notifier", "expire"} => q.join \in Joins /\ result[q.join] # Pending
       /\ q.what = "expire" <=> q.on = "LOST"
  /\ \A w \in watches : w[2] = result[w[1]]
  /\ \A c \in calls : result[c[1]] # Pending /\ result[c[1]] \notin nodes

\* A session that is lost took its znodes along, a connection its answers.
Sessions ==
  /\ zk = "LOST" => nodes = {}
  /\ zk # "CONNECTED" => \A r \in reqs : r.stage # "executed"

\* Znodes that are neither given up nor known to be beyond reach.
Held == nodes \ (orphans \union untracked)

\* A cancel that was answered has deleted the membership it was called with.
Deletes ==
  /\ \A r \in reqs : r.op = "delete" =>
       /\ r.node # Pending
       /\ r.stage \in {"executed", "answered", "refused"} => r.node \notin nodes \ orphans
  /\ \A q \in queue : q.what = "delete" => q.node # Pending
  /\ stopping \notin {"wait", "done"} =>
       /\ ~cancelled /\ \A r \in reqs : r.op # "delete"
       /\ \A q \in queue : q.what # "delete"
  /\ stopping = "wait" /\ membership \in Held =>
       /\ ~cancelled
       /\ \A r \in reqs : r.op = "delete" => r.node = membership
       /\ \A q \in queue : q.what = "delete" => q.node = membership

\* A create that has not been executed, or not been answered, will make a znode.
Open ==
  \/ \E q \in queue : q.what = "create"
  \/ \E r \in reqs : r.op = "create" /\ r.stage \in {"sent", "lost"}

\* One znode for every join, and one more for every lost connection.
Counted == made <= joins + drops /\ (Open => made < joins + drops)

\* Accounted, znode by znode.
EachAccounted ==
  \A n \in Held :
    \/ \E r \in reqs : r.op = "create" /\ r.node = n
    \/ pc \in {"joining", "assign"} /\ n = result[joins]
    \/ stopping \notin {"done", "raised"} /\ n = membership

AnnInv ==
  /\ Types /\ ThreadTypes /\ Joining /\ Creates /\ Watching /\ Sessions /\ Deletes
  /\ Counted /\ EachAccounted

-----------------------------------------------------------------------------

\* Initially there is no znode and no request.
LEMMA InitAnn == Init => AnnInv
<1> SUFFICES ASSUME Init PROVE AnnInv
  OBVIOUS
<1> USE DEF Init, GroupInit
<1>1. Types /\ ThreadTypes
  <2>1. 0 \in Known /\ 0 \in 0 .. MaxJoins /\ 0 \in 0 .. MaxDrops /\ 0 \in 0 .. MaxDeletes
    BY GroupBounds DEF Known
  <2>2. Types
    BY <2>1 DEF Types, Pending
  <2>3. ThreadTypes
    BY <2>1 DEF ThreadTypes, NoMember
  <2> QED
    BY <2>2, <2>3
<1>2. Joining /\ Creates /\ Watching /\ Sessions /\ Deletes
  BY GroupBounds DEF Joining, Creates, Watching, Sessions, Deletes, Held, Joins, NoMember
<1>3. Counted /\ EachAccounted
  BY GroupBounds DEF Counted, Open, EachAccounted, Held
<1> QED
  BY <1>1, <1>2, <1>3 DEF AnnInv

\* The connection comes back.
LEMMA ConnectInv ==
  ASSUME AnnInv, Connect, UNCHANGED annVars
  PROVE  AnnInv'
<1> USE DEF Connect, Switch, annVars, ensembleVars, captureVars
<1>1. Types' /\ ThreadTypes'
  BY DEF AnnInv, Types, ThreadTypes, Known, Sent, Queued
<1>2. Joining' /\ Creates' /\ Watching' /\ Sessions'
  BY DEF AnnInv, Joining, Creates, Watching, Sessions
<1>3. Deletes' /\ Counted' /\ EachAccounted'
  BY DEF AnnInv, Deletes, Counted, Open, EachAccounted, Held
<1> QED
  BY <1>1, <1>2, <1>3 DEF AnnInv

\* A request whose answer is lost is otherwise what it was.
Failed(r) == [r EXCEPT !.stage = IF @ \in {"sent", "executed"} THEN "lost" ELSE @]

LEMMA FailFacts ==
  ASSUME NEW rs \in SUBSET Sent
  PROVE  /\ Fail(rs) \subseteq Sent
         /\ \A r \in Fail(rs) : \E s \in rs : r = Failed(s)
         /\ \A s \in rs : /\ Failed(s) \in Fail(rs) /\ Failed(s).op = s.op
                          /\ Failed(s).join = s.join /\ Failed(s).node = s.node
                          /\ Failed(s).stage = IF s.stage \in {"sent", "executed"} THEN "lost"
                                               ELSE s.stage
<1>1. \A s \in rs : /\ Failed(s) \in Sent /\ Failed(s).op = s.op
                    /\ Failed(s).join = s.join /\ Failed(s).node = s.node
                    /\ Failed(s).stage = IF s.stage \in {"sent", "executed"} THEN "lost"
                                         ELSE s.stage
  BY DEF Failed, Sent
<1>2. Fail(rs) = {Failed(s) : s \in rs}
  BY DEF Fail, Failed
<1> QED
  BY <1>1, <1>2

\* The connection is lost, and with it the answers; what was created without one
\* is beyond reach.
LEMMA DisconnectInv ==
  ASSUME AnnInv, Disconnect, UNCHANGED annVars
  PROVE  AnnInv'
<1> USE DEF Disconnect, Switch, annVars, captureVars
<1>1. /\ Fail(reqs) \subseteq Sent
      /\ \A r \in Fail(reqs) : \E s \in reqs : r = Failed(s)
      /\ \A s \in reqs : /\ Failed(s) \in Fail(reqs) /\ Failed(s).op = s.op
                         /\ Failed(s).join = s.join /\ Failed(s).node = s.node
                         /\ Failed(s).stage = IF s.stage \in {"sent", "executed"} THEN "lost"
                                              ELSE s.stage
  BY FailFacts DEF AnnInv, Types
<1>2. orphans \subseteq orphans' /\ orphans' \subseteq nodes
  BY DEF AnnInv, Types
<1>3. \A r \in reqs : r.op = "create" /\ r.stage = "executed" => r.node \notin nodes \ orphans'
  BY DEF Unanswered
<1>4. drops' = drops + 1 /\ drops \in 0 .. MaxDrops /\ drops' \in 0 .. MaxDrops
  BY GroupBounds DEF AnnInv, Types
<1>5. Types' /\ ThreadTypes'
  BY <1>1, <1>2, <1>4 DEF AnnInv, Types, ThreadTypes, Known, Sent, Queued
<1>6. Joining' /\ Sessions'
  BY <1>1 DEF AnnInv, Joining, Sessions
<1>7. Creates'
  BY <1>1, <1>2, <1>3 DEF AnnInv, Creates, Types
<1>8. Watching'
  BY <1>1 DEF AnnInv, Watching
<1>9. Deletes'
  BY <1>1, <1>2 DEF AnnInv, Deletes, Held
<1>10. Counted'
  BY <1>4 DEF AnnInv, Counted, Types, ThreadTypes
<1>11. EachAccounted'
  BY <1>1, <1>2 DEF AnnInv, EachAccounted, Held
<1> QED
  BY <1>5, <1>6, <1>7, <1>8, <1>9, <1>10, <1>11 DEF AnnInv

\* The session expires, and no znode of it is left.
LEMMA ExpireInv ==
  ASSUME AnnInv, Expire, UNCHANGED annVars
  PROVE  AnnInv'
<1> USE DEF Expire, Switch, annVars, captureVars
<1>1. /\ Fail(reqs) \subseteq Sent
      /\ \A r \in Fail(reqs) : \E s \in reqs : r = Failed(s)
      /\ \A s \in reqs : /\ Failed(s) \in Fail(reqs) /\ Failed(s).op = s.op
                         /\ Failed(s).join = s.join /\ Failed(s).node = s.node
                         /\ Failed(s).stage = IF s.stage \in {"sent", "executed"} THEN "lost"
                                              ELSE s.stage
  BY FailFacts DEF AnnInv, Types
<1>2. Types' /\ ThreadTypes'
  BY <1>1 DEF AnnInv, Types, ThreadTypes, Known, Sent, Queued
<1>3. Joining' /\ Sessions'
  BY <1>1 DEF AnnInv, Joining, Sessions
<1>4. Creates'
  BY <1>1 DEF AnnInv, Creates, Types
<1>5. Watching'
  BY <1>1 DEF AnnInv, Watching
<1>6. Deletes'
  BY <1>1 DEF AnnInv, Deletes, Held
<1>7. Counted'
  <2>1. \A s \in reqs : s.stage # "executed"
    BY DEF AnnInv, Sessions
  <2>2. Open' => Open
    BY <1>1, <2>1 DEF Open
  <2> QED
    BY <2>2 DEF AnnInv, Counted
<1>8. EachAccounted'
  BY DEF EachAccounted, Held
<1> QED
  BY <1>2, <1>3, <1>4, <1>5, <1>6, <1>7, <1>8 DEF AnnInv

\* The callbacks that are called when the expiry of some joins is set.
LEMMA ExpiryFacts ==
  ASSUME NEW js \in SUBSET Joins, NEW t \in Threads, calls \subseteq Joins \X Threads
  PROVE  /\ SetExpiry(js, t) \subseteq Joins \X Threads
         /\ \A c \in SetExpiry(js, t) : c \in calls \/ c[1] \in js
  BY DEF SetExpiry

\* A znode goes, and whoever watches it is called.
LEMMA VanishFacts ==
  ASSUME AnnInv, NEW n, Vanish(n)
  PROVE  /\ nodes' = nodes \ {n} /\ orphans' = orphans \ {n} /\ orphans' \subseteq nodes'
         /\ watches' \subseteq watches /\ watches' \subseteq Joins \X nodes'
         /\ calls' \subseteq Joins \X Threads
         /\ \A c \in calls' : result[c[1]] # Pending /\ result[c[1]] \notin nodes'
<1> USE DEF Vanish
<1> DEFINE js == {w[1] : w \in {v \in watches : v[2] = n}}
<1>1. /\ watches \subseteq Joins \X nodes /\ calls \subseteq Joins \X Threads
      /\ orphans \subseteq nodes /\ nodes \subseteq 1 .. made /\ made \in Nat
  BY DEF AnnInv, Types
<1>2. js \in SUBSET Joins /\ "watch" \in Threads
  BY <1>1 DEF Threads
<1>3. \A j \in js : result[j] = n /\ n \in nodes
  BY <1>1 DEF AnnInv, Watching
<1>4. /\ calls' \subseteq Joins \X Threads
      /\ \A c \in calls' : c \in calls \/ c[1] \in js
  <2>1. calls' = SetExpiry(js, "watch")
    OBVIOUS
  <2> HIDE DEF js
  <2> QED
    BY <1>1, <1>2, <2>1, ExpiryFacts
<1> HIDE DEF js
<1>5. \A c \in calls' : result[c[1]] # Pending /\ result[c[1]] \notin nodes'
  BY <1>1, <1>3, <1>4 DEF AnnInv, Watching, Pending
<1>6. watches' \subseteq watches /\ watches' \subseteq Joins \X nodes'
  BY <1>1
<1> QED
  BY <1>1, <1>4, <1>5, <1>6

\* Someone else deletes a znode.
LEMMA DeletedInv ==
  ASSUME AnnInv, NEW n \in nodes, Deleted(n), UNCHANGED annVars
  PROVE  AnnInv'
<1> USE DEF Deleted, zkVars, annVars
<1>1. /\ nodes' = nodes \ {n} /\ orphans' = orphans \ {n} /\ orphans' \subseteq nodes'
      /\ watches' \subseteq watches /\ watches' \subseteq Joins \X nodes'
      /\ calls' \subseteq Joins \X Threads
      /\ \A c \in calls' : result[c[1]] # Pending /\ result[c[1]] \notin nodes'
  BY VanishFacts
<1>2. deletes' \in 0 .. MaxDeletes
  BY GroupBounds DEF AnnInv, Types
<1>3. unwatched' \subseteq 1 .. made'
  BY DEF AnnInv, Types
<1>4. Types' /\ ThreadTypes'
  BY <1>1, <1>2, <1>3 DEF AnnInv, Types, ThreadTypes, Known, Sent, Queued
<1>5. Joining' /\ Creates' /\ Sessions'
  BY <1>1 DEF AnnInv, Joining, Creates, Sessions
<1>6. Watching'
  BY <1>1 DEF AnnInv, Watching
<1>7. Deletes' /\ Counted' /\ EachAccounted'
  BY <1>1 DEF AnnInv, Deletes, Counted, Open, EachAccounted, Held
<1> QED
  BY <1>4, <1>5, <1>6, <1>7 DEF AnnInv

\* The ensemble creates a znode: it is the one the join in progress asked for.
LEMMA ExecuteCreateInv ==
  ASSUME AnnInv, UNCHANGED annVars, NEW r \in reqs, r.stage = "sent", zk = "CONNECTED",
         r.op = "create", made' = made + 1, nodes' = nodes \union {made'},
         reqs' = (reqs \ {r}) \union {[r EXCEPT !.stage = "executed", !.node = made']},
         UNCHANGED <<watches, calls, orphans>>,
         UNCHANGED <<zkVars, deletes, armed, result, cancelled, state, listening, queue>>,
         UNCHANGED <<unseen, unwatched>>
  PROVE  AnnInv'
<1> USE DEF zkVars, annVars
<1>1. /\ made \in Nat /\ nodes \subseteq 1 .. made /\ reqs \subseteq Sent /\ queue \subseteq Queued
      /\ orphans \subseteq nodes /\ result \in [Joins -> Known]
      /\ untracked \subseteq 1 .. made /\ membership \in Known
  BY DEF AnnInv, Types, ThreadTypes
<1>2. PICK x : x = [r EXCEPT !.stage = "executed", !.node = made']
  OBVIOUS
<1>3. /\ x.op = "create" /\ x.join = r.join /\ x.node = made' /\ x.stage = "executed"
      /\ x \in Sent'
  <2>1. made' \in Known'
    BY <1>1 DEF Known
  <2>2. r \in [op : {"create", "exists", "delete"}, join : {NoJoin} \union Joins, node : Known,
               stage : {"sent", "executed", "answered", "refused", "lost"}]
    BY <1>1 DEF Sent
  <2> QED
    BY <1>2, <2>1, <2>2 DEF Sent
<1>4. Known \subseteq Known' /\ Sent \subseteq Sent' /\ Queued \subseteq Queued'
  BY <1>1 DEF Known, Sent, Queued
<1>5. reqs' = (reqs \ {r}) \union {x}
  BY <1>2
<1>6. /\ pc = "joining" /\ r.join = joins /\ result[joins] = Pending
      /\ \A s \in reqs : s.op = "create" => s = r
      /\ \A q \in queue : q.what # "create"
  BY DEF AnnInv, Creates
<1>7. made' \notin nodes /\ made' \notin Known
  BY <1>1 DEF Known, Error
<1>8. Types' /\ ThreadTypes'
  <2>1. nodes' \subseteq 1 .. made' /\ orphans' \subseteq nodes' /\ untracked' \subseteq 1 .. made'
        /\ made' \in Nat
    BY <1>1
  <2>2. watches' \subseteq Joins \X nodes'
    BY DEF AnnInv, Types
  <2>3. reqs' \subseteq Sent' /\ queue' \subseteq Queued' /\ result' \in [Joins -> Known']
        /\ membership' \in Known'
    BY <1>1, <1>3, <1>4, <1>5
  <2>4. Types'
    BY <2>1, <2>2, <2>3 DEF AnnInv, Types
  <2> QED
    BY <2>1, <2>3, <2>4 DEF AnnInv, ThreadTypes
<1>9. Joining' /\ Sessions'
  BY <1>6 DEF AnnInv, Joining, Sessions
<1>10. Creates'
  BY <1>1, <1>3, <1>5, <1>6 DEF Creates
<1>11. Watching'
  <2>1. \A j \in Joins : result[j] \notin nodes => result[j] \notin nodes'
    BY <1>1, <1>7
  <2>2. \A s \in reqs' : s.op = "exists" => s \in reqs
    BY <1>3, <1>5
  <2>3. \A c \in calls : c[1] \in Joins
    BY DEF AnnInv, Types
  <2> QED
    BY <1>1, <2>1, <2>2, <2>3 DEF AnnInv, Watching
<1>12. Deletes'
  <2>1. \A s \in reqs' : s.op = "delete" => s \in reqs /\ s.node # made'
    BY <1>1, <1>3, <1>5, <1>7 DEF Sent
  <2>2. membership \in Held' => membership \in Held
    BY <1>1, <1>7 DEF Held
  <2> QED
    BY <2>1, <2>2 DEF AnnInv, Deletes
<1>13. Counted'
  <2>1. Open
    BY <1>6 DEF Open
  <2>2. ~Open'
    BY <1>3, <1>5, <1>6 DEF Open
  <2>3. drops \in Nat /\ joins \in Nat
    BY GroupBounds DEF AnnInv, Types, ThreadTypes
  <2> QED
    BY <1>1, <2>1, <2>2, <2>3 DEF AnnInv, Counted
<1>14. EachAccounted'
  <2> SUFFICES ASSUME NEW n \in Held'
               PROVE  \/ \E s \in reqs' : s.op = "create" /\ s.node = n
                      \/ pc \in {"joining", "assign"} /\ n = result[joins]
                      \/ stopping \notin {"done", "raised"} /\ n = membership
    BY DEF EachAccounted
  <2>1. CASE n = made'
    BY <1>3, <1>5, <2>1
  <2>2. CASE n # made'
    <3>1. n \in Held /\ r.node \notin nodes
      <4>1. r.node = 0
        BY DEF AnnInv, Creates
      <4> QED
        BY <1>1, <2>2, <4>1 DEF Held
    <3> QED
      BY <1>5, <3>1 DEF AnnInv, EachAccounted, Held
  <2> QED
    BY <2>1, <2>2
<1> QED
  BY <1>8, <1>9, <1>10, <1>11, <1>12, <1>13, <1>14 DEF AnnInv

\* A request that moves on is otherwise what it was, and so are the others.
LEMMA Restaged ==
  ASSUME AnnInv, NEW r \in reqs, NEW stage \in {"executed", "answered", "refused"},
         reqs' = (reqs \ {r}) \union {[r EXCEPT !.stage = stage]}
  PROVE  /\ reqs' \subseteq Sent
         /\ \A s \in reqs' :
              \/ s \in reqs /\ s # r
              \/ s.op = r.op /\ s.join = r.join /\ s.node = r.node /\ s.stage = stage
         /\ \A s \in reqs : \E t \in reqs' : t.op = s.op /\ t.node = s.node
         /\ \A s, t \in reqs' : s \notin reqs /\ t \notin reqs => s = t
<1> DEFINE x == [r EXCEPT !.stage = stage]
<1>1. reqs \subseteq Sent
  BY DEF AnnInv, Types
<1>2. x \in Sent /\ x.op = r.op /\ x.join = r.join /\ x.node = r.node /\ x.stage = stage
  BY <1>1 DEF Sent
<1>3. reqs' = (reqs \ {r}) \union {x}
  OBVIOUS
<1> HIDE DEF x
<1> QED
  BY <1>1, <1>2, <1>3

\* The ensemble answers exists, and watches a znode that is there.
LEMMA ExecuteExistsInv ==
  ASSUME AnnInv, UNCHANGED annVars, NEW r \in reqs, r.stage = "sent", zk = "CONNECTED",
         r.op = "exists",
         watches' = IF r.node \in nodes THEN watches \union {<<r.join, r.node>>} ELSE watches,
         reqs' = (reqs \ {r}) \union
           {[r EXCEPT !.stage = IF r.node \in nodes THEN "executed" ELSE "refused"]},
         UNCHANGED <<made, nodes, calls, orphans>>,
         UNCHANGED <<zkVars, deletes, armed, result, cancelled, state, listening, queue>>,
         UNCHANGED <<unseen, unwatched>>
  PROVE  AnnInv'
<1> USE DEF zkVars, annVars
<1> DEFINE stage == IF r.node \in nodes THEN "executed" ELSE "refused"
<1>1. stage \in {"executed", "answered", "refused"}
      /\ reqs' = (reqs \ {r}) \union {[r EXCEPT !.stage = stage]}
      /\ (stage = "refused" => r.node \notin nodes)
  OBVIOUS
<1> HIDE DEF stage
<1>2. /\ reqs' \subseteq Sent
      /\ \A s \in reqs' :
           \/ s \in reqs /\ s # r
           \/ s.op = r.op /\ s.join = r.join /\ s.node = r.node /\ s.stage = stage
      /\ \A s \in reqs : \E t \in reqs' : t.op = s.op /\ t.node = s.node
      /\ \A s, t \in reqs' : s \notin reqs /\ t \notin reqs => s = t
  BY <1>1, Restaged
<1>3. r.join \in Joins /\ r.node = result[r.join] /\ r.node \in 1 .. made
  BY DEF AnnInv, Watching
<1>4. watches' \subseteq Joins \X nodes' /\ \A w \in watches' : w[2] = result[w[1]]
  BY <1>3 DEF AnnInv, Types, Watching
<1>5. Types' /\ ThreadTypes'
  BY <1>2, <1>4 DEF AnnInv, Types, ThreadTypes, Known, Sent, Queued
<1>6. Joining' /\ Sessions'
  BY DEF AnnInv, Joining, Sessions
<1>7. Creates'
  BY <1>2 DEF AnnInv, Creates
<1>8. Watching'
  BY <1>1, <1>2, <1>3, <1>4 DEF AnnInv, Watching
<1>9. Deletes'
  BY <1>2 DEF AnnInv, Deletes, Held
<1>10. Counted'
  BY <1>2 DEF AnnInv, Counted, Open
<1>11. EachAccounted'
  BY <1>2 DEF AnnInv, EachAccounted, Held
<1> QED
  BY <1>5, <1>6, <1>7, <1>8, <1>9, <1>10, <1>11 DEF AnnInv

\* The ensemble deletes the znode of a cancel.
LEMMA ExecuteDeleteInv ==
  ASSUME AnnInv, UNCHANGED annVars, NEW r \in reqs, r.stage = "sent", zk = "CONNECTED",
         r.op = "delete", Vanish(r.node),
         reqs' = (reqs \ {r}) \union {[r EXCEPT !.stage = "executed"]}, UNCHANGED made,
         UNCHANGED <<zkVars, deletes, armed, result, cancelled, state, listening, queue>>,
         UNCHANGED <<unseen, unwatched>>
  PROVE  AnnInv'
<1> USE DEF zkVars, annVars
<1>1. /\ nodes' = nodes \ {r.node} /\ orphans' = orphans \ {r.node} /\ orphans' \subseteq nodes'
      /\ watches' \subseteq watches /\ watches' \subseteq Joins \X nodes'
      /\ calls' \subseteq Joins \X Threads
      /\ \A c \in calls' : result[c[1]] # Pending /\ result[c[1]] \notin nodes'
  BY VanishFacts
<1>2. /\ reqs' \subseteq Sent
      /\ \A s \in reqs' :
           \/ s \in reqs /\ s # r
           \/ s.op = r.op /\ s.join = r.join /\ s.node = r.node /\ s.stage = "executed"
      /\ \A s \in reqs : \E t \in reqs' : t.op = s.op /\ t.node = s.node
      /\ \A s, t \in reqs' : s \notin reqs /\ t \notin reqs => s = t
  BY Restaged
<1>3. Types' /\ ThreadTypes'
  BY <1>1, <1>2 DEF AnnInv, Types, ThreadTypes, Known, Sent, Queued
<1>4. Joining' /\ Sessions'
  BY <1>1 DEF AnnInv, Joining, Sessions
<1>5. Creates'
  BY <1>1, <1>2 DEF AnnInv, Creates
<1>6. Watching'
  BY <1>1, <1>2 DEF AnnInv, Watching
<1>7. Deletes'
  BY <1>1, <1>2 DEF AnnInv, Deletes, Held
<1>8. Counted'
  BY <1>2 DEF AnnInv, Counted, Open
<1>9. EachAccounted'
  BY <1>1, <1>2 DEF AnnInv, EachAccounted, Held
<1> QED
  BY <1>3, <1>4, <1>5, <1>6, <1>7, <1>8, <1>9 DEF AnnInv

\* A create or a delete fails; a znode that was to be deleted is beyond reach.
LEMMA RefuseInv ==
  ASSUME AnnInv, UNCHANGED annVars, NEW r \in reqs, r.stage = "sent", zk = "CONNECTED",
         r.op \in {"create", "delete"},
         reqs' = (reqs \ {r}) \union {[r EXCEPT !.stage = "refused"]},
         orphans' = orphans \union ({r.node} \intersect nodes),
         UNCHANGED <<made, nodes, watches, calls>>,
         UNCHANGED <<zkVars, deletes, armed, result, cancelled, state, listening, queue>>,
         UNCHANGED <<unseen, unwatched>>
  PROVE  AnnInv'
<1> USE DEF zkVars, annVars
<1>1. /\ reqs' \subseteq Sent
      /\ \A s \in reqs' :
           \/ s \in reqs /\ s # r
           \/ s.op = r.op /\ s.join = r.join /\ s.node = r.node /\ s.stage = "refused"
      /\ \A s \in reqs : \E t \in reqs' : t.op = s.op /\ t.node = s.node
      /\ \A s, t \in reqs' : s \notin reqs /\ t \notin reqs => s = t
  BY Restaged
<1>2. orphans \subseteq orphans' /\ orphans' \subseteq nodes
  BY DEF AnnInv, Types
<1>3. Types' /\ ThreadTypes'
  BY <1>1, <1>2 DEF AnnInv, Types, ThreadTypes, Known, Sent, Queued
<1>4. Joining' /\ Sessions'
  BY <1>1 DEF AnnInv, Joining, Sessions
<1>5. Creates'
  BY <1>1, <1>2 DEF AnnInv, Creates
<1>6. Watching'
  BY <1>1 DEF AnnInv, Watching
<1>7. Deletes'
  <2>1. r.node \notin nodes \ orphans'
    OBVIOUS
  <2> QED
    BY <1>1, <1>2, <2>1 DEF AnnInv, Deletes, Held
<1>8. Counted'
  BY <1>1 DEF AnnInv, Counted, Open
<1>9. EachAccounted'
  BY <1>1, <1>2 DEF AnnInv, EachAccounted, Held
<1> QED
  BY <1>3, <1>4, <1>5, <1>6, <1>7, <1>8, <1>9 DEF AnnInv

\* The ensemble executes a request.
LEMMA ExecuteInv ==
  ASSUME AnnInv, NEW r, Execute(r), UNCHANGED annVars
  PROVE  AnnInv'
  BY ExecuteCreateInv, ExecuteExistsInv, ExecuteDeleteInv, RefuseInv DEF Execute

\* An answer arrives.
LEMMA AnswerInv ==
  ASSUME AnnInv, NEW r, Answer(r), UNCHANGED annVars
  PROVE  AnnInv'
<1> USE DEF Answer, zkVars, ensembleVars, captureVars, annVars
<1>1. /\ reqs' \subseteq Sent
      /\ \A s \in reqs' :
           \/ s \in reqs /\ s # r
           \/ s.op = r.op /\ s.join = r.join /\ s.node = r.node /\ s.stage = "answered"
      /\ \A s \in reqs : \E t \in reqs' : t.op = s.op /\ t.node = s.node
      /\ \A s, t \in reqs' : s \notin reqs /\ t \notin reqs => s = t
  BY Restaged
<1>2. Types' /\ ThreadTypes'
  BY <1>1 DEF AnnInv, Types, ThreadTypes, Known, Sent, Queued
<1>3. Joining' /\ Sessions'
  BY <1>1 DEF AnnInv, Joining, Sessions
<1>4. Creates'
  BY <1>1 DEF AnnInv, Creates
<1>5. Watching'
  BY <1>1 DEF AnnInv, Watching
<1>6. Deletes'
  BY <1>1 DEF AnnInv, Deletes, Held
<1>7. Counted'
  BY <1>1 DEF AnnInv, Counted, Open
<1>8. EachAccounted'
  BY <1>1 DEF AnnInv, EachAccounted, Held
<1> QED
  BY <1>2, <1>3, <1>4, <1>5, <1>6, <1>7, <1>8 DEF AnnInv

\* Every step of the client and the ensemble keeps the invariant.
LEMMA EnvironmentInv ==
  ASSUME AnnInv, Environment, UNCHANGED annVars
  PROVE  AnnInv'
  BY ConnectInv, DisconnectInv, ExpireInv, ExecuteInv, AnswerInv, DeletedInv DEF Environment

-----------------------------------------------------------------------------
(* The group *)

\* The group begins to listen.
LEMMA ConstructInv ==
  ASSUME AnnInv, Construct, UNCHANGED annVars
  PROVE  AnnInv'
<1> USE DEF Construct, zkVars, ensembleVars, captureVars, annVars
<1>1. Types' /\ ThreadTypes'
  BY DEF AnnInv, Types, ThreadTypes, Known, Sent, Queued
<1>2. Joining' /\ Creates' /\ Watching' /\ Sessions'
  BY DEF AnnInv, Joining, Creates, Watching, Sessions
<1>3. Deletes' /\ Counted' /\ EachAccounted'
  BY DEF AnnInv, Deletes, Counted, Open, EachAccounted, Held
<1> QED
  BY <1>1, <1>2, <1>3 DEF AnnInv

\* What waited for this state of the connection is done.
LEMMA StateListenerInv ==
  ASSUME AnnInv, StateListener, UNCHANGED annVars
  PROVE  AnnInv'
<1> USE DEF StateListener, ensembleVars, annVars
<1> DEFINE triggered == {q \in queue : q.on = zk}
           js == {q.join : q \in {t \in triggered : t.what = "expire"}}
<1>1. reqs \subseteq Sent /\ queue \subseteq Queued /\ calls \subseteq Joins \X Threads
  BY DEF AnnInv, Types
<1>2. \A q \in triggered :
        q.what = "expire" => q.join \in Joins /\ result[q.join] # Pending /\ nodes = {}
  BY DEF AnnInv, Watching, Sessions
<1>3. /\ calls' \subseteq Joins \X Threads
      /\ \A c \in calls' : result[c[1]] # Pending /\ result[c[1]] \notin nodes
  <2>1. js \in SUBSET Joins /\ "connection" \in Threads
    BY <1>2 DEF Threads
  <2>2. calls' = SetExpiry(js, "connection")
    OBVIOUS
  <2>3. \A j \in js : result[j] # Pending /\ nodes = {}
    BY <1>2
  <2> HIDE DEF js
  <2>4. /\ calls' \subseteq Joins \X Threads
        /\ \A c \in calls' : c \in calls \/ c[1] \in js
    BY <1>1, <2>1, <2>2, ExpiryFacts
  <2> QED
    BY <2>3, <2>4 DEF AnnInv, Watching
<1>4. /\ queue' \subseteq Queued
      /\ \A q \in queue' :
           \/ q \in queue /\ q.on # zk
           \/ /\ q.what = "expire" /\ q.on = "LOST"
              /\ \E t \in queue : t.what = "notifier" /\ q.join = t.join
  <2>1. 0 \in Known
    BY DEF AnnInv, Types, Known
  <2>2. \A t \in queue :
          LET q == [on |-> "LOST", what |-> "expire", join |-> t.join, node |-> 0] IN
          q \in Queued /\ q.on = "LOST" /\ q.what = "expire" /\ q.join = t.join
    BY <1>1, <2>1 DEF Queued
  <2>3. queue' = (queue \ triggered) \union
          {[on |-> "LOST", what |-> "expire", join |-> q.join, node |-> 0] :
             q \in {t \in triggered : t.what = "notifier"}}
    OBVIOUS
  <2> QED
    BY <1>1, <2>2, <2>3
<1>5. /\ reqs' \subseteq Sent /\ reqs \subseteq reqs'
      /\ \A r \in reqs' : r \in reqs \/ \E t \in queue :
           /\ t.on = zk /\ t.what \in {"create", "exists", "delete"}
           /\ r = Send(t.what, t.join, t.node)
           /\ r.op = t.what /\ r.join = t.join /\ r.node = t.node /\ r.stage = "sent"
  <2>1. \A t \in queue : t.what \in {"create", "exists", "delete"} =>
          LET r == Send(t.what, t.join, t.node) IN
          r \in Sent /\ r.op = t.what /\ r.join = t.join /\ r.node = t.node /\ r.stage = "sent"
    BY <1>1 DEF Queued, Sent, Send
  <2>2. reqs' = reqs \union {Send(q.what, q.join, q.node) :
                               q \in {t \in triggered : t.what \in {"create", "exists", "delete"}}}
    OBVIOUS
  <2> QED
    BY <1>1, <2>1, <2>2
<1> HIDE DEF triggered, js
<1>6. \A q \in queue : q.what = "create" => q.on = "CONNECTED"
  BY <1>1 DEF AnnInv, Watching, Queued
<1>7. Types' /\ ThreadTypes'
  <2>1. zk \in {"CONNECTED", "SUSPENDED", "LOST"}
    BY DEF AnnInv, Types
  <2>2. Known' = Known /\ Sent' = Sent /\ Queued' = Queued
    BY DEF Known, Sent, Queued
  <2>3. Types'
    BY <1>3, <1>4, <1>5, <2>1, <2>2 DEF AnnInv, Types
  <2> QED
    BY <2>2, <2>3 DEF AnnInv, ThreadTypes
<1>8. Joining' /\ Sessions'
  BY <1>5 DEF AnnInv, Joining, Sessions
<1>9. Creates'
  BY <1>4, <1>5, <1>6 DEF AnnInv, Creates
<1>10. Watching'
  BY <1>3, <1>4, <1>5 DEF AnnInv, Watching
<1>11. Deletes'
  BY <1>4, <1>5 DEF AnnInv, Deletes, Held
<1>12. Counted'
  BY <1>4, <1>5 DEF AnnInv, Counted, Open
<1>13. EachAccounted'
  BY <1>5 DEF AnnInv, EachAccounted, Held
<1> QED
  BY <1>7, <1>8, <1>9, <1>10, <1>11, <1>12, <1>13 DEF AnnInv

\* A request is sent at once, or waits for a connection.
LEMMA OnceFacts ==
  ASSUME AnnInv, NEW op \in {"create", "exists", "delete"}, NEW j \in {NoJoin} \union Joins,
         NEW n \in Known, NEW rest \in SUBSET reqs, OnceConnected(op, j, n, rest)
  PROVE  /\ reqs' \subseteq Sent /\ queue' \subseteq Queued
         /\ rest \subseteq reqs' /\ queue \subseteq queue'
         /\ \A s \in reqs' :
              \/ s \in rest
              \/ /\ s = Send(op, j, n) /\ s.op = op /\ s.join = j /\ s.node = n
                 /\ s.stage = "sent" /\ queue' = queue
         /\ \A q \in queue' :
              \/ q \in queue
              \/ /\ q.on = "CONNECTED" /\ q.what = op /\ q.join = j /\ q.node = n
                 /\ reqs' = rest
<1>1. reqs \subseteq Sent /\ queue \subseteq Queued
  BY DEF AnnInv, Types
<1>2. LET s == Send(op, j, n) IN
      s \in Sent /\ s.op = op /\ s.join = j /\ s.node = n /\ s.stage = "sent"
  BY DEF Send, Sent
<1>3. [on |-> "CONNECTED", what |-> op, join |-> j, node |-> n] \in Queued
  BY DEF Queued
<1> QED
  BY <1>1, <1>2, <1>3 DEF OnceConnected

\* A create without an answer is sent again: its znode, if there is one, is
\* beyond reach.
LEMMA CreateLostInv ==
  ASSUME AnnInv, UNCHANGED annVars, NEW r \in reqs, r.op = "create", r.stage = "lost",
         OnceConnected("create", r.join, 0, reqs \ {r}), UNCHANGED <<result, calls, cancelled>>,
         UNCHANGED <<zkVars, ensembleVars, armed, state, listening, unseen, unwatched>>
  PROVE  AnnInv'
<1> USE DEF zkVars, ensembleVars, annVars
<1>1. /\ pc = "joining" /\ r.join = joins /\ result[joins] = Pending /\ joins \in Joins
      /\ r.node \notin nodes \ orphans
      /\ \A s \in reqs : s.op = "create" => s = r
      /\ \A q \in queue : q.what # "create"
  BY DEF AnnInv, Creates, Joining
<1>2. 0 \in Known
  BY DEF AnnInv, Types, Known
<1>3. /\ reqs' \subseteq Sent /\ queue' \subseteq Queued
      /\ reqs \ {r} \subseteq reqs' /\ queue \subseteq queue'
      /\ \A s \in reqs' :
           \/ s \in reqs \ {r}
           \/ /\ s = Send("create", r.join, 0) /\ s.op = "create" /\ s.join = r.join
              /\ s.node = 0 /\ s.stage = "sent" /\ queue' = queue
      /\ \A q \in queue' :
           \/ q \in queue
           \/ /\ q.on = "CONNECTED" /\ q.what = "create" /\ q.join = r.join /\ q.node = 0
              /\ reqs' = reqs \ {r}
  BY <1>1, <1>2, OnceFacts
<1>4. Types' /\ ThreadTypes'
  BY <1>3 DEF AnnInv, Types, ThreadTypes, Known, Sent, Queued
<1>5. Joining' /\ Sessions'
  BY <1>3 DEF AnnInv, Joining, Sessions
<1>6. Creates'
  BY <1>1, <1>3 DEF AnnInv, Creates
<1>7. Watching'
  BY <1>3 DEF AnnInv, Watching
<1>8. Deletes'
  BY <1>3 DEF AnnInv, Deletes, Held
<1>9. Counted'
  BY DEF AnnInv, Counted, Open
<1>10. EachAccounted'
  BY <1>1, <1>3 DEF AnnInv, EachAccounted, Held
<1> QED
  BY <1>4, <1>5, <1>6, <1>7, <1>8, <1>9, <1>10 DEF AnnInv

\* The result of the join in progress disturbs no earlier one.
LEMMA ResultFacts ==
  ASSUME AnnInv, NEW r \in reqs, r.op = "create", NEW n \in Known, n # Pending,
         result' = [result EXCEPT ![r.join] = n]
  PROVE  /\ result' \in [Joins -> Known] /\ result'[joins] = n
         /\ \A j \in Joins : result[j] # Pending => result'[j] = result[j]
         /\ \A j \in Joins : j > joins => result'[j] = Pending
<1>1. r.join = joins /\ result[joins] = Pending /\ joins \in Joins
  BY DEF AnnInv, Creates, Joining
<1>2. result \in [Joins -> Known] /\ \A j \in Joins : j > joins => result[j] = Pending
  BY DEF AnnInv, Types, Joining
<1>3. \A j \in Joins : j > joins => j # joins
  BY <1>1 DEF Joins
<1> QED
  BY <1>1, <1>2, <1>3

\* A create that fails is the end of the join.
LEMMA CreateRefusedInv ==
  ASSUME AnnInv, UNCHANGED annVars, NEW r \in reqs, r.op = "create", r.stage = "refused",
         result' = [result EXCEPT ![r.join] = Error], reqs' = reqs \ {r},
         UNCHANGED <<queue, calls, cancelled>>,
         UNCHANGED <<zkVars, ensembleVars, armed, state, listening, unseen, unwatched>>
  PROVE  AnnInv'
<1> USE DEF zkVars, ensembleVars, annVars
<1>1. /\ pc = "joining" /\ result[joins] = Pending /\ r.node = 0
      /\ \A s \in reqs : s.op = "create" => s = r
      /\ \A q \in queue : q.what # "create"
  BY DEF AnnInv, Creates
<1>2. Error \in Known /\ Error # Pending
  BY DEF Known, Error, Pending
<1>3. /\ result' \in [Joins -> Known]
      /\ \A j \in Joins : result[j] # Pending => result'[j] = result[j]
      /\ \A j \in Joins : j > joins => result'[j] = Pending
  BY <1>2, ResultFacts
<1>4. /\ nodes \subseteq 1 .. made /\ made \in Nat
      /\ watches \subseteq Joins \X nodes /\ calls \subseteq Joins \X Threads
  BY DEF AnnInv, Types
<1>5. Types' /\ ThreadTypes'
  BY <1>3 DEF AnnInv, Types, ThreadTypes, Known, Sent, Queued
<1>6. Joining' /\ Sessions'
  BY <1>1, <1>3 DEF AnnInv, Joining, Sessions
<1>7. Creates'
  BY <1>1 DEF Creates
<1>8. Watching'
  BY <1>3, <1>4 DEF AnnInv, Watching, Pending
<1>9. Deletes'
  BY DEF AnnInv, Deletes, Held
<1>10. Counted'
  BY DEF AnnInv, Counted, Open
<1>11. EachAccounted'
  BY <1>1, <1>4 DEF AnnInv, EachAccounted, Held, Pending
<1> QED
  BY <1>5, <1>6, <1>7, <1>8, <1>9, <1>10, <1>11 DEF AnnInv

\* A create that is answered is the result of the join, and its znode is watched.
LEMMA CreateAnsweredInv ==
  ASSUME AnnInv, UNCHANGED annVars, NEW r \in reqs, r.op = "create", r.stage = "answered",
         queue' = queue \union {Notifier(r.join)},
         reqs' = (reqs \ {r}) \union {Send("exists", r.join, r.node)},
         result' = [result EXCEPT ![r.join] = r.node], UNCHANGED <<calls, cancelled>>,
         UNCHANGED <<zkVars, ensembleVars, armed, state, listening, unseen, unwatched>>
  PROVE  AnnInv'
<1> USE DEF zkVars, ensembleVars, annVars
<1>1. /\ pc = "joining" /\ r.join = joins /\ result[joins] = Pending /\ joins \in Joins
      /\ r.node \in 1 .. made
      /\ \A s \in reqs : s.op = "create" => s = r
      /\ \A q \in queue : q.what # "create"
  BY DEF AnnInv, Creates, Joining
<1>2. /\ nodes \subseteq 1 .. made /\ made \in Nat /\ reqs \subseteq Sent /\ queue \subseteq Queued
      /\ watches \subseteq Joins \X nodes /\ calls \subseteq Joins \X Threads
  BY DEF AnnInv, Types
<1>3. r.node \in Known /\ r.node # Pending /\ 0 \in Known
  BY <1>1, <1>2 DEF Known, Pending
<1>4. /\ result' \in [Joins -> Known] /\ result'[joins] = r.node
      /\ \A j \in Joins : result[j] # Pending => result'[j] = result[j]
      /\ \A j \in Joins : j > joins => result'[j] = Pending
  BY <1>3, ResultFacts
<1>5. PICK x : x = Send("exists", r.join, r.node)
  OBVIOUS
<1>6. x \in Sent /\ x.op = "exists" /\ x.join = joins /\ x.node = r.node /\ x.stage = "sent"
  BY <1>1, <1>3, <1>5 DEF Send, Sent
<1>7. PICK e : e = Notifier(r.join)
  OBVIOUS
<1>8. /\ e \in Queued /\ e.what \in {"notifier", "expire"} /\ e.join = joins
      /\ e.what = "expire" <=> e.on = "LOST"
  BY <1>1, <1>3, <1>7 DEF Notifier, Queued
<1>9. reqs' = (reqs \ {r}) \union {x} /\ queue' = queue \union {e}
  BY <1>5, <1>7
<1>10. Types' /\ ThreadTypes'
  <2>1. Known' = Known /\ Sent' = Sent /\ Queued' = Queued
    BY DEF Known, Sent, Queued
  <2>2. Types'
    BY <1>4, <1>6, <1>8, <1>9, <2>1 DEF AnnInv, Types
  <2> QED
    BY <2>1, <2>2 DEF AnnInv, ThreadTypes
<1>11. Joining' /\ Sessions'
  BY <1>1, <1>4, <1>6, <1>9 DEF AnnInv, Joining, Sessions
<1>12. Creates'
  BY <1>1, <1>6, <1>8, <1>9 DEF Creates
<1>13. Watching'
  <2>1. \A s \in reqs : s.op = "exists" => result[s.join] # Pending
    BY <1>2 DEF AnnInv, Watching, Pending
  <2>2. \A s \in reqs' : s.op = "exists" =>
          /\ s.join \in Joins /\ s.node = result'[s.join] /\ s.node \in 1 .. made
          /\ s.stage = "refused" => s.node \notin nodes
    BY <1>1, <1>4, <1>6, <1>9, <2>1 DEF AnnInv, Watching
  <2>3. \A q \in queue' :
          /\ q.what = "exists" =>
                q.join \in Joins /\ q.node = result'[q.join] /\ q.node \in 1 .. made
          /\ q.what \in {"notifier", "expire"} => q.join \in Joins /\ result'[q.join] # Pending
          /\ q.what = "expire" <=> q.on = "LOST"
    BY <1>1, <1>2, <1>3, <1>4, <1>8, <1>9 DEF AnnInv, Watching, Pending
  <2>4. \A w \in watches : w[2] = result'[w[1]]
    BY <1>2, <1>4 DEF AnnInv, Watching, Pending
  <2>5. \A c \in calls : result'[c[1]] # Pending /\ result'[c[1]] \notin nodes
    BY <1>2, <1>4 DEF AnnInv, Watching
  <2> QED
    BY <2>2, <2>3, <2>4, <2>5 DEF Watching
<1>14. Deletes'
  BY <1>6, <1>8, <1>9 DEF AnnInv, Deletes, Held
<1>15. Counted'
  BY <1>6, <1>8, <1>9 DEF AnnInv, Counted, Open
<1>16. EachAccounted'
  BY <1>1, <1>2, <1>4, <1>9 DEF AnnInv, EachAccounted, Held, Pending
<1> QED
  BY <1>10, <1>11, <1>12, <1>13, <1>14, <1>15, <1>16 DEF AnnInv

\* An exists without an answer is sent again.
LEMMA ExistsLostInv ==
  ASSUME AnnInv, UNCHANGED annVars, NEW r \in reqs, r.op = "exists",
         OnceConnected("exists", r.join, r.node, reqs \ {r}),
         UNCHANGED <<calls, result, cancelled>>,
         UNCHANGED <<zkVars, ensembleVars, armed, state, listening, unseen, unwatched>>
  PROVE  AnnInv'
<1> USE DEF zkVars, ensembleVars, annVars
<1>1. r.join \in Joins /\ r.node = result[r.join] /\ r.node \in 1 .. made
  BY DEF AnnInv, Watching
<1>2. r.node \in Known
  BY DEF AnnInv, Types, Sent
<1>3. /\ reqs' \subseteq Sent /\ queue' \subseteq Queued
      /\ reqs \ {r} \subseteq reqs' /\ queue \subseteq queue'
      /\ \A s \in reqs' : s \in reqs \/ (s.op = "exists" /\ s.join = r.join /\ s.node = r.node
                                         /\ s.stage = "sent")
      /\ \A q \in queue' : q \in queue \/ (q.on = "CONNECTED" /\ q.what = "exists"
                                           /\ q.join = r.join /\ q.node = r.node)
  BY <1>1, <1>2, OnceFacts
<1>4. Types' /\ ThreadTypes'
  BY <1>3 DEF AnnInv, Types, ThreadTypes, Known, Sent, Queued
<1>5. Joining' /\ Sessions'
  BY <1>3 DEF AnnInv, Joining, Sessions
<1>6. Creates'
  BY <1>3 DEF AnnInv, Creates
<1>7. Watching'
  BY <1>1, <1>3 DEF AnnInv, Watching
<1>8. Deletes'
  BY <1>3 DEF AnnInv, Deletes, Held
<1>9. Counted'
  BY <1>3 DEF AnnInv, Counted, Open
<1>10. EachAccounted'
  BY <1>3 DEF AnnInv, EachAccounted, Held
<1> QED
  BY <1>4, <1>5, <1>6, <1>7, <1>8, <1>9, <1>10 DEF AnnInv

\* When exists does not find the znode, the expiry of the join is set.
LEMMA ExistsDoneInv ==
  ASSUME AnnInv, UNCHANGED annVars, NEW r \in reqs, r.op = "exists",
         r.stage \in {"answered", "refused"},
         calls' = IF r.stage = "refused" THEN SetExpiry({r.join}, "completion") ELSE calls,
         reqs' = reqs \ {r}, UNCHANGED <<queue, result, cancelled>>,
         UNCHANGED <<zkVars, ensembleVars, armed, state, listening, unseen, unwatched>>
  PROVE  AnnInv'
<1> USE DEF zkVars, ensembleVars, annVars
<1>1. /\ r.join \in Joins /\ r.node = result[r.join] /\ r.node # Pending
      /\ r.stage = "refused" => r.node \notin nodes
  BY DEF AnnInv, Watching, Types, Pending
<1>2. /\ calls' \subseteq Joins \X Threads
      /\ \A c \in calls' : c \in calls \/ (c[1] = r.join /\ r.stage = "refused")
  <2>1. {r.join} \in SUBSET Joins /\ "completion" \in Threads /\ calls \subseteq Joins \X Threads
    BY <1>1 DEF Threads, AnnInv, Types
  <2>2. /\ SetExpiry({r.join}, "completion") \subseteq Joins \X Threads
        /\ \A c \in SetExpiry({r.join}, "completion") : c \in calls \/ c[1] \in {r.join}
    BY <2>1, ExpiryFacts
  <2> QED
    BY <2>1, <2>2
<1>3. Types' /\ ThreadTypes'
  <2>1. Known' = Known /\ Sent' = Sent /\ Queued' = Queued
    BY DEF Known, Sent, Queued
  <2>2. Types'
    BY <1>2, <2>1 DEF AnnInv, Types
  <2> QED
    BY <2>1, <2>2 DEF AnnInv, ThreadTypes
<1>4. Joining' /\ Creates' /\ Sessions'
  BY DEF AnnInv, Joining, Creates, Sessions
<1>5. Watching'
  BY <1>1, <1>2 DEF AnnInv, Watching
<1>6. Deletes' /\ Counted'
  BY DEF AnnInv, Deletes, Held, Counted, Open
<1>7. EachAccounted'
  BY DEF AnnInv, EachAccounted, Held
<1> QED
  BY <1>3, <1>4, <1>5, <1>6, <1>7 DEF AnnInv

\* A delete without an answer is sent again, for the same znode.
LEMMA DeleteLostInv ==
  ASSUME AnnInv, UNCHANGED annVars, NEW r \in reqs, r.op = "delete",
         OnceConnected("delete", r.join, r.node, reqs \ {r}),
         UNCHANGED <<calls, result, cancelled>>,
         UNCHANGED <<zkVars, ensembleVars, armed, state, listening, unseen, unwatched>>
  PROVE  AnnInv'
<1> USE DEF zkVars, ensembleVars, annVars
<1>1. r.node \in Known /\ r.join \in {NoJoin} \union Joins
  BY DEF AnnInv, Types, Sent
<1>2. /\ reqs' \subseteq Sent /\ queue' \subseteq Queued
      /\ reqs \ {r} \subseteq reqs' /\ queue \subseteq queue'
      /\ \A s \in reqs' : s \in reqs \/ (s.op = "delete" /\ s.node = r.node /\ s.stage = "sent")
      /\ \A q \in queue' :
           q \in queue \/ (q.on = "CONNECTED" /\ q.what = "delete" /\ q.node = r.node)
  BY <1>1, OnceFacts
<1>3. r.node # Pending
  BY DEF AnnInv, Deletes
<1>4. Types' /\ ThreadTypes'
  BY <1>2 DEF AnnInv, Types, ThreadTypes, Known, Sent, Queued
<1>5. Joining' /\ Sessions'
  BY <1>2 DEF AnnInv, Joining, Sessions
<1>6. Creates'
  BY <1>2 DEF AnnInv, Creates
<1>7. Watching'
  BY <1>2 DEF AnnInv, Watching
<1>8. Deletes'
  BY <1>2, <1>3 DEF AnnInv, Deletes, Held
<1>9. Counted'
  BY <1>2 DEF AnnInv, Counted, Open
<1>10. EachAccounted'
  BY <1>2 DEF AnnInv, EachAccounted, Held
<1> QED
  BY <1>4, <1>5, <1>6, <1>7, <1>8, <1>9, <1>10 DEF AnnInv

\* A delete that was answered, or failed, is the end of the cancel.
LEMMA DeleteDoneInv ==
  ASSUME AnnInv, UNCHANGED annVars, NEW r \in reqs, r.op = "delete",
         r.stage \in {"answered", "refused"},
         cancelled' = TRUE, reqs' = reqs \ {r}, UNCHANGED <<queue, calls, result>>,
         UNCHANGED <<zkVars, ensembleVars, armed, state, listening, unseen, unwatched>>
  PROVE  AnnInv'
<1> USE DEF zkVars, ensembleVars, annVars
<1>1. Types' /\ ThreadTypes'
  <2>1. Known' = Known /\ Sent' = Sent /\ Queued' = Queued
    BY DEF Known, Sent, Queued
  <2>2. Types'
    BY <2>1 DEF AnnInv, Types
  <2> QED
    BY <2>1, <2>2 DEF AnnInv, ThreadTypes
<1>2. Joining' /\ Creates' /\ Watching' /\ Sessions'
  BY DEF AnnInv, Joining, Creates, Watching, Sessions
<1>3. stopping \in {"wait", "done"} /\ ~(stopping = "wait" /\ membership \in Held)
  BY DEF AnnInv, Deletes, Held
<1>4. Deletes'
  BY <1>3 DEF AnnInv, Deletes, Held
<1>5. Counted' /\ EachAccounted'
  BY DEF AnnInv, Counted, Open, EachAccounted, Held
<1> QED
  BY <1>1, <1>2, <1>4, <1>5 DEF AnnInv

\* Every step of the group keeps the invariant.
LEMMA GroupInv ==
  ASSUME AnnInv, GroupStep, UNCHANGED annVars
  PROVE  AnnInv'
<1>1. CASE Construct
  BY <1>1, ConstructInv
<1>2. CASE StateListener
  BY <1>2, StateListenerInv
<1>3. ASSUME NEW r \in reqs, Complete(r) PROVE AnnInv'
  <2>1. CASE CreateCompletion(r)
    BY <1>3, <2>1, CreateLostInv, CreateRefusedInv, CreateAnsweredInv
    DEF Complete, CreateCompletion
  <2>2. CASE ExistsCompletion(r)
    BY <1>3, <2>2, ExistsLostInv, ExistsDoneInv DEF Complete, ExistsCompletion
  <2>3. CASE DeleteCompletion(r)
    BY <1>3, <2>3, DeleteLostInv, DeleteDoneInv DEF Complete, DeleteCompletion
  <2> QED
    BY <1>3, <2>1, <2>2, <2>3 DEF Complete
<1> QED
  BY <1>1, <1>2, <1>3 DEF GroupStep

-----------------------------------------------------------------------------
(* The announcer *)

\* What does not depend on the announcer.
LEMMA GroupFrame ==
  ASSUME AnnInv, UNCHANGED groupVars
  PROVE  /\ Types' /\ Watching' /\ Sessions'
         /\ Known' = Known
         /\ UNCHANGED <<reqs, queue, nodes, orphans, made, drops, result, cancelled>>
<1> USE DEF groupVars, zkVars, ensembleVars, captureVars
<1>1. Known' = Known /\ Sent' = Sent /\ Queued' = Queued
  BY DEF Known, Sent, Queued
<1>2. Types'
  BY <1>1 DEF AnnInv, Types
<1>3. Watching' /\ Sessions'
  BY DEF AnnInv, Watching, Sessions
<1> QED
  BY <1>1, <1>2, <1>3

\* The checker starts the announcer, or gives up.
LEMMA StartInv ==
  ASSUME AnnInv, Start \/ StartTimesOut
  PROVE  AnnInv'
<1> USE DEF Start, StartTimesOut
<1>1. /\ Types' /\ Watching' /\ Sessions'
      /\ Known' = Known
      /\ UNCHANGED <<reqs, queue, nodes, orphans, made, drops, result, cancelled>>
  BY GroupFrame
<1>2. pc = "none" /\ pc' \in {"none", "check"}
  BY DEF AnnInv, Joining
<1>3. ThreadTypes'
  BY <1>1 DEF AnnInv, ThreadTypes
<1>4. Joining'
  BY <1>1, <1>2 DEF AnnInv, Joining
<1>5. Creates'
  BY <1>1, <1>2 DEF AnnInv, Creates
<1>6. Deletes' /\ Counted'
  BY <1>1 DEF AnnInv, Deletes, Held, Counted, Open
<1>7. EachAccounted'
  BY <1>1, <1>2 DEF AnnInv, EachAccounted, Held
<1> QED
  BY <1>1, <1>3, <1>4, <1>5, <1>6, <1>7 DEF AnnInv

\* A stop that goes on: without a thread there is no membership to cancel, and a
\* membership that was cancelled is gone or beyond reach.
LEMMA StopInv ==
  ASSUME AnnInv, Stop \/ StopTest \/ StopDone
  PROVE  AnnInv'
<1>1. /\ Types' /\ Watching' /\ Sessions'
      /\ Known' = Known
      /\ UNCHANGED <<reqs, queue, nodes, orphans, made, drops, result, cancelled>>
  BY GroupFrame DEF Stop, StopTest, StopDone
<1>2. UNCHANGED <<checker, pc, membership, joins, untracked>>
  BY DEF Stop, StopTest, StopDone
<1>3. /\ ThreadTypes' /\ (stopping' = "none" => FALSE)
  BY <1>1 DEF AnnInv, ThreadTypes, Stop, StopTest, StopDone
<1>4. Joining'
  BY <1>1, <1>2, <1>3 DEF AnnInv, Joining
<1>5. Creates' /\ Counted'
  BY <1>1, <1>2 DEF AnnInv, Creates, Counted, Open
<1>6. Deletes'
  BY <1>1, <1>2 DEF AnnInv, Deletes, Held, Stop, StopTest, StopDone
<1>7. stopping' \in {"done", "raised"} /\ stopping \notin {"done", "raised"} =>
        membership \notin Held
  <2>1. 0 \notin nodes
    BY DEF AnnInv, Types
  <2>2. CASE Stop
    BY <2>1, <2>2 DEF Stop, AnnInv, Joining, Held, NoMember
  <2>3. CASE StopTest
    BY <2>1, <2>3 DEF StopTest, Held, NoMember
  <2>4. CASE StopDone
    BY <2>4 DEF StopDone, AnnInv, Deletes
  <2> QED
    BY <2>2, <2>3, <2>4
<1>8. EachAccounted'
  BY <1>1, <1>2, <1>7 DEF AnnInv, EachAccounted, Held
<1> QED
  BY <1>1, <1>3, <1>4, <1>5, <1>6, <1>8 DEF AnnInv

\* The cancel of the membership that stop finds.
LEMMA StopCancelInv ==
  ASSUME AnnInv, StopCancel
  PROVE  AnnInv'
<1> USE DEF StopCancel, zkVars, ensembleVars, captureVars
<1>1. Known' = Known /\ Sent' = Sent /\ Queued' = Queued
  BY DEF Known, Sent, Queued
<1>2. PICK x : x = Send("delete", NoJoin, membership)
  OBVIOUS
<1>3. /\ x \in Sent /\ x.op = "delete" /\ x.join = NoJoin /\ x.node = membership
      /\ x.stage = "sent"
  BY <1>2 DEF AnnInv, ThreadTypes, Send, Sent
<1>4. \/ membership = NoMember /\ stopping' = "raised" /\ reqs' = reqs
      \/ membership # NoMember /\ stopping' = "wait" /\ reqs' = reqs \union {x}
  BY <1>2 DEF Cancel
<1>5. Types' /\ ThreadTypes'
  <2>1. Types'
    BY <1>1, <1>3, <1>4 DEF AnnInv, Types
  <2> QED
    BY <1>1, <1>4, <2>1 DEF AnnInv, ThreadTypes
<1>6. Joining' /\ Sessions'
  BY <1>3, <1>4 DEF AnnInv, Joining, Sessions
<1>7. Creates' /\ Counted'
  BY <1>3, <1>4 DEF AnnInv, Creates, Counted, Open
<1>8. Watching'
  BY <1>3, <1>4 DEF AnnInv, Watching
<1>9. Deletes'
  BY <1>3, <1>4 DEF AnnInv, Deletes, Held, NoMember, Pending
<1>10. EachAccounted'
  <2>1. 0 \notin nodes
    BY DEF AnnInv, Types
  <2> QED
    BY <1>4, <2>1 DEF AnnInv, EachAccounted, Held, NoMember
<1> QED
  BY <1>5, <1>6, <1>7, <1>8, <1>9, <1>10 DEF AnnInv

\* The loop of the thread, without the join.
LEMMA LoopInv ==
  ASSUME AnnInv, Check \/ Wait \/ Clear \/ Joined \/ Connected
  PROVE  AnnInv'
<1> USE DEF Check, Wait, Clear, Joined, Connected, Goto
<1>1. /\ Types' /\ Watching' /\ Sessions'
      /\ Known' = Known
      /\ UNCHANGED <<reqs, queue, nodes, orphans, made, drops, result, cancelled>>
  BY GroupFrame
<1>2. /\ UNCHANGED <<checker, thread, membership, joins, untracked, stopping>>
      /\ pc \notin {"none", "assign"} /\ pc' \notin {"none", "joining"}
      /\ pc' = "assign" <=> pc = "joining"
      /\ pc = "joining" => result[joins] # Pending
  OBVIOUS
<1>3. ThreadTypes'
  BY <1>1 DEF AnnInv, ThreadTypes
<1>4. Joining'
  BY <1>1, <1>2 DEF AnnInv, Joining
<1>5. Creates'
  BY <1>1, <1>2 DEF AnnInv, Creates
<1>6. Deletes' /\ Counted'
  BY <1>1, <1>2 DEF AnnInv, Deletes, Held, Counted, Open
<1>7. EachAccounted'
  BY <1>1, <1>2 DEF AnnInv, EachAccounted, Held
<1> QED
  BY <1>1, <1>3, <1>4, <1>5, <1>6, <1>7 DEF AnnInv

\* A join begins: no other create is on its way.
LEMMA EnterInv ==
  ASSUME AnnInv, Enter
  PROVE  AnnInv'
<1> USE DEF Enter, zkVars, ensembleVars, captureVars
<1>1. Known' = Known /\ Sent' = Sent /\ Queued' = Queued /\ 0 \in Known
  BY DEF AnnInv, Types, Known, Sent, Queued
<1>2. CASE membership # NoMember /\ pc' = "dead" /\ UNCHANGED <<joins, reqs>>
  <2>1. Types' /\ ThreadTypes'
    <3>1. Types'
      BY <1>1, <1>2 DEF AnnInv, Types
    <3> QED
      BY <1>1, <1>2, <3>1 DEF AnnInv, ThreadTypes
  <2>2. Joining' /\ Creates' /\ Watching' /\ Sessions'
    BY <1>2 DEF AnnInv, Joining, Creates, Watching, Sessions
  <2>3. Deletes' /\ Counted' /\ EachAccounted'
    BY <1>2 DEF AnnInv, Deletes, Counted, Open, EachAccounted, Held
  <2> QED
    BY <2>1, <2>2, <2>3 DEF AnnInv
<1>3. CASE /\ membership = NoMember /\ joins < MaxJoins
           /\ joins' = joins + 1 /\ Join(joins') /\ pc' = "joining"
  <2>1. joins \in Nat /\ joins' \in Joins /\ joins' \in 0 .. MaxJoins
    BY <1>3, GroupBounds DEF AnnInv, ThreadTypes, Joins
  <2>2. PICK x : x = Send("create", joins', 0)
    OBVIOUS
  <2>3. x \in Sent /\ x.op = "create" /\ x.join = joins' /\ x.node = 0 /\ x.stage = "sent"
    BY <1>1, <2>1, <2>2 DEF Send, Sent
  <2>4. reqs' = reqs \union {x}
    BY <1>3, <2>2 DEF Join
  <2>5. /\ \A r \in reqs : r.op # "create"
        /\ \A q \in queue : q.what # "create"
    BY DEF AnnInv, Creates
  <2>6. result[joins'] = Pending /\ \A j \in Joins : j > joins' => result[j] = Pending
    BY <1>3, <2>1 DEF AnnInv, Joining, Joins
  <2>7. Types' /\ ThreadTypes'
    <3>1. Types'
      BY <1>1, <2>3, <2>4 DEF AnnInv, Types
    <3> QED
      BY <1>1, <1>3, <2>1, <3>1 DEF AnnInv, ThreadTypes
  <2>8. Joining'
    BY <1>3, <2>1, <2>6 DEF AnnInv, Joining
  <2>9. Creates'
    BY <1>3, <2>3, <2>4, <2>5, <2>6 DEF Creates
  <2>10. Watching' /\ Sessions'
    BY <2>3, <2>4 DEF AnnInv, Watching, Sessions
  <2>11. Deletes'
    BY <1>3, <2>3, <2>4 DEF AnnInv, Deletes, Held
  <2>12. Counted'
    <3>1. made \in Nat /\ drops \in Nat /\ made <= joins + drops
      BY GroupBounds DEF AnnInv, Types, Counted
    <3> QED
      BY <1>3, <2>1, <3>1 DEF Counted
  <2>13. EachAccounted'
    BY <1>3, <2>4 DEF AnnInv, EachAccounted, Held
  <2> QED
    BY <2>7, <2>8, <2>9, <2>10, <2>11, <2>12, <2>13 DEF AnnInv
<1> QED
  BY <1>2, <1>3

\* The membership of the join: one that comes while the announcer stops is not
\* tracked any more.
LEMMA AssignInv ==
  ASSUME AnnInv, Assign
  PROVE  AnnInv'
<1> USE DEF Assign
<1>1. /\ Types' /\ Watching' /\ Sessions'
      /\ Known' = Known
      /\ UNCHANGED <<reqs, queue, nodes, orphans, made, drops, result, cancelled>>
  BY GroupFrame
<1>2. /\ joins \in Joins /\ result[joins] # Pending /\ membership = NoMember
      /\ result[joins] \in Known
  BY DEF AnnInv, Joining, Types
<1>3. result[joins] \in 1 .. made \/ result[joins] = Error
  BY <1>2 DEF AnnInv, Types, Known, Pending
<1>4. /\ untracked \subseteq untracked'
      /\ stopping \notin {"none", "test"} => membership' \in untracked' \union {Error}
  BY DEF AnnInv, ThreadTypes
<1>5. ThreadTypes'
  BY <1>1, <1>2, <1>3 DEF AnnInv, ThreadTypes
<1>6. Joining'
  BY <1>1 DEF AnnInv, Joining
<1>7. Creates' /\ Counted'
  BY <1>1 DEF AnnInv, Creates, Counted, Open
<1>8. 0 \notin nodes /\ Error \notin nodes
  BY DEF AnnInv, Types, Error
<1>9. Deletes'
  <2>1. stopping' = "wait" => membership' \notin Held'
    BY <1>1, <1>4, <1>8 DEF Held
  <2> QED
    BY <1>1, <2>1 DEF AnnInv, Deletes
<1>10. EachAccounted'
  BY <1>1, <1>2, <1>4, <1>8 DEF AnnInv, EachAccounted, Held, NoMember
<1> QED
  BY <1>1, <1>5, <1>6, <1>7, <1>9, <1>10 DEF AnnInv

\* The membership whose expiry is called is gone; one that another call forgets is
\* not tracked any more.
LEMMA OnExpirationInv ==
  ASSUME AnnInv, NEW c, OnExpiration(c)
  PROVE  AnnInv'
<1> USE DEF OnExpiration, Returned, zkVars, ensembleVars
<1>1. Known' = Known /\ Sent' = Sent /\ Queued' = Queued
  BY DEF Known, Sent, Queued
<1>2. result[c[1]] \notin nodes
  BY DEF AnnInv, Watching
<1>3. /\ untracked \subseteq untracked'
      /\ untracked' \subseteq 1 .. made
      /\ (membership \in Held => membership \in untracked')
  <2>1. untracked' = untracked \union ({membership} \ {NoMember, Error, result[c[1]]})
    OBVIOUS
  <2>2. membership \notin {NoMember, Error} => membership \in 1 .. made
    <3>1. made \in Nat /\ membership \in {-1} \union 0 .. made
      BY DEF AnnInv, Types, ThreadTypes, Known, Error
    <3> QED
      BY <3>1 DEF NoMember, Error
  <2>3. membership \in Held => membership \notin {NoMember, Error, result[c[1]]}
    <3>1. made \in Nat /\ nodes \subseteq 1 .. made
      BY DEF AnnInv, Types
    <3>2. 0 \notin nodes /\ -1 \notin nodes
      BY <3>1
    <3> QED
      BY <1>2, <3>2 DEF Held, NoMember, Error
  <2>4. untracked \subseteq 1 .. made
    BY DEF AnnInv, ThreadTypes
  <2> HIDE DEF OnExpiration
  <2> QED
    BY <2>1, <2>2, <2>3, <2>4
<1>4. Types' /\ ThreadTypes'
  <2>1. Types'
    BY <1>1 DEF AnnInv, Types
  <2>2. 0 \in Known
    BY DEF AnnInv, Types, Known
  <2> QED
    BY <1>1, <1>3, <2>1, <2>2 DEF AnnInv, ThreadTypes, NoMember
<1>5. Joining' /\ Creates' /\ Watching' /\ Sessions'
  BY DEF AnnInv, Joining, Creates, Watching, Sessions
<1>6. 0 \notin nodes
  BY DEF AnnInv, Types
<1>7. Deletes'
  BY <1>6 DEF AnnInv, Deletes, Held, NoMember
<1>8. Counted'
  BY DEF AnnInv, Counted, Open
<1>9. EachAccounted'
  BY <1>3 DEF AnnInv, EachAccounted, Held
<1> QED
  BY <1>4, <1>5, <1>7, <1>8, <1>9 DEF AnnInv

\* Every step keeps the invariant.
LEMMA NextAnn ==
  ASSUME AnnInv, [Next]_vars
  PROVE  AnnInv'
<1>1. CASE (Environment \/ GroupStep) /\ UNCHANGED annVars
  BY <1>1, EnvironmentInv, GroupInv
<1>2. CASE AnnouncerStep
  BY <1>2, StartInv, StopInv, StopCancelInv, LoopInv, EnterInv, AssignInv, OnExpirationInv
  DEF AnnouncerStep, Stopping, JoinThread
<1>3. CASE UNCHANGED vars
  <2> USE <1>3 DEF vars, annVars
  <2>1. /\ Types' /\ Watching' /\ Sessions'
        /\ Known' = Known
        /\ UNCHANGED <<reqs, queue, nodes, orphans, made, drops, result, cancelled>>
    BY GroupFrame
  <2>2. ThreadTypes' /\ Joining' /\ Creates' /\ Deletes' /\ Counted'
    BY <2>1 DEF AnnInv, ThreadTypes, Joining, Creates, Deletes, Held, Counted, Open
  <2>3. EachAccounted'
    BY <2>1 DEF AnnInv, EachAccounted, Held
  <2> QED
    BY <2>1, <2>2, <2>3 DEF AnnInv
<1> QED
  BY <1>1, <1>2, <1>3 DEF Next

\* Of every behaviour.
LEMMA AnnInvariant == Spec => []AnnInv
  BY InitAnn, NextAnn, PTL DEF Spec

\* Each variable keeps its type; in particular there are no more znodes than joins
\* and lost connections (kazoo_group.py acreate_completion).
THEOREM AnnouncerTypeCorrect == Spec => []TypeOK
<1>1. AnnInv => TypeOK
  <2> SUFFICES ASSUME AnnInv PROVE TypeOK
    OBVIOUS
  <2>1. made \in 0 .. MaxNodes
    <3>1. joins + drops <= MaxNodes /\ made \in Nat /\ made <= joins + drops
      BY GroupBounds DEF AnnInv, Types, ThreadTypes, Counted, MaxNodes
    <3> QED
      BY <3>1, GroupBounds DEF AnnInv, Types, ThreadTypes, MaxNodes
  <2>2. /\ Known \subseteq {Error} \union 0 .. MaxNodes
        /\ Known \subseteq Memberships \union {Pending}
        /\ Known \subseteq Memberships \union {NoMember}
        /\ 1 .. made \subseteq 1 .. MaxNodes
    BY <2>1, GroupBounds DEF Known, Memberships, Pending, NoMember, MaxNodes
  <2>3. Sent \subseteq Request /\ Queued \subseteq Entry
    BY <2>2 DEF Sent, Queued, Request, Entry
  <2>4. \A r \in reqs : r.op = "delete" => r.node # Pending
    BY DEF AnnInv, Deletes
  <2>5. GroupTypeOK
    BY <2>1, <2>2, <2>3, <2>4 DEF GroupTypeOK, AnnInv, Types
  <2> QED
    BY <2>2, <2>5 DEF TypeOK, AnnInv, ThreadTypes
<1> QED
  BY <1>1, AnnInvariant, PTL

\* Whatever happens to connections, sessions and threads, a live znode of the task
\* is held, on its way, or one that cannot be reached any more: the task is never
\* announced twice at a time, and what it holds it gives up when it stops
\* (announcer.py _join, stop, on_expiration; kazoo_group.py join, cancel).
THEOREM AccountedCorrect == Spec => []Accounted
<1>1. AnnInv => Accounted
  <2> SUFFICES ASSUME AnnInv, NEW n \in nodes, n \notin orphans, n \notin untracked
               PROVE  n \in InFlight
                            \union (IF stopping \in {"done", "raised"} THEN {} ELSE {membership})
    BY DEF Accounted
  <2>1. n \in Held
    BY DEF Held
  <2> QED
    BY <2>1 DEF AnnInv, EachAccounted, InFlight
<1> QED
  BY <1>1, AnnInvariant, PTL
=============================================================================
