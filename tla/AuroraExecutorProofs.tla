------------------------ MODULE AuroraExecutorProofs -------------------------
(***************************************************************************)
(* What the executor tells the scheduler comes in order and is true, and   *)
(* what it stops without an error is stopped, in every interleaving of its *)
(* threads with the runner's process, the checker and the driver.          *)
(*                                                                         *)
(* Three threads send updates.  They never do so at the same time because  *)
(* each starts the next one and is done; a result that one of them holds   *)
(* is still true when it is sent, because what it rests on is final: a     *)
(* terminal checkpoint, the exit of a process, a kill.  The types of the   *)
(* whole executor come last.                                               *)
(***************************************************************************)
EXTENDS AuroraExecutor, SequenceTheorems, TLAPS

\* The types that the invariant needs.
Types ==
  /\ ckpt \in Ended \union {"none", "ACTIVE", "ENDING"}
  /\ child \in {"none", "up", "exited"}
  /\ exit \in {"none", "ok", "signal", "user", "internal"}
  /\ exit # "none" <=> child = "exited"
  /\ cached \in Verdicts \union {"none"}
  /\ verdict \in Verdicts \union {"none"} /\ seen \in Verdicts \union {"none"}
  /\ health \in {"STARTING", "RUNNING", "FAILED"}
  /\ updates \in Seq(Verdicts \union {"STARTING", "RUNNING"})

\* The threads: who has started whom, and what the runner's process is by then.
Threads ==
  /\ run \in {"none", "queued", "sandbox", "provider", "check", "start", "manager", "done", "dead"}
  /\ ~launched => run = "none"
  /\ run \in {"none", "queued", "sandbox", "provider", "check"} => starter = "none"
  /\ starter \in {"none", "forking"} => child = "none"
  /\ starter \in {"waiting", "started"} => child # "none"
  /\ run = "manager" \/ sm # "none" => starter = "started"
  /\ sm # "none" => run = "done"
  /\ stopper # "none" => sm # "none"
  /\ sm \in {"shutdown", "checkers", "stop", "report"} => verdict \in Verdicts

\* What was sent, by where the threads that send are.
Order ==
  /\ ~launched \/ run = "queued" => updates = << >>
  /\ ~aborted =>
       /\ run = "none" => updates \in {<< >>, <<"FAILED">>}
       /\ run \in {"sandbox", "provider", "check", "start", "manager", "dead"} =>
            updates = <<"STARTING">>
       /\ run = "done" /\ sm = "none" => \E v \in Verdicts : updates = <<"STARTING", v>>
       /\ sm \notin {"none", "over"} =>
            updates \in {<<"STARTING">>, <<"STARTING", "RUNNING">>}
       /\ sm = "over" =>
            \E v \in Verdicts : updates \in {<<"STARTING", v>>, <<"STARTING", "RUNNING", v>>}

\* What a status claims.
Holds(v) ==
  /\ v = "FINISHED" => ckpt = "SUCCESS"
  /\ v = "KILLED" => killed \/ aborted \/ exit = "signal" \/ ckpt = "KILLED"

Truth ==
  /\ Holds(cached) /\ Holds(verdict) /\ Holds(seen)
  /\ \A i \in DOMAIN updates : Holds(updates[i])

ExecutorInv == Types /\ Threads /\ Order /\ Truth /\ CleanStop

-----------------------------------------------------------------------------

\* Initially no thread runs and nothing was sent.
LEMMA InitInv == Init => ExecutorInv
<1> SUFFICES ASSUME Init PROVE ExecutorInv
  OBVIOUS
<1> USE DEF Init
<1>1. Types
  BY DEF Types, Verdicts, Ended
<1>2. Threads /\ CleanStop
  BY DEF Threads, CleanStop
<1>3. Order
  BY DEF Order
<1>4. Truth
  BY DEF Truth, Holds
<1> QED
  BY <1>1, <1>2, <1>3, <1>4 DEF ExecutorInv

\* What a status claims is final.
Final ==
  /\ ckpt \in Ended => ckpt' = ckpt
  /\ exit # "none" => exit' = exit
  /\ killed => killed'
  /\ aborted => aborted'

\* A claim that holds goes on to hold.
LEMMA HoldsStays ==
  ASSUME Final, NEW v, Holds(v)
  PROVE  Holds(v)'
  BY DEF Final, Holds, Ended

\* A step that sends nothing and keeps the results, or one that sends a claim
\* that holds, keeps what was sent true.
LEMMA TruthFrame ==
  ASSUME Truth, Final, UNCHANGED <<cached, verdict, seen, updates>>
  PROVE  Truth'
  BY HoldsStays DEF Truth, Holds

LEMMA TruthSend ==
  ASSUME Truth, Final, Types, UNCHANGED <<cached, verdict, seen>>,
         NEW v, v \in Verdicts \union {"STARTING", "RUNNING"}, Send(v), Holds(v)'
  PROVE  Truth'
<1>1. \A i \in DOMAIN updates' : updates'[i] = v \/ (i \in DOMAIN updates /\ updates'[i] = updates[i])
  BY DEF Send, Types
<1>2. (\A i \in DOMAIN updates : Holds(updates[i]))'
  BY <1>1, HoldsStays DEF Truth, Holds
<1>3. Holds(cached)' /\ Holds(verdict)' /\ Holds(seen)'
  BY HoldsStays DEF Truth, Holds
<1> QED
  BY <1>2, <1>3 DEF Truth, Holds

-----------------------------------------------------------------------------
(* The driver's callbacks *)

\* A launch starts one thread, or reports a task that cannot be run.
LEMMA LaunchInv ==
  ASSUME ExecutorInv, LaunchTask \/ LaunchInvalid
  PROVE  ExecutorInv'
<1> USE DEF ExecutorInv
<1>1. CASE LaunchTask
  <2> USE <1>1 DEF LaunchTask, results, child_vars, checker, driver
  <2>1. Types'
    BY DEF Types
  <2>2. Threads' /\ CleanStop'
    BY DEF Threads, CleanStop
  <2>3. Order'
    BY DEF Order, Threads
  <2>4. Truth'
    BY TruthFrame DEF Final
  <2> QED
    BY <2>1, <2>2, <2>3, <2>4
<1>2. CASE LaunchInvalid
  <2> USE <1>2 DEF LaunchInvalid, SendLast, threads, results, child_vars, checker
  <2>1. Types'
    BY DEF Types, Send, Verdicts
  <2>2. Threads' /\ CleanStop'
    BY DEF Threads, CleanStop
  <2>3. Order'
    BY DEF Order, Threads, Send
  <2>4. Truth'
    <3>1. Send("FAILED") /\ Holds("FAILED")' /\ "FAILED" \in Verdicts
      BY DEF Holds, Verdicts
    <3>2. Final /\ UNCHANGED <<cached, verdict, seen>>
      BY DEF Final
    <3> QED
      BY <3>1, <3>2, TruthSend
  <2> QED
    BY <2>1, <2>2, <2>3, <2>4
<1> QED
  BY <1>1, <1>2

\* A kill, and the end of the executor, send nothing.
LEMMA KillInv ==
  ASSUME ExecutorInv, KillTask \/ KillAborts \/ DriverStops \/ MainInterrupted
  PROVE  ExecutorInv'
<1> USE DEF ExecutorInv
<1>1. /\ UNCHANGED <<launched, run, starter, sm, stopper, results, child_vars, checker, updates>>
      /\ (killed => killed') /\ (aborted => aborted')
  BY DEF KillTask, KillAborts, DriverStops, MainInterrupted, threads, events, driver
<1> USE <1>1 DEF results, child_vars, checker
<1>2. Types'
  BY DEF Types
<1>3. Threads' /\ CleanStop'
  BY DEF Threads, CleanStop
<1>4. Order'
  BY DEF Order
<1>5. Truth'
  BY TruthFrame DEF Final
<1> QED
  BY <1>2, <1>3, <1>4, <1>5

-----------------------------------------------------------------------------
(* The thread that starts the task *)

\* Its steps touch neither the process nor the status manager's results.
LEMMA RunningFrame ==
  ASSUME Running
  PROVE  /\ UNCHANGED <<results, child_vars, checker, stopper, launched, killed>>
         /\ aborted => aborted'
         /\ Final
<1>1. /\ UNCHANGED <<results, child_vars, checker, stopper, launched, killed>>
      /\ aborted => aborted'
  BY DEF Running, RunBegins, InitializeSandbox, MakeRunner, StartRunner, RunnerStarted,
         RunnerNotStarted, StartStatusManager, events
<1> QED
  BY <1>1 DEF Final, child_vars

\* It sends nothing, or STARTING, FAILED or LOST, or KILLED when it is aborted.
LEMMA RunningSends ==
  ASSUME ExecutorInv, Running
  PROVE  /\ Types' /\ Truth'
         /\ \/ UNCHANGED updates
            \/ \E v \in {"STARTING", "FAILED", "LOST", "KILLED"} :
                 Send(v) /\ (v = "KILLED" => aborted)
<1>1. \/ UNCHANGED updates
      \/ \E v \in {"STARTING", "FAILED", "LOST", "KILLED"} :
           Send(v) /\ (v = "KILLED" => aborted)
  BY DEF Running, RunBegins, InitializeSandbox, MakeRunner, StartRunner, RunnerStarted,
         RunnerNotStarted, StartStatusManager, Die, SendLast, driver
<1>2. Final /\ UNCHANGED <<results, child_vars, checker>>
  BY RunningFrame
<1>3. CASE UNCHANGED updates
  <2>1. Truth'
    BY <1>2, <1>3, TruthFrame DEF ExecutorInv, results
  <2> QED
    BY <1>1, <1>2, <1>3, <2>1 DEF ExecutorInv, Types, results, child_vars, checker
<1>4. ASSUME NEW v \in {"STARTING", "FAILED", "LOST", "KILLED"},
             Send(v), v = "KILLED" => aborted
      PROVE  Types' /\ Truth'
  <2>1. Holds(v)' /\ v \in Verdicts \union {"STARTING", "RUNNING"}
    BY <1>2, <1>4 DEF Holds, Final, Verdicts
  <2>2. Truth'
    BY <1>2, <1>4, <2>1, TruthSend DEF ExecutorInv, results
  <2> QED
    BY <1>2, <1>4, <2>1, <2>2 DEF ExecutorInv, Types, Send, results, child_vars, checker
<1> QED
  BY <1>1, <1>3, <1>4

\* A verdict after the updates of a task that starts.
LEMMA AppendVerdict ==
  ASSUME NEW a, NEW b, NEW v
  PROVE  /\ Append(<<a>>, v) = <<a, v>>
         /\ Append(<<a, b>>, v) = <<a, b, v>>
<1> DEFINE S == {a, b, v}
<1> a \in S /\ b \in S /\ v \in S
  OBVIOUS
<1> HIDE DEF S
<1>1. Append(<<a>>, v) = <<a, v>>
  <2>1. <<a>> \in Seq(S) /\ <<a, v>> \in Seq(S)
    OBVIOUS
  <2>2. Append(<<a>>, v) \in Seq(S) /\ Len(Append(<<a>>, v)) = 2
    BY <2>1
  <2>3. \A i \in 1 .. 2 : Append(<<a>>, v)[i] = <<a, v>>[i]
    OBVIOUS
  <2> QED
    BY <2>1, <2>2, <2>3, SeqEqual
<1>2. Append(<<a, b>>, v) = <<a, b, v>>
  <2>1. <<a, b>> \in Seq(S) /\ <<a, b, v>> \in Seq(S)
    OBVIOUS
  <2>2. Append(<<a, b>>, v) \in Seq(S) /\ Len(Append(<<a, b>>, v)) = 3
    BY <2>1
  <2>3. \A i \in 1 .. 3 : Append(<<a, b>>, v)[i] = <<a, b, v>>[i]
    OBVIOUS
  <2> QED
    BY <2>1, <2>2, <2>3, SeqEqual
<1> QED
  BY <1>1, <1>2

\* One that gives up has sent STARTING and its reason, unless it was aborted.
LEMMA DieOrder ==
  ASSUME Order, NEW v \in Verdicts, Die(v), sm = "none", sm' = sm, launched, launched',
         run \in {"sandbox", "start"}, aborted => aborted'
  PROVE  Order'
<1>1. run' = "done" /\ updates' = Append(updates, v)
  BY DEF Die, SendLast, Send
<1>2. ASSUME ~aborted' PROVE updates' = <<"STARTING", v>>
  <2>1. updates = <<"STARTING">>
    BY <1>2 DEF Order
  <2>2. Append(<<"STARTING">>, v) = <<"STARTING", v>>
    BY AppendVerdict
  <2> QED
    BY <1>1, <2>1, <2>2
<1>3. ~aborted' => \E w \in Verdicts : updates' = <<"STARTING", w>>
  BY <1>2
<1> QED
  BY <1>1, <1>3 DEF Order

\* Each of its steps leaves what was sent as its place says.
LEMMA RunningInv ==
  ASSUME ExecutorInv, Running
  PROVE  ExecutorInv'
<1> USE DEF ExecutorInv
<1>1. Types' /\ Truth' /\ UNCHANGED <<results, child_vars, checker, stopper, launched, killed>>
  BY RunningFrame, RunningSends
<1>2. CleanStop'
  BY <1>1 DEF CleanStop, child_vars
<1> USE DEF At
<1>3. CASE RunBegins
  <2>1. Threads'
    BY <1>1, <1>3 DEF RunBegins, Threads, events, child_vars, results
  <2>2. Order'
    BY <1>1, <1>3 DEF RunBegins, Threads, Order, Send, events
  <2> QED
    BY <1>1, <1>2, <2>1, <2>2
<1>4. CASE InitializeSandbox
  <2>1. Threads'
    BY <1>1, <1>4 DEF InitializeSandbox, Die, Threads, child_vars, results
  <2>2. Order'
    <3>1. CASE Die("FAILED")
      BY <1>1, <1>4, <3>1, DieOrder DEF InitializeSandbox, Threads, Verdicts
    <3>2. CASE run' = "provider" /\ UNCHANGED driver
      BY <1>1, <1>4, <3>2 DEF InitializeSandbox, Threads, Order, driver
    <3>3. CASE run' = "dead" /\ UNCHANGED driver
      BY <1>1, <1>4, <3>3 DEF InitializeSandbox, Threads, Order, driver
    <3> QED
      BY <1>4, <3>1, <3>2, <3>3 DEF InitializeSandbox
  <2> QED
    BY <1>1, <1>2, <2>1, <2>2
<1>5. CASE MakeRunner
  <2>1. Threads'
    BY <1>1, <1>5 DEF MakeRunner, Die, Threads, child_vars, results
  <2>2. Order'
    BY <1>1, <1>5 DEF MakeRunner, Die, SendLast, Send, Threads, Order, driver
  <2> QED
    BY <1>1, <1>2, <2>1, <2>2
<1>6. CASE StartRunner
  <2>1. Threads'
    BY <1>1, <1>6 DEF StartRunner, Threads, child_vars, results, events
  <2>2. Order'
    BY <1>1, <1>6 DEF StartRunner, SendLast, Send, Threads, Order, driver, events
  <2> QED
    BY <1>1, <1>2, <2>1, <2>2
<1>7. CASE RunnerStarted
  <2>1. Threads'
    BY <1>1, <1>7 DEF RunnerStarted, Threads, child_vars, results, events
  <2>2. Order'
    BY <1>1, <1>7 DEF RunnerStarted, Threads, Order, driver, events
  <2> QED
    BY <1>1, <1>2, <2>1, <2>2
<1>8. CASE RunnerNotStarted
  <2>1. Threads'
    BY <1>1, <1>8 DEF RunnerNotStarted, Die, Threads, child_vars, results, events
  <2>2. Order'
    BY <1>1, <1>8, DieOrder DEF RunnerNotStarted, Threads, events, Verdicts
  <2> QED
    BY <1>1, <1>2, <2>1, <2>2
<1>9. CASE StartStatusManager
  <2>1. Threads'
    BY <1>1, <1>9 DEF StartStatusManager, Die, Threads, child_vars, results, events
  <2>2. Order'
    BY <1>1, <1>9 DEF StartStatusManager, Die, SendLast, Send, Threads, Order, driver, events,
                      Verdicts
  <2> QED
    BY <1>1, <1>2, <2>1, <2>2
<1> QED
  BY <1>3, <1>4, <1>5, <1>6, <1>7, <1>8, <1>9 DEF Running

-----------------------------------------------------------------------------
(* The runner wrapper *)

\* Starting the runner makes its process, once.
LEMMA StartingInv ==
  ASSUME ExecutorInv, Starting
  PROVE  ExecutorInv'
<1> USE DEF ExecutorInv
<1>1. /\ UNCHANGED <<run, sm, stopper, events, cached, verdict, seen, exit, ckpt, checker, driver>>
      /\ \/ starter = "forking" /\ child' \in {"up", "none"} /\ starter' \in {"waiting", "error"}
              /\ (starter' = "waiting" => child' = "up")
         \/ starter = "waiting" /\ starter' \in {"started", "error"} /\ child' = child
  BY DEF Starting, StartForks, StartWaits, results, Threads
<1> USE <1>1 DEF events, checker, driver
<1>2. Types'
  BY DEF Types, Threads
<1>3. Threads'
  BY DEF Threads
<1>4. CleanStop'
  BY DEF CleanStop, Threads
<1>5. Order'
  BY DEF Order
<1>6. Truth'
  BY TruthFrame DEF Final
<1> QED
  BY <1>2, <1>3, <1>4, <1>5, <1>6

\* What stopping the runner leaves behind: a process that is over stays so, and
\* a terminal checkpoint is final.
LEMMA StoppingFrame ==
  ASSUME ExecutorInv, Stopping
  PROVE  /\ UNCHANGED <<run, starter, sm, events, cached, verdict, seen, checker, driver>>
         /\ stopper # "none" /\ child # "none"
         /\ child' \in {child, "exited"} /\ Final
         /\ Types'
<1> USE DEF ExecutorInv
<1>1. /\ UNCHANGED <<run, starter, sm, events, cached, verdict, seen, checker, driver>>
      /\ stopper # "none" /\ child # "none"
  BY DEF Stopping, StopKills, StopWaits, StopRebinds, StopAwaits, StopAt, Threads
<1>2. \/ UNCHANGED <<child, exit, ckpt>>
      \/ /\ child' = "exited" /\ exit' = IF Alive THEN "signal" ELSE exit
         /\ ckpt' = IF ckpt \in Ended THEN ckpt ELSE "KILLED"
  BY DEF Stopping, StopKills, StopWaits, StopRebinds, StopAwaits, child_vars
<1>3. Final
  BY <1>1, <1>2 DEF Final, Alive, Types, events
<1>4. Types'
  BY <1>1, <1>2 DEF Types, Alive, Ended, checker, driver
<1> QED
  BY <1>1, <1>2, <1>3, <1>4

\* A stop is done only when the task is over, or its runner died while it ended.
LEMMA StopDone ==
  ASSUME ExecutorInv, Stopping
  PROVE  CleanStop'
<1> USE DEF ExecutorInv, CleanStop
<1>1. CASE StopKills
  BY <1>1 DEF StopKills, StopAt
<1>2. CASE StopWaits
  BY <1>2, StoppingFrame DEF StopWaits, Alive, TaskState, Types, Ended, child_vars
<1>3. CASE StopRebinds
  BY <1>3 DEF StopRebinds, StopAt
<1>4. CASE StopAwaits
  BY <1>4 DEF StopAwaits, child_vars
<1> QED
  BY <1>1, <1>2, <1>3, <1>4 DEF Stopping

LEMMA StoppingInv ==
  ASSUME ExecutorInv, Stopping
  PROVE  ExecutorInv'
<1>1. /\ UNCHANGED <<run, starter, sm, events, cached, verdict, seen, checker, driver>>
      /\ stopper # "none" /\ child # "none" /\ child' \in {child, "exited"} /\ Final /\ Types'
  BY StoppingFrame
<1> USE DEF ExecutorInv, events, checker, driver
<1>2. Threads'
  BY <1>1 DEF Threads
<1>3. Order'
  BY <1>1 DEF Order
<1>4. Truth'
  BY <1>1, TruthFrame
<1> QED
  BY <1>1, <1>2, <1>3, <1>4, StopDone

-----------------------------------------------------------------------------
(* The status manager *)

\* compute_status tells the truth of a runner that was started.
LEMMA RunnerStatusTrue ==
  ASSUME ExecutorInv, sm # "none"
  PROVE  RunnerStatus \in Verdicts \union {"none"} /\ Holds(RunnerStatus)
<1> USE DEF ExecutorInv
<1>1. CASE cached # "none" \/ Alive
  BY <1>1 DEF RunnerStatus, Types, Truth, Holds
<1>2. CASE cached = "none" /\ ~Alive
  <2>1. RunnerStatus = ExitStatus
    BY <1>2 DEF RunnerStatus
  <2>2. CASE exit \in {"signal", "user", "internal"}
    BY <2>1, <2>2 DEF ExitStatus, Holds, Verdicts
  <2>3. CASE exit \in {"none", "ok"}
    <3>1. RunnerStatus = ExitStateMap[TaskState]
      BY <2>1, <2>3 DEF ExitStatus
    <3> QED
      BY <3>1 DEF ExitStateMap, TaskState, Holds, Verdicts, Types, Ended
  <2> QED
    BY <2>2, <2>3 DEF Types
<1> QED
  BY <1>1, <1>2

\* It changes nothing that the status of a task rests on.
LEMMA ManagingFrame ==
  ASSUME ExecutorInv, Managing
  PROVE  /\ UNCHANGED <<run, starter, killer, events, killSignal, child_vars, health>>
         /\ sm \in {"poll", "chain", "shutdown", "checkers", "stop", "report"}
         /\ run = "done" /\ starter = "started" /\ launched /\ Final
<1>1. /\ UNCHANGED <<run, starter, killer, events, killSignal, child_vars, health>>
      /\ sm \in {"poll", "chain", "shutdown", "checkers", "stop", "report"}
  BY DEF Managing, PollRunner, PollCheckers, Shutdown, StopCheckers, RunnerStopped, Report, SMAt
<1>2. Final
  BY <1>1 DEF Final, child_vars, events
<1>3. run = "done" /\ starter = "started"
  BY <1>1 DEF ExecutorInv, Threads
<1>4. launched
  BY <1>3 DEF ExecutorInv, Threads
<1> QED
  BY <1>1, <1>2, <1>3, <1>4

\* A step that asks for a status: what it keeps of it is true.
LEMMA AskInv ==
  ASSUME ExecutorInv, PollRunner \/ Shutdown
  PROVE  ExecutorInv'
<1> USE DEF ExecutorInv
<1>1. /\ UNCHANGED <<run, starter, killer, events, killSignal, child_vars, health>>
      /\ sm \in {"poll", "shutdown"} /\ run = "done" /\ starter = "started" /\ launched /\ Final
  BY ManagingFrame DEF Managing, PollRunner, Shutdown, SMAt
<1>2. /\ UNCHANGED <<stopper, stopped, driver>>
      /\ cached' = RunnerStatus
      /\ \/ verdict' = RunnerStatus /\ verdict' # "none" /\ sm' = "shutdown" /\ UNCHANGED seen
         \/ UNCHANGED <<verdict, seen>> /\ sm' = "chain"
         \/ UNCHANGED verdict /\ seen' = RunnerStatus /\ sm = "shutdown" /\ sm' = "checkers"
  <2>1. CASE PollRunner
    BY <2>1 DEF PollRunner
  <2>2. CASE Shutdown
    BY <2>2 DEF Shutdown, SMAt
  <2> QED
    BY <2>1, <2>2
<1>3. RunnerStatus \in Verdicts \union {"none"} /\ Holds(RunnerStatus)
  BY <1>1, RunnerStatusTrue
<1>4. Types'
  BY <1>1, <1>2, <1>3 DEF Types, child_vars, driver
<1>5. Threads'
  BY <1>1, <1>2, <1>3 DEF Threads, events, child_vars
<1>6. CleanStop'
  BY <1>1, <1>2 DEF CleanStop, child_vars
<1>7. Order'
  BY <1>1, <1>2 DEF Order, events, driver
<1>8. Truth'
  BY <1>1, <1>2, <1>3 DEF Truth, Holds, events, child_vars, driver
<1> QED
  BY <1>4, <1>5, <1>6, <1>7, <1>8

\* The checkers' verdict is a kill that was asked for, or a failed health check;
\* RUNNING is sent once.
LEMMA CheckersInv ==
  ASSUME ExecutorInv, PollCheckers
  PROVE  ExecutorInv'
<1> USE DEF ExecutorInv
<1>1. /\ UNCHANGED <<run, starter, killer, events, killSignal, child_vars, health>>
      /\ sm = "chain" /\ run = "done" /\ starter = "started" /\ launched /\ Final
  BY ManagingFrame DEF Managing, PollCheckers, SMAt
<1>2. /\ UNCHANGED <<stopper, cached, seen, stopped>>
      /\ \/ /\ verdict' \in {"KILLED", "FAILED"} /\ (verdict' = "KILLED" => killed)
            /\ sm' = "shutdown"
         \/ UNCHANGED verdict /\ sm' = "poll"
      /\ \/ UNCHANGED updates
         \/ Send("RUNNING") /\ \A i \in DOMAIN updates : updates[i] # "RUNNING"
  <2>1. health \in {"STARTING", "RUNNING", "FAILED"}
    BY DEF Types
  <2> QED
    BY <2>1 DEF PollCheckers, Verdicts
<1>3. Types'
  BY <1>1, <1>2 DEF Types, child_vars, Send, Verdicts
<1>4. Threads'
  BY <1>1, <1>2 DEF Threads, events, child_vars, Verdicts
<1>5. CleanStop'
  BY <1>1, <1>2 DEF CleanStop, child_vars
<1>6. Order'
  <2>1. CASE UNCHANGED updates
    BY <1>1, <1>2, <2>1 DEF Order, events
  <2>2. CASE Send("RUNNING") /\ \A i \in DOMAIN updates : updates[i] # "RUNNING"
    <3>1. ASSUME ~aborted PROVE updates = <<"STARTING">>
      BY <1>1, <2>2, <3>1 DEF Order
    <3>2. Append(<<"STARTING">>, "RUNNING") = <<"STARTING", "RUNNING">>
      BY AppendVerdict
    <3>3. ~aborted => updates' = <<"STARTING", "RUNNING">>
      BY <2>2, <3>1, <3>2 DEF Send
    <3> QED
      BY <1>1, <1>2, <3>3 DEF Order, events
  <2> QED
    BY <1>2, <2>1, <2>2
<1>7. Truth'
  <2>1. \A i \in DOMAIN updates' :
          updates'[i] = "RUNNING" \/ (i \in DOMAIN updates /\ updates'[i] = updates[i])
    BY <1>2 DEF Send, Types
  <2> QED
    BY <1>1, <1>2, <2>1 DEF Truth, Holds, events, child_vars
<1> QED
  BY <1>3, <1>4, <1>5, <1>6, <1>7

\* The checkers are stopped, and the runner is.
LEMMA StopInv ==
  ASSUME ExecutorInv, StopCheckers \/ RunnerStopped
  PROVE  ExecutorInv'
<1> USE DEF ExecutorInv
<1>1. /\ UNCHANGED <<run, starter, killer, events, killSignal, child_vars, health>>
      /\ sm \in {"checkers", "stop"} /\ run = "done" /\ starter = "started" /\ launched /\ Final
  BY ManagingFrame DEF Managing, StopCheckers, RunnerStopped, SMAt
<1>2. /\ UNCHANGED <<cached, verdict, seen, driver>>
      /\ stopper' \in {stopper, "kill"} /\ sm' \in {"stop", "dead", "report"}
  BY DEF StopCheckers, RunnerStopped
<1> USE <1>1, <1>2 DEF events, child_vars, driver
<1>3. Types'
  BY DEF Types
<1>4. Threads'
  BY DEF Threads
<1>5. CleanStop'
  BY DEF CleanStop
<1>6. Order'
  BY DEF Order
<1>7. Truth'
  BY TruthFrame
<1> QED
  BY <1>3, <1>4, <1>5, <1>6, <1>7

\* The last update is what the runner said, or what the checkers did.
LEMMA ReportInv ==
  ASSUME ExecutorInv, Report
  PROVE  ExecutorInv'
<1> USE DEF ExecutorInv
<1> DEFINE last == IF seen # "none" THEN seen ELSE verdict
<1>1. /\ UNCHANGED <<run, starter, killer, events, killSignal, child_vars, health>>
      /\ sm = "report" /\ run = "done" /\ starter = "started" /\ launched /\ Final
  BY ManagingFrame DEF Managing, Report, SMAt
<1>2. /\ UNCHANGED <<stopper, cached, verdict, seen, stopped>>
      /\ Send(last) /\ sm' = "over"
  BY DEF Report, SendLast
<1>3. last \in Verdicts /\ Holds(last)
  BY <1>1 DEF Types, Threads, Truth, Holds, Verdicts
<1> HIDE DEF last
<1>4. Types'
  BY <1>1, <1>2, <1>3 DEF Types, child_vars, Send
<1>5. Threads'
  BY <1>1, <1>2 DEF Threads, events, child_vars
<1>6. CleanStop'
  BY <1>1, <1>2 DEF CleanStop, child_vars
<1>7. Order'
  <2>1. ASSUME ~aborted
        PROVE  updates' \in {<<"STARTING", last>>, <<"STARTING", "RUNNING", last>>}
    <3>1. updates \in {<<"STARTING">>, <<"STARTING", "RUNNING">>}
      BY <1>1, <2>1 DEF Order
    <3> QED
      BY <1>2, <3>1, AppendVerdict DEF Send
  <2> QED
    BY <1>1, <1>2, <1>3, <2>1 DEF Order, events
<1>8. Truth'
  BY <1>1, <1>2, <1>3, TruthSend DEF Holds, events, child_vars
<1> QED
  BY <1>4, <1>5, <1>6, <1>7, <1>8

-----------------------------------------------------------------------------
(* The runner's process and the checker, and all together *)

\* A process that is over moves no more, and a terminal checkpoint is final.
LEMMA WorldInv ==
  ASSUME ExecutorInv, HealthMoves \/ Child
  PROVE  ExecutorInv'
<1> USE DEF ExecutorInv
<1>1. CASE HealthMoves
  <2>1. /\ UNCHANGED <<threads, events, results, child_vars, driver>>
        /\ health' \in {"RUNNING", "FAILED"}
    BY <1>1 DEF HealthMoves, Health!Decide, Health!Fail
  <2> USE <2>1 DEF threads, events, results, child_vars, driver
  <2>2. Types'
    BY DEF Types
  <2>3. Threads' /\ CleanStop'
    BY DEF Threads, CleanStop
  <2>4. Order'
    BY DEF Order
  <2>5. Truth'
    BY TruthFrame DEF Final
  <2> QED
    BY <2>2, <2>3, <2>4, <2>5
<1>2. CASE Child
  <2>1. /\ UNCHANGED <<threads, events, results, sent, checker, driver>>
        /\ child = "up"
        /\ \/ child' = "exited" /\ exit' \in {"ok", "signal", "user", "internal"} /\ ckpt' = ckpt
           \/ /\ ckpt \in {"none", "ACTIVE", "ENDING"}
              /\ ckpt' \in Ended \union {"ACTIVE", "ENDING"} /\ UNCHANGED <<child, exit>>
    BY <1>2 DEF Child, ChildRefuses, ChildRecords, ChildLeaves, ChildDies, ChildStep, Alive, Ended
  <2> USE <2>1 DEF threads, events, results, checker, driver
  <2>2. Types'
    BY DEF Types
  <2>3. Threads'
    BY DEF Threads
  <2>4. Final
    BY DEF Final, Types, Ended
  <2>5. CleanStop'
    BY <2>4 DEF CleanStop, Final
  <2>6. Order'
    BY DEF Order
  <2>7. Truth'
    BY <2>4, TruthFrame
  <2> QED
    BY <2>2, <2>3, <2>5, <2>6, <2>7
<1> QED
  BY <1>1, <1>2

\* Every step keeps the invariant.
LEMMA NextInv ==
  ASSUME ExecutorInv, [Next]_vars
  PROVE  ExecutorInv'
<1>1. CASE UNCHANGED vars
  <2> USE <1>1 DEF ExecutorInv, vars, threads, events, results, child_vars, checker, driver
  <2>1. Types' /\ Threads' /\ CleanStop'
    BY DEF Types, Threads, CleanStop
  <2>2. Order' /\ Truth'
    BY TruthFrame DEF Order, Final
  <2> QED
    BY <2>1, <2>2
<1>2. CASE Managing
  BY <1>2, AskInv, CheckersInv, StopInv, ReportInv DEF Managing
<1> QED
  BY <1>1, <1>2, LaunchInv, KillInv, RunningInv, StartingInv, StoppingInv, WorldInv DEF Next

\* The invariant holds of every behaviour.
LEMMA ExecutorInvariant == Spec => []ExecutorInv
  BY InitInv, NextInv, PTL DEF Spec

\* Unless a start is aborted, each status is sent once and none after a terminal
\* one, whatever is killed, fails or takes too long
\* (aurora_executor.py _run, _die, _shutdown; status_manager.py run).
THEOREM OrderCorrect == Spec => []UpdatesInOrder
<1>1. ExecutorInv => UpdatesInOrder
  <2> SUFFICES ASSUME ExecutorInv, ~aborted
               PROVE  /\ \A i \in Terminal : i = Len(updates)
                      /\ \A i, j \in DOMAIN updates : updates[i] = updates[j] => i = j
    BY DEF UpdatesInOrder
  <2>1. \/ updates \in {<< >>, <<"FAILED">>, <<"STARTING">>, <<"STARTING", "RUNNING">>}
        \/ \E v \in Verdicts : updates \in {<<"STARTING", v>>, <<"STARTING", "RUNNING", v>>}
    BY DEF ExecutorInv, Order, Threads, Verdicts
  <2>2. CASE updates \in {<< >>, <<"FAILED">>, <<"STARTING">>, <<"STARTING", "RUNNING">>}
    <3>1. CASE updates = << >>
      BY <3>1 DEF Terminal, Verdicts
    <3>2. CASE updates \in {<<"FAILED">>, <<"STARTING">>}
      BY <3>2 DEF Terminal, Verdicts
    <3>3. CASE updates = <<"STARTING", "RUNNING">>
      BY <3>3 DEF Terminal, Verdicts
    <3> QED
      BY <2>2, <3>1, <3>2, <3>3
  <2>3. ASSUME NEW v \in Verdicts, updates = <<"STARTING", v>>
        PROVE  /\ \A i \in Terminal : i = Len(updates)
               /\ \A i, j \in DOMAIN updates : updates[i] = updates[j] => i = j
    BY <2>3 DEF Terminal, Verdicts
  <2>4. ASSUME NEW v \in Verdicts, updates = <<"STARTING", "RUNNING", v>>
        PROVE  /\ \A i \in Terminal : i = Len(updates)
               /\ \A i, j \in DOMAIN updates : updates[i] = updates[j] => i = j
    BY <2>4 DEF Terminal, Verdicts
  <2> QED
    BY <2>1, <2>2, <2>3, <2>4
<1> QED
  BY <1>1, ExecutorInvariant, PTL

\* FINISHED is told only of a task that succeeded by its checkpoint, KILLED only
\* of one that was killed (thermos_task_runner.py compute_status).
THEOREM VerdictCorrect == Spec => []VerdictTrue
<1>1. ExecutorInv => VerdictTrue
  BY DEF ExecutorInv, Truth, Holds, VerdictTrue, Terminal
<1> QED
  BY <1>1, ExecutorInvariant, PTL

\* stop ends without an error only when the task is over in its checkpoint, or its
\* runner died while the task was ending (thermos_task_runner.py stop).
THEOREM StopCorrect == Spec => []CleanStop
<1>1. ExecutorInv => CleanStop
  BY DEF ExecutorInv
<1> QED
  BY <1>1, ExecutorInvariant, PTL

-----------------------------------------------------------------------------
(* The types of the rest of the executor. *)

\* The threads, and the signal that was sent to the runner.
ThreadTypes ==
  /\ starter \in {"none", "forking", "waiting", "started", "error"}
  /\ killer \in {"idle", "abort"}
  /\ sm \in {"none", "poll", "chain", "shutdown", "checkers", "stop", "report", "over", "dead"}
  /\ stopper \in {"none", "kill", "wait", "rebind", "await", "done", "error"}
  /\ sent \in {"none", "kill", "lose"}

\* The events and flags that they share.
FlagTypes ==
  /\ launched \in BOOLEAN /\ runner \in BOOLEAN /\ sandboxed \in BOOLEAN
  /\ aborted \in BOOLEAN /\ killed \in BOOLEAN /\ killSignal \in BOOLEAN
  /\ stopped \in BOOLEAN /\ stopTimer \in BOOLEAN /\ halted \in BOOLEAN

\* The threads keep their types, and so do the events and flags.
LEMMA ThreadTypesNext == ASSUME ThreadTypes, [Next]_vars PROVE ThreadTypes'
<1> USE DEF ThreadTypes, threads, child_vars
<1>1. CASE LaunchTask \/ LaunchInvalid \/ KillTask \/ KillAborts \/ DriverStops \/ MainInterrupted
  BY <1>1 DEF LaunchTask, LaunchInvalid, KillTask, KillAborts, DriverStops, MainInterrupted,
     SendLast, Send
<1>2. CASE RunBegins \/ InitializeSandbox \/ MakeRunner \/ StartRunner
  BY <1>2 DEF RunBegins, InitializeSandbox, MakeRunner, StartRunner, Die, SendLast, Send
<1>3. CASE RunnerStarted \/ RunnerNotStarted \/ StartStatusManager
  BY <1>3 DEF RunnerStarted, RunnerNotStarted, StartStatusManager, Die, SendLast, Send
<1>4. CASE StartForks \/ StartWaits
  BY <1>4 DEF StartForks, StartWaits, Terminate
<1>5. CASE StopKills \/ StopWaits \/ StopRebinds \/ StopAwaits
  BY <1>5 DEF StopAt, StopKills, StopWaits, StopRebinds, StopAwaits, Terminate
<1>6. CASE PollRunner \/ PollCheckers
  BY <1>6 DEF SMAt, PollRunner, PollCheckers, Send
<1>7. CASE Shutdown \/ StopCheckers \/ RunnerStopped \/ Report
  BY <1>7 DEF SMAt, Shutdown, StopCheckers, RunnerStopped, Report, SendLast, Send
<1>8. CASE HealthMoves \/ Child \/ UNCHANGED vars
  BY <1>8 DEF HealthMoves, Child, ChildStep, ChildRefuses, ChildRecords, ChildLeaves, ChildDies, vars
<1> QED
  BY <1>1, <1>2, <1>3, <1>4, <1>5, <1>6, <1>7, <1>8
     DEF Next, Running, Starting, Stopping, Managing

LEMMA FlagTypesNext == ASSUME FlagTypes, [Next]_vars PROVE FlagTypes'
<1> USE DEF FlagTypes, events, results, checker, driver
<1>1. CASE LaunchTask \/ LaunchInvalid \/ KillTask \/ KillAborts \/ DriverStops \/ MainInterrupted
  <2>1. CASE LaunchTask \/ LaunchInvalid
    BY <2>1 DEF LaunchTask, LaunchInvalid, SendLast, Send
  <2>2. CASE KillTask \/ KillAborts
    BY <2>2 DEF KillTask, KillAborts, SendLast, Send
  <2>3. CASE DriverStops \/ MainInterrupted
    BY <2>3 DEF DriverStops, MainInterrupted
  <2> QED
    BY <1>1, <2>1, <2>2, <2>3
<1>2. CASE RunBegins \/ InitializeSandbox \/ MakeRunner \/ StartRunner
  <2>1. CASE RunBegins
    BY <2>1 DEF RunBegins, Die, SendLast, Send
  <2>2. CASE InitializeSandbox
    BY <2>2 DEF InitializeSandbox, Die, SendLast, Send
  <2>3. CASE MakeRunner
    BY <2>3 DEF MakeRunner, Die, SendLast, Send
  <2>4. CASE StartRunner
    BY <2>4 DEF StartRunner, Die, SendLast, Send
  <2> QED
    BY <1>2, <2>1, <2>2, <2>3, <2>4
<1>3. CASE RunnerStarted \/ RunnerNotStarted \/ StartStatusManager
  <2>1. CASE RunnerStarted \/ StartStatusManager
    BY <2>1 DEF RunnerStarted, StartStatusManager, Die, SendLast, Send
  <2>2. CASE RunnerNotStarted
    BY <2>2 DEF RunnerNotStarted, Die, SendLast, Send
  <2> QED
    BY <1>3, <2>1, <2>2
<1>4. CASE StartForks \/ StartWaits
  BY <1>4 DEF StartForks, StartWaits, Terminate
<1>5. CASE StopKills \/ StopWaits \/ StopRebinds \/ StopAwaits
  BY <1>5 DEF StopAt, StopKills, StopWaits, StopRebinds, StopAwaits, Terminate
<1>6. CASE PollRunner \/ PollCheckers
  BY <1>6 DEF SMAt, PollRunner, PollCheckers, Send
<1>7. CASE Shutdown \/ StopCheckers \/ RunnerStopped \/ Report
  <2>1. CASE Shutdown \/ StopCheckers
    BY <2>1 DEF SMAt, Shutdown, StopCheckers
  <2>2. CASE RunnerStopped \/ Report
    BY <2>2 DEF SMAt, RunnerStopped, Report, SendLast, Send
  <2> QED
    BY <1>7, <2>1, <2>2
<1>8. CASE HealthMoves \/ Child \/ UNCHANGED vars
  <2>1. CASE HealthMoves
    BY <2>1 DEF HealthMoves, Health!Decide, Health!Fail
  <2>2. CASE Child
    BY <2>2 DEF Child, ChildStep, ChildRefuses, ChildRecords, ChildLeaves, ChildDies
  <2> QED
    BY <1>8, <2>1, <2>2 DEF vars
<1> QED
  BY <1>1, <1>2, <1>3, <1>4, <1>5, <1>6, <1>7, <1>8
     DEF Next, Running, Starting, Stopping, Managing

\* Types of the executor: its threads, the results they hold, the runner's process
\* with its exit, and the updates (aurora_executor.py, thermos_task_runner.py).
THEOREM ExecutorTypeCorrect == Spec => []TypeOK
<1>1. Init => ThreadTypes /\ FlagTypes
  BY DEF Init, ThreadTypes, FlagTypes
<1>2. ExecutorInv /\ ThreadTypes /\ FlagTypes => TypeOK
  BY DEF ExecutorInv, Types, Threads, ThreadTypes, FlagTypes, TypeOK
<1> QED
  BY <1>1, <1>2, ThreadTypesNext, FlagTypesNext, ExecutorInvariant, PTL DEF Spec
=============================================================================
