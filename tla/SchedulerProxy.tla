--------------------------- MODULE SchedulerProxy ----------------------------
(***************************************************************************)
(* The reliable client of the scheduler                                    *)
(* (client/api/scheduler_client.py SchedulerProxy): calls made one at a    *)
(* time under its lock, repeated when they may be, and terminate() from    *)
(* another thread.  Each connection authenticates anew with the session    *)
(* of ClientSession, as the process User.                                  *)
(*                                                                         *)
(* The scheduler (Execute, and the answers) is external: a request that    *)
(* broke may still be executed later, or never.                            *)
(***************************************************************************)
EXTENDS ClientSession

CONSTANTS
  User,        \* the process of this proxy
  MaxCalls,    \* bound on the calls
  MaxAttempts  \* RPC_MAXIMUM_WAIT / RPC_RETRY_INTERVAL

ASSUME ProxyBounds == User \in Clients /\ MaxCalls \in Nat /\ MaxAttempts \in Nat \ {0}

VARIABLES
  pc,          \* the caller: idle, loop, connect, auth, send, sent, resent, pause
  client,      \* _client: NoClient, or the token of the connection
  terminating, \* _terminating
  call,        \* calls so far; the last one is in progress unless pc is idle
  retry,       \* calls that may be repeated (retry=True)
  attempts,    \* times the call in progress was sent or could not connect
  request,     \* the request waited for: none, sent, executed
  stray,       \* requests that broke and may still be executed, per call
  executed,    \* executions of each call
  undecoded,   \* executions of each call that a TypeError made it send again
  result       \* what each call returned or raised

callVars == <<pc, call, retry, attempts, result>>
wireVars == <<request, stray, executed, undecoded>>
proxyVars == <<callVars, client, terminating, wireVars>>
vars == <<sessionVars, proxyVars>>

NoClient == MaxGrants + 1
Calls == 1 .. MaxCalls
Results == {"none", "ok", "not_retriable", "auth", "timeout", "internal", "terminated"}

TypeOK ==
  /\ SessionTypeOK
  /\ pc \in {"idle", "loop", "connect", "auth", "send", "sent", "resent", "pause"}
  /\ client \in 0 .. granted \union {NoClient} /\ terminating \in BOOLEAN
  /\ call \in 0 .. MaxCalls /\ retry \subseteq Calls
  /\ attempts \in 0 .. MaxAttempts
  /\ request \in {"none", "sent", "executed"}
  /\ stray \in [Calls -> 0 .. 2 * MaxAttempts]
  /\ executed \in [Calls -> 0 .. 2 * MaxAttempts]
  /\ undecoded \in [Calls -> 0 .. MaxAttempts]
  /\ result \in [Calls -> Results]

Init ==
  /\ SessionInit
  /\ pc = "idle" /\ client = NoClient /\ terminating = FALSE
  /\ call = 0 /\ retry = {} /\ attempts = 0
  /\ request = "none" /\ stray = [n \in Calls |-> 0] /\ executed = [n \in Calls |-> 0]
  /\ undecoded = [n \in Calls |-> 0]
  /\ result = [n \in Calls |-> "none"]

-----------------------------------------------------------------------------
(* The caller's thread in method_wrapper, holding the lock.                *)

Goto(l) == pc' = l /\ UNCHANGED <<call, retry, result>>
Return(r) ==
  /\ result' = [result EXCEPT ![call] = r]
  /\ pc' = "idle" /\ attempts' = 0 /\ UNCHANGED <<call, retry>>

Call(again) ==
  /\ pc = "idle" /\ call < MaxCalls
  /\ call' = call + 1 /\ pc' = "loop"
  /\ retry' = IF again THEN retry \union {call'} ELSE retry
  /\ UNCHANGED <<sessionVars, client, terminating, wireVars, attempts, result>>

\* Mutant: only terminate ends the loop.
LoopForEver ==
  /\ pc = "loop"
  /\ \/ terminating /\ Return("terminated")
     \/ /\ ~terminating
        /\ Goto(IF client = NoClient THEN "connect" ELSE "send") /\ UNCHANGED attempts
  /\ UNCHANGED <<sessionVars, client, terminating, wireVars>>

\* while not terminating and within RPC_MAXIMUM_WAIT: it is over after
\* MaxAttempts pauses, or sooner when the attempts take long.
Loop ==
  /\ pc = "loop"
  /\ \/ terminating /\ Return("terminated")
     \/ ~terminating /\ attempts > 0 /\ Return("timeout")
     \/ /\ ~terminating /\ attempts < MaxAttempts
        /\ Goto(IF client = NoClient THEN "connect" ELSE "send") /\ UNCHANGED attempts
  /\ UNCHANGED <<sessionVars, client, terminating, wireVars>>

\* Mutant: the time is taken anew.
TryAgainUncounted ==
  /\ pc' = IF terminating THEN "loop" ELSE "pause"
  /\ client' = IF terminating THEN client ELSE NoClient
  /\ attempts' = 0
  /\ UNCHANGED <<call, retry, result>>

\* TimeoutError, TransientError: reconnect, always.
TryAgain ==
  /\ pc' = IF terminating THEN "loop" ELSE "pause"
  /\ client' = IF terminating THEN client ELSE NoClient
  /\ attempts' = attempts + 1
  /\ UNCHANGED <<call, retry, result>>

\* Any other exception; that of client() too, an AuthError of the
\* authentication module included.
Fails ==
  /\ \/ terminating /\ Goto("loop") /\ UNCHANGED attempts
     \/ ~terminating /\ Return("internal")
  /\ UNCHANGED client

\* _construct_scheduler: the scheduler cannot be found or reached for a minute,
\* the authentication module raises, or the session is loaded.
Connect ==
  /\ pc = "connect"
  /\ \/ TryAgain /\ UNCHANGED sessionVars
     \/ Fails /\ UNCHANGED sessionVars
     \/ Goto("auth") /\ Load(User) /\ UNCHANGED <<client, attempts>>
  /\ UNCHANGED <<terminating, wireVars>>

Authenticate ==
  /\ pc = "auth"
  /\ \/ /\ Refresh(User) \/ Truncate(User) \/ Write(User)
        /\ UNCHANGED <<pc, client>>
     \/ /\ auth[User] = "ready" /\ client' = token[User] /\ pc' = "send" /\ Leave(User)
  /\ UNCHANGED <<terminating, wireVars, call, retry, attempts, result>>

\* client() returns None when terminate() came after the connection.
Send ==
  /\ pc = "send"
  /\ \/ client = NoClient /\ Fails /\ UNCHANGED request
     \/ /\ client # NoClient /\ request' = "sent" /\ Goto("sent")
        /\ UNCHANGED <<client, attempts>>
  /\ UNCHANGED <<sessionVars, terminating, stray, executed, undecoded>>

-----------------------------------------------------------------------------
(* The scheduler, and what comes of a request.                             *)

Waiting == pc \in {"sent", "resent"}

Execute ==
  /\ request = "sent" /\ request' = "executed"
  /\ executed' = [executed EXCEPT ![call] = @ + 1]
  /\ UNCHANGED <<sessionVars, callVars, client, terminating, stray, undecoded>>

ExecuteStray(n) ==
  /\ stray[n] > 0 /\ stray' = [stray EXCEPT ![n] = @ - 1]
  /\ executed' = [executed EXCEPT ![n] = @ + 1]
  /\ UNCHANGED <<sessionVars, callVars, client, terminating, request, undecoded>>

Answered ==
  /\ Waiting /\ request = "executed" /\ request' = "none"
  /\ Return("ok")
  /\ UNCHANGED <<sessionVars, client, terminating, stray, executed, undecoded>>

\* ERROR_TRANSIENT: the storage is not ready.
Transient ==
  /\ Waiting /\ request = "sent" /\ request' = "none"
  /\ TryAgain
  /\ UNCHANGED <<sessionVars, terminating, stray, executed, undecoded>>

\* 401, 403 or a redirect to a login.  A token that is neither missing nor old
\* is good.  After terminate the message is asked of a new connection, which may
\* time out; its own reading of the session is left out.
Unauthorized ==
  /\ Waiting /\ request = "sent" /\ request' = "none"
  /\ client \in {0} \union old \union {NoClient}
  /\ \/ Return("auth")
     \/ client = NoClient /\ Return("timeout")
  /\ UNCHANGED <<sessionVars, client, terminating, stray, executed, undecoded>>

\* The first method(*args) raises a TypeError, of an argument or of an answer it
\* cannot decode: the call is sent again, whatever retry says.  (Arguments that
\* are missing raise it before anything is sent, and take this turn.)
Undecoded ==
  /\ pc = "sent" /\ Goto("resent") /\ request' = "sent"
  /\ undecoded' = [undecoded EXCEPT ![call] = @ + (IF request = "executed" THEN 1 ELSE 0)]
  /\ UNCHANGED <<sessionVars, client, terminating, attempts, stray, executed>>

\* Any other exception, from a scheduler that executed the call or did not; the
\* next TypeError too.
Rejected ==
  /\ Waiting /\ request \in {"sent", "executed"} /\ request' = "none"
  /\ Fails
  /\ UNCHANGED <<sessionVars, terminating, stray, executed, undecoded>>

\* Mutant: it is taken for a call that did not go through.
BrokenAlwaysRetried ==
  /\ Waiting /\ request' = "none"
  /\ \/ UNCHANGED stray
     \/ request = "sent" /\ stray' = [stray EXCEPT ![call] = @ + 1]
  /\ TryAgain
  /\ UNCHANGED <<sessionVars, terminating, executed, undecoded>>

\* TTransportException: the request was executed, is still on its way or is lost.
Broken ==
  /\ Waiting /\ request' = "none"
  /\ \/ UNCHANGED stray
     \/ request = "sent" /\ stray' = [stray EXCEPT ![call] = @ + 1]
  /\ \/ (terminating \/ call \in retry) /\ TryAgain
     \/ ~terminating /\ call \notin retry /\ Return("not_retriable") /\ UNCHANGED client
  /\ UNCHANGED <<sessionVars, terminating, executed, undecoded>>

Pause ==
  /\ pc = "pause" /\ Goto("loop")
  /\ UNCHANGED <<sessionVars, client, terminating, attempts, wireVars>>

-----------------------------------------------------------------------------

\* Without the lock, from another thread.
Terminate ==
  /\ ~terminating /\ terminating' = TRUE /\ client' = NoClient
  /\ UNCHANGED <<sessionVars, callVars, wireVars>>

Caller == Loop \/ Connect \/ Authenticate \/ Send \/ Pause
Outcome == Answered \/ Transient \/ Unauthorized \/ Undecoded \/ Rejected \/ Broken
Scheduler == Execute \/ \E n \in Calls : ExecuteStray(n)

Others ==
  /\ \/ \E c \in Clients \ {User} : OtherProcess(c)
     \/ \E n \in 1 .. granted : Aging(n)
  /\ UNCHANGED proxyVars

Next ==
  \/ \E again \in BOOLEAN : Call(again)
  \/ Caller \/ Outcome \/ Scheduler \/ Terminate \/ Others

Spec == Init /\ [][Next]_vars

\* The caller goes on, a request ends one way or the other; nobody has to call
\* or to terminate.
FairSpec == Spec /\ WF_vars(Caller) /\ WF_vars(Outcome)

-----------------------------------------------------------------------------
(* Properties *)

\* A call that may not be repeated is executed once at most, and once more for
\* each execution whose answer could not be decoded: through lost answers,
\* transient errors, reconnections and terminate, also by a request that arrives
\* when the caller has given up (scheduler_client.py:346-390).
AtMostOnce == \A n \in (1 .. call) \ retry : executed[n] + stray[n] <= 1 + undecoded[n]

\* "In both cases, the call can be safely retried": a call that may not be
\* repeated and ends in a timeout or in an AuthError was not executed and never
\* will be, but for executions whose answer could not be decoded; ok means executed.
KnownOutcome ==
  \A n \in 1 .. call :
     /\ result[n] = "ok" => executed[n] >= 1
     /\ n \notin retry /\ result[n] \in {"auth", "timeout"} =>
          executed[n] + stray[n] <= undecoded[n]

\* Every call returns or raises, whatever the scheduler, the provider and
\* terminate do (RPC_MAXIMUM_WAIT, _terminating).
CallEnds == (pc # "idle") ~> (pc = "idle")
=============================================================================
