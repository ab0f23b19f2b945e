------------------------ MODULE SchedulerProxyProofs -------------------------
(***************************************************************************)
(* A call that may not be repeated is executed at most once, and once more *)
(* for each answer that could not be decoded, and the outcome of a call is *)
(* what its caller is told; the session is kept; and the types: for any    *)
(* number of calls, attempts and processes that share the session.         *)
(*                                                                         *)
(* The first invariant follows a call through the loop.  Before it is      *)
(* sent, and whenever it is about to be sent again, nothing of it has been *)
(* or will be executed but what a TypeError made it send again, unless it  *)
(* may be repeated; the one way back into the loop with a request under    *)
(* way is that of a proxy that terminates, and that one does not send      *)
(* again.                                                                  *)
(***************************************************************************)
EXTENDS SchedulerProxy, TLAPS

USE DEF Waiting

\* The types that the invariant needs; they hold without the bounds of TypeOK.
Types ==
  /\ pc \in {"idle", "loop", "connect", "auth", "send", "sent", "resent", "pause"}
  /\ call \in 0 .. MaxCalls /\ retry \subseteq Calls
  /\ request \in {"none", "sent", "executed"}
  /\ executed \in [Calls -> Nat] /\ stray \in [Calls -> Nat] /\ undecoded \in [Calls -> Nat]
  /\ result \in [Calls -> Results]

\* A call is in progress unless the caller is idle, a request while it waits.
Progress ==
  /\ pc # "idle" => call \in Calls /\ result[call] = "none"
  /\ Waiting <=> request # "none"

\* Calls to come have left no trace.
Untouched ==
  \A n \in Calls : n > call =>
     executed[n] + stray[n] = 0 /\ undecoded[n] = 0 /\ n \notin retry /\ result[n] = "none"

\* Nothing of the call in progress is executed or under way when it can be sent, but
\* what was executed and not decoded.
Resendable ==
  pc # "idle" /\ call \notin retry =>
     \/ executed[call] + stray[call] <= undecoded[call]
     \/ Waiting /\ request = "executed"
     \/ pc = "loop" /\ terminating

Once == \A n \in Calls \ retry : executed[n] + stray[n] <= 1 + undecoded[n]

Answers ==
  /\ request = "executed" => executed[call] >= 1
  /\ \A n \in Calls :
       /\ result[n] = "ok" => executed[n] >= 1
       /\ n \notin retry /\ result[n] \in {"auth", "timeout"} =>
            executed[n] + stray[n] <= undecoded[n]

Inv == Types /\ Progress /\ Untouched /\ Resendable /\ Once /\ Answers

-----------------------------------------------------------------------------

\* Initially no call was made.
LEMMA InitInv == Init => Inv
<1> SUFFICES ASSUME Init PROVE Inv
  OBVIOUS
<1> USE DEF Init
<1>1. Types
  BY ProxyBounds DEF Types, Results
<1>2. Progress /\ Resendable
  BY DEF Progress, Resendable
<1>3. Untouched /\ Once
  BY DEF Untouched, Once
<1>4. Answers
  BY DEF Answers
<1> QED
  BY <1>1, <1>2, <1>3, <1>4 DEF Inv

\* A step of the session alone, of terminate, or none, changes no call.
LEMMA FrameInv ==
  ASSUME Inv, UNCHANGED <<callVars, wireVars>>, terminating => terminating'
  PROVE  Inv'
<1> USE DEF callVars, wireVars
<1>1. Types'
  BY DEF Inv, Types
<1>2. Progress' /\ Resendable'
  BY DEF Inv, Progress, Resendable
<1>3. Untouched' /\ Once'
  BY DEF Inv, Untouched, Once
<1>4. Answers'
  BY DEF Inv, Answers
<1> QED
  BY <1>1, <1>2, <1>3, <1>4 DEF Inv

\* A step inside a call that neither sends nor ends it: the label is one from
\* which the call may be sent only if that was so before.
LEMMA GotoInv ==
  ASSUME NEW l \in {"loop", "connect", "auth", "send", "pause"},
         Inv, Goto(l), pc # "idle",
         UNCHANGED <<stray, executed, undecoded>>, request' = "none",
         UNCHANGED terminating,
         \/ request # "executed" /\ (pc = "loop" => ~terminating)
         \/ l = "loop" /\ terminating
  PROVE  Inv'
<1> USE DEF Goto
<1>1. Types'
  BY DEF Inv, Types
<1>2. Progress'
  BY DEF Inv, Types, Progress
<1>3. Resendable'
  BY DEF Inv, Types, Resendable
<1>4. Untouched' /\ Once'
  BY DEF Inv, Untouched, Once
<1>5. Answers'
  BY DEF Inv, Answers
<1> QED
  BY <1>1, <1>2, <1>3, <1>4, <1>5 DEF Inv

\* A call that returns or raises: ok when it was executed, an AuthError or a
\* timeout when nothing of it is left.
LEMMA ReturnInv ==
  ASSUME NEW r \in Results,
         Inv, Return(r), pc # "idle",
         UNCHANGED <<stray, executed, undecoded>>, request' = "none",
         r = "ok" => request = "executed",
         r \in {"auth", "timeout"} => request # "executed" /\ (pc = "loop" => ~terminating)
  PROVE  Inv'
<1> USE DEF Return
<1>1. call \in Calls /\ result' = [result EXCEPT ![call] = r]
  BY DEF Inv, Progress
<1>2. Types'
  BY <1>1 DEF Inv, Types
<1>3. Progress' /\ Resendable'
  BY DEF Inv, Progress, Resendable
<1>4. ASSUME NEW n \in Calls, n # call
      PROVE  result'[n] = result[n]
  BY <1>1, <1>4 DEF Inv, Types
<1>5. Untouched'
  <2> SUFFICES ASSUME NEW n \in Calls, n > call
               PROVE  /\ executed[n] + stray[n] = 0 /\ undecoded[n] = 0
                      /\ n \notin retry /\ result'[n] = "none"
    BY DEF Untouched
  <2>1. n # call
    BY <1>1 DEF Calls
  <2> QED
    BY <2>1, <1>4 DEF Inv, Untouched
<1>6. Once'
  BY DEF Inv, Once
<1>7. Answers'
  <2>2. result'[call] = r
    BY <1>1 DEF Inv, Types
  <2>3. call \notin retry /\ r \in {"auth", "timeout"} => executed[call] + stray[call] <= undecoded[call]
    BY DEF Inv, Resendable
  <2>4. r = "ok" => executed[call] >= 1
    BY DEF Inv, Answers
  <2> QED
    BY <1>4, <2>2, <2>3, <2>4 DEF Inv, Answers
<1> QED
  BY <1>2, <1>3, <1>5, <1>6, <1>7 DEF Inv

-----------------------------------------------------------------------------

\* A new call has left no trace.
LEMMA CallInv == ASSUME NEW again \in BOOLEAN, Inv, Call(again) PROVE Inv'
<1> USE DEF Call, wireVars
<1>1. call' = call + 1 /\ call' \in Calls /\ call \in Nat
  BY ProxyBounds DEF Inv, Types, Calls
<1>2. Types'
  BY <1>1, ProxyBounds DEF Inv, Types, Calls
<1>3. retry \subseteq retry' /\ retry' \subseteq retry \union {call'}
  OBVIOUS
<1>4. executed[call'] + stray[call'] = 0 /\ call' \notin retry
  BY <1>1 DEF Inv, Untouched
<1>5. result[call'] = "none"
  BY <1>1 DEF Inv, Untouched
<1>6. Progress'
  BY <1>1, <1>5 DEF Inv, Progress
<1>7. Resendable'
  <2>1. undecoded'[call'] \in Nat
    BY <1>1, <1>2 DEF Types
  <2> QED
    BY <1>4, <2>1 DEF Resendable
<1>8. Untouched'
  <2> SUFFICES ASSUME NEW n \in Calls, n > call'
               PROVE  /\ executed'[n] + stray'[n] = 0 /\ undecoded'[n] = 0
                      /\ n \notin retry' /\ result'[n] = "none"
    BY DEF Untouched
  <2>1. n > call /\ n # call'
    BY <1>1 DEF Calls
  <2> QED
    BY <2>1, <1>3 DEF Inv, Untouched
<1>9. Once' /\ Answers'
  BY <1>3 DEF Inv, Once, Answers, Progress
<1> QED
  BY <1>2, <1>6, <1>7, <1>8, <1>9 DEF Inv

\* The loop: a call goes on only if it may be sent.
LEMMA LoopInv == ASSUME Inv, Loop PROVE Inv'
<1> USE DEF Loop, wireVars
<1>1. request = "none"
  BY DEF Inv, Types, Progress
<1>2. CASE terminating /\ Return("terminated")
  BY <1>1, <1>2, ReturnInv DEF Results
<1>3. CASE ~terminating /\ Return("timeout")
  BY <1>1, <1>3, ReturnInv DEF Results
<1>4. CASE ~terminating /\ Goto(IF client = NoClient THEN "connect" ELSE "send")
  BY <1>1, <1>4, GotoInv
<1> QED
  BY <1>2, <1>3, <1>4

\* A failed attempt: back to the loop, after a pause unless the proxy terminates.
LEMMA TryAgainInv ==
  ASSUME Inv, TryAgain, pc # "idle", pc # "loop",
         UNCHANGED <<stray, executed, undecoded, terminating>>, request' = "none",
         request # "executed" \/ terminating
  PROVE  Inv'
<1>1. Goto(IF terminating THEN "loop" ELSE "pause")
  BY DEF TryAgain, Goto
<1> QED
  BY <1>1, GotoInv

LEMMA FailsInv ==
  ASSUME Inv, Fails, pc # "idle", pc # "loop",
         UNCHANGED <<stray, executed, undecoded, terminating>>, request' = "none"
  PROVE  Inv'
<1>1. CASE terminating /\ Goto("loop")
  BY <1>1, GotoInv
<1>2. CASE Return("internal")
  BY <1>2, ReturnInv DEF Results
<1> QED
  BY <1>1, <1>2 DEF Fails

\* Before a request is sent nothing is waited for.
LEMMA Unsent == ASSUME Inv, ~Waiting PROVE request = "none"
BY DEF Inv, Types, Progress

LEMMA ConnectInv == ASSUME Inv, Connect PROVE Inv'
<1> USE Unsent DEF Connect, wireVars
<1>1. CASE TryAgain
  BY <1>1, TryAgainInv
<1>2. CASE Fails
  BY <1>2, FailsInv
<1>3. CASE Goto("auth")
  BY <1>3, GotoInv
<1> QED
  BY <1>1, <1>2, <1>3

LEMMA AuthenticateInv == ASSUME Inv, Authenticate PROVE Inv'
<1> USE Unsent DEF Authenticate, wireVars
<1>1. CASE UNCHANGED pc
  BY <1>1, FrameInv DEF callVars
<1>2. CASE pc' = "send"
  BY <1>2, GotoInv DEF Goto
<1> QED
  BY <1>1, <1>2

\* The only step that sends: the call left no trace, or may be repeated.
LEMMA SendInv == ASSUME Inv, Send PROVE Inv'
<1> USE Unsent DEF Send
<1>1. CASE Fails /\ UNCHANGED request
  BY <1>1, FailsInv
<1>2. CASE request' = "sent" /\ Goto("sent")
  <2> USE <1>2 DEF Goto
  <2>1. Types' /\ Progress'
    BY DEF Inv, Types, Progress
  <2>2. Resendable' /\ Untouched' /\ Once'
    BY DEF Inv, Resendable, Untouched, Once
  <2>3. Answers'
    BY DEF Inv, Answers
  <2> QED
    BY <2>1, <2>2, <2>3 DEF Inv
<1> QED
  BY <1>1, <1>2

LEMMA PauseInv == ASSUME Inv, Pause PROVE Inv'
BY Unsent, GotoInv DEF Pause, wireVars

-----------------------------------------------------------------------------

\* A request that is waited for is executed: it had left no trace, unless it may
\* be repeated.
LEMMA ExecuteInv == ASSUME Inv, Execute PROVE Inv'
<1> USE DEF Execute, callVars
<1>1. Waiting /\ call \in Calls /\ result[call] = "none"
  BY DEF Inv, Progress
<1>2. executed' = [executed EXCEPT ![call] = @ + 1] /\ executed[call] \in Nat /\ stray[call] \in Nat
      /\ undecoded[call] \in Nat
  BY <1>1 DEF Inv, Types
<1>3. executed'[call] = executed[call] + 1
  BY <1>1, <1>2 DEF Inv, Types
<1>4. \A n \in Calls : n # call => executed'[n] = executed[n]
  BY <1>2 DEF Inv, Types
<1>5. Types' /\ Progress'
  BY <1>1, <1>2 DEF Inv, Types, Progress
<1>6. Untouched'
  BY <1>1, <1>4 DEF Inv, Types, Untouched, Calls
<1>7. call \notin retry => executed[call] + stray[call] <= undecoded[call]
  BY <1>1 DEF Inv, Resendable
<1>8. Resendable'
  BY <1>1 DEF Resendable
<1>9. Once'
  BY <1>2, <1>3, <1>4, <1>7 DEF Inv, Once
<1>10. Answers'
  BY <1>1, <1>2, <1>3, <1>4 DEF Inv, Answers
<1> QED
  BY <1>5, <1>6, <1>8, <1>9, <1>10 DEF Inv

\* A request that broke is executed after all: it was counted already.
LEMMA ExecuteStrayInv == ASSUME NEW n \in Calls, Inv, ExecuteStray(n) PROVE Inv'
<1> USE DEF ExecuteStray, callVars
<1>1. stray[n] \in Nat \ {0} /\ executed[n] \in Nat
  BY DEF Inv, Types
<1>2. executed' = [executed EXCEPT ![n] = executed[n] + 1]
      /\ stray' = [stray EXCEPT ![n] = stray[n] - 1]
  OBVIOUS
<1>3. Types' /\ Progress'
  BY <1>1, <1>2 DEF Inv, Types, Progress
<1>4. \A m \in Calls :
         executed'[m] + stray'[m] = executed[m] + stray[m] /\ executed'[m] >= executed[m]
  BY <1>1, <1>2 DEF Inv, Types
<1>5. Untouched' /\ Once'
  BY <1>4 DEF Inv, Untouched, Once
<1>6. Resendable'
  BY <1>4 DEF Inv, Resendable, Progress
<1>7. Answers'
  <2>1. request = "executed" => call \in Calls
    BY DEF Inv, Progress
  <2>2. \A m \in Calls : executed[m] \in Nat /\ executed'[m] \in Nat
    BY <1>3 DEF Inv, Types
  <2> QED
    BY <1>4, <2>1, <2>2 DEF Inv, Answers
<1> QED
  BY <1>3, <1>5, <1>6, <1>7 DEF Inv

-----------------------------------------------------------------------------

LEMMA AnsweredInv == ASSUME Inv, Answered PROVE Inv'
BY ReturnInv DEF Answered, Results

LEMMA TransientInv == ASSUME Inv, Transient PROVE Inv'
BY TryAgainInv DEF Transient

LEMMA UnauthorizedInv == ASSUME Inv, Unauthorized PROVE Inv'
BY ReturnInv DEF Unauthorized, Results

\* A call that a TypeError sends again: what it may have executed is counted.
LEMMA UndecodedInv == ASSUME Inv, Undecoded PROVE Inv'
<1> USE DEF Undecoded, Goto
<1>1. pc = "sent" /\ call \in Calls /\ result[call] = "none" /\ request \in {"sent", "executed"}
  BY DEF Inv, Types, Progress
<1>2. /\ executed[call] \in Nat /\ stray[call] \in Nat /\ undecoded[call] \in Nat
      /\ undecoded'[call] = undecoded[call] + (IF request = "executed" THEN 1 ELSE 0)
  BY <1>1 DEF Inv, Types
<1>3. \A n \in Calls : undecoded'[n] \in Nat /\ undecoded'[n] >= undecoded[n]
  BY <1>1, <1>2 DEF Inv, Types
<1>4. Types' /\ Progress'
  BY <1>1, <1>2 DEF Inv, Types, Progress
<1>5. Resendable'
  <2>1. CASE request = "executed"
    BY <1>1, <1>2, <2>1 DEF Inv, Once, Resendable
  <2>2. CASE request = "sent"
    BY <1>1, <1>2, <2>2 DEF Inv, Resendable
  <2> QED
    BY <1>1, <2>1, <2>2
<1>6. Untouched'
  <2>1. \A n \in Calls : n > call => undecoded'[n] = undecoded[n]
    BY <1>1 DEF Inv, Types, Calls
  <2> QED
    BY <2>1 DEF Inv, Untouched
<1>7. \A n \in Calls : executed[n] \in Nat /\ stray[n] \in Nat /\ undecoded[n] \in Nat
  BY DEF Inv, Types
<1>8. Once' /\ Answers'
  BY <1>1, <1>3, <1>7 DEF Inv, Once, Answers
<1> QED
  BY <1>4, <1>5, <1>6, <1>8 DEF Inv

LEMMA RejectedInv == ASSUME Inv, Rejected PROVE Inv'
BY FailsInv DEF Rejected

\* A transport error may leave a request under way.  Only a call that may be
\* repeated goes on, or one whose proxy terminates, and that one ends.
LEMMA BrokenInv == ASSUME Inv, Broken PROVE Inv'
<1> USE DEF Broken
<1>1. Waiting /\ call \in Calls /\ result[call] = "none"
  BY DEF Inv, Progress
<1>2. executed[call] \in Nat /\ stray[call] \in Nat /\ undecoded[call] \in Nat
  BY <1>1 DEF Inv, Types
<1>3. stray' \in [Calls -> Nat] /\ (\A n \in Calls : n # call => stray'[n] = stray[n])
  BY <1>1, <1>2 DEF Inv, Types
<1>4. call \notin retry => executed[call] + stray'[call] <= 1 + undecoded[call]
  <2>1. CASE UNCHANGED stray
    BY <1>1, <2>1 DEF Inv, Once
  <2>2. CASE request = "sent" /\ stray' = [stray EXCEPT ![call] = @ + 1]
    <3>1. stray'[call] = stray[call] + 1
      BY <1>1, <2>2 DEF Inv, Types
    <3> QED
      BY <1>1, <1>2, <2>2, <3>1 DEF Inv, Resendable
  <2> QED
    BY <2>1, <2>2
<1>5. Once'
  <2>1. UNCHANGED <<executed, undecoded, retry>>
    BY DEF TryAgain, Return
  <2> QED
    BY <1>1, <1>3, <1>4, <2>1 DEF Inv, Once
<1>6. ASSUME TryAgain, terminating \/ call \in retry
      PROVE  Inv'
  <2> USE <1>6 DEF TryAgain
  <2>1. Types' /\ Progress'
    BY <1>1, <1>3 DEF Inv, Types, Progress
  <2>2. Resendable'
    BY DEF Resendable
  <2>3. Untouched'
    BY <1>1, <1>3 DEF Inv, Untouched, Calls, Types
  <2>4. Answers'
    BY <1>1, <1>3 DEF Inv, Answers
  <2> QED
    BY <1>5, <2>1, <2>2, <2>3, <2>4 DEF Inv
<1>7. ASSUME Return("not_retriable")
      PROVE  Inv'
  <2> USE <1>7 DEF Return
  <2>1. \A n \in Calls : result'[n] = IF n = call THEN "not_retriable" ELSE result[n]
    BY DEF Inv, Types
  <2>2. Types' /\ Progress'
    BY <1>1, <1>3 DEF Inv, Types, Progress, Results
  <2>3. Resendable'
    BY DEF Resendable
  <2>4. Untouched'
    BY <1>1, <1>3, <2>1 DEF Inv, Untouched, Calls, Types
  <2>5. Answers'
    BY <1>1, <1>3, <2>1 DEF Inv, Answers
  <2> QED
    BY <1>5, <2>2, <2>3, <2>4, <2>5 DEF Inv
<1> QED
  BY <1>6, <1>7

-----------------------------------------------------------------------------

\* Every step keeps the invariant.
LEMMA NextInv == Inv /\ [Next]_vars => Inv'
<1> SUFFICES ASSUME Inv, [Next]_vars PROVE Inv'
  OBVIOUS
<1>1. ASSUME NEW again \in BOOLEAN, Call(again) PROVE Inv'
  BY <1>1, CallInv
<1>2. CASE Caller
  BY <1>2, LoopInv, ConnectInv, AuthenticateInv, SendInv, PauseInv DEF Caller
<1>3. CASE Outcome
  BY <1>3, AnsweredInv, TransientInv, UnauthorizedInv, UndecodedInv, RejectedInv, BrokenInv DEF Outcome
<1>4. CASE Scheduler
  BY <1>4, ExecuteInv, ExecuteStrayInv DEF Scheduler
<1>5. CASE Terminate
  BY <1>5, FrameInv DEF Terminate
<1>6. CASE Others
  BY <1>6, FrameInv DEF Others, proxyVars
<1>7. CASE UNCHANGED vars
  BY <1>7, FrameInv DEF vars, proxyVars
<1> QED
  BY <1>1, <1>2, <1>3, <1>4, <1>5, <1>6, <1>7 DEF Next

LEMMA AlwaysInv == Spec => []Inv
<1>1. Init => Inv
  BY InitInv
<1>2. Inv /\ [Next]_vars => Inv'
  BY NextInv
<1> QED
  BY <1>1, <1>2, PTL DEF Spec

\* A call that may not be repeated is executed at most once, and once more for each
\* execution whose answer could not be decoded (scheduler_client.py
\* method_wrapper), whoever else uses the session and whatever becomes of its
\* requests.
THEOREM CallsOnce == Spec => []AtMostOnce
<1>1. Inv => AtMostOnce
  BY ProxyBounds DEF Inv, Types, Once, AtMostOnce, Calls
<1> QED
  BY <1>1, AlwaysInv, PTL

\* A call that returns was executed; one that may not be repeated and ends in a
\* timeout or an AuthError never is ("the call did not go through"), but for the
\* executions whose answer could not be decoded.
THEOREM OutcomeCorrect == Spec => []KnownOutcome
<1>1. Inv => KnownOutcome
  BY ProxyBounds DEF Inv, Types, Answers, KnownOutcome, Calls
<1> QED
  BY <1>1, AlwaysInv, PTL

-----------------------------------------------------------------------------
(***************************************************************************)
(* The session file keeps a refresh token that the provider accepts, for   *)
(* any number of processes that refresh it and log in without a lock.      *)
(*                                                                         *)
(* With rotation a refresh token is good once, so a process that writes an *)
(* old session over a newer one could write a token that is used up.  It   *)
(* cannot, because the token it is about to save is in no other hand: it   *)
(* was granted to this process alone and nobody has read it yet.  Only a   *)
(* refresh drops the secret, and what it saves is one of its grants.       *)
(***************************************************************************)

SessionTypes ==
  /\ DOMAIN session = Clients /\ DOMAIN auth = Clients
  /\ granted \in Nat /\ accepted \subseteq 1 .. granted
  /\ file.refresh \in 0 .. granted
  /\ \A c \in Clients : session[c].refresh \in 0 .. granted

\* What a process is about to save is a session that the provider accepts.
Good ==
  \A c \in Saving : session[c].access # 0 /\ session[c].refresh \in accepted \union {0}

\* The refresh token that c is about to save is in no other hand.
Alone(c) ==
  /\ file.refresh # session[c].refresh
  /\ \A d \in Clients \ {c} :
       auth[d] \in {"refresh", "truncate", "write"} => session[d].refresh # session[c].refresh

Unique == Rotates => \A c \in Saving : session[c].refresh # 0 => Alone(c)

\* Who makes good a file that cannot be used.
Repaired ==
  ~spoiled =>
    /\ file = Garbled => \E c \in Clients : auth[c] = "write"
    /\ file.refresh \notin accepted \union {0} => \E c \in Clients : auth[c] = "truncate"

\* A session has its secret, unless a refresh made it.
Secure(s) == Confidential /\ s.refresh # 0 => s.secret \/ s.access \in renewed
Secrets == Secure(file) /\ \A c \in Saving : Secure(session[c])

SessionInv == SessionTypes /\ Good /\ Unique /\ Repaired /\ Secrets

-----------------------------------------------------------------------------

\* Initially there is no session.
LEMMA InitSessionInv == Init => SessionInv
  BY DEF Init, SessionInit, SessionInv, SessionTypes, Good, Unique, Repaired, Secrets, Secure,
     Saving, NoFile, Garbled, Session

\* A step that leaves the sessions alone, or only lets tokens age.
LEMMA SessionFrameInv ==
  ASSUME SessionInv, UNCHANGED <<file, auth, session, granted, accepted, renewed, spoiled>>
  PROVE  SessionInv'
<1>1. (SessionTypes /\ Good /\ Unique /\ Repaired)'
  BY DEF SessionInv, SessionTypes, Good, Unique, Alone, Repaired, Saving
<1>2. Secrets'
  BY DEF SessionInv, Secrets, Secure, Saving
<1> QED
  BY <1>1, <1>2 DEF SessionInv

\* The file and the sessions to save are old ones, or of no use, or secure.
LEMMA SecretsKept ==
  ASSUME SessionTypes, Secrets, renewed \subseteq renewed',
         file' = file \/ file'.refresh = 0 \/ Secure(file)',
         \A d \in Saving' : \/ d \in Saving /\ session'[d] = session[d]
                           \/ Secure(session[d])'
  PROVE  Secrets'
<1>1. Secure(file)'
  BY DEF Secrets, Secure
<1>2. ASSUME NEW d \in Saving' PROVE Secure(session[d])'
  BY <1>2 DEF Secrets, Secure
<1> QED
  BY <1>1, <1>2 DEF Secrets

\* A process reads the file, and holds what is in no saver's hand.
LEMMA LoadInv ==
  ASSUME SessionInv, NEW c \in Clients, Load(c)
  PROVE  SessionInv'
<1> USE DEF SessionInv
<1>1. /\ auth[c] = "idle" /\ UNCHANGED <<file, granted, accepted, renewed, spoiled>>
      /\ \E s, t : \E a \in {"refresh", "ready"} :
           /\ session' = [session EXCEPT ![c] = s] /\ auth' = [auth EXCEPT ![c] = a]
           /\ s = file \/ (s = NoFile /\ a = "ready")
  BY DEF Load, Becomes, fileVars, providerVars
<1>2. NoFile.refresh = 0
  BY DEF NoFile, Session
<1>3. SessionTypes'
  BY <1>1, <1>2 DEF SessionTypes
<1>4. Good'
  BY <1>1 DEF SessionTypes, Good, Saving
<1>5. Unique'
  BY <1>1, <1>2 DEF SessionTypes, Unique, Alone, Saving
<1>6. Repaired'
  BY <1>1 DEF SessionTypes, Repaired
<1>7. Secrets'
  BY <1>1, SecretsKept DEF SessionTypes, Saving
<1> QED
  BY <1>3, <1>4, <1>5, <1>6, <1>7

\* A process that has no session to save any more, but did not have one to save or
\* spoils it.
LEMMA DropInv ==
  ASSUME SessionInv, NEW c \in Clients,
         session' = [session EXCEPT ![c] = NoFile],
         NEW a \in {"idle", "ready"}, auth' = [auth EXCEPT ![c] = a],
         UNCHANGED <<file, granted, accepted, renewed>>,
         spoiled => spoiled', c \in Saving => spoiled'
  PROVE  SessionInv'
<1> USE DEF SessionInv
<1>1. NoFile.refresh = 0
  BY DEF NoFile, Session
<1>2. SessionTypes'
  BY <1>1 DEF SessionTypes
<1>3. Good'
  BY DEF SessionTypes, Good, Saving
<1>4. Unique'
  BY <1>1 DEF SessionTypes, Unique, Alone, Saving
<1>5. Repaired'
  BY DEF SessionTypes, Repaired, Saving
<1>6. Secrets'
  BY SecretsKept DEF SessionTypes, Saving
<1> QED
  BY <1>2, <1>3, <1>4, <1>5, <1>6

\* A process that gets a session it has to save: nobody else has its refresh token
\* with rotation, and what the grant used up was in its own hand or in none.
LEMMA GrantInv ==
  ASSUME SessionInv, NEW c \in Clients, auth[c] \in {"idle", "refresh"},
         NEW n \in Nat, n = granted + 1, granted' = n,
         NEW s, s.access = n,
         s.refresh \in 0 .. n, s.refresh \in accepted' \union {0},
         Rotates => s.refresh \in {0, n},
         NEW r, accepted' = (accepted \ (IF Rotates THEN {r} ELSE {})) \union {n},
         r = 0 \/ (auth[c] = "refresh" /\ r = session[c].refresh),
         session' = [session EXCEPT ![c] = s], auth' = [auth EXCEPT ![c] = "truncate"],
         renewed \subseteq renewed',
         Confidential /\ s.refresh # 0 => s.secret \/ s.access \in renewed',
         UNCHANGED <<file, spoiled>>
  PROVE  SessionInv'
<1> USE DEF SessionInv
<1>1. SessionTypes'
  <2>1. DOMAIN session' = Clients /\ DOMAIN auth' = Clients
    BY DEF SessionTypes
  <2>2. accepted' \subseteq 1 .. n
    <3>1. \A x \in accepted' : x \in accepted \/ x = n
      OBVIOUS
    <3>2. granted \in Nat /\ \A x \in accepted : x \in 1 .. granted
      BY DEF SessionTypes
    <3> QED
      BY <3>1, <3>2
  <2>3. \A d \in Clients : session'[d].refresh \in 0 .. n
    BY DEF SessionTypes
  <2>4. file'.refresh \in 0 .. n
    BY DEF SessionTypes
  <2> QED
    BY <2>1, <2>2, <2>3, <2>4 DEF SessionTypes
<1>2. ASSUME NEW d \in Saving', d # c
      PROVE  d \in Saving /\ session'[d] = session[d]
  BY <1>2 DEF SessionTypes, Saving
<1>3. Good'
  <2>1. ASSUME NEW d \in Saving', d # c
        PROVE  session'[d].access # 0 /\ session'[d].refresh \in accepted' \union {0}
    <3>1. d \in Saving /\ session'[d] = session[d]
      BY <1>2, <2>1
    <3>2. session[d].access # 0 /\ session[d].refresh \in accepted \union {0}
      BY <3>1 DEF Good
    <3>3. CASE Rotates /\ session[d].refresh # 0 /\ r # 0
      BY <2>1, <3>1, <3>2, <3>3 DEF Unique, Alone
    <3>4. CASE ~(Rotates /\ session[d].refresh # 0 /\ r # 0)
      BY <3>1, <3>2, <3>4
    <3> QED
      BY <3>3, <3>4
  <2>2. session'[c].access # 0 /\ session'[c].refresh \in accepted' \union {0}
    BY DEF SessionTypes
  <2> QED
    BY <2>1, <2>2 DEF Good
<1>4. Unique'
  <2> SUFFICES ASSUME Rotates', NEW d \in Saving', session'[d].refresh # 0
               PROVE  Alone(d)'
    BY DEF Unique
  <2>1. CASE d = c
    BY <2>1 DEF SessionTypes, Alone
  <2>2. CASE d # c
    <3>1. d \in Saving /\ session'[d] = session[d] /\ d \in Clients
      BY <1>2, <2>2 DEF Saving
    <3>2. Alone(d) /\ session[d].refresh \in 0 .. granted
      BY <3>1 DEF Unique, SessionTypes
    <3> QED
      BY <2>2, <3>1, <3>2 DEF SessionTypes, Alone
  <2> QED
    BY <2>1, <2>2
<1>5. Repaired'
  <2>1. auth'[c] = "truncate" /\ \A d \in Clients : auth[d] = "write" => auth'[d] = "write"
    BY DEF SessionTypes
  <2> QED
    BY <2>1 DEF Repaired
<1>6. Secrets'
  <2>1. session'[c] = s /\ Secure(session[c])'
    BY DEF SessionTypes, Secure
  <2>2. \A d \in Saving' : \/ d \in Saving /\ session'[d] = session[d]
                           \/ Secure(session[d])'
    BY <1>2, <2>1
  <2> QED
    BY <2>2, SecretsKept
<1> QED
  BY <1>1, <1>3, <1>4, <1>5, <1>6

\* The file is truncated.
LEMMA TruncateInv ==
  ASSUME SessionInv, NEW c \in Clients, auth[c] = "truncate", file' = Garbled,
         session' = [session EXCEPT ![c] = session[c]],
         auth' = [auth EXCEPT ![c] = "write"],
         UNCHANGED <<granted, accepted, renewed, spoiled>>
  PROVE  SessionInv'
<1> USE DEF SessionInv
<1>1. Garbled.refresh = 0
  BY DEF Garbled, Session
<1>2. SessionTypes' /\ Good'
  BY <1>1 DEF SessionTypes, Good, Saving
<1>3. Unique'
  BY <1>1 DEF SessionTypes, Unique, Alone, Saving
<1>4. Repaired'
  BY <1>1 DEF SessionTypes, Repaired
<1>5. Secrets'
  BY <1>1, SecretsKept DEF SessionTypes, Saving
<1> QED
  BY <1>2, <1>3, <1>4, <1>5

\* The session is written, whole or over the end of another one.
LEMMA WriteInv ==
  ASSUME SessionInv, NEW c \in Clients, auth[c] = "write",
         \/ file' = session[c] /\ UNCHANGED spoiled
         \/ file' = Garbled /\ spoiled' = TRUE,
         session' = [session EXCEPT ![c] = NoFile],
         auth' = [auth EXCEPT ![c] = "ready"],
         UNCHANGED <<granted, accepted, renewed>>
  PROVE  SessionInv'
<1> USE DEF SessionInv
<1>1. NoFile.refresh = 0 /\ Garbled.refresh = 0 /\ Garbled.access = 0
  BY DEF NoFile, Garbled, Session
<1>2. session[c].access # 0 /\ session[c].refresh \in accepted \union {0}
  BY DEF Good, Saving
<1>3. SessionTypes' /\ Good'
  BY <1>1 DEF SessionTypes, Good, Saving
<1>4. Unique'
  BY <1>1 DEF SessionTypes, Unique, Alone, Saving
<1>5. Repaired'
  BY <1>1, <1>2 DEF Repaired
<1>6. Secrets'
  <2>1. file' = session[c] \/ file'.refresh = 0
    BY <1>1
  <2>2. Secure(session[c]) /\ renewed' = renewed
    BY DEF Secrets, Saving
  <2>3. file'.refresh = 0 \/ Secure(file)'
    BY <2>1, <2>2 DEF Secure
  <2> QED
    BY <2>2, <2>3, SecretsKept DEF SessionTypes, Saving
<1> QED
  BY <1>3, <1>4, <1>5, <1>6

-----------------------------------------------------------------------------

\* A refresh, and a login.
LEMMA RefreshInv ==
  ASSUME SessionInv, NEW c \in Clients, Refresh(c)
  PROVE  SessionInv'
<1>1. SessionTypes /\ auth[c] = "refresh" /\ UNCHANGED file
  BY DEF SessionInv, Refresh, fileVars
<1>2. CASE /\ Accepts(session[c]) /\ Grant(session[c].refresh)
           /\ renewed' = renewed \union {granted'}
           /\ Becomes(c, Refreshed(session[c], granted'), 0, "truncate") /\ UNCHANGED spoiled
  <2> DEFINE s == Refreshed(session[c], granted')
  <2>1. /\ granted' \in Nat /\ granted' = granted + 1
        /\ accepted' = (accepted \ (IF Rotates THEN {session[c].refresh} ELSE {})) \union {granted'}
        /\ session[c].refresh \in accepted
        /\ session' = [session EXCEPT ![c] = s] /\ auth' = [auth EXCEPT ![c] = "truncate"]
    BY <1>1, <1>2 DEF Grant, Accepts, Becomes, SessionTypes
  <2>2. /\ s.access = granted' /\ s.refresh = IF Rotates THEN granted' ELSE session[c].refresh
    BY DEF Refreshed, Session
  <2>3. /\ s.refresh \in 0 .. granted' /\ s.refresh \in accepted' \union {0}
        /\ Rotates => s.refresh \in {0, granted'}
    BY <1>1, <2>1, <2>2 DEF SessionTypes
  <2>4. renewed \subseteq renewed' /\ (Confidential /\ s.refresh # 0 => s.secret \/ s.access \in renewed')
    BY <1>2, <2>2
  <2> HIDE DEF s
  <2> QED
    BY <1>1, <1>2, <2>1, <2>2, <2>3, <2>4, GrantInv
<1>3. CASE /\ Accepts(session[c]) /\ Grant(session[c].refresh)
           /\ renewed' = renewed \union {granted'}
           /\ Becomes(c, NoFile, session[c].access, "ready") /\ spoiled' = TRUE
  <2>1. /\ granted' = granted + 1 /\ granted \in Nat
        /\ accepted' = (accepted \ (IF Rotates THEN {session[c].refresh} ELSE {})) \union {granted'}
        /\ session' = [session EXCEPT ![c] = NoFile] /\ auth' = [auth EXCEPT ![c] = "ready"]
        /\ NoFile.refresh = 0
    BY <1>1, <1>3 DEF Grant, Becomes, SessionTypes, NoFile, Session
  <2>2. SessionTypes'
    <3>1. granted' \in Nat /\ DOMAIN session' = Clients /\ DOMAIN auth' = Clients
      BY <1>1, <2>1 DEF SessionTypes
    <3>2. accepted' \subseteq 1 .. granted'
      <4>1. \A x \in accepted' : x \in accepted \/ x = granted'
        BY <2>1
      <4>2. granted \in Nat /\ \A x \in accepted : x \in 1 .. granted
        BY <1>1 DEF SessionTypes
      <4> QED
        BY <2>1, <4>1, <4>2
    <3>3. \A d \in Clients : session'[d].refresh \in 0 .. granted'
      BY <1>1, <2>1 DEF SessionTypes
    <3>4. file'.refresh \in 0 .. granted'
      BY <1>1, <2>1 DEF SessionTypes
    <3> QED
      BY <3>1, <3>2, <3>3, <3>4 DEF SessionTypes
  <2>3. \A d \in Saving' : d \in Saving /\ session'[d] = session[d] /\ d \in Clients /\ d # c
    BY <1>1, <2>1 DEF SessionTypes, Saving
  <2>4. Good'
    <3> SUFFICES ASSUME NEW d \in Saving'
                 PROVE  session'[d].access # 0 /\ session'[d].refresh \in accepted' \union {0}
      BY DEF Good
    <3>1. session[d].access # 0 /\ session[d].refresh \in accepted \union {0}
      BY <2>3 DEF Good, SessionInv
    <3>2. Rotates /\ session[d].refresh # 0 => session[c].refresh # session[d].refresh
      BY <1>1, <2>3 DEF Unique, Alone, SessionInv
    <3> QED
      BY <2>1, <2>3, <3>1, <3>2
  <2>5. Unique'
    BY <1>1, <2>1, <2>3 DEF SessionTypes, Unique, Alone, SessionInv
  <2>6. Repaired'
    BY <1>3 DEF Repaired
  <2>7. Secrets'
    BY <1>1, <1>3, <2>3, SecretsKept DEF SessionInv
  <2> QED
    BY <2>2, <2>4, <2>5, <2>6, <2>7 DEF SessionInv
<1>4. CASE Becomes(c, NoFile, session[c].access, "ready") /\ UNCHANGED <<providerVars, renewed, spoiled>>
  BY <1>1, <1>4, DropInv DEF Becomes, providerVars, Saving
<1> QED
  BY <1>2, <1>3, <1>4 DEF Refresh

LEMMA LogInInv ==
  ASSUME SessionInv, NEW c \in Clients, LogIn(c)
  PROVE  SessionInv'
<1>1. /\ SessionTypes /\ auth[c] = "idle" /\ UNCHANGED <<file, renewed, spoiled>>
      /\ granted' = granted + 1 /\ granted' \in Nat
      /\ accepted' = (accepted \ (IF Rotates THEN {0} ELSE {})) \union {granted'}
  BY DEF SessionInv, LogIn, Grant, fileVars, SessionTypes
<1>2. PICK r \in {0, granted'} :
        Becomes(c, Session(granted', r, Confidential /\ r # 0), 0, "truncate")
  BY DEF LogIn
<1> DEFINE s == Session(granted', r, Confidential /\ r # 0)
<1>3. s.access = granted' /\ s.refresh = r
  BY DEF Session
<1>4. session' = [session EXCEPT ![c] = s] /\ auth' = [auth EXCEPT ![c] = "truncate"]
  BY <1>2 DEF Becomes
<1>5. /\ s.refresh \in 0 .. granted' /\ s.refresh \in accepted' \union {0}
      /\ s.refresh \in {0, granted'}
  BY <1>1, <1>3
<1>6. Confidential /\ s.refresh # 0 => s.secret \/ s.access \in renewed'
  BY <1>3 DEF Session
<1> HIDE DEF s
<1> QED
  BY <1>1, <1>3, <1>4, <1>5, <1>6, GrantInv

\* Everything a process does with the session.
LEMMA ProcessInv ==
  ASSUME SessionInv, NEW c \in Clients, OtherProcess(c)
  PROVE  SessionInv'
<1>1. CASE Load(c)
  BY <1>1, LoadInv
<1>2. CASE Refresh(c)
  BY <1>2, RefreshInv
<1>3. CASE Truncate(c)
  <2>1. auth[c] = "truncate" /\ UNCHANGED <<granted, accepted, renewed>>
    BY <1>3 DEF Truncate, providerVars
  <2>2. CASE file' = Garbled /\ Becomes(c, session[c], 0, "write") /\ UNCHANGED spoiled
    BY <2>1, <2>2, TruncateInv DEF Becomes
  <2>3. CASE Becomes(c, NoFile, session[c].access, "ready") /\ spoiled' = TRUE /\ UNCHANGED file
    BY <2>1, <2>3, DropInv DEF Becomes
  <2> QED
    BY <1>3, <2>2, <2>3 DEF Truncate, fileVars
<1>4. CASE Write(c)
  BY <1>4, WriteInv DEF Write, Becomes, providerVars
<1>5. CASE LogIn(c)
  BY <1>5, LogInInv
<1>6. CASE Leave(c)
  BY <1>6, DropInv DEF Leave, Becomes, fileVars, providerVars, Saving
<1>7. CASE Kill(c)
  BY <1>7, DropInv DEF Kill, Becomes, fileVars, providerVars, Saving
<1> QED
  BY <1>1, <1>2, <1>3, <1>4, <1>5, <1>6, <1>7 DEF OtherProcess, AuthStep

-----------------------------------------------------------------------------

LEMMA NextSessionInv == SessionInv /\ [Next]_vars => SessionInv'
<1> SUFFICES ASSUME SessionInv, [Next]_vars
             PROVE  SessionInv'
  OBVIOUS
<1>1. User \in Clients
  BY ProxyBounds
<1>2. CASE UNCHANGED sessionVars
  BY <1>2, SessionFrameInv DEF sessionVars, fileVars, authVars, providerVars
<1>3. CASE Connect
  BY <1>1, <1>2, <1>3, LoadInv DEF Connect
<1>4. CASE Authenticate
  BY <1>1, <1>4, ProcessInv DEF Authenticate, OtherProcess, AuthStep
<1>5. CASE Others
  <2>1. CASE \E c \in Clients \ {User} : OtherProcess(c)
    BY <2>1, ProcessInv
  <2>2. CASE \E n \in 1 .. granted : Aging(n)
    BY <2>2, SessionFrameInv DEF Aging, fileVars, authVars
  <2> QED
    BY <1>5, <2>1, <2>2 DEF Others
<1>6. CASE \E again \in BOOLEAN : Call(again)
  BY <1>2, <1>6 DEF Call
<1>7. CASE Loop \/ Send \/ Pause \/ Outcome \/ Scheduler \/ Terminate
  BY <1>2, <1>7 DEF Loop, Send, Pause, Outcome, Answered, Transient, Unauthorized, Undecoded, Rejected,
     Broken, Scheduler, Execute, ExecuteStray, Terminate
<1>8. CASE UNCHANGED vars
  BY <1>2, <1>8 DEF vars
<1> QED
  BY <1>3, <1>4, <1>5, <1>6, <1>7, <1>8 DEF Next, Caller

\* However many processes refresh the session and log in, and in whatever order
\* their steps fall: a file that nobody is saving keeps a refresh token that the
\* provider accepts, and the secret that goes with it unless a refresh made it;
\* unless an answer, a writer or a save was lost (auth_module.py
\* _refresh_session_data, _save_session_data).
THEOREM SessionCorrect == Spec => []SessionKept
<1>1. SessionInv => SessionKept
  BY DEF SessionInv, Repaired, Secrets, Secure, SessionKept, Accepts, Saving
<1> QED
  BY InitSessionInv, NextSessionInv, <1>1, PTL DEF Spec
-----------------------------------------------------------------------------
(***************************************************************************)
(* Types and bounds of the whole proxy.                                    *)
(*                                                                         *)
(* An attempt is counted when it is over, an execution when it happens.    *)
(* What a call executed or may still execute is therefore covered by the   *)
(* attempts that are over, two requests each, and those of the attempt in  *)
(* progress; a proxy that terminates leaves the loop before these would be *)
(* missed.                                                                 *)
(***************************************************************************)

\* Requests of the attempt in progress that are over.
Requests == (IF pc = "resent" THEN 1 ELSE 0) + (IF request = "executed" THEN 1 ELSE 0)

\* The executions of a call, and those still to come, are covered by its attempts.
Counted ==
  /\ attempts \in 0 .. MaxAttempts /\ (pc = "idle" => attempts = 0)
  /\ pc \in {"connect", "auth", "send", "sent", "resent"} => attempts < MaxAttempts
  /\ \A n \in Calls : executed[n] + stray[n] <= 2 * MaxAttempts /\ undecoded[n] <= MaxAttempts
  /\ pc # "idle" =>
       \/ /\ executed[call] + stray[call] <= 2 * attempts + Requests
          /\ undecoded[call] <= attempts + (IF pc = "resent" THEN 1 ELSE 0)
       \/ pc = "loop" /\ terminating

\* What a process is doing with the session.
AuthPhases == {"idle", "refresh", "truncate", "write", "ready"}

\* The session and the connection.
ProxyTypes == SessionTypeOK /\ client \in 0 .. granted \union {NoClient} /\ terminating \in BOOLEAN

\* Older grants stay sessions and tokens when there are more grants.
LEMMA MoreGrants ==
  ASSUME granted \in Nat, granted' \in Nat, granted <= granted'
  PROVE  /\ 0 .. granted \subseteq 0 .. granted' /\ 1 .. granted \subseteq 1 .. granted'
         /\ Sessions \subseteq Sessions'
<1>1. 0 .. granted \subseteq 0 .. granted' /\ 1 .. granted \subseteq 1 .. granted'
  OBVIOUS
<1> QED
  BY <1>1 DEF Sessions

\* The history of the sessions.
Marks == renewed \subseteq 1 .. granted /\ spoiled \in BOOLEAN

\* A process gets another session and token.
LEMMA BecomesTypes ==
  ASSUME SessionTypeOK, NEW c \in Clients, NEW s, NEW t, NEW a \in AuthPhases,
         Becomes(c, s, t, a),
         granted' \in 0 .. MaxGrants, granted <= granted',
         s \in Sessions' \union {NoFile}, t \in 0 .. granted',
         file' \in Sessions' \union {NoFile, Garbled}, clean' \in [Clients -> BOOLEAN],
         old' \subseteq 1 .. granted', accepted' \subseteq 1 .. granted', Marks'
  PROVE  SessionTypeOK'
<1> USE DEF Becomes, AuthPhases
<1>1. granted \in Nat /\ granted' \in Nat
  BY SessionBounds DEF SessionTypeOK
<1>2. 0 .. granted \subseteq 0 .. granted' /\ Sessions \subseteq Sessions'
  BY <1>1, MoreGrants
<1>3. session' \in [Clients -> Sessions' \union {NoFile}]
  BY <1>2 DEF SessionTypeOK
<1>4. token' \in [Clients -> 0 .. granted'] /\ auth' \in [Clients -> AuthPhases]
  BY <1>2 DEF SessionTypeOK
<1> QED
  BY <1>3, <1>4 DEF SessionTypeOK, Marks

\* The access token of a session is a grant, that of no session is none.
LEMMA AccessToken ==
  ASSUME granted \in Nat,
         NEW s \in Sessions \union {NoFile}
  PROVE  s.access \in 0 .. granted /\ s.refresh \in 0 .. granted
BY DEF Sessions, NoFile, Session

\* What the provider grants.
LEMMA GrantTypes ==
  ASSUME SessionTypeOK, NEW r, Grant(r)
  PROVE  /\ granted \in Nat /\ granted' \in 0 .. MaxGrants /\ granted' \in Nat /\ granted' = granted + 1
         /\ old' \subseteq 1 .. granted' /\ accepted' \subseteq 1 .. granted'
         /\ Sessions \subseteq Sessions'
<1>1. granted \in Nat /\ granted' \in 0 .. MaxGrants /\ granted' \in Nat /\ granted' = granted + 1
  BY SessionBounds DEF Grant, SessionTypeOK
<1>2. 1 .. granted \subseteq 1 .. granted' /\ Sessions \subseteq Sessions'
  BY <1>1, MoreGrants
<1>3. old' \subseteq 1 .. granted'
  BY <1>2 DEF Grant, SessionTypeOK
<1>4. accepted' \subseteq accepted \union {granted'}
  BY DEF Grant
<1>5. accepted' \subseteq 1 .. granted'
  BY <1>1, <1>2, <1>4 DEF SessionTypeOK
<1> QED
  BY <1>1, <1>2, <1>3, <1>5

\* Nothing is granted.
LEMMA SameGrants ==
  ASSUME SessionTypeOK, UNCHANGED <<granted, old, accepted>>
  PROVE  /\ granted \in Nat /\ granted' \in 0 .. MaxGrants /\ granted <= granted'
         /\ old' \subseteq 1 .. granted' /\ accepted' \subseteq 1 .. granted'
         /\ Sessions' = Sessions
<1>1. granted \in Nat /\ Sessions' = Sessions
  BY SessionBounds DEF SessionTypeOK, Sessions
<1> QED
  BY <1>1 DEF SessionTypeOK

\* A session that is granted.
LEMMA SessionIn ==
  ASSUME NEW n \in Nat, NEW m \in Nat, NEW r, NEW b \in BOOLEAN, n \in 1 .. m, r \in 0 .. m
  PROVE  Session(n, r, b) \in [access : 1 .. m, refresh : 0 .. m, secret : BOOLEAN]
BY DEF Session

\* The file is read, or there is none to read.
LEMMA LoadTypes == ASSUME SessionTypeOK, NEW c \in Clients, Load(c) PROVE SessionTypeOK'
<1> USE DEF Load, fileVars, providerVars
<1>1. /\ granted \in Nat /\ granted' = granted
      /\ granted' \in 0 .. MaxGrants /\ granted <= granted'
      /\ old' \subseteq 1 .. granted' /\ accepted' \subseteq 1 .. granted'
      /\ Sessions' = Sessions
  BY SameGrants
<1>4. /\ file' \in Sessions' \union {NoFile, Garbled}
      /\ clean' \in [Clients -> BOOLEAN] /\ Marks'
  BY <1>1 DEF SessionTypeOK, Marks
<1>2. CASE Becomes(c, NoFile, 0, "ready")
  <2>1. NoFile \in Sessions' \union {NoFile} /\ 0 \in 0 .. granted' /\ "ready" \in AuthPhases
    BY <1>1 DEF AuthPhases
  <2> QED
    BY <1>1, <1>2, <1>4, <2>1, BecomesTypes
<1>3. CASE file \notin {NoFile, Garbled}
           /\ (Becomes(c, file, 0, "refresh") \/ Becomes(c, NoFile, file.access, "ready"))
  <2>1. file \in Sessions /\ file.access \in 0 .. granted
    BY <1>1, <1>3, AccessToken DEF SessionTypeOK
  <2>4. file \in Sessions' \union {NoFile} /\ 0 \in 0 .. granted' /\ "refresh" \in AuthPhases
    BY <1>1, <2>1 DEF AuthPhases
  <2>2. CASE Becomes(c, file, 0, "refresh")
    BY <1>1, <1>4, <2>2, <2>4, BecomesTypes
  <2>3. CASE Becomes(c, NoFile, file.access, "ready")
    BY <1>1, <1>4, <2>1, <2>3, BecomesTypes DEF AuthPhases
  <2> QED
    BY <1>3, <2>2, <2>3
<1> QED
  BY <1>2, <1>3

\* A refresh, answered, lost or refused.
LEMMA RefreshTypes == ASSUME SessionTypeOK, NEW c \in Clients, Refresh(c) PROVE SessionTypeOK'
<1>6. Marks'
  <2>1. granted \in Nat /\ (UNCHANGED <<granted, renewed>> \/ Grant(session[c].refresh))
    BY SessionBounds DEF SessionTypeOK, Refresh, providerVars
  <2>2. renewed' \subseteq renewed \union {granted'} /\ (renewed' = renewed \/ granted' = granted + 1)
    BY <2>1 DEF Refresh, Grant
  <2>3. renewed' \subseteq 1 .. granted'
    BY <2>1, <2>2 DEF SessionTypeOK, Grant
  <2>4. spoiled' \in BOOLEAN
    BY DEF SessionTypeOK, Refresh
  <2> QED
    BY <2>3, <2>4 DEF Marks
<1>7. granted \in Nat
  BY SessionBounds DEF SessionTypeOK
<1>8. session[c] \in Sessions \union {NoFile}
  BY DEF SessionTypeOK
<1>1. /\ granted \in Nat /\ session[c] \in Sessions \union {NoFile}
      /\ file' = file /\ clean' = clean /\ Marks'
  BY <1>6, <1>7, <1>8 DEF Refresh, fileVars
<1>2. session[c].access \in 0 .. granted /\ session[c].refresh \in 0 .. granted
  BY <1>1, AccessToken
<1>3. CASE Grant(session[c].refresh) /\ Becomes(c, Refreshed(session[c], granted'), 0, "truncate")
  <2>1. /\ granted' \in 0 .. MaxGrants /\ granted' \in Nat /\ granted' = granted + 1
        /\ old' \subseteq 1 .. granted' /\ accepted' \subseteq 1 .. granted'
        /\ Sessions \subseteq Sessions'
    BY <1>3, GrantTypes
  <2>2. Refreshed(session[c], granted') \in Sessions'
    <3>1. granted' \in 1 .. granted' /\ FALSE \in BOOLEAN
          /\ (IF Rotates THEN granted' ELSE session[c].refresh) \in 0 .. granted'
      BY <1>1, <1>2, <2>1
    <3>2. Session(granted', IF Rotates THEN granted' ELSE session[c].refresh, FALSE)
            \in [access : 1 .. granted', refresh : 0 .. granted', secret : BOOLEAN]
      BY <2>1, <3>1, SessionIn
    <3> QED
      BY <3>2 DEF Refreshed, Sessions
  <2>3. file' \in Sessions' \union {NoFile, Garbled} /\ clean' \in [Clients -> BOOLEAN]
    BY <1>1, <2>1 DEF SessionTypeOK
  <2> QED
    BY <1>1, <1>3, <2>1, <2>2, <2>3, BecomesTypes DEF AuthPhases
<1>4. CASE Grant(session[c].refresh) /\ Becomes(c, NoFile, session[c].access, "ready")
  <2>1. /\ granted' \in 0 .. MaxGrants /\ granted' \in Nat /\ granted' = granted + 1
        /\ old' \subseteq 1 .. granted' /\ accepted' \subseteq 1 .. granted'
        /\ Sessions \subseteq Sessions'
    BY <1>4, GrantTypes
  <2>3. file' \in Sessions' \union {NoFile, Garbled} /\ clean' \in [Clients -> BOOLEAN]
    BY <1>1, <2>1 DEF SessionTypeOK
  <2>4. session[c].access \in 0 .. granted'
    BY <1>1, <1>2, <2>1
  <2> QED
    BY <1>1, <1>4, <2>1, <2>3, <2>4, BecomesTypes DEF AuthPhases
<1>5. CASE Becomes(c, NoFile, session[c].access, "ready") /\ UNCHANGED <<providerVars, spoiled>>
  <2>1. /\ granted' = granted /\ granted' \in 0 .. MaxGrants /\ granted <= granted'
        /\ old' \subseteq 1 .. granted' /\ accepted' \subseteq 1 .. granted'
        /\ Sessions' = Sessions
    BY <1>5, SameGrants DEF providerVars
  <2>2. file' \in Sessions' \union {NoFile, Garbled} /\ clean' \in [Clients -> BOOLEAN]
    BY <1>1, <2>1 DEF SessionTypeOK
  <2> QED
    BY <1>1, <1>2, <1>5, <2>1, <2>2, BecomesTypes DEF AuthPhases
<1> QED
  BY <1>3, <1>4, <1>5 DEF Refresh

\* A session that is saved or given up.
LEMMA SaveTypes ==
  ASSUME SessionTypeOK, NEW c \in Clients, Truncate(c) \/ Write(c) \/ Leave(c) \/ Kill(c)
  PROVE  SessionTypeOK'
<1>1. UNCHANGED <<granted, old, accepted>>
  BY DEF Truncate, Write, Leave, Kill, providerVars
<1>2. /\ granted \in Nat /\ granted' \in 0 .. MaxGrants /\ granted <= granted'
      /\ old' \subseteq 1 .. granted' /\ accepted' \subseteq 1 .. granted'
      /\ Sessions' = Sessions
  BY <1>1, SameGrants
<1>3. session[c] \in Sessions \union {NoFile}
  BY DEF SessionTypeOK
<1>4. session[c].access \in 0 .. granted' /\ 0 \in 0 .. granted'
  BY <1>1, <1>2, <1>3, AccessToken
<1>5. /\ file' \in Sessions' \union {NoFile, Garbled}
      /\ clean' \in [Clients -> BOOLEAN] /\ Marks'
  <2>1. file' \in {file, Garbled, session[c]} /\ file \in Sessions \union {NoFile, Garbled}
    BY DEF SessionTypeOK, Truncate, Write, Leave, Kill, fileVars
  <2>2. clean' \in [Clients -> BOOLEAN]
    BY DEF SessionTypeOK, Truncate, Write, Leave, Kill, fileVars
  <2>3. Marks'
    BY <1>1 DEF SessionTypeOK, Truncate, Write, Leave, Kill, Marks
  <2> QED
    BY <1>2, <1>3, <2>1, <2>2, <2>3
<1>6. \/ Becomes(c, session[c], 0, "write") \/ Becomes(c, NoFile, session[c].access, "ready")
      \/ Becomes(c, NoFile, 0, "idle")
  BY DEF Truncate, Write, Leave, Kill
<1>7. ASSUME NEW s \in {session[c], NoFile}, NEW t \in {0, session[c].access}, NEW a \in AuthPhases,
             Becomes(c, s, t, a)
      PROVE  SessionTypeOK'
  BY <1>2, <1>3, <1>4, <1>5, <1>7, BecomesTypes
<1>8. "write" \in AuthPhases /\ "ready" \in AuthPhases /\ "idle" \in AuthPhases
  BY DEF AuthPhases
<1> QED
  BY <1>6, <1>7, <1>8

\* A login.
LEMMA LogInTypes == ASSUME SessionTypeOK, NEW c \in Clients, LogIn(c) PROVE SessionTypeOK'
<1>1. PICK r \in {0, granted'} :
        Becomes(c, Session(granted', r, Confidential /\ r # 0), 0, "truncate")
  BY DEF LogIn
<1>2. /\ granted' \in 0 .. MaxGrants /\ granted' \in Nat /\ granted \in Nat /\ granted' = granted + 1
      /\ old' \subseteq 1 .. granted' /\ accepted' \subseteq 1 .. granted'
      /\ Sessions \subseteq Sessions'
  BY GrantTypes DEF LogIn
<1>3. Session(granted', r, Confidential /\ r # 0) \in Sessions'
  <2>1. (Confidential /\ r # 0) \in BOOLEAN
    BY SessionBounds
  <2>2. granted' \in 1 .. granted' /\ r \in 0 .. granted'
    BY <1>1, <1>2
  <2> QED
    BY <1>2, <2>1, <2>2, SessionIn DEF Sessions
<1>4. /\ file' \in Sessions' \union {NoFile, Garbled}
      /\ clean' \in [Clients -> BOOLEAN] /\ Marks'
  BY <1>2 DEF LogIn, fileVars, SessionTypeOK, Marks
<1> QED
  BY <1>1, <1>2, <1>3, <1>4, BecomesTypes DEF AuthPhases

\* Everything a process does; grants only grow.
LEMMA ProcessTypes ==
  ASSUME SessionTypeOK, NEW c \in Clients, OtherProcess(c)
  PROVE  SessionTypeOK' /\ granted' \in Nat /\ granted <= granted'
<1>1. SessionTypeOK'
  BY LoadTypes, RefreshTypes, SaveTypes, LogInTypes DEF OtherProcess, AuthStep
<1>2. granted \in Nat /\ granted' \in {granted, granted + 1}
  BY SessionBounds DEF SessionTypeOK, OtherProcess, AuthStep, Load, Refresh, Grant, Truncate, Write, LogIn,
     Leave, Kill, providerVars
<1> QED
  BY <1>1, <1>2

-----------------------------------------------------------------------------

\* Initially there is neither a session nor a call.
LEMMA InitTypes == Init => ProxyTypes /\ Counted
<1> SUFFICES ASSUME Init PROVE ProxyTypes /\ Counted
  OBVIOUS
<1>1. SessionInit /\ granted = 0 /\ 0 \in 0 .. granted
  BY DEF Init, SessionInit
<1>2. SessionTypeOK
  <2>1. granted \in 0 .. MaxGrants /\ old \subseteq 1 .. granted /\ accepted \subseteq 1 .. granted
        /\ renewed \subseteq 1 .. granted
    BY <1>1, SessionBounds DEF SessionInit
  <2>2. token \in [Clients -> 0 .. granted]
    BY <1>1 DEF SessionInit
  <2> QED
    BY <2>1, <2>2 DEF Init, SessionInit, SessionTypeOK
<1>3. Counted
  <2>1. \A n \in Calls : executed[n] = 0 /\ stray[n] = 0 /\ undecoded[n] = 0
    BY DEF Init
  <2>2. pc = "idle" /\ attempts = 0
    BY DEF Init
  <2> QED
    BY <2>1, <2>2, ProxyBounds DEF Counted
<1> QED
  BY <1>2, <1>3 DEF Init, ProxyTypes

\* What happens to the connection: it is as before, gone, or made with the token
\* that the session gave.
LEMMA NextTypes == ProxyTypes /\ [Next]_vars => ProxyTypes'
<1> SUFFICES ASSUME ProxyTypes, [Next]_vars PROVE ProxyTypes'
  OBVIOUS
<1> USE DEF ProxyTypes
<1>1. User \in Clients
  BY ProxyBounds
<1>2. ASSUME UNCHANGED sessionVars, client' \in {client, NoClient}, terminating' \in BOOLEAN
      PROVE  ProxyTypes'
  <2> USE <1>2 DEF sessionVars, fileVars, authVars, providerVars
  <2>1. Sessions' = Sessions
    BY DEF Sessions
  <2>2. SessionTypeOK'
    BY <2>1 DEF SessionTypeOK
  <2>3. NoClient' = NoClient
    BY DEF NoClient
  <2> QED
    BY <2>2, <2>3
<1>3. ASSUME NEW c \in Clients, OtherProcess(c), client' = client \/ client' = token[c],
             UNCHANGED terminating
      PROVE  ProxyTypes'
  <2>1. SessionTypeOK' /\ granted' \in Nat /\ granted <= granted' /\ granted \in Nat
    BY <1>3, ProcessTypes, SessionBounds DEF SessionTypeOK
  <2>2. token[c] \in 0 .. granted
    BY DEF SessionTypeOK
  <2>3. 0 .. granted \subseteq 0 .. granted'
    BY <2>1
  <2>4. NoClient' = NoClient
    BY DEF NoClient
  <2> QED
    BY <1>3, <2>1, <2>2, <2>3, <2>4
<1>4. CASE Connect
  <2>1. CASE UNCHANGED sessionVars
    BY <1>2, <1>4, <2>1 DEF Connect, TryAgain, Fails
  <2>2. CASE Load(User) /\ UNCHANGED client
    BY <1>1, <1>3, <1>4, <2>2 DEF Connect, OtherProcess, AuthStep
  <2> QED
    BY <1>4, <2>1, <2>2 DEF Connect
<1>5. CASE Authenticate
  BY <1>1, <1>3, <1>5 DEF Authenticate, OtherProcess, AuthStep
<1>6. CASE Others
  <2>1. CASE \E c \in Clients \ {User} : OtherProcess(c)
    BY <1>3, <1>6, <2>1 DEF Others, proxyVars
  <2>2. CASE \E n \in 1 .. granted : Aging(n)
    <3>1. UNCHANGED <<client, terminating, fileVars, authVars, granted, accepted, renewed, spoiled>>
          /\ old' \subseteq 1 .. granted
      BY <1>6, <2>2 DEF Others, proxyVars, Aging, SessionTypeOK
    <3>2. Sessions' = Sessions
      BY <3>1 DEF Sessions
    <3>3. SessionTypeOK'
      BY <3>1, <3>2 DEF SessionTypeOK, fileVars, authVars
    <3> QED
      BY <3>1, <3>3 DEF NoClient
  <2> QED
    BY <1>6, <2>1, <2>2 DEF Others
<1>7. CASE Loop \/ Send \/ Pause \/ Outcome \/ Scheduler \/ \E again \in BOOLEAN : Call(again)
  BY <1>2, <1>7 DEF Loop, Send, Pause, Outcome, Answered, Transient, Unauthorized, Undecoded, Rejected,
     Broken, Scheduler, Execute, ExecuteStray, Call, TryAgain, Fails
<1>8. CASE Terminate \/ UNCHANGED vars
  BY <1>2, <1>8 DEF Terminate, vars, proxyVars
<1> QED
  BY <1>4, <1>5, <1>6, <1>7, <1>8 DEF Next, Caller

\* Attempts and executions are counted together.
LEMMA CountedNext == Inv /\ Counted /\ [Next]_vars => Counted'
<1> SUFFICES ASSUME Inv, Counted, [Next]_vars PROVE Counted'
  OBVIOUS
<1> USE ProxyBounds DEF Requests
<1>1. /\ attempts \in Nat /\ executed \in [Calls -> Nat] /\ stray \in [Calls -> Nat]
      /\ undecoded \in [Calls -> Nat]
      /\ (pc # "idle" => call \in Calls) /\ (Waiting <=> request # "none")
      /\ request \in {"none", "sent", "executed"}
  BY DEF Inv, Types, Progress, Counted
<1>2. ASSUME UNCHANGED <<pc, call, attempts, request, stray, executed, undecoded>>, terminating => terminating'
      PROVE  Counted'
  BY <1>2 DEF Counted
<1>3. ASSUME NEW again \in BOOLEAN, Call(again)
      PROVE  Counted'
  <2>1. call' \in Calls /\ call' > call
    BY <1>3 DEF Call, Inv, Types, Calls
  <2>2. executed[call'] + stray[call'] = 0 /\ undecoded[call'] = 0
    BY <2>1 DEF Inv, Untouched
  <2> QED
    BY <1>3, <2>2 DEF Call, wireVars, Counted
<1>4. CASE Loop
  BY <1>1, <1>4 DEF Loop, Goto, Return, wireVars, Counted
<1>5. CASE Connect
  BY <1>1, <1>5 DEF Connect, TryAgain, Fails, Goto, Return, wireVars, Counted
<1>6. CASE Authenticate
  BY <1>1, <1>6 DEF Authenticate, wireVars, Counted
<1>7. CASE Send
  BY <1>1, <1>7 DEF Send, Fails, Goto, Return, Counted
<1>8. CASE Pause
  BY <1>1, <1>8 DEF Pause, Goto, wireVars, Counted
<1>9. CASE Execute
  <2>1. Waiting /\ call \in Calls /\ request = "sent" /\ request' = "executed"
    BY <1>1, <1>9 DEF Execute
  <2>2. \A n \in Calls : executed'[n] = IF n = call THEN executed[n] + 1 ELSE executed[n]
    BY <1>1, <1>9 DEF Execute
  <2>3. /\ executed[call] + stray[call] <= 2 * attempts + (IF pc = "resent" THEN 1 ELSE 0)
        /\ undecoded[call] <= attempts + (IF pc = "resent" THEN 1 ELSE 0)
        /\ attempts < MaxAttempts
    BY <2>1 DEF Counted
  <2>4. \A n \in Calls : executed'[n] + stray[n] <= 2 * MaxAttempts
    BY <1>1, <2>1, <2>2, <2>3 DEF Counted
  <2>5. executed'[call] + stray[call] <= 2 * attempts + 1 + (IF pc = "resent" THEN 1 ELSE 0)
    BY <1>1, <2>1, <2>2, <2>3
  <2> QED
    BY <1>1, <1>9, <2>1, <2>3, <2>4, <2>5 DEF Execute, callVars, Counted
<1>10. ASSUME NEW n \in Calls, ExecuteStray(n)
       PROVE  Counted'
  <2>1. stray[n] \in Nat \ {0} /\ executed[n] \in Nat
    BY <1>1, <1>10 DEF ExecuteStray
  <2>2. \A m \in Calls : executed'[m] + stray'[m] = executed[m] + stray[m]
    BY <1>1, <1>10, <2>1 DEF ExecuteStray
  <2> QED
    BY <1>1, <1>10, <2>2 DEF ExecuteStray, callVars, Counted
<1>11. CASE Answered \/ Transient \/ Unauthorized \/ Rejected
  BY <1>1, <1>11 DEF Answered, Transient, Unauthorized, Rejected, TryAgain, Fails, Goto, Return, Counted
<1>12. CASE Undecoded
  <2>1. /\ pc = "sent" /\ call \in Calls /\ pc' = "resent" /\ request' = "sent"
        /\ UNCHANGED <<call, attempts, stray, executed>> /\ attempts < MaxAttempts
    BY <1>1, <1>12 DEF Undecoded, Goto, Counted
  <2>2. \A n \in Calls : undecoded'[n] <= IF n = call THEN undecoded[n] + 1 ELSE undecoded[n]
    BY <1>1, <1>12, <2>1 DEF Undecoded
  <2>3. /\ executed[call] + stray[call] <= 2 * attempts + 1
        /\ undecoded[call] <= attempts
    BY <1>1, <2>1 DEF Counted
  <2>4. undecoded' \in [Calls -> Nat]
    BY <1>1, <1>12, <2>1 DEF Undecoded
  <2>5. undecoded'[call] <= attempts + 1
    BY <1>1, <2>1, <2>2, <2>3, <2>4
  <2>6. \A n \in Calls : undecoded'[n] <= MaxAttempts
    BY <1>1, <2>1, <2>2, <2>3, <2>4 DEF Counted
  <2> QED
    BY <1>1, <2>1, <2>3, <2>5, <2>6 DEF Counted
<1>13. CASE Broken
  <2>1. Waiting /\ call \in Calls /\ UNCHANGED <<executed, undecoded>> /\ attempts < MaxAttempts
    BY <1>1, <1>13 DEF Broken, Counted
  <2>2. \A n \in Calls : n # call => stray'[n] = stray[n]
    BY <1>1, <1>13 DEF Broken
  <2>3. executed'[call] + stray'[call] <= 2 * (attempts + 1) /\ undecoded'[call] <= attempts + 1
    BY <1>1, <1>13, <2>1 DEF Broken, Counted
  <2>4. \A n \in Calls : executed'[n] + stray'[n] <= 2 * MaxAttempts
    <3> SUFFICES ASSUME NEW n \in Calls PROVE executed'[n] + stray'[n] <= 2 * MaxAttempts
      OBVIOUS
    <3>1. CASE n = call
      <4>1. executed'[call] \in Nat /\ stray'[call] \in Nat
        BY <1>1, <1>13, <2>1 DEF Broken
      <4> QED
        BY <1>1, <2>1, <2>3, <3>1, <4>1
    <3>2. CASE n # call
      BY <2>1, <2>2, <3>2 DEF Counted
    <3> QED
      BY <3>1, <3>2
  <2> QED
    BY <1>1, <1>13, <2>1, <2>3, <2>4 DEF Broken, TryAgain, Return, Counted
<1>14. CASE Terminate \/ Others \/ UNCHANGED vars
  BY <1>2, <1>14 DEF Terminate, Others, proxyVars, vars, callVars, wireVars
<1> QED
  BY <1>3, <1>4, <1>5, <1>6, <1>7, <1>8, <1>9, <1>10, <1>11, <1>13, <1>14, <1>12
     DEF Next, Caller, Outcome, Scheduler

\* The types of the proxy and of the session, for any number of calls, processes and
\* grants; a call is not attempted more than MaxAttempts times, nor executed more than
\* twice for each attempt (scheduler_client.py method_wrapper, RPC_MAXIMUM_WAIT).
THEOREM ProxyTypeCorrect == Spec => []TypeOK
<1>1. Init => Inv /\ ProxyTypes /\ Counted
  BY InitInv, InitTypes
<1>2. Inv /\ ProxyTypes /\ Counted /\ [Next]_vars => (Inv /\ ProxyTypes /\ Counted)'
  BY NextInv, NextTypes, CountedNext
<1>3. Inv /\ ProxyTypes /\ Counted => TypeOK
  <2> SUFFICES ASSUME Inv, ProxyTypes, Counted PROVE TypeOK
    OBVIOUS
  <2>1. executed \in [Calls -> 0 .. 2 * MaxAttempts] /\ stray \in [Calls -> 0 .. 2 * MaxAttempts]
        /\ undecoded \in [Calls -> 0 .. MaxAttempts]
    BY ProxyBounds DEF Inv, Types, Counted
  <2> QED
    BY <2>1 DEF Inv, Types, ProxyTypes, Counted, TypeOK
<1> QED
  BY <1>1, <1>2, <1>3, PTL DEF Spec
=============================================================================
