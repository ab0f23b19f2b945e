---------------------------- MODULE HealthChecker ----------------------------
(***************************************************************************)
(* The health checker of a task (executor/common/health_checker.py): a     *)
(* thread counts the outcomes of periodic checks and turns them into two   *)
(* flags, running and healthy, which the status manager reads one after    *)
(* the other from its own thread.                                          *)
(*                                                                         *)
(* A check takes time: between its start and its answer the checker may    *)
(* be stopped, the status read, and the snooze file come or go.            *)
(* outcomes is a history variable: the answers counted so far.             *)
(***************************************************************************)
EXTENDS Integers, Sequences

CONSTANTS
  Interval,                 \* interval_secs
  GracePeriod,              \* grace_period_secs
  MaxConsecutiveFailures,   \* max_consecutive_failures
  MinConsecutiveSuccesses,  \* min_consecutive_successes
  MaxChecks                 \* bound on the checks of one behaviour

(***************************************************************************)
(* The client's configuration check rejects negative values only; an       *)
(* interval of zero divides by zero in the constructor.                    *)
(***************************************************************************)
ASSUME HealthAssumption ==
  /\ Interval \in Nat \ {0}
  /\ GracePeriod \in Nat
  /\ MaxConsecutiveFailures \in Nat
  /\ MinConsecutiveSuccesses \in Nat
  /\ MaxChecks \in Nat

\* math.ceil(grace_period_secs / interval)
ForgivingAttempts == (GracePeriod + Interval - 1) \div Interval

MaxAttemptsToRunning ==
  ForgivingAttempts + MaxConsecutiveFailures + MinConsecutiveSuccesses

VARIABLES
  pc,         \* the checker's thread: new, idle, checking or over
  attempts,
  failures,   \* current_consecutive_failures
  successes,  \* current_consecutive_successes
  running,
  healthy,
  reason,     \* why healthy was cleared: none, check or deadline
  snooze,     \* the snooze file exists
  dead,       \* the event that stop sets
  reader,     \* status: idle, or healthy was read as TRUE
  reported,   \* the last status returned
  outcomes    \* history: the answers counted, oldest first

counters == <<attempts, failures, successes, running, healthy, reason, outcomes>>
world == <<snooze, dead>>
status == <<reader, reported>>
vars == <<pc, counters, world, status>>

TypeOK ==
  /\ pc \in {"new", "idle", "checking", "over"}
  /\ attempts \in 0 .. MaxAttemptsToRunning + 1
  /\ failures \in Nat /\ successes \in Nat
  /\ running \in BOOLEAN /\ healthy \in BOOLEAN
  /\ reason \in {"none", "check", "deadline"}
  /\ snooze \in BOOLEAN /\ dead \in BOOLEAN
  /\ reader \in {"idle", "healthy"}
  /\ reported \in {"STARTING", "RUNNING", "FAILED"}
  /\ outcomes \in Seq(BOOLEAN)

Init ==
  /\ pc = "new"
  /\ attempts = 0 /\ failures = 0 /\ successes = 0
  /\ running = FALSE /\ healthy = TRUE /\ reason = "none"
  /\ snooze \in BOOLEAN /\ dead = FALSE
  /\ reader = "idle" /\ reported = "STARTING"
  /\ outcomes = << >>

-----------------------------------------------------------------------------
(* Counting one answer. *)

ShouldIgnoreFailure(n) == n <= ForgivingAttempts

(***************************************************************************)
(* Called after the run of successes is reset, so all of them are needed.  *)
(***************************************************************************)
ShouldFailFast(n) ==
  LET remaining == MaxAttemptsToRunning - n
  IN  ~running /\ remaining > 1 /\ MinConsecutiveSuccesses > remaining

ShouldEnforceDeadline == ~running /\ attempts > MaxAttemptsToRunning

\* Mutant: a failure does not break the run of successes.
CountFailureKeepsRun(n) ==
  /\ UNCHANGED <<successes, running>>
  /\ failures' = IF ShouldIgnoreFailure(n) THEN failures ELSE failures + 1
  /\ healthy' = (healthy /\ failures' <= MaxConsecutiveFailures)
  /\ reason' = IF healthy' THEN reason ELSE "check"

\* Mutant: the return for a failure in the grace period is missing.
CountFailureNoGrace(n) ==
  /\ successes' = 0
  /\ failures' = failures + 1
  /\ LET fails == ShouldFailFast(n) \/ failures' > MaxConsecutiveFailures
     IN  /\ healthy' = (healthy /\ ~fails)
         /\ reason' = IF fails THEN "check" ELSE reason
  /\ UNCHANGED running

\* Mutant: one failure more than allowed goes by.
CountFailureLate(n) ==
  /\ successes' = 0
  /\ failures' = IF ShouldIgnoreFailure(n) THEN failures ELSE failures + 1
  /\ LET fails == ShouldFailFast(n) \/ failures' > MaxConsecutiveFailures + 1
     IN  /\ healthy' = (healthy /\ ~fails)
         /\ reason' = IF fails THEN "check" ELSE reason
  /\ UNCHANGED running

CountFailure(n) ==
  /\ successes' = 0
  /\ failures' = IF ShouldIgnoreFailure(n) THEN failures ELSE failures + 1
  /\ LET fails == /\ ~ShouldIgnoreFailure(n)
                  /\ ShouldFailFast(n) \/ failures' > MaxConsecutiveFailures
     IN  /\ healthy' = (healthy /\ ~fails)
         /\ reason' = IF fails THEN "check" ELSE reason
  /\ UNCHANGED running

\* Mutant: failures add up over successes.
CountSuccessKeepsFailures ==
  /\ successes' = successes + 1
  /\ running' = (running \/ successes' >= MinConsecutiveSuccesses)
  /\ UNCHANGED <<failures, healthy, reason>>

\* Mutant: a success makes an unhealthy task healthy again.
CountSuccessRevives ==
  /\ successes' = successes + 1
  /\ running' = (running \/ successes' >= MinConsecutiveSuccesses)
  /\ failures' = 0 /\ healthy' = TRUE /\ reason' = "none"

CountSuccess ==
  /\ successes' = successes + 1
  /\ running' = (running \/ successes' >= MinConsecutiveSuccesses)
  /\ failures' = 0
  /\ UNCHANGED <<healthy, reason>>

\* Mutant: attempts are counted without end.
CountUncapped(ok) ==
  /\ attempts' = attempts + 1
  /\ IF ok THEN CountSuccess ELSE CountFailure(attempts')
  /\ outcomes' = Append(outcomes, ok)

Count(ok) ==
  LET n == IF attempts <= MaxAttemptsToRunning THEN attempts + 1 ELSE attempts
  IN  /\ attempts' = n
      /\ IF ok THEN CountSuccess ELSE CountFailure(n)
      /\ outcomes' = Append(outcomes, ok)

-----------------------------------------------------------------------------
(* The checker's thread. *)

Start ==
  /\ pc = "new"
  /\ pc' = "idle"
  /\ UNCHANGED <<counters, world, status>>

AtCheck == pc = "idle" /\ ~dead

EnforceDeadline ==
  /\ AtCheck /\ ShouldEnforceDeadline
  /\ healthy' = FALSE
  /\ reason' = "deadline"
  /\ UNCHANGED <<pc, attempts, failures, successes, running, outcomes, world, status>>

(***************************************************************************)
(* With a snooze file the check is skipped and counts as a success.        *)
(***************************************************************************)
SnoozedCheck ==
  /\ AtCheck /\ ~ShouldEnforceDeadline /\ snooze
  /\ Len(outcomes) < MaxChecks
  /\ Count(TRUE)
  /\ UNCHANGED <<pc, world, status>>

BeginCheck ==
  /\ AtCheck /\ ~ShouldEnforceDeadline /\ ~snooze
  /\ Len(outcomes) < MaxChecks
  /\ pc' = "checking"
  /\ UNCHANGED <<counters, world, status>>

(***************************************************************************)
(* An exception in the check counts as a failure.                          *)
(***************************************************************************)
EndCheck(ok) ==
  /\ pc = "checking"
  /\ pc' = "idle"
  /\ Count(ok)
  /\ UNCHANGED <<world, status>>

Leave ==
  /\ pc = "idle" /\ dead
  /\ pc' = "over"
  /\ UNCHANGED <<counters, world, status>>

Checking ==
  EnforceDeadline \/ SnoozedCheck \/ BeginCheck \/ Leave \/ \E ok \in BOOLEAN : EndCheck(ok)

-----------------------------------------------------------------------------
(* The rest of the executor. *)

Stop ==
  /\ pc # "new" /\ ~dead
  /\ dead' = TRUE
  /\ UNCHANGED <<pc, counters, snooze, status>>

Snooze ==
  /\ snooze' = ~snooze
  /\ UNCHANGED <<pc, counters, dead, status>>

(***************************************************************************)
(* HealthChecker.status reads healthy first and running next.              *)
(***************************************************************************)
ReadHealthy ==
  /\ pc # "new" /\ reader = "idle"
  /\ IF healthy THEN reader' = "healthy" /\ UNCHANGED reported
                ELSE reported' = "FAILED" /\ UNCHANGED reader
  /\ UNCHANGED <<pc, counters, world>>

ReadRunning ==
  /\ reader = "healthy"
  /\ reader' = "idle"
  /\ reported' = IF running THEN "RUNNING" ELSE "STARTING"
  /\ UNCHANGED <<pc, counters, world>>

Read == ReadHealthy \/ ReadRunning

Next == Start \/ Checking \/ Stop \/ Snooze \/ Read

Spec == Init /\ [][Next]_vars

(***************************************************************************)
(* The thread runs, checks have a timeout, the status manager polls.       *)
(***************************************************************************)
FairSpec == Spec /\ WF_vars(Start) /\ WF_vars(Checking) /\ WF_vars(Read)

-----------------------------------------------------------------------------
(* Properties.  They speak of the answers themselves, not of the counters. *)

\* min_consecutive_successes = 0 still takes one success.
Needed == IF MinConsecutiveSuccesses = 0 THEN 1 ELSE MinConsecutiveSuccesses

\* The i-th answer completes a run of enough successes.
Proved(i) ==
  /\ i \in Needed .. Len(outcomes)
  /\ \A j \in i - Needed + 1 .. i : outcomes[j]

\* The i-th answer is one failure too many, all of them after the grace period.
Overdrawn(i) ==
  /\ i \in ForgivingAttempts + MaxConsecutiveFailures + 1 .. Len(outcomes)
  /\ \A j \in i - MaxConsecutiveFailures .. i : ~outcomes[j]

\* A failure after which the successes that are left cannot be enough.
Hopeless(i) ==
  /\ i \in ForgivingAttempts + 1 .. Len(outcomes)
  /\ ~outcomes[i]
  /\ i + Needed > MaxAttemptsToRunning
  /\ \A k \in 1 .. i : ~Proved(k)

(***************************************************************************)
(* The checker says RUNNING exactly when enough successes came in a row    *)
(* (_maybe_update_health_check_count), snoozed ones included.              *)
(***************************************************************************)
RunningExact == running <=> \E i \in 1 .. Len(outcomes) : Proved(i)

(***************************************************************************)
(* A task is failed only for max_consecutive_failures + 1 failures in a    *)
(* row, because it could no longer become RUNNING, or because its attempts *)
(* are used up.  A task that reached RUNNING in time has only the first    *)
(* reason.                                                                 *)
(***************************************************************************)
FailureJustified ==
  ~healthy =>
    \/ \E i \in 1 .. Len(outcomes) : Overdrawn(i) \/ Hopeless(i)
    \/ /\ Len(outcomes) > MaxAttemptsToRunning
       /\ \A i \in 1 .. MaxAttemptsToRunning + 1 : ~Proved(i)

(***************************************************************************)
(* No run of too many failures goes unnoticed, whatever came before it.    *)
(***************************************************************************)
FailureNoticed == (\E i \in 1 .. Len(outcomes) : Overdrawn(i)) => ~healthy

(***************************************************************************)
(* The class comment: failures in the first attempts are ignored, and      *)
(* enough successes within those plus min_consecutive_successes attempts   *)
(* make the task RUNNING: nothing has failed it before.                    *)
(***************************************************************************)
GraceForgives ==
  /\ Len(outcomes) <= ForgivingAttempts => healthy
  /\ \A i \in 1 .. ForgivingAttempts + Needed : i = Len(outcomes) /\ Proved(i) => healthy

(***************************************************************************)
(* The status manager sees a status that is undecided for a while, then    *)
(* RUNNING, and FAILED for good, although it reads the two flags at two    *)
(* moments; and a checker that is not stopped does decide.                 *)
(***************************************************************************)
Signal == INSTANCE HealthSignal WITH signal <- reported, stopped <- dead
ImplementsSignal == Signal!Spec
=============================================================================
