------------------------ MODULE HealthCheckerProofs --------------------------
(***************************************************************************)
(* The counters of the health checker against the answers they count, for  *)
(* every interval, grace period and pair of limits.                        *)
(***************************************************************************)
EXTENDS HealthChecker, SequenceTheorems, TLAPS

\* The attempts so far, until they are of no interest.
AttemptsCount ==
  attempts = IF Len(outcomes) <= MaxAttemptsToRunning
             THEN Len(outcomes) ELSE MaxAttemptsToRunning + 1

\* The successes at the end of the answers, all of them.
SuccessesCount ==
  /\ successes <= Len(outcomes)
  /\ \A j \in Len(outcomes) - successes + 1 .. Len(outcomes) : outcomes[j]
  /\ successes < Len(outcomes) => ~outcomes[Len(outcomes) - successes]

\* The failures at the end of the answers, those in the grace period aside.
FailuresCount ==
  /\ failures <= Len(outcomes)
  /\ \A j \in Len(outcomes) - failures + 1 .. Len(outcomes) :
        ~outcomes[j] /\ j > ForgivingAttempts
  /\ Len(outcomes) - failures > ForgivingAttempts => outcomes[Len(outcomes) - failures]

\* What may have made a task unhealthy.
Blamed ==
  ~healthy => \/ \E k \in ForgivingAttempts + 1 .. Len(outcomes) : ~outcomes[k]
              \/ ~running /\ Len(outcomes) > MaxAttemptsToRunning

\* A status call that read healthy, and the last status returned, are never ahead.
ReaderBehind ==
  /\ reported = "RUNNING" => running
  /\ reported = "FAILED" => ~healthy /\ reader = "idle"

HealthInv ==
  /\ TypeOK
  /\ AttemptsCount /\ SuccessesCount /\ FailuresCount
  /\ RunningExact /\ FailureNoticed /\ FailureJustified /\ Blamed
  /\ ReaderBehind
  /\ pc = "checking" => ~ShouldEnforceDeadline

-----------------------------------------------------------------------------
(***************************************************************************)
(* The thresholds are natural numbers.                                     *)
(***************************************************************************)
LEMMA Thresholds ==
  /\ ForgivingAttempts \in Nat
  /\ MaxAttemptsToRunning \in Nat
  /\ MaxAttemptsToRunning = ForgivingAttempts + MaxConsecutiveFailures + MinConsecutiveSuccesses
  /\ Needed \in Nat \ {0}
  /\ MinConsecutiveSuccesses <= Needed
  /\ \A n \in Nat \ {0} : n >= MinConsecutiveSuccesses <=> n >= Needed
<1>1. ForgivingAttempts \in Nat
  BY HealthAssumption DEF ForgivingAttempts
<1> QED
  BY <1>1, HealthAssumption DEF MaxAttemptsToRunning, Needed

(***************************************************************************)
(* An answer is appended; the older ones stay.                             *)
(***************************************************************************)
LEMMA Answered ==
  ASSUME TypeOK, NEW ok \in BOOLEAN, outcomes' = Append(outcomes, ok)
  PROVE  /\ outcomes' \in Seq(BOOLEAN)
         /\ Len(outcomes) \in Nat
         /\ Len(outcomes') = Len(outcomes) + 1
         /\ \A i \in 1 .. Len(outcomes) : outcomes'[i] = outcomes[i]
         /\ outcomes'[Len(outcomes) + 1] = ok
  BY AppendProperties DEF TypeOK

(***************************************************************************)
(* What the older answers proved or overdrew, they still do.               *)
(***************************************************************************)
LEMMA OlderAnswers ==
  ASSUME TypeOK, NEW ok \in BOOLEAN, outcomes' = Append(outcomes, ok),
         NEW i \in 1 .. Len(outcomes)
  PROVE  /\ Proved(i)' <=> Proved(i)
         /\ Overdrawn(i)' <=> Overdrawn(i)
         /\ Hopeless(i)' <=> Hopeless(i)
<1> DEFINE L == Len(outcomes)
<1>1. L \in Nat /\ Len(outcomes') = L + 1 /\ \A k \in 1 .. L : outcomes'[k] = outcomes[k]
  BY Answered
<1>2. \A k \in 1 .. L : Proved(k)' <=> Proved(k)
  BY <1>1, Thresholds DEF Proved
<1>3. Overdrawn(i)' <=> Overdrawn(i)
  BY <1>1, Thresholds, HealthAssumption DEF Overdrawn
<1>4. Hopeless(i)' <=> Hopeless(i)
  BY <1>1, <1>2, Thresholds DEF Hopeless
<1> QED
  BY <1>2, <1>3, <1>4

(***************************************************************************)
(* The counters after one more answer.                                     *)
(***************************************************************************)
LEMMA CountersFollow ==
  ASSUME HealthInv, NEW ok \in BOOLEAN, Count(ok)
  PROVE  /\ attempts' \in 0 .. MaxAttemptsToRunning + 1
         /\ failures' \in Nat /\ successes' \in Nat
         /\ AttemptsCount' /\ SuccessesCount' /\ FailuresCount'
<1> PICK L \in Nat : L = Len(outcomes)
  BY DEF HealthInv, TypeOK
<1>1. /\ L = Len(outcomes) /\ Len(outcomes') = L + 1 /\ outcomes'[L + 1] = ok
      /\ \A k \in 1 .. L : outcomes'[k] = outcomes[k]
  BY Answered DEF HealthInv, Count
<1>2. attempts' \in 0 .. MaxAttemptsToRunning + 1 /\ AttemptsCount'
  BY <1>1, Thresholds DEF HealthInv, AttemptsCount, Count
<1>3. attempts' <= ForgivingAttempts <=> L + 1 <= ForgivingAttempts
  BY <1>1, <1>2, Thresholds, HealthAssumption DEF AttemptsCount
<1>4. CASE ok
  <2>1. successes' = successes + 1 /\ failures' = 0
    BY <1>4 DEF Count, CountSuccess
  <2>2. outcomes'[L + 1]
    BY <1>1, <1>4
  <2>3. /\ successes \in Nat /\ successes <= L
        /\ \A j \in L - successes + 1 .. L : outcomes[j]
        /\ (successes < L => ~outcomes[L - successes])
    BY DEF HealthInv, TypeOK, SuccessesCount
  <2>4. SuccessesCount'
    <3>1. \A j \in (L + 1) - (successes + 1) + 1 .. L + 1 : outcomes'[j]
      BY <1>1, <2>2, <2>3
    <3>2. successes + 1 < L + 1 => ~outcomes'[(L + 1) - (successes + 1)]
      BY <1>1, <2>3
    <3> QED
      BY <1>1, <2>1, <2>3, <3>1, <3>2 DEF SuccessesCount
  <2>5. FailuresCount'
    <3>1. (L + 1) - 0 = L + 1
      BY <1>1
    <3> QED
      BY <1>1, <2>1, <2>2, <3>1, Thresholds DEF FailuresCount
  <2> QED
    BY <1>2, <2>1, <2>3, <2>4, <2>5
<1>5. CASE ~ok
  <2>1. successes' = 0
        /\ failures' = IF L + 1 <= ForgivingAttempts THEN failures ELSE failures + 1
    BY <1>3, <1>5 DEF Count, CountFailure, ShouldIgnoreFailure
  <2>2. SuccessesCount'
    BY <1>1, <1>5, <2>1 DEF SuccessesCount
  <2>3. CASE L + 1 <= ForgivingAttempts
    <3>1. failures = 0
      BY <1>1, <2>3, Thresholds DEF HealthInv, TypeOK, FailuresCount
    <3> QED
      BY <1>1, <1>2, <2>1, <2>2, <2>3, <3>1, Thresholds DEF FailuresCount
  <2>4. CASE L + 1 > ForgivingAttempts
    <3>1. /\ failures \in Nat /\ failures <= L
          /\ \A j \in L - failures + 1 .. L : ~outcomes[j] /\ j > ForgivingAttempts
          /\ L - failures > ForgivingAttempts => outcomes[L - failures]
      BY DEF HealthInv, TypeOK, FailuresCount
    <3>2. failures' = failures + 1
      BY <1>1, <2>1, <2>4, Thresholds
    <3>3. \A j \in (L + 1) - (failures + 1) + 1 .. L + 1 :
             ~outcomes'[j] /\ j > ForgivingAttempts
      BY <1>1, <1>5, <2>4, <3>1
    <3>4. (L + 1) - (failures + 1) > ForgivingAttempts => outcomes'[(L + 1) - (failures + 1)]
      BY <1>1, <3>1, Thresholds
    <3>5. FailuresCount'
      BY <1>1, <3>1, <3>2, <3>3, <3>4 DEF FailuresCount
    <3> QED
      BY <1>2, <2>1, <2>2, <3>1, <3>2, <3>5
  <2> QED
    BY <1>1, <2>3, <2>4, Thresholds
<1> QED
  BY <1>4, <1>5

(***************************************************************************)
(* The verdict after one more answer.                                      *)
(***************************************************************************)
LEMMA VerdictFollows ==
  ASSUME HealthInv, ~ShouldEnforceDeadline, NEW ok \in BOOLEAN, Count(ok)
  PROVE  /\ running' \in BOOLEAN /\ healthy' \in BOOLEAN
         /\ reason' \in {"none", "check", "deadline"}
         /\ running => running'
         /\ ~healthy => ~healthy'
         /\ RunningExact' /\ FailureNoticed' /\ FailureJustified' /\ Blamed'
<1> PICK L \in Nat : L = Len(outcomes)
  BY DEF HealthInv, TypeOK
<1>1. /\ L = Len(outcomes) /\ Len(outcomes') = L + 1 /\ outcomes'[L + 1] = ok
      /\ \A k \in 1 .. L : outcomes'[k] = outcomes[k]
  BY Answered DEF HealthInv, Count
<1>2. \A k \in 1 .. L : /\ Proved(k)' <=> Proved(k)
                        /\ Overdrawn(k)' <=> Overdrawn(k)
                        /\ Hopeless(k)' <=> Hopeless(k)
  BY OlderAnswers DEF HealthInv, Count
<1>3. AttemptsCount' /\ SuccessesCount' /\ FailuresCount' /\ successes' \in Nat /\ failures' \in Nat
  BY CountersFollow
<1>4. /\ running' \in BOOLEAN /\ healthy' \in BOOLEAN
      /\ reason' \in {"none", "check", "deadline"}
      /\ running => running'
      /\ ~healthy => ~healthy'
  BY DEF HealthInv, TypeOK, Count, CountSuccess, CountFailure
<1>5. Proved(L + 1)' <=> successes' >= Needed
  BY <1>1, <1>3, Thresholds DEF Proved, SuccessesCount
<1>6. Overdrawn(L + 1)' <=> failures' > MaxConsecutiveFailures
  BY <1>1, <1>3, Thresholds, HealthAssumption DEF Overdrawn, FailuresCount
<1>7. running' <=> running \/ Proved(L + 1)'
  <2>1. CASE ok
    <3>1. running' <=> running \/ successes' >= MinConsecutiveSuccesses
      BY <2>1 DEF Count, CountSuccess
    <3>2. successes' \in Nat \ {0}
      BY <2>1 DEF HealthInv, TypeOK, Count, CountSuccess
    <3> QED
      BY <1>5, <3>1, <3>2, Thresholds
  <2>2. CASE ~ok
    BY <1>5, <2>2, Thresholds DEF Count, CountFailure
  <2> QED
    BY <2>1, <2>2
<1>8. RunningExact'
  <2>1. running <=> \E k \in 1 .. L : Proved(k)
    BY DEF HealthInv, RunningExact
  <2>2. (\E k \in 1 .. L + 1 : Proved(k)') <=> (\E k \in 1 .. L : Proved(k)) \/ Proved(L + 1)'
    BY <1>1, <1>2
  <2> QED
    BY <1>1, <1>7, <2>1, <2>2 DEF RunningExact
<1>9. Overdrawn(L + 1)' => ~healthy'
  <2>1. CASE ok
    BY <1>6, <2>1, HealthAssumption DEF Count, CountSuccess
  <2>2. CASE ~ok
    <3>1. ASSUME Overdrawn(L + 1)'
          PROVE  ~ShouldIgnoreFailure(attempts')
      BY <1>1, <1>3, <3>1, Thresholds, HealthAssumption
      DEF Overdrawn, ShouldIgnoreFailure, AttemptsCount
    <3> QED
      BY <1>6, <2>2, <3>1 DEF Count, CountFailure
  <2> QED
    BY <2>1, <2>2
<1>10. FailureNoticed'
  <2>1. (\E k \in 1 .. L : Overdrawn(k)) => ~healthy'
    BY <1>4 DEF HealthInv, FailureNoticed
  <2> QED
    BY <1>1, <1>2, <1>9, <2>1 DEF FailureNoticed
<1>11. healthy /\ ~healthy' =>
         ~ok /\ L + 1 > ForgivingAttempts /\ (Overdrawn(L + 1)' \/ Hopeless(L + 1)')
  <2> SUFFICES ASSUME healthy, ~healthy'
               PROVE  ~ok /\ L + 1 > ForgivingAttempts /\ (Overdrawn(L + 1)' \/ Hopeless(L + 1)')
    OBVIOUS
  <2>1. /\ ~ok /\ ~ShouldIgnoreFailure(attempts')
        /\ ShouldFailFast(attempts') \/ failures' > MaxConsecutiveFailures
    BY DEF Count, CountSuccess, CountFailure
  <2>2. L + 1 > ForgivingAttempts
    BY <1>1, <1>3, <2>1, Thresholds, HealthAssumption DEF AttemptsCount, ShouldIgnoreFailure
  <2>3. CASE failures' > MaxConsecutiveFailures
    BY <1>6, <2>1, <2>2, <2>3
  <2>4. CASE ShouldFailFast(attempts')
    <3>1. ~running' /\ L + 1 + Needed > MaxAttemptsToRunning
      BY <1>1, <1>3, <1>5, <1>7, <2>1, <2>4, Thresholds, HealthAssumption
      DEF ShouldFailFast, AttemptsCount, Count, CountFailure
    <3>2. \A k \in 1 .. L + 1 : ~Proved(k)'
      BY <1>1, <1>8, <3>1 DEF RunningExact
    <3>3. Hopeless(L + 1)'
      BY <1>1, <2>1, <2>2, <3>1, <3>2, Thresholds DEF Hopeless
    <3> QED
      BY <2>1, <2>2, <3>3
  <2> QED
    BY <2>1, <2>3, <2>4
<1>12. FailureJustified'
  <2>1. CASE ~healthy /\ \E i \in 1 .. L : Overdrawn(i) \/ Hopeless(i)
    BY <1>1, <1>2, <2>1 DEF FailureJustified
  <2>2. CASE ~healthy /\ L > MaxAttemptsToRunning
             /\ \A i \in 1 .. MaxAttemptsToRunning + 1 : ~Proved(i)
    BY <1>1, <1>2, <2>2, Thresholds DEF FailureJustified
  <2>3. CASE healthy
    BY <1>1, <1>11, <2>3 DEF FailureJustified
  <2> QED
    BY <2>1, <2>2, <2>3 DEF HealthInv, FailureJustified
<1>13. Blamed'
  <2>1. CASE healthy
    BY <1>1, <1>11, <2>1, Thresholds DEF Blamed
  <2>2. CASE ~healthy /\ \E k \in ForgivingAttempts + 1 .. L : ~outcomes[k]
    BY <1>1, <2>2, Thresholds DEF Blamed
  <2>3. CASE ~healthy /\ ~running /\ L > MaxAttemptsToRunning
    BY <1>1, <2>3, Thresholds DEF HealthInv, AttemptsCount, ShouldEnforceDeadline
  <2> QED
    BY <2>1, <2>2, <2>3 DEF HealthInv, Blamed
<1> QED
  BY <1>4, <1>8, <1>10, <1>12, <1>13

-----------------------------------------------------------------------------
(***************************************************************************)
(* The steps of the checker's thread that count an answer.                 *)
(***************************************************************************)
LEMMA CountKeepsInv ==
  ASSUME HealthInv, ~ShouldEnforceDeadline, NEW ok \in BOOLEAN, Count(ok),
         pc' \in {"idle", "checking"}, pc' # "checking", UNCHANGED <<world, status>>
  PROVE  HealthInv'
<1>1. TypeOK'
  <2>1. outcomes' \in Seq(BOOLEAN)
    BY Answered DEF HealthInv, Count
  <2> QED
    BY <2>1, CountersFollow, VerdictFollows DEF HealthInv, TypeOK, world, status
<1>2. ReaderBehind'
  BY VerdictFollows DEF HealthInv, ReaderBehind, TypeOK, status
<1> QED
  BY <1>1, <1>2, CountersFollow, VerdictFollows DEF HealthInv

(***************************************************************************)
(* No other step touches the answers.                                      *)
(***************************************************************************)
LEMMA QuietKeepsCounts ==
  ASSUME HealthInv, UNCHANGED <<attempts, failures, successes, running, outcomes>>,
         ~healthy => ~healthy',
         healthy' \/ ~healthy \/ ShouldEnforceDeadline
  PROVE  /\ AttemptsCount' /\ SuccessesCount' /\ FailuresCount'
         /\ RunningExact' /\ FailureNoticed' /\ FailureJustified' /\ Blamed'
<1>1. /\ AttemptsCount' /\ SuccessesCount' /\ FailuresCount'
      /\ RunningExact' /\ FailureNoticed'
  BY DEF HealthInv, AttemptsCount, SuccessesCount, FailuresCount, RunningExact,
         FailureNoticed, Proved, Overdrawn
<1>2. CASE healthy' \/ ~healthy
  BY <1>1, <1>2 DEF HealthInv, FailureJustified, Blamed, Proved, Overdrawn, Hopeless
<1>3. CASE ShouldEnforceDeadline
  <2>1. ~running /\ Len(outcomes) > MaxAttemptsToRunning /\ Len(outcomes) \in Nat
    BY <1>3, Thresholds DEF HealthInv, TypeOK, AttemptsCount, ShouldEnforceDeadline
  <2>2. \A i \in 1 .. MaxAttemptsToRunning + 1 : ~Proved(i)
    BY <2>1, Thresholds DEF HealthInv, RunningExact
  <2> QED
    BY <1>1, <2>1, <2>2 DEF FailureJustified, Blamed, Proved
<1> QED
  BY <1>2, <1>3

LEMMA HealthInvInit == Init => HealthInv
<1> SUFFICES ASSUME Init PROVE HealthInv
  OBVIOUS
<1>1. outcomes \in Seq(BOOLEAN) /\ Len(outcomes) = 0
  BY EmptySeq DEF Init
<1>2. TypeOK /\ AttemptsCount
  <2>1. attempts \in 0 .. MaxAttemptsToRunning + 1 /\ AttemptsCount
    BY <1>1, Thresholds DEF Init, AttemptsCount
  <2> QED
    BY <1>1, <2>1 DEF Init, TypeOK
<1>3. SuccessesCount /\ FailuresCount
  BY <1>1, Thresholds DEF Init, SuccessesCount, FailuresCount
<1>4. RunningExact /\ FailureNoticed
  BY <1>1 DEF Init, RunningExact, FailureNoticed
<1>5. FailureJustified /\ Blamed /\ ReaderBehind /\ pc # "checking"
  BY DEF Init, FailureJustified, Blamed, ReaderBehind
<1> QED
  BY <1>2, <1>3, <1>4, <1>5 DEF HealthInv

LEMMA HealthInvNext == HealthInv /\ [Next]_vars => HealthInv'
<1> SUFFICES ASSUME HealthInv, [Next]_vars PROVE HealthInv'
  OBVIOUS
<1> USE DEF counters, world, status
<1>1. CASE SnoozedCheck
  BY <1>1, CountKeepsInv DEF SnoozedCheck, AtCheck
<1>2. ASSUME NEW ok \in BOOLEAN, EndCheck(ok)
      PROVE  HealthInv'
  BY <1>2, CountKeepsInv DEF EndCheck, HealthInv
<1>3. CASE EnforceDeadline
  <2>1. /\ AttemptsCount' /\ SuccessesCount' /\ FailuresCount'
        /\ RunningExact' /\ FailureNoticed' /\ FailureJustified' /\ Blamed'
    BY <1>3, QuietKeepsCounts DEF EnforceDeadline
  <2> QED
    BY <1>3, <2>1 DEF EnforceDeadline, AtCheck, HealthInv, TypeOK, ReaderBehind
<1>4. CASE Start \/ BeginCheck \/ Leave \/ Stop \/ Snooze \/ Read \/ UNCHANGED vars
  <2>1. UNCHANGED counters
    BY <1>4 DEF Start, BeginCheck, Leave, Stop, Snooze, Read, ReadHealthy, ReadRunning, vars
  <2>2. /\ AttemptsCount' /\ SuccessesCount' /\ FailuresCount'
        /\ RunningExact' /\ FailureNoticed' /\ FailureJustified' /\ Blamed'
    BY <2>1, QuietKeepsCounts
  <2>3. TypeOK' /\ ReaderBehind'
    BY <1>4, <2>1 DEF HealthInv, TypeOK, ReaderBehind, Start, BeginCheck, Leave, Stop, Snooze,
       Read, ReadHealthy, ReadRunning, vars
  <2>4. pc' = "checking" => ~ShouldEnforceDeadline'
    BY <1>4, <2>1 DEF HealthInv, TypeOK, ShouldEnforceDeadline, Start, BeginCheck, Leave, Stop,
       Snooze, Read, ReadHealthy, ReadRunning, vars
  <2> QED
    BY <2>2, <2>3, <2>4 DEF HealthInv
<1> QED
  BY <1>1, <1>2, <1>3, <1>4 DEF Next, Checking

(***************************************************************************)
(* A failure that counts breaks any run of successes it falls into, and    *)
(* the deadline is later than the attempts the class comment grants.       *)
(***************************************************************************)
LEMMA GraceForgiven == HealthInv => GraceForgives
<1> SUFFICES ASSUME HealthInv, ~healthy
             PROVE  /\ Len(outcomes) > ForgivingAttempts
                    /\ \A i \in 1 .. ForgivingAttempts + Needed : i = Len(outcomes) => ~Proved(i)
  BY Thresholds DEF GraceForgives, HealthInv, TypeOK
<1>1. Len(outcomes) \in Nat
  BY DEF HealthInv, TypeOK
<1>2. CASE \E k \in ForgivingAttempts + 1 .. Len(outcomes) : ~outcomes[k]
  BY <1>1, <1>2, Thresholds DEF Proved
<1>3. CASE ~running /\ Len(outcomes) > MaxAttemptsToRunning
  BY <1>1, <1>3, Thresholds, HealthAssumption DEF HealthInv, RunningExact
<1> QED
  BY <1>2, <1>3 DEF HealthInv, Blamed

(***************************************************************************)
(* The invariant of the checker.                                           *)
(***************************************************************************)
THEOREM HealthInvariant == Spec => []HealthInv
  BY HealthInvInit, HealthInvNext, PTL DEF Spec

(***************************************************************************)
(* The types, and the bound on the attempts that are counted.              *)
(***************************************************************************)
THEOREM HealthTypeCorrect == Spec => []TypeOK
<1>1. HealthInv => TypeOK
  BY DEF HealthInv
<1> QED
  BY <1>1, HealthInvariant, PTL

(***************************************************************************)
(* RUNNING is reported for min_consecutive_successes successes in a row,   *)
(* and for nothing else.                                                   *)
(***************************************************************************)
THEOREM RunningCorrect == Spec => []RunningExact
<1>1. HealthInv => RunningExact
  BY DEF HealthInv
<1> QED
  BY <1>1, HealthInvariant, PTL

(***************************************************************************)
(* The checker fails a task only for the reasons the limits give: too many *)
(* failures in a row, or an attempt limit it can no longer meet.           *)
(***************************************************************************)
THEOREM JustifiedCorrect == Spec => []FailureJustified
<1>1. HealthInv => FailureJustified
  BY DEF HealthInv
<1> QED
  BY <1>1, HealthInvariant, PTL

(***************************************************************************)
(* And too many failures in a row always fail it.                          *)
(***************************************************************************)
THEOREM NoticedCorrect == Spec => []FailureNoticed
<1>1. HealthInv => FailureNoticed
  BY DEF HealthInv
<1> QED
  BY <1>1, HealthInvariant, PTL

(***************************************************************************)
(* A task is not failed in its grace period, nor when it proves itself in  *)
(* the attempts right after it.                                            *)
(***************************************************************************)
THEOREM GraceCorrect == Spec => []GraceForgives
  BY GraceForgiven, HealthInvariant, PTL

(***************************************************************************)
(* What the status manager reads behaves as HealthSignal promises, with    *)
(* the flags read at two moments while the thread counts on.               *)
(***************************************************************************)
THEOREM SignalCorrect == Spec => Signal!Safety
<1>1. Init => Signal!Init
  BY DEF Init, Signal!Init
<1>2. HealthInv /\ [Next]_vars => [Signal!Next]_Signal!vars
  <2> SUFFICES ASSUME HealthInv, [Next]_vars
               PROVE  [Signal!Next]_Signal!vars
    OBVIOUS
  <2> USE DEF counters, world, status, Signal!vars
  <2>1. CASE Stop
    BY <2>1 DEF Stop, Signal!Next, Signal!Stop
  <2>2. CASE ReadHealthy
    BY <2>2 DEF ReadHealthy, HealthInv, TypeOK, Signal!Next, Signal!Decide, Signal!Fail
  <2>3. CASE ReadRunning
    BY <2>3 DEF ReadRunning, HealthInv, TypeOK, ReaderBehind, Signal!Next, Signal!Decide
  <2>4. CASE Start \/ Checking \/ Snooze \/ UNCHANGED vars
    BY <2>4 DEF Start, Checking, EnforceDeadline, SnoozedCheck, BeginCheck, EndCheck, Leave,
       Snooze, vars
  <2> QED
    BY <2>1, <2>2, <2>3, <2>4 DEF Next, Read
<1> QED
  BY <1>1, <1>2, HealthInvariant, PTL DEF Spec, Signal!Safety
=============================================================================
