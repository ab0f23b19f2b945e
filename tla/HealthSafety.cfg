\* Three forgiven attempts, one failure allowed, three successes needed: seven
\* attempts to RUNNING, and two checks past the deadline.
SPECIFICATION FairSpec
CONSTANTS
  Interval = 2
  GracePeriod = 5
  MaxConsecutiveFailures = 1
  MinConsecutiveSuccesses = 3
  MaxChecks = 10
INVARIANT TypeOK
INVARIANT RunningExact
INVARIANT FailureJustified
INVARIANT FailureNoticed
INVARIANT GraceForgives
PROPERTY ImplementsSignal
CHECK_DEADLOCK FALSE
