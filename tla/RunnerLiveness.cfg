\* A process, a finalizer and one kill or lose signal.
SPECIFICATION FairSpec
CONSTANTS
  Regular = {"p"}
  Final = {"f"}
  Deps <- DepsNone
  Ephemeral = {}
  Daemon = {}
  MaxFailures <- RetryP
  TaskMaxFailures = 1
  MaxConcurrency = 0
  RunLimit = 2
  NoProc = "none"
  MaxStarts = 1
  MaxCrashes = 0
  MaxKills = 1
  MaxDeaths = 0
  LaunchMayFail = FALSE
  ForkTimeouts = FALSE
INVARIANT VerdictFits
INVARIANT OnlyUnreadSurvive
PROPERTY KillTerminates
PROPERTY TaskTerminates
PROPERTY ImplementsLedger
CHECK_DEADLOCK FALSE
