\* A process and an ephemeral daemon, one at a time; a coordinator death, overdue forks.
SPECIFICATION Spec
CONSTANTS
  Regular = {"p", "q"}
  Final = {}
  Deps <- DepsNone
  Ephemeral = {"q"}
  Daemon = {"q"}
  MaxFailures <- RetryP
  TaskMaxFailures = 1
  MaxConcurrency = 1
  RunLimit = 2
  NoProc = "none"
  MaxStarts = 1
  MaxCrashes = 0
  MaxKills = 0
  MaxDeaths = 1
  LaunchMayFail = FALSE
  ForkTimeouts = TRUE
INVARIANT AtMostOneCommand
INVARIANT ConcurrencyLimit
CHECK_DEADLOCK FALSE
