\* Two processes one at a time, a finalizer, and no failure is forgiven.
SPECIFICATION FairSpec
CONSTANTS
  Regular = {"p", "q"}
  Final = {"f"}
  Deps <- DepsNone
  Ephemeral = {}
  Daemon = {}
  MaxFailures <- OneTry
  TaskMaxFailures = 1
  MaxConcurrency = 1
  RunLimit = 1
  NoProc = "none"
  MaxStarts = 1
  MaxCrashes = 0
  MaxKills = 0
  MaxDeaths = 0
  LaunchMayFail = FALSE
  ForkTimeouts = FALSE
PROPERTY TaskTerminates
CHECK_DEADLOCK FALSE
