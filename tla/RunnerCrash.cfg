\* q after p; two crashes, a coordinator death, failing launches.
SPECIFICATION Spec
CONSTANTS
  Regular = {"p", "q"}
  Final = {}
  Deps <- DepsChain
  Ephemeral = {}
  Daemon = {}
  MaxFailures <- RetryP
  TaskMaxFailures = 1
  MaxConcurrency = 0
  RunLimit = 3
  NoProc = "none"
  MaxStarts = 3
  MaxCrashes = 2
  MaxKills = 0
  MaxDeaths = 1
  LaunchMayFail = TRUE
  ForkTimeouts = FALSE
INVARIANT TypeOK
INVARIANT DependencyOrder
INVARIANT ReplayAgreement
INVARIANT StreamInStep
INVARIANT LostMeansSilent
CHECK_DEADLOCK FALSE
