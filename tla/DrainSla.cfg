\* Two hosts drained one by one, four instances, every query answered.
CONSTANTS
  Instances = {1, 2, 3, 4}
  Hosts = {1, 2, 3}
  HostOf <- Spread
  MaxFailures = 0
  BatchSize = 1
  MaxPerInstance = 0
  MaxTotal = 0
  KillBatch = 1
  MaxErrors = 0
  MaxPolls = 1
  Maintained = {1, 2}
  Together = FALSE
  Percentage = 66
  MinCount = 1
  Unanswered = FALSE
  MaxWaits = 3
  Commands = {"drain"}
  MaxCommands = 1
  MaxUpsets = 0
SPECIFICATION Spec
INVARIANT DrainKeepsPercentage
CHECK_DEADLOCK FALSE
