\* Two of the three commands on two instances, while one thing goes wrong; two hosts
\* are drained together, and a third one stays.
CONSTANTS
  Instances = {1, 2}
  Hosts = {1, 2, 3}
  HostOf <- Spread
  MaxFailures = 1
  BatchSize = 1
  MaxPerInstance = 1
  MaxTotal = 0
  KillBatch = 1
  MaxErrors = 1
  MaxPolls = 1
  Maintained = {1, 2}
  Together = TRUE
  Percentage = 50
  MinCount = 1
  Unanswered = TRUE
  MaxWaits = 2
  Commands = {"restart", "kill", "drain"}
  MaxCommands = 2
  MaxUpsets = 1
SPECIFICATION FairSpec
INVARIANT TypeOK
INVARIANT SuccessMeansRestarted
INVARIANT KillConfirmed
INVARIANT OperatedOnDrained
PROPERTY CommandsEnd
CHECK_DEADLOCK FALSE
