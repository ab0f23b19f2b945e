CONSTANTS
  MaxJoins = 4
  MaxDrops = 1
  MaxDeletes = 1
SPECIFICATION FairSpec
INVARIANT Accounted
PROPERTY Rejoins
PROPERTY StopEnds
CHECK_DEADLOCK FALSE
