\* One task, every failure of its sandbox, runner, checkers and stop.
SPECIFICATION FairSpec
INVARIANT TypeOK
INVARIANT UpdatesInOrder
INVARIANT VerdictTrue
INVARIANT CleanStop
PROPERTY EndsReported
CHECK_DEADLOCK FALSE
