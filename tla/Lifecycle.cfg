\* Both classes.  Three starts: one that fails half-way, one on what it left,
\* and one after stop().
SPECIFICATION FairSpec
CONSTANTS
  NumWorkers = 2
  MaxStarts = 3
INVARIANTS
  TypeOK
  NoCallbackAfterFree
  UnlockedStateIsAlone
  SpinsOnlyIfReplaced
  ReleasesEverything
  LeakBlocksAddress
PROPERTY
  StopCompletes
CHECK_DEADLOCK FALSE
