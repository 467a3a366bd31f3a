\* The second init() of an end may follow a failed one or a close().
SPECIFICATION FairSpec
CONSTANTS
  MaxInits = 2
  MaxDials = 2
  MaxSends = 3
  Capacity = 1
INVARIANTS
  TypeOK
  ThreadIsFree
  OneLateCallback
PROPERTIES
  OnlyInitLeaks
  CloseCompletes
  SendCompletes
CHECK_DEADLOCK FALSE
