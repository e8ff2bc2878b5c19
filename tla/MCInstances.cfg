\* Three addresses for two slots, three objects created, queues of two calls and
\* three calls: the table and a queue fill, and slots and addresses are used again.
CONSTANTS
  x1 = x1
  x2 = x2
  x3 = x3
  NULL = NULL
  Objects = {x1, x2, x3}
  MaxInstances = 2
  SendQueueSize = 2
  MaxNew = 3
  MaxCalls = 3
SPECIFICATION FairSpec
INVARIANTS
  EachLiveHasOneSlot
  SubsystemsOutliveObjects
  EverySendAccounted
  NothingUsedAfterFree
PROPERTY SendsSettle
CHECK_DEADLOCK FALSE
