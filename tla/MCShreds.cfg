\* Two shreds, three messages, a buffer of two and a queue of two: messages overrun
\* the buffer, and a third request is lost.  A message that fails stops the object (see
\* Reporting), so that the system may stop.
CONSTANTS
  MaxShreds = 2
  MaxId = 4
  MaxSent = 3
  MsgSize = 2
  RequestCap = 2
  Commands = {"add", "eval", "replace", "remove", "last", "all", "none", "clear", "reset id", "next", "spork", "machine", "fail"}
SPECIFICATION FairSpec
INVARIANTS
  IdsUnique
  CountAgrees
  RepliesTell
  NoOrphans
PROPERTIES
  HandledInOrder
  CommandsSettle
CHECK_DEADLOCK FALSE
