\* Three events on two tickets, one of them in code, a scalar and an array, a queue
\* of two requests, four messages or events fired by shreds; the patch lets requests
\* settle before it listens or unlistens, and sends at most half the pending ring of
\* gets between two computes.
CONSTANTS
  e1 = e1
  e2 = e2
  e3 = e3
  v1 = v1
  a1 = a1
  NULL = NULL
  Events = {e1, e2, e3}
  Variables = {v1, a1}
  Arrays = {a1}
  Declared = {e1, a1}
  MaxListens = 2
  PendingSize = 2
  RequestCap = 2
  Commands = {"listen", "unlisten", "signal", "broadcast", "get", "clear"}
  Quiet = TRUE
  MaxAhead = 1
  MaxSent = 4
SPECIFICATION FairSpec
INVARIANTS
  TypeOK
  EventReplyNamesEvent
  NoReplyAfterUnlisten
  GetReplyNamesVariable
PROPERTY RequestsSettle
CHECK_DEADLOCK FALSE
