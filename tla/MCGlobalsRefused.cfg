\* As MCGlobals, with listen and broadcast only: a one-shot listener that has fired.
CONSTANTS
  e1 = e1
  e2 = e2
  e3 = e3
  v1 = v1
  a1 = a1
  NULL = NULL
  Events = {e1, e2}
  Variables = {v1, a1}
  Arrays = {a1}
  Declared = {e1, e2, a1}
  MaxListens = 2
  PendingSize = 2
  RequestCap = 4
  Commands = {"listen", "broadcast"}
  Quiet = TRUE
  MaxAhead = 1
  MaxSent = 4
SPECIFICATION Spec
PROPERTY RefusedOnlyWhileListening
CHECK_DEADLOCK FALSE
