\* removeall and an add in the same tick.
CONSTANTS
  MaxShreds = 2
  MaxId = 2
  MaxSent = 3
  MsgSize = 4
  RequestCap = 1
  Commands = {"add", "all"}
SPECIFICATION Spec
PROPERTY SparesLater
