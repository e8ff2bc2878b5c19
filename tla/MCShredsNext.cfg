\* One shred added after shreds next.
CONSTANTS
  MaxShreds = 2
  MaxId = 3
  MaxSent = 2
  MsgSize = 2
  RequestCap = 1
  Commands = {"add", "next"}
SPECIFICATION PromisedSpec
PROPERTY NextIsNext
