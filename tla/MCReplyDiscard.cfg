\* As MCReply, with a patch that also answers a delivery with reply 0.
CONSTANTS
  QueueSize = 4
  MaxPush = 7
  PatchSends = {"push", "on", "off"}
SPECIFICATION Spec
PROPERTY DiscardIsFinal
