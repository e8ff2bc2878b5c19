\* A ring of 4 slots (3 replies), 7 accepted replies: it wraps and fills.
\* The patch answers a delivery with messages that push and with reply 1.
CONSTANTS
  QueueSize = 4
  MaxPush = 7
  PatchSends = {"push", "on"}
SPECIFICATION FairSpec
INVARIANTS
  SlotStableInOutlet
PROPERTIES
  DeliversNextReply
  ImplementsChannel
  AcceptedIsDelivered
