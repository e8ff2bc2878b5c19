\* Two shreds, two HostIns, queues of two messages, three messages sent: a queue
\* fills, is shared, and outlives its creator.
CONSTANTS
  s1 = s1
  s2 = s2
  h1 = h1
  h2 = h2
  n1 = n1
  NULL = NULL
  Shreds = {s1, s2}
  HostIns = {h1, h2}
  Names = {n1}
  MaxPending = 2
  MaxMsg = 3
SPECIFICATION FairSpec
INVARIANTS
  ListedAreUsable
  NoSleeperHasMail
PROPERTIES
  ReceivedInOrder
  MailIsRead
CHECK_DEADLOCK FALSE
