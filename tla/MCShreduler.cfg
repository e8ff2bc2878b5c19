\* Three shreds; waits of none, half, one and a half and three samples; blocks of
\* four frames; the message adaptive turns the mode on (3) and off (0).
CONSTANTS
  Shreds = 3
  Waits = {0, 1, 3, 6}
  BufferFrames = 4
  Sizes = {0, 3}
SPECIFICATION FairSpec
INVARIANTS
  LinksAgree
  InOnePlace
  OnTime
PROPERTIES
  ImplementsQueue
  TurnComes
