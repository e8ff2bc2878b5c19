\* The message adaptive 3, and a shred that waits three samples.
CONSTANTS
  Shreds = 1
  Waits = {6}
  BufferFrames = 4
  Sizes = {3}
SPECIFICATION Spec
INVARIANT BlockFits
