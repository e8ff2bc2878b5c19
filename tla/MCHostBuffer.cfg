\* Three names for two slots, arrays of up to two points, one at a time in the same
\* memory, and positions in exact arithmetic.
CONSTANTS
  m1 = m1
  a1 = a1
  a2 = a2
  a3 = a3
  b1 = b1
  p1 = p1
  NULL = NULL
  Names = {a1, a2, a3}
  Memory = {m1}
  MaxLen = 2
  MaxSlots = 2
  Buffers = {b1}
  Players = {p1}
  Unit = 2
  Coarse = 1
  Rates <- ForwardAndBack
SYMMETRY Symmetry
SPECIFICATION Spec
INVARIANTS
  TypeOK
  TouchesLivePoints
  WrittenIsRedrawn
PROPERTY LoopNeverSilent
CHECK_DEADLOCK FALSE
