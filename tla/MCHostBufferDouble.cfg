\* As MCHostBuffer, with positions in doubles: away from 0 their neighbours are four
\* sub-frames apart.
CONSTANTS
  m1 = m1
  a1 = a1
  a2 = a2
  a3 = a3
  b1 = b1
  p1 = p1
  NULL = NULL
  Names = {a1}
  Memory = {m1}
  MaxLen = 2
  MaxSlots = 2
  Buffers = {b1}
  Players = {p1}
  Unit = 8
  Coarse = 4
  Rates <- ForwardAndBack
SPECIFICATION Spec
PROPERTY LoopNeverSilent
CHECK_DEADLOCK FALSE
