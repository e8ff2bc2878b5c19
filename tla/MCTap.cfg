\* Three outlets: groups of every width can overlap, of the same UGen or of two.
CONSTANTS
  u1 = u1
  u2 = u2
  NoUGen = NoUGen
  TapChannels = 3
  UGens = {u1, u2}
SPECIFICATION TapSpec
INVARIANTS
  EachOutletWrittenOnce
PROPERTY ImplementsGroups
CHECK_DEADLOCK FALSE
