\* clear globals while a shred runs that writes one.
CONSTANTS
  x = x
  a = a
  Names = {x}
  Declared <- IntOnly
  Numbers = {2}
  Lists <- None
  Commands = {"set", "clear globals", "add"}
  RequestCap = 3
  MaxSent = 3
SPECIFICATION Spec
INVARIANT WritesLand
CHECK_DEADLOCK FALSE
