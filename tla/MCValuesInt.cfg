\* A number sent to a global int.
CONSTANTS
  x = x
  a = a
  Names = {x}
  Declared <- IntOnly
  Numbers = {2}
  Lists <- None
  Commands = {"untyped", "add"}
  RequestCap = 3
  MaxSent = 2
SPECIFICATION Spec
INVARIANT UntypedTakesEffect
