\* A float and an array of floats, three messages and a queue of three requests: two
\* lists of two overrun it.  No clear globals, and no list of two that begins with the
\* index of another element: see the other configurations.
CONSTANTS
  x = x
  a = a
  Names = {x, a}
  Declared <- FloatAndArray
  Numbers = {1}
  Lists <- Safe
  Commands = {"untyped", "set", "get", "clear vm", "add"}
  RequestCap = 3
  MaxSent = 3
SPECIFICATION Spec
INVARIANTS
  UntypedTakesEffect
  WritesLand
PROPERTIES
  InOrder
  SecondChance
