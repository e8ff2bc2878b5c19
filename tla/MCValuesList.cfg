\* A list of two numbers sent to a global array of floats.
CONSTANTS
  x = x
  a = a
  Names = {a}
  Declared <- ArrayOnly
  Numbers = {1}
  Lists <- Index
  Commands = {"untyped", "add"}
  RequestCap = 3
  MaxSent = 2
SPECIFICATION Spec
INVARIANT UntypedTakesEffect
