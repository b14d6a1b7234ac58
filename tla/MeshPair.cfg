CONSTANTS
  a = a
  b = b
  Nodes = {a, b}
  Other <- OtherOf
  Old = {a}
  MaxWire = 3
  MaxOwed = 2
SPECIFICATION Spec
INVARIANT LinkIsTwoSided
