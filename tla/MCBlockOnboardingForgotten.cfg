CONSTANTS
  b1 = b1
  b2 = b2
  b3 = b3
  p1 = p1
  p2 = p2
  p3 = p3
  Blocks <- MCBlocks
  Phones <- MCPhones
SPECIFICATION Spec
SYMMETRY MCSymmetry
INVARIANTS NoDeferredBlockForgotten
CHECK_DEADLOCK FALSE
