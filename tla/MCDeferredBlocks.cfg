CONSTANTS
  b1 = b1
  b2 = b2
  b3 = b3
  p1 = p1
  p2 = p2
  p3 = p3
  s1 = s1
  s2 = s2
  Blocks <- MCBlocks
  Phones <- MCPhones
  Senders <- MCSenders
  SenderOf <- MCSenderOf
SPECIFICATION ExecSpec
SYMMETRY MCSymmetry
INVARIANTS TypeOK OnlyExposedBlocksAreForgotten DeferredBlocksRunOnce OnlyDeferredBlocksUnlogged
PROPERTY ImplementsCoordinator
CHECK_DEADLOCK FALSE
