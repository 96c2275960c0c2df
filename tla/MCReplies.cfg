CONSTANTS
  ManifestSets <- AnyManifests
  Hashes <- SomeHashes
  Bodies <- AnyBodies
  MaxHandlers = 3
SPECIFICATION Spec
INVARIANTS FallbackKeepsTheWords OnlyLostAnswersMislead SameFlowSameVariant
CHECK_DEADLOCK FALSE
