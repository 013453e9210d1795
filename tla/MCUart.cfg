SPECIFICATION Spec
CONSTANTS
  MaxInput = 4
  QuitAt = 4
  MaxOutput = 2
INVARIANTS InputInOrder QuitAfterDrain
PROPERTY EdgesAreRequested
CHECK_DEADLOCK FALSE
