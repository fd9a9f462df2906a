CONSTANTS
  M = 2
  N = 2
  LastLetter = 2
SPECIFICATION Spec
CHECK_DEADLOCK FALSE
INVARIANTS BufferExclusive NoOverwrite NoStaleRead AllConsumed
PROPERTIES Termination
