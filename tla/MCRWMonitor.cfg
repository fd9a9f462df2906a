CONSTANTS
  M = 3
  N = 2
  WriteLoops = 2
  ReadLoops = 2
  NoData = NoData
  Cancels = TRUE
SPECIFICATION Spec
INVARIANTS CountersExact NoReaderStranded NoWriterStranded FinalState
PROPERTY Termination
