CONSTANTS
  M = 2
  N = 2
  WriteLoops = 2
  ReadLoops = 2
  NoData = NoData
  Cancels = FALSE
SPECIFICATION PromptSpec
INVARIANT WriterAlone
