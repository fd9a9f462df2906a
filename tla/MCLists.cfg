CONSTANTS
  Values = {0, 1, 2}
  MaxLen = 4
  Args = {0, 1, 2, 5}
  UIntSize = 8
  MaxNum = 120
  Garbage = {0, 7}
  Nodes = {n1, n2, n3}
  Starts = {a, b}
  NULL = null
SPECIFICATION MCSpec
INVARIANTS StaysInList ResultsRight NumbersRight DLinkRight
PROPERTIES ProgramsEnd
CHECK_DEADLOCK FALSE
