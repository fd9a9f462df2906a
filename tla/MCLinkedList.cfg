CONSTANTS
  Nodes = {n1, n2, n3, n4}
  Items = {1, 2, 3}
  MaxPos = 5
  NULL = NULL
  Freed = Freed
  Uninit = Uninit
  None = None
  Broken = Broken
SYMMETRY Symmetry
VIEW HeapView
SPECIFICATION OldSpec
CHECK_DEADLOCK FALSE
INVARIANTS WellFormed
PROPERTIES LeaksOnlyWhereNamed ImplementsOldListsSpec
