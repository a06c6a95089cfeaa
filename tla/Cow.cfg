SPECIFICATION Spec
CONSTANTS
  NENV = 2
  NVA = 3
  Library = {2}
  NPAGES = 6
  Values = {0, 1}
INVARIANTS
  FaultsHandled
PROPERTIES
  Isolated
  ChildCopies
CHECK_DEADLOCK FALSE
