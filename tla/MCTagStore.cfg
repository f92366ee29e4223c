SPECIFICATION Spec
CONSTANTS
  numSets = 2
  assoc = 2
  blkSize = 2
  Lines <- MCLines
  Requests <- MCRequests
  c1 = c1
  c2 = c2
INVARIANTS
  FillFailsOnlyWhenFull
PROPERTIES
  ImplementsLineStore
\* The program stops when an assertion fails.
CHECK_DEADLOCK FALSE
