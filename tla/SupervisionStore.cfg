SPECIFICATION Spec
CONSTANTS
  f1 = f1
  f2 = f2
  f3 = f3
  f4 = f4
  f5 = f5
  s1 = s1
  s2 = s2
  x = x
  y = y
  r1 = r1
  r2 = r2
  None = None
  NoRoot = NoRoot
  Inodes <- MCInodes
  Batches <- MCBatches
  Leaves <- MCLeaves
  Filters <- MCFilters
  Scenarios <- MCScenarios
  Sealers = {s1, s2}
  Recorders = {r1, r2}
  MaxSize = 5
  MaxBak = 2
  MaxFaults = 2
  Unsigned = 2
  Signed = 3
  Chunk = 4
INVARIANTS
  Retention
  QueryHasNoGaps
  ReadBack
  ChainTamperEvident
CHECK_DEADLOCK FALSE
