SPECIFICATION Spec
CONSTANTS
  k1 = k1
  k2 = k2
  o1 = o1
  c1 = c1
  c2 = c2
  NoEntry = NoEntry
  Entries <- MCEntries
  Critical <- MCCritical
  Closers <- MCClosers
  Capacity = 2
  WithTSA = TRUE
SYMMETRY MCSymmetry
INVARIANTS
  WriteOrder
  DrainedWhenClosed
  TokenMatchesEntry
  LossAccounting
PROPERTIES
  CriticalDropOnlyWhenFull
  TrailSpec
