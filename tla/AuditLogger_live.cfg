SPECIFICATION FairSpec
CONSTANTS
  k1 = k1
  k2 = k2
  o1 = o1
  c1 = c1
  c2 = c2
  NoEntry = NoEntry
  Entries <- PairEntries
  Critical <- PairCritical
  Closers <- MCClosers
  Capacity = 1
  WithTSA = TRUE
PROPERTIES
  CloseReturns
  AcceptedIsSettled
