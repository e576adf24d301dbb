\* Two requests, one outside change, a reader of either kind.
SPECIFICATION Spec
CONSTANTS
  r1 = r1
  r2 = r2
  i1 = i1
  i2 = i2
  i3 = i3
  pepKey = pepKey
  otherKey = otherKey
  None = None
  Torn = Torn
  NoOne = NoOne
  Requests = {r1, r2}
  Inputs = {i1, i2, i3}
  Allowed = {i1, i2}
  Keys = {pepKey, otherKey}
  Deployments <- MCDeployments
  Queries <- MCQueries
  MaxFaults = 1
CHECK_DEADLOCK FALSE
INVARIANTS
  EvidenceGenuine
  ReportCoversSnapshot
  PinnedIsOnDisk
  AnchorResolved
  BundleIsSealed
