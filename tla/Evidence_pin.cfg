\* Plugins log their decisions; the bundle is asked for by agent.
SPECIFICATION Spec
CONSTANTS
  r1 = r1
  r2 = r2
  i1 = i1
  i2 = i2
  i3 = i3
  pepKey = pepKey
  otherKey = otherKey
  None = None
  Torn = Torn
  NoOne = NoOne
  Requests = {r1, r2}
  Inputs = {i1, i2, i3}
  Allowed = {i1, i2}
  Keys = {pepKey, otherKey}
  Deployments <- PluginDeployments
  Queries <- PluginQueries
  MaxFaults = 0
CHECK_DEADLOCK FALSE
INVARIANTS
  AnchorResolved
