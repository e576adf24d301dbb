SPECIFICATION Spec
CONSTANTS
  p = p
  k1 = k1
  k2 = k2
  g1 = g1
  g2 = g2
  Letters = {"a", "b"}
  MaxLen = 3
  Keys = {p, k1, k2}
  Principal = p
  PrincipalCaps <- MCPrincipalCaps
  Serials = {1, 2, 3, 4}
  Unbound = Unbound
  Delegations <- MCDelegations
  Chains <- MCChains
  MaxDepth = 3
  MaxChainLength = 0
  DefaultMaxChainLength = 3
  Constraints <- MCConstraints
  Sessions <- MCSessions
  Custom = {"custom:ping"}
  Changing = {"time:window", "custom:ping"}
  Nowhere = "nowhere"
  Unparsable = "unparsable"
  Resolvers = {"db"}
  Regions = {"north", "south"}
  Day = 4
  RecheckEvery = 2
  DefaultInterval = 30
  MaxChanges = 3
  Agents = {g1, g2}
  RiskSignals = {"cap", "rate"}
  AnySignal = "*"
  RuleSets <- MCRuleSets
  DefaultWindow = 2
  MaxUnix = 4
  MaxViolations = 4
INVARIANTS
  PermissionsOnlyDecrease
CHECK_DEADLOCK FALSE
