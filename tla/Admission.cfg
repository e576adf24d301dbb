SPECIFICATION Spec
CONSTANTS
  r1 = r1
  r2 = r2
  alice = alice
  bob = bob
  Agent = Agent
  None = None
  MaxLen = 3
  MaxOperations = 2
  Nonces = {"n1", "n2"}
  Letters = {"d", "r", "w"}
  Requests <- MCRequests
  Principals <- MCPrincipals
  Certificates <- MCCertificates
  Configs <- MCConfigs
SYMMETRY MCSymmetry
INVARIANTS
  DowngradeTakesEffect
  DelegationGenuine
  ReplayHasCulprit
  OperationsSound
