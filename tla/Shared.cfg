SPECIFICATION SharedSpec
CONSTANTS
  r1 = r1
  r2 = r2
  l1 = l1
  l2 = l2
  l3 = l3
  pa = pa
  pb = pb
  bad = bad
  p1 = p1
  Configured = Configured
  Requests <- MCRequests
  Via <- MCVia
  Reloads <- MCReloads
  Offered <- MCOffered
  Policies <- MCPolicies
  WellFormed <- MCWellFormed
  Probes <- MCProbes
  c1 = c1
  c2 = c2
  c3 = c3
  c4 = c4
  n1 = n1
  n2 = n2
  Certs <- MCCerts
  DANonces <- MCDANonces
  NonceOf <- MCNonceOf
  NotBefore <- MCNotBefore
  NotAfter <- MCNotAfter
  Retention = 2
  MaxTime = 6
INVARIANTS
  BacklogNotOverstated
  ReloadReachesServer
PROPERTIES
  OneLiveScopePerNonce
  OwnerNeverRefused
CHECK_DEADLOCK FALSE
