SPECIFICATION Spec
CONSTANTS
  r1 = r1
  r2 = r2
  r3 = r3
  r4 = r4
  ta = ta
  tb = tb
  tc = tc
  tj = tj
  na = na
  nb = nb
  nc = nc
  nd = nd
  NoNonce = NoNonce
  Requests <- MCRequests
  Tokens <- MCTokens
  Nonces <- MCNonces
  Jti <- MCJti
  DaNonce <- MCDaNonce
  Iat <- MCIat
  Exp <- MCExp
  TTL = 3
  Max = 2
  MaxDelay = 1
  MaxTime = 6
SYMMETRY MCSymmetry
INVARIANTS
  SingleUse
  CapacityBound
PROPERTIES
  LiveMarkersKept
CHECK_DEADLOCK FALSE
