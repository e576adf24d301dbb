CONSTANTS
  c1 = c1
  c2 = c2
  Checks <- MCChecks
  MaxTime = 4
  Validity = 2
  TTL = 2
  OldWithoutNext = FALSE
SPECIFICATION MCSpec
INVARIANTS RevocationTakesEffect NeverUnrevoked SingleFlight
PROPERTIES EveryCheckReturns
CHECK_DEADLOCK FALSE
