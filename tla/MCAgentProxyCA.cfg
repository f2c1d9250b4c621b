CONSTANTS
  p1 = p1
  p2 = p2
  Proc = {p1, p2}
  Validity = 1
  MaxAttempts = 1
  MaxClock = 2
  MaxFaults = 1
SPECIFICATION Spec
INVARIANTS TypeOK MintMutex ValidCertHasItsKey ReturnedCAIsPublished IssuerFollowsGate
PROPERTY EveryRunEnds
