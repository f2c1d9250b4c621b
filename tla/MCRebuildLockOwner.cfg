CONSTANTS
  p1 = p1
  p2 = p2
  Proc = {p1, p2}
  MaxFaults = 0
SPECIFICATION Spec
INVARIANT RemovedLockHasNoOwner
