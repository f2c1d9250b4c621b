CONSTANTS
  c1 = c1
  c2 = c2
  Caller = {c1, c2}
  Name <- MCName
  Host = {"a", "b", "c"}
  NoHost = "none"
  normalizeHost <- MCNormalize
  MaxLeaves = 2
  LeafTTL = 2
  RenewalSkew = 1
  MaxTime = 2
SPECIFICATION LeafSpec
SYMMETRY MCCallerSymmetry
INVARIANTS LruMatchesCache ServedLeafIsValid
PROPERTIES ReplacedOnlyWhenDue
