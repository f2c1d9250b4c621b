CONSTANTS
  s1 = s1
  s2 = s2
  r1 = r1
  Syncer = {s1, s2}
  Reader = {r1}
  Rank <- MCRank
  External = {"a.ttl", "b.ttl"}
  Content = {"x", "bad"}
  Bad = {"bad"}
  Commit = {"A", "B"}
  Tree <- MCTree
  MaxChanges = 1
  MaxLosses = 1
  MaxSyncs = 3
SYMMETRY Alike
SPECIFICATION Spec
INVARIANTS AnswerIsExact ReceiptIsWhole
CHECK_DEADLOCK FALSE
