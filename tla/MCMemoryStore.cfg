CONSTANTS
  i1 = i1
  i2 = i2
  e1 = e1
  n1 = n1
  s1 = s1
  s2 = s2
  Importer = {i1, i2}
  Ensurer = {e1}
  Source = {s1, s2}
  Note = {n1}
  MaxAttempts = 1
  MaxFaults = 1
SPECIFICATION Spec
INVARIANT IndexMatchesPrimary
PROPERTIES ImportKeepsBlocks SeenNotesSurvive EveryCallEnds
