CONSTANTS
  Child = {c1, c2}
SPECIFICATION Spec
INVARIANTS ZeroMeansClean TempOutlivesTool ReleasedOnReturn
PROPERTIES EndsUnlessHeld
CHECK_DEADLOCK FALSE
