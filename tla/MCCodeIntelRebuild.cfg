CONSTANTS
  h1 = h1
  h2 = h2
  c1 = c1
  r1 = r1
  r2 = r2
  Hook = {h1, h2}
  Capture = {c1}
  Rebuilder = {r1, r2}
  MaxFaults = 2
SYMMETRY Alike
SPECIFICATION SpecAll
INVARIANTS IndexedIsLogged StoreIsRebuildableWithoutFaults SelfHealing
PROPERTIES IndexNeverShrinks
