CONSTANTS
  r1 = r1
  h1 = h1
  h2 = h2
  Hook = {h1, h2}
  Event <- MCEvent
  MaxRefs = 1
  MaxHooks = 4
  MaxFaults = 1
SPECIFICATION Spec
INVARIANTS PendingWorkIsRelevant ReportedOnce
PROPERTIES ImplementsRecord GuidanceOnce EveryHookEnds
CHECK_DEADLOCK FALSE
