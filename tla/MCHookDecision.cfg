CONSTANTS
  Input <- MCInput
  Faults = {"ensure", "trace", "encode"}
SPECIFICATION DecisionSpec
INVARIANTS VerdictIsRight RefusedStaysRefused
CHECK_DEADLOCK FALSE
