CONSTANTS
  Run = {r1, r2}
  Job = {b1, b2}
  CheckOf <- OneCheck
  Concurrency = 1
  MaxRetries = 1
  MaxFailures = 2
  MaxExpiries = 1
SPECIFICATION Spec
INVARIANTS NoLostBatch VerdictFollowsAnswers
SYMMETRY Symmetry
