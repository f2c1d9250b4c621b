CONSTANTS
  Stream = {s1, s2}
SPECIFICATION Spec
INVARIANTS ChannelClosedOnce JudgedBeforeUpstream EvidenceIsComplete
PROPERTIES TunnelReturns
CHECK_DEADLOCK FALSE
