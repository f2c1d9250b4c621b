SPECIFICATION GitSpec
SYMMETRY MCSymmetry
CONSTANTS
  py1 = py1
  go1 = go1
  go2 = go2
  odd = odd
  File <- MCFile
  Lang <- MCLang
  Unseen <- MCUnseen
  Group <- MCGroup
  PushGroup <- MCPushGroup
  Commands <- MCCommands
  ParallelAfter <- MCParallelAfter
  Filter <- MCFilter
  Ref = {r1, r2}
  Changes <- MCChanges
  MaxMoves = 3
INVARIANT CleanCommitIsChecked
INVARIANT ExitReflectsCommands
INVARIANT PushedIsChecked
PROPERTY ChecksSeeOneTree
CHECK_DEADLOCK FALSE
