SPECIFICATION Spec
CONSTANTS
  c1 = c1
  c2 = c2
  c3 = c3
  c4 = c4
  p1 = p1
  p2 = p2
  p3 = p3
  NoCall = NoCall
  Call <- MCCall
  pid <- MCPid
  Process = {p1, p2, p3}
  MaxAttempts = 2
INVARIANTS
  TypeOK
  MutualExclusion
  OnlyTheDeadLeaveFiles
  OnlyClaimsBlock
CHECK_DEADLOCK FALSE
