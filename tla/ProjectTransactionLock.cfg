SPECIFICATION FairSpec
CONSTANTS
  c1 = c1
  c2 = c2
  c3 = c3
  p1 = p1
  p2 = p2
  p3 = p3
  NoCall = NoCall
  Call <- MCCall
  Process = {p1, p2, p3}
  pid <- MCPid
INVARIANTS
  TypeOK
  ExclusionUntilACrash
  NoRecordLeftBehind
PROPERTY EveryCallEnds
CHECK_DEADLOCK FALSE
