SPECIFICATION FairSpec
CONSTANTS
  p1 = p1
  p2 = p2
  Writer <- MCWriter
  Process = {p1, p2}
  pid <- MCPid
  MaxTicket = 2
INVARIANTS
  TypeOK
  MutualExclusion
  ServedInOrder
PROPERTIES
  EveryCallEnds
  OnlyOwnerOrDeadUnlinked
CHECK_DEADLOCK FALSE
