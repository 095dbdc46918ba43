SPECIFICATION Spec
CONSTANTS
  a = a
  b = b
  g1 = g1
  g2 = g2
  g3 = g3
  Client <- MCClient
  Generation <- MCGenerationPair
  NoGeneration = NoGeneration
  Unknown = Unknown
  Free = Free
  Stale = Stale
  MaxJournal = 3
  MaxFaults = 2
  WritesMayTear = TRUE
SYMMETRY MCPairSymmetry
INVARIANTS
  TypeOK
  WorksOnJournaled
  HeadStaysRestorable
  CorruptionHasCause
PROPERTY ImplementsHistory
CHECK_DEADLOCK FALSE
