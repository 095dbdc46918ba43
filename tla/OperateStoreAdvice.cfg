SPECIFICATION Spec
CONSTANTS
  a = a
  b = b
  g1 = g1
  g2 = g2
  g3 = g3
  Client <- MCClient
  Generation <- MCGeneration
  NoGeneration = NoGeneration
  Unknown = Unknown
  Free = Free
  Stale = Stale
  MaxJournal = 4
  MaxFaults = 0
  WritesMayTear = FALSE
SYMMETRY MCSymmetry
PROPERTY AdvisedRestoreKeepsCommits
CHECK_DEADLOCK FALSE
