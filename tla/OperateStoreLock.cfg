SPECIFICATION Spec
CONSTANTS
  c1 = c1
  c2 = c2
  c3 = c3
  NoCall = NoCall
  Call <- MCTrio
  FaultsMayHappen = TRUE
  Serialized = TRUE
SYMMETRY MCTrioSymmetry
INVARIANTS
  TypeOK
  RecordsLeftAreAccountedFor
PROPERTY LoneWriterIsServed
CHECK_DEADLOCK FALSE
