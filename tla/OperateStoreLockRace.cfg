SPECIFICATION Spec
CONSTANTS
  c1 = c1
  c2 = c2
  c3 = c3
  NoCall = NoCall
  Call <- MCTrio
  FaultsMayHappen = FALSE
  Serialized = FALSE
SYMMETRY MCTrioSymmetry
INVARIANT MutualExclusion
CHECK_DEADLOCK FALSE
