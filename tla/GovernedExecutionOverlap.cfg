SPECIFICATION Spec
CONSTANTS
  c1 = c1
  c2 = c2
  c3 = c3
  x1 = x1
  x2 = x2
  y1 = y1
  y2 = y2
  e1 = e1
  e2 = e2
  r1 = r1
  r2 = r2
  r3 = r3
  p1 = p1
  p2 = p2
  a1 = a1
  a2 = a2
  t1 = t1
  t2 = t2
  Call = {c1, c2}
  Runtime = {x1, x2}
  RecoveryRuntime = {y1}
  Execution = {e1, e2}
  Rollback = {r1}
  Plan = {p1, p2}
  parent <- MCParent
  planOf <- MCPlanOf
  Action = {a1, a2}
  Target = {t1, t2}
  Initial = Initial
  Overlap = TRUE
  MaxRebase = 2
  MaxDoubt = 2
  Revocable = {}
  MaxFault = 0
CHECK_DEADLOCK FALSE
PROPERTIES HistoryOnlyGrows
