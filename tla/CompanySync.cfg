SPECIFICATION MCSpec
CONSTANTS
  v1 = v1
  v2 = v2
  v3 = v3
  p1 = p1
  p2 = p2
  Content = {v1, v2, v3}
  Proposal = {p1, p2}
  result <- MCResult
  MaxRevision = 3
  MaxPreview = 2
INVARIANTS TypeOK BindingIsTrue PendingStaysResumable EditsSurvive OwnRevisionsReachable
PROPERTY BindingNeverBack
