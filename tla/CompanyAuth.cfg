SPECIFICATION Spec
CONSTANT MaxExchange = 4
INVARIANTS TypeOK SpentTokenNotReused ConfirmedIsTrue LiveTokensStayReferenced ManualNotStale
