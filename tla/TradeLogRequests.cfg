SPECIFICATION Spec
CONSTANTS
  none = none  s1 = s1  s2 = s2  req1 = req1  req2 = req2  sweep = sweep
  Sources <- MCSources
  Symbols = {s1, s2}
  Prices = {1, 2, 3}
  Horizons = {1}
  None = none
  Recorders = {req1, req2}
  SourceOf <- MCSourceOf
  Published <- MCPublished
  MARK_INTERVAL = 1
  MaxRows = 2  MaxNow = 1  MaxRestarts = 0
INVARIANT OneOpenPerSymbolDoc
