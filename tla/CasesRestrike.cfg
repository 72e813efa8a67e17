SPECIFICATION StruckSpec
CONSTANTS
  s1 = s1  s2 = s2  s3 = s3  s4 = s4  sweep = sweep  w1 = w1  w2 = w2  boot = boot  route = route
  Sources <- MCSources  Symbols = {s1, s2}  Prices = {1, 2, 3}  Horizons = {1}  None = none
  Recorders = {sweep}  SourceOf <- MCSourceOf  Published <- MCPublished  MARK_INTERVAL = 1
  MaxRows = 3  MaxNow = 0  MaxRestarts = 1
  Workers = {w1, w2}  Callers = {boot, route}  Forcing = {route}
  Replayed <- MCSources  ReplayPicks <- MCReplayPicks  NBars = 4  MaxRuns = 2
  Stocks = {s1, s2, s3, s4}  Null = none  SharePrices = {2, 4}  Quotes = {none, 2, 4}  Screens <- MCScreensSeen
  TargetN = 2  MinN = 2  ReserveN = 2  Whole = 8  Step = 3  MaxYear = 2  MaxPasses = 3  MaxFaults = 1
INVARIANT OldHoldingsClosed
