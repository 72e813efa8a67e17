SPECIFICATION BothSpec
CONSTANTS
  s1 = s1  s2 = s2  s3 = s3  c1 = c1  c2 = c2  w1 = w1  w2 = w2  none = none  loop = loop
  Symbols = {s1, s2}  None = none
  Clients = {c1, c2}  Asked <- MCAsked
  Workers = {w1}  Warmed = {s1}
  QueueMax = 1
  NegTTL = 1  TTL = 1  StaleMax = 1
  MaxNow = 1  MaxRestarts = 1
  Savers = {loop}  Loop = loop
  MaxVer = 3  MaxFaults = 1  MaxKills = 2
INVARIANTS InflightExact OneJobPerSymbol Readable
PROPERTIES RestoredIsUsable NeverBackwards WorkIsDone
