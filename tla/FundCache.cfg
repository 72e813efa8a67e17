SPECIFICATION FairSpec
CONSTANTS
  Symbols = {s1, s2}  None = none
  Openers = {o1}  Bulkers = {b1}  PoolWorkers = {p1}  WarmWorkers = {w1}
  Asked = {s1}  Opened = {s1}
  TTL = 1  NegTTL = 1
  MaxNow = 1  MaxQueue = 1  MaxSweeps = 1  MaxOpens = 1  MaxRestarts = 1
INVARIANTS InflightNotLeaked PollSound StoppedReadsStopped
PROPERTY SweepsEndAndBulkIsAnswered
