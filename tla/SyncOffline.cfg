SPECIFICATION SyncSpec
CONSTANTS
  Devices = {d1, d2}
  PushSlots = {p1}
  PullSlots = {q1}
  MaxEdits = 2
  MaxNow = 2
  MaxPulls = 2
  MaxFaults = 1
CHECK_DEADLOCK FALSE
PROPERTY PullKeepsOfflineEdits
