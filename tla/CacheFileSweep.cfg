SPECIFICATION FileSpec
CONSTANTS
  Savers = {loop, sweep}  Loop = loop
  MaxVer = 2  MaxFaults = 0  MaxKills = 0
INVARIANT Readable
