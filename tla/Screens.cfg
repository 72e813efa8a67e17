SPECIFICATION Spec
CONSTANTS
  none = none  Steps <- MCSteps  Companies = {1, 2}
  Universes = {1, 2}  MembersOf <- MCMembersOf  PageSize = 1  MaxRounds = 1
  Markets = {1, 2}  Fallback = 1  Columns <- MCColumns  Presets = {"p"}  PresetRows <- MCPresetRows
  Metrics = {"rsi"}  Titles = {"n", "o"}  Cap = 1
  Expiries <- MCExpiries  MaxLegs = 2
  Callers = {1, 2}  MaxVersion = 3
  TTL = 2  LongTTL = 4  Rounds = 2  MaxMisses = 1
  Workers = 2  MaxMounts = 2
  Tested = {1}  Bots = {"b"}  Names = {"n1", "n2"}  MaxRunning = 1  MaxJobs = 1  MaxSaved = 1
  Sources = {"mb", "rep", "hold"}
INVARIANTS ShownIsAsked LoadingIsAsked EachExactlyOnce SheetsLeaveAScreen
PROPERTIES Forward PollsEnd
CHECK_DEADLOCK FALSE
