SPECIFICATION BooksSpec
CONSTANTS
  none = none  cmp = cmp  Steps <- MCSteps
  Tickers = {1, 2}  Prices = {1, 2}  MaxLists = 2
  OpeningCash = 3  Cap = 2  MaxMounts <- MCMounts  Custom = {1}
  Intents <- MCIntents  Taps = {"mb", "patterns", "inst", "screener"}
  Firms = {co1, co2}  IndexNames = {ix1, ix2}  Ranked = {ix2}  MaxRounds <- MCRounds
  RowSets <- MCRowSets  Canonical = {1}  Choices <- MCKept
  Recs <- MCRecs  Stores <- MCStores  Slow = {2}  SectorOf <- MCSectorOf  Modes = {"long", "short", "inst"}
  Rooms = {1}  Dm = 2  Limit = 1  MaxMsgs = 2  MaxPolls = 1
  Devices = {1, 2}  Bound = 1
  NoLevel = none  NBars = 4  Times <- MCTimes  Shapes <- MCShapes  Plans <- MCPlans
INVARIANTS NothingLost WhatIsPickedExists ShownIsAsked BooksBalance ReplaySound ReadingsAgree
PROPERTY ListsKeepTheirWord
CHECK_DEADLOCK FALSE
