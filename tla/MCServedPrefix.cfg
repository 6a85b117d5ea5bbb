\* One process: publications, passes, a drain, a command, a fault.
SPECIFICATION PrefixSpec
CONSTANTS
  Processes = {p1}
  MaxMessages = 3
  Users = {1, 3}
  Stamps = {1, 2, 3}
  Inputs = {"execute", "hard"}
  Unsaved = Unsaved
  None = None
  AllowShorter = FALSE
  MaxFaults = 1
  MaxCommands = 1
  MaxPasses = None
INVARIANTS PrefixTypeOK HistoryServedOnce CutIsSummarised
PROPERTIES DeferPassesAreStable CutReachesHost
CHECK_DEADLOCK FALSE
