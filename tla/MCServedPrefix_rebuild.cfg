\* A recomp that promotes only the passes it has finished.
SPECIFICATION PrefixSpec
CONSTANTS
  Processes = {p1}
  MaxMessages = 3
  Users = {1, 3}
  Stamps = {1, 2, 3}
  Inputs = {"execute"}
  Unsaved = Unsaved
  None = None
  AllowShorter = TRUE
  MaxFaults = 0
  MaxCommands = 1
  MaxPasses = None
INVARIANT HiddenIsSummarised
CHECK_DEADLOCK FALSE
