\* Two processes of one session: three passes, contention or another fault.
SPECIFICATION PrefixSpec
CONSTANTS
  Processes = {p1, p2}
  MaxMessages = 2
  Users = {1, 2}
  Stamps = {1, 2, 3, 4}
  Inputs = {"execute", "memory"}
  Unsaved = Unsaved
  None = None
  AllowShorter = FALSE
  MaxFaults = 1
  MaxCommands = 0
  MaxPasses = 3
SYMMETRY ProcessSymmetry
PROPERTIES CutProperty PublicationIsKept
CHECK_DEADLOCK FALSE
