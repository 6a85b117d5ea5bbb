\* A refused partial recomp and the staged passes of a full one.
SPECIFICATION StagingSpec
CONSTANTS
  MaxMsg = 2
  Procs = {p1}
  Runs = {r1}
  NoRun = NoRun
  Ranges <- AllRanges
  NoRange = NoRange
  MaxLapses = 0
  MaxFaults = 1
  MaxRebuilds = 1
PROPERTY RefusedWorkIsKept
CHECK_DEADLOCK FALSE
