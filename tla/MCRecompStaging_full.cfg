SPECIFICATION RepeatedSpec
CONSTANTS
  MaxMsg = 3
  Procs = {p1, p2}
  Runs = {r1}
  NoRun = NoRun
  Ranges <- AllRanges
  NoRange = NoRange
  MaxLapses = 1
  MaxFaults = 1
  MaxRebuilds = 2
INVARIANT StagingTypeOK
PROPERTY LogProperty
PROPERTY MarkedWorkIsKept
PROPERTY StagingIsResolved
CHECK_DEADLOCK FALSE
