\* A partial recomp resumes rows of a full one behind a marker that outlived its promotion.
SPECIFICATION StagingSpec
CONSTANTS
  MaxMsg = 4
  Procs = {p1}
  Runs = {r1}
  NoRun = NoRun
  Ranges <- LastMessage
  NoRange = NoRange
  MaxLapses = 0
  MaxFaults = 2
  MaxRebuilds = 2
PROPERTY PartialKeepsTheRest
CHECK_DEADLOCK FALSE
