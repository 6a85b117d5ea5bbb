\* Two processes, two run slots, a wrapup; a lapse, a fault and a recomp.
SPECIFICATION RunsSpec
CONSTANTS
  MaxMsg = 2
  Procs = {p1, p2}
  HomeProcs = {p2}
  Runs = {r1, r2}
  NoRun = NoRun
  Wrapups = {w1}
  NoWrapup = NoWrapup
  Target = 1
  MaxLapses = 1
  MaxFaults = 1
  MaxRebuilds = 1
SYMMETRY RunSymmetry
INVARIANTS RunsTypeOK HistoryIsContiguous OneRunPerProcess WrapupIsNotOvertaken StartIntentIsOwned
PROPERTIES LogProperty
CHECK_DEADLOCK FALSE
