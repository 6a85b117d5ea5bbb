\* The historian reaches the end of the session again and again, and what was
\* started ends: registrations, and a wrapup whose runs may all fail.
SPECIFICATION ScheduledSpec
CONSTANTS
  MaxMsg = 2
  Procs = {p1, p2}
  HomeProcs = {}
  Runs = {r1, r2}
  NoRun = NoRun
  Wrapups = {w1}
  NoWrapup = NoWrapup
  Target = 2
  MaxLapses = 0
  MaxFaults = 1
  MaxRebuilds = 0
PROPERTIES HistoryAdvances RegistrationsEnd WrapupEnds
CHECK_DEADLOCK FALSE
