CONSTANTS
  Workers = {k1, k2}
  Requests = {r1}
  Dests = {d1}
  Remote = {}
  Plans = {p1}
  NoOne = NoOne
  MaxJobs = 2
  MaxEdits = 2
  MaxCrashes = 1
SPECIFICATION Spec
INVARIANTS TypeOK ExclusiveExecution RestorePointKept
SYMMETRY WorkerSymmetry
CHECK_DEADLOCK FALSE
