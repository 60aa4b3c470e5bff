CONSTANTS
  Workers = {k1}
  Requests = {r1}
  Dests = {d1}
  Remote = {d1}
  Plans = {p1}
  NoOne = NoOne
  MaxJobs = 1
  MaxEdits = 2
  MaxCrashes = 0
SPECIFICATION Spec
INVARIANTS TestIsOfCurrentConfig
CHECK_DEADLOCK FALSE
