CONSTANTS
  Workers = {k1}
  Requests = {r1}
  Dests = {d1}
  Remote = {d1}
  Plans = {p1}
  NoOne = NoOne
  MaxJobs = 2
  MaxEdits = 3
  MaxCrashes = 2
SPECIFICATION FairSpec
PROPERTIES QueueDrains
CHECK_DEADLOCK FALSE
