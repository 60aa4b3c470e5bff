CONSTANTS
  Instances = {i1, i2}
  Plans = {1}
  Editors = {e1, e2}
  Schedules = {2}
  Skew = {0, 1}
  NoOne = NoOne
  MaxTime = 2
  MaxEdits = 2
  MaxFaults = 1
SPECIFICATION FairSpec
INVARIANTS ScheduledOnce
PROPERTIES OnlyEnabledScheduled EnabledGetsPlanned DueGetsJob
CHECK_DEADLOCK FALSE
