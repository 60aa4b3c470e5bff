CONSTANTS
  Instances = {i1}
  Plans = {1}
  Editors = {e1}
  Schedules = {2}
  Skew = {0}
  NoOne = NoOne
  MaxTime = 3
  MaxEdits = 1
  MaxFaults = 0
SPECIFICATION FairSpec
PROPERTIES DuePlanMovesOn
CHECK_DEADLOCK FALSE
