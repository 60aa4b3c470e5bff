CONSTANTS
  Instances = {i1}
  Take = 2
  MaxFailed = 3
  MaxRestarts = 1
SPECIFICATION Spec
PROPERTIES EveryFailureNotified
CHECK_DEADLOCK FALSE
