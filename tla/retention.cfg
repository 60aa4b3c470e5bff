CONSTANTS
  Days <- MCDays
  Limits <- MCLimits
  MaxBackups = 4
SPECIFICATION Spec
INVARIANTS KeepsPromised HistoryIndependent
CHECK_DEADLOCK FALSE
