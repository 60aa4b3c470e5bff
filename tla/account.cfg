CONSTANTS
  Tabs = {t1, t2}
  Requests = {q1, q2}
  MaxSessions = 3
  MaxLinks = 2
  MaxRows = 4
  Accounts = {"work", "home"}
  SignIns = {x1, x2}
  MsCalls = {m1, m2}
  Notes = {n1, n2}
  Tasks = {"task"}
  Syncs = {i1, i2}
  Desks = {"desk"}
  MaxTime = 4
SPECIFICATION AccountSpec
INVARIANTS AccountTypeOK AtMostOneLive EndedStaysEnded CalmKeepsSession LinkTakesEffectOnce OnlyChosenAccount 
SYMMETRY AccountSymmetry
CHECK_DEADLOCK FALSE
