CONSTANTS
  Slaves = {s1, s2}
  Dbs = {0}
  Ops = {"write"}
  Faults = {}
  MaxChanges = 2
  MaxSyncs = 2
SPECIFICATION Spec
INVARIANT MasterSurvives
CHECK_DEADLOCK FALSE
