CONSTANTS
  Slaves = {s1}
  Dbs = {0}
  Ops = {"write", "flushall"}
  Faults = {}
  MaxChanges = 3
  MaxSyncs = 1
SPECIFICATION Spec
INVARIANT ExactCopies
CHECK_DEADLOCK FALSE
