\* Every operation and every failure.
CONSTANTS
  Slaves = {s1, s2}
  Dbs = {0, 1}
  Ops = {"write", "silent", "flushall"}
  Faults = {"fork", "child", "kill", "save", "open", "link"}
  MaxChanges = 2
  MaxSyncs = 3
SPECIFICATION Spec
SYMMETRY SlaveSymmetry
INVARIANTS TypeOK SnapshotPlusBuffer RightDatabase NoChangeTwice
CHECK_DEADLOCK FALSE
