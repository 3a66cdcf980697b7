\* A slave and its master, with every failure of the slave's.
CONSTANTS
  Slaves = {s1, s2}
  NoLink = NoLink
  Dbs = {0}
  Ops = {"write", "silent", "flushall"}
  Faults = {"fork", "child", "link"}
  SlaveFaults = {"give_up", "write", "short", "load", "crash"}
  MaxChanges = 1
  MaxSyncs = 2
  MaxSaves = 1
SPECIFICATION FairSync
INVARIANTS SlaveTypeOK SlaveIsCopy DumpSurvives
PROPERTIES SyncServed
CHECK_DEADLOCK FALSE
