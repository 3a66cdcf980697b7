\* Every command and every failure.
CONSTANTS
  Slots = {c1, c2}
  SaveParams <- MCSaveParams
  Commands = {"SAVE", "BGSAVE", "SYNC", "FLUSHALL", "SHUTDOWN"}
  Faults = {"io", "fflush", "fork", "kill", "crash", "power", "samename"}
  MaxWrites = 2
  MaxAge = 3
SPECIFICATION Spec
SYMMETRY SlotSymmetry
CONSTRAINT StopAtTear
INVARIANTS TypeOK ChildAccounted FilesApart ServerAtSave DumpIntact
PROPERTIES SaveIsDurable
CHECK_DEADLOCK FALSE
