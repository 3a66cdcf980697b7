CONSTANTS
  Slots = {c1}
  SaveParams <- MCSaveParams
  Commands = {"BGSAVE", "SHUTDOWN"}
  Faults = {}
  MaxWrites = 2
  MaxAge = 3
SPECIFICATION Spec
INVARIANT ShutdownKeepsData
CHECK_DEADLOCK FALSE
