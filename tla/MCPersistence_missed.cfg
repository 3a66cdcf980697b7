CONSTANTS
  Slots = {c1}
  SaveParams <- MCSaveParams
  Commands = {"BGSAVE"}
  Faults = {}
  MaxWrites = 2
  MaxAge = 3
SPECIFICATION FairSpec
PROPERTY ChangesAreSaved
CHECK_DEADLOCK FALSE
