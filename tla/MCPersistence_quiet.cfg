\* SAVE, BGSAVE and SYNC only, and no orphans: what they promise to each other.
CONSTANTS
  Slots = {c1}
  SaveParams <- MCSaveParams
  Commands = {"SAVE", "BGSAVE", "SYNC"}
  Faults = {"io", "fork", "power"}
  MaxWrites = 3
  MaxAge = 3
SPECIFICATION FairSpec
INVARIANTS ReportedSaveIsOnDisk DirtyMeansUnsaved
PROPERTIES DumpIsAtomic DumpNeverRegresses ChildIsReaped DueSaveHappens
