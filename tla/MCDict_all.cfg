\* Six keys, tables that grow from 2 slots to 8 and shrink.
CONSTANTS
  Keys = {1, 2, 3, 4, 5, 6}
  Vals = {0, 1}
  Hash <- HashOf
  Initial = 2
  MinSlots = 2
  MinFill = 50
SPECIFICATION Spec
INVARIANTS TypeOK GivenOnce
PROPERTIES IsMap
