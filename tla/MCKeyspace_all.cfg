\* Every command, expiry, and restarts.
CONSTANTS
  Dbs = {0, 1}
  Keys = {a, b}
  Elems = {e}
  Numbers = {0, 1}
  Indexes <- IndexArguments
  Timeouts = {1, 3}
  Wrap32 = 3
  MaxTime = 2
  MaxLen = 1
  MaxKeys = 2
SPECIFICATION Spec
CONSTRAINT StopAtSetnx
SYMMETRY KeySymmetry
INVARIANTS TypeOK ExpiresHaveKeys SameDataset ReadsIgnoreTheDead
PROPERTIES IsLiveMap
