\* Every input, once.
CONSTANTS
  Objects <- MCObjects
  Lengths <- MCLengths
  Datasets <- Clean
  Clock = {0, 1, 2}
  IntMax = 127
  Sorts <- MCSorts
  Rank <- MCRank
  Globs <- MCGlobs
  Keynames <- MCKeynames
  Lists <- MCLists
  Indexes <- MCIndexes
  Sets <- MCSets
  Lines <- MCLines
  Separators <- MCSeparators
SPECIFICATION Spec
INVARIANTS DumpsRoundTrip SortsAreRight GlobsAreRight ValuesAreRight LinesAreRight
CHECK_DEADLOCK FALSE
