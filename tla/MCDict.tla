-------------------------------- MODULE MCDict --------------------------------
EXTENDS Dict, TLC

\* Tables of 2, 4 and 8 slots: the hashes meet in two of them, in one, and never.
HashOf(k) == CASE k = 1 -> 0 [] k = 2 -> 8 [] k = 3 -> 4 [] k = 4 -> 2 [] k = 5 -> 3 [] k = 6 -> 16
=============================================================================
