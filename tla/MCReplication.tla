---------------------------- MODULE MCReplication ----------------------------
EXTENDS Replication, TLC

SlaveSymmetry == Permutations(Slaves)
=============================================================================
