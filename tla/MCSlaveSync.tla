----------------------------- MODULE MCSlaveSync -----------------------------
EXTENDS SlaveSync, TLC
=============================================================================
