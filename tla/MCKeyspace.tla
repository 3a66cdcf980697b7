----------------------------- MODULE MCKeyspace ------------------------------
EXTENDS Keyspace, TLC

IndexArguments == {-1, 0, 1}

KeySymmetry == Permutations(Keys)

\* SETNX leaves a volatile key as it is; what follows is explored from there anyway.
StopAtSetnx == ~seen
=============================================================================
