---------------------------- MODULE MCPersistence ----------------------------
EXTENDS Persistence, TLC

\* redis.conf's save points, scaled down: few changes wait longer than many.
MCSaveParams == {[changes |-> 1, seconds |-> 2], [changes |-> 2, seconds |-> 1]}

SlotSymmetry == Permutations(Slots)

\* Nothing is promised of the dump after a tear: the tear itself is explored,
\* what follows it is not.
StopAtTear == ~torn
=============================================================================
