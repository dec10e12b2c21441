---------------------------- MODULE MCSupernode ----------------------------
EXTENDS Supernode

CONSTANTS e, f, s1, s2

\* Every edge uses both supernodes.
MCUses == [x \in Edges |-> Sns]

\* One edge that starts and moves twice, or two edges that start once.
MCMoves == {[x \in Edges |-> IF x = e THEN 3 ELSE 0], [x \in Edges |-> 1]}
=============================================================================
