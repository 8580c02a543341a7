---------------------------- MODULE MCProvSocket ----------------------------
EXTENDS ProvSocket

CONSTANTS u1, u2, k1, k2, k3, n1, n2, n3, n4, n5, n6

MCTasks == {u1, u2}
MCSocks == {k1, k2, k3}
MCSlots == {n1, n2, n3, n4, n5, n6}
=============================================================================
