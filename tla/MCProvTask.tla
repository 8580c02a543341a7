------------------------------ MODULE MCProvTask ------------------------------
EXTENDS ProvTask

CONSTANTS t1, t2, c1, c2, c3, m1, s1, n1, n2, n3, n4, f1

MCTasks == {t1, t2}
MCCreds == {c1, c2, c3}
MCSlots == {n1, n2, n3, n4}
=============================================================================
