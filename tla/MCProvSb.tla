------------------------------- MODULE MCProvSb -------------------------------
EXTENDS ProvSb

CONSTANTS b1, b2, i1, i2

MCSbs == {b1, b2}
MCInodes == {i1, i2}
=============================================================================
