------------------------------ MODULE MCProvFile ------------------------------
(* Model-checking instance of ProvFile.                                    *)
EXTENDS ProvFile

CONSTANTS t1, t2, i1, i2, s1, s2, s3
=============================================================================
