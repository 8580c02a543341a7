------------------------------- MODULE MCIfcFs -------------------------------
(* Model-checking instance of IfcFs: two pids, two tags.                   *)
EXTENDS IfcFs

CONSTANTS p1, p2

MCProcs == {p1, p2}
=============================================================================
