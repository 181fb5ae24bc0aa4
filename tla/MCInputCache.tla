---------------------------- MODULE MCInputCache ----------------------------
(* An instance of InputCache: one run with two workers.                    *)
EXTENDS InputCache

CONSTANTS p1, p2, r1, k1, k2, v1, v2, i1, i2, i3

OneRun == [p \in Procs |-> r1]
=============================================================================
