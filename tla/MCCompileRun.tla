---------------------------- MODULE MCCompileRun ----------------------------
(* An instance of CompileRun: an inventory of three targets, whose names   *)
(* do not nest, beside which the output directory holds a target that is   *)
(* gone.                                                                   *)
EXTENDS CompileRun

CONSTANTS a, b, c, gone, w1, w2

Flat == [d \in Dirs |-> {}]

\* a has two compile configs, one that may fail, and b two, one that removes
\* from the directory of a and from that of the target that is gone; c has none.
ThreeSizes == [t \in Targets |-> IF t = c THEN 0 ELSE 2]
SecondOfA == {<<a, 2>>}
SecondOfB == {<<b, 2, a>>, <<b, 2, gone>>}
=============================================================================
