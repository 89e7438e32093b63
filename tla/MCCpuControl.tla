---------------------------- MODULE MCCpuControl ----------------------------
(* Instances of CpuControl for TLC. *)
EXTENDS CpuControl

CONSTANTS c0, c1, c2, k1, k2

TwoCPUs   == {c0, c1}
ThreeCPUs == {c0, c1, c2}
OneCell   == {k1}
TwoCells  == {k1, k2}

CellGetsC1   == [k \in OneCell |-> {c1}]
\* With k1, c0 is the only CPU left to the root cell; with k2, c1 is one that
\* takes no part in the hypercalls.
CellsGet     == [k \in TwoCells |-> IF k = k1 THEN {c1, c2} ELSE {c2}]
=============================================================================
