----------------------------- MODULE MCHvEntry -----------------------------
EXTENDS HvEntry

CONSTANTS c0, c1, c2, c3, e1, e2

ThreeCPUs == {c0, c1, c2}
FourCPUs == {c0, c1, c2, c3}
TwoErrors == {e1, e2}
=============================================================================
