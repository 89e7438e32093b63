---------------------------- MODULE MCHvShutdown ----------------------------
EXTENDS HvShutdown

CONSTANTS c0, c1, c2, c3

FourCPUs == {c0, c1, c2, c3}
=============================================================================
