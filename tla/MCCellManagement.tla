-------------------------- MODULE MCCellManagement --------------------------
(* Instances of CellManagement for TLC. *)
EXTENDS CellManagement, TLC

CONSTANTS k1, k2, r1, r2, r3, r4

TwoCells    == {k1, k2}
FourRegions == {r1, r2, r3, r4}

\* k1 has two loadable regions and a private one, k2 a region that is not
\* part of the root cell's configuration.
Disjoint    == (k1 :> {r1, r2, r3}) @@ (k2 :> {r4})
LoadTwo     == (k1 :> {r1, r2}) @@ (k2 :> {})
RootRegions == {r1, r2, r3}

JustK2 == {k2}
=============================================================================
