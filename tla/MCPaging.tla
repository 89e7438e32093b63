------------------------------ MODULE MCPaging ------------------------------
(* An instance of Paging for TLC: three levels with two hugepage sizes, as   *)
(* on ARM and on x86 below the top level.                                    *)
EXTENDS Paging

MCSizes3 == <<4, 2, 1>>
MCHv3    == [virt |-> 4, size |-> 4, phys |-> 0, fl |-> "rw"]
MCCell3  == <<[virt |-> 2, size |-> 2, phys |-> 10, fl |-> "rw"]>>
=============================================================================
