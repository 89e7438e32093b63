------------------------------- MODULE MCX86 -------------------------------
(* The hypervisor shutdown and the parts of the system that exist once per  *)
(* machine, for TLC: one instance in which Init chooses the part that       *)
(* moves.  The other parts stay in their initial state, so the state spaces *)
(* add up.  The devices and registers of module GuestAccess are three       *)
(* parts: with DMA, with the PCI port window, and with the IOAPIC window.   *)
EXTENDS HvShutdown, GuestAccess, Paging, X86Exit, ApicClear, Driver

CONSTANTS c0, c1, c2, c3

FourCPUs == {c0, c1, c2, c3}

(* X86Cells: d1 and d2 share a bus, d3 is not the root cell's; cell a takes *)
(* from the root cell and from outside, b has a large CPU set, c nothing.   *)
MCBusOf     == [d1 |-> 0, d2 |-> 0, d3 |-> 1]
MCDevicesOf == [R |-> {"d1", "d2"}, a |-> {"d1", "d3"}, b |-> {"d2"}, c |-> {}]
MCPinsOf    == [R |-> {"i1", "i2"}, a |-> {"i1"}, b |-> {"i3"}, c |-> {}]
MCPortsOf   == [R |-> {1, 2}, a |-> {2, 3}, b |-> {}, c |-> {}]
MaxLost     == 1     \* bound: pages of large CPU sets that are lost
MCCellOf    == [r |-> "R", a1 |-> "a", a2 |-> "a"]

(* Paging: two levels, as the two lower levels of x86 and ARM, with         *)
(* hugepages of four pages.                                                 *)
Rg(v, s, p, f) == [virt |-> v, size |-> s, phys |-> p, fl |-> f]
MCSizes == <<4, 1>>
MCHv    == Rg(8, 4, 0, "rw")
MCCell  == <<Rg(0, 8, 16, "ro"), Rg(9, 2, 25, "rw")>>
MCParts == {Rg(3, 2, 19, "ro")}

(* Driver: two cells that compete for CPU 2.                                *)
MCCellCpus == ("n1" :> {1, 2}) @@ ("n2" :> {2})

(* ApicClear: two local sources share a vector; one register exists only in *)
(* newer APICs, one only in the newest.                                     *)
MCLvtVector == [T |-> 1, PC |-> 2, CMCI |-> 1]

(* Decode and X86Exit: the inputs.                                          *)
Blank == [rex |-> FALSE, r |-> FALSE, x |-> FALSE, op |-> "-", mod |-> 0, reg |-> 0, rm |-> 0]
Rex(r, x) == [Blank EXCEPT !.rex = TRUE, !.r = r, !.x = x]
Op(o) == [Blank EXCEPT !.op = o]
Mrm(m0, g, r) == [Blank EXCEPT !.mod = m0, !.reg = g, !.rm = r]
MmioIn ==
  {[alg |-> "mmio", code |-> p \o <<Op(o), Mrm(m0, g, r), Mrm(0, 0, b)>>,
    pc |-> ip, mapped |-> mp, is_write |-> w, handler |-> h] :
     p \in {<<>>, <<Rex(FALSE, FALSE)>>, <<Rex(TRUE, FALSE)>>, <<Rex(FALSE, TRUE)>>},
     o \in {"to", "from", "other"}, m0 \in 0 .. 3, g \in {0, 4}, r \in {0, 4, 5},
     b \in {0, 5}, ip \in {0, 3}, mp \in BOOLEAN, w \in BOOLEAN, h \in {0, 1}}
IcrIn ==
  {[alg |-> "icr", mode |-> md, shorthand |-> sh, logical |-> l, x2apic |-> x,
    dest |-> [id |-> i, cluster |-> cl, ids |-> s], self |-> 0, cpus |-> {0, 2},
    apicid |-> (0 :> 0) @@ (1 :> 2) @@ (2 :> 5)] :
     md \in {"FIXED", "INIT", "SMI"}, sh \in {"NONE", "SELF", "ALL"}, l \in BOOLEAN,
     x \in BOOLEAN, i \in {0, 2, 5, 6}, cl \in 0 .. 1, s \in SUBSET (0 .. 3)}
PciIn ==
  {i \in [alg : {"pci"}, type : {"DEVICE", "BRIDGE"}, address : 0 .. 79, size : {1, 2, 4},
          caps : {{[start |-> 64, len |-> 8, write |-> FALSE],
                   [start |-> 72, len |-> 4, write |-> TRUE]}}] :
     (i.address % 4) + i.size <= 4 \/ i.address < 60}
Cr0Bits == {"PE", "PG", "ET", "NE", "NW", "CD"}
Cr4Bits == {"PSE", "VMXE", "SMEP"}
CrIn ==
  {[alg |-> "cr", cr |-> 0, val |-> v, fixed0 |-> f, fixed1 |-> Cr0Bits, bits |-> Cr0Bits] :
     v \in SUBSET Cr0Bits, f \in {{"PE", "PG", "NE"}, {"NE"}}}
  \cup
  {[alg |-> "cr", cr |-> 4, val |-> v, fixed0 |-> {"VMXE"}, fixed1 |-> f, bits |-> Cr4Bits] :
     v \in SUBSET Cr4Bits, f \in {Cr4Bits, Cr4Bits \ {"SMEP"}}}
Reg(p, v, s, o) == [phys |-> p, virt |-> v, size |-> s, ok |-> o]
RemapIn ==
  {[alg |-> "remap", mem |-> Reg(p, 0, s, TRUE), root |-> {Reg(a, 2, n, TRUE), Reg(9, 1, 3, TRUE)}] :
     p \in 0 .. 10, s \in 0 .. 5, a \in 0 .. 5, n \in 0 .. 4}
LoadIn ==
  {[alg |-> "load", target |-> t, size |-> s, regions |-> <<Reg(5, v, n, o), Reg(10, 4, 3, TRUE)>>] :
     t \in {0, 1, 3, 5, 6, 7, 15}, s \in {0, 1, 3, 10, 15}, v \in {0, 3, 4, 6, 8}, n \in 0 .. 3,
     o \in BOOLEAN}
ApicExit ==
  [alg |-> "exit", reason |-> "WRMSR", reg |-> 8, bits |-> "defined", mode |-> "FIXED",
   masked |-> FALSE, own |-> FALSE, flat |-> FALSE, x2apic |-> TRUE, shorthand |-> "NONE",
   logical |-> FALSE, dest |-> [id |-> 0, cluster |-> 0, ids |-> {}], self |-> 0,
   cpus |-> {0, 2}, apicid |-> (0 :> 0) @@ (1 :> 2) @@ (2 :> 5), linear |-> TRUE, offset |-> 0,
   len |-> 4, read |-> FALSE, long |-> TRUE, pg |-> TRUE, pae |-> TRUE]
MsrIn ==
  {[ApicExit EXCEPT !.reason = r, !.reg = g, !.bits = b] :
     r \in {"RDMSR", "WRMSR"}, g \in -1 .. 63, b \in {"none", "defined", "reserved"}}
LvtIn ==
  {[ApicExit EXCEPT !.reason = IF x THEN "WRMSR" ELSE "APIC", !.x2apic = x, !.reg = g,
                    !.mode = md, !.masked = mk] :
     x \in BOOLEAN, g \in {47} \cup (50 .. 55), md \in {"FIXED", "SMI", "NMI", "INIT"},
     mk \in BOOLEAN}
LogicalIn ==
  {[ApicExit EXCEPT !.reason = "APIC", !.x2apic = FALSE, !.reg = g, !.bits = "defined",
                    !.own = o, !.flat = f] : g \in {13, 14, 49, 63}, o \in BOOLEAN, f \in BOOLEAN}
IcrExitIn ==
  {[ApicExit EXCEPT !.reason = IF x THEN "WRMSR" ELSE "APIC", !.x2apic = x, !.reg = 48,
                    !.bits = b, !.mode = md, !.dest.id = d] :
     x \in BOOLEAN, b \in {"defined", "reserved"}, md \in {"FIXED", "SMI", "NMI", "INIT"},
     d \in {0, 2, 5, 6}}
AccessIn ==
  {[ApicExit EXCEPT !.reason = "APIC", !.linear = li, !.offset = o, !.len = n, !.read = r,
                    !.long = lg, !.pg = pg, !.pae = pae] :
     li \in BOOLEAN, o \in {0, 4}, n \in {0, 4}, r \in BOOLEAN, lg \in BOOLEAN, pg \in BOOLEAN,
     pae \in BOOLEAN}
OtherExitIn ==
  [alg : {"exit"}, reason : {"NMI", "TIMER", "CPUID", "OTHER"}, sipi : BOOLEAN]
  \cup [alg : {"exit"}, reason : {"VMCALL"}, long : BOOLEAN, vm86 : BOOLEAN, cpl : {0, 3}]
  \cup [alg : {"exit"}, reason : {"CR"}, move : BOOLEAN, cr : {0, 3, 4}, pg : BOOLEAN, lme : BOOLEAN]
  \cup [alg : {"exit"}, reason : {"XSETBV"}, fp : BOOLEAN, supported : BOOLEAN, index : 0 .. 1]
  \cup [alg : {"exit"}, reason : {"IO"}, string : BOOLEAN, handler : {0, 1}, len : {1}, read : BOOLEAN]
ExitIn == MsrIn \cup LvtIn \cup LogicalIn \cup IcrExitIn \cup AccessIn \cup OtherExitIn
Inputs == ExitIn \cup MmioIn \cup IcrIn \cup PciIn \cup CrIn \cup RemapIn \cup LoadIn
NoInput == [alg |-> "none"]

VARIABLE part

x86All == <<x86Vars, guestVars>>
allVars == <<vars, x86All, pagingVars, decodeVars, clearVars, driverVars, part>>

MCInit ==
  /\ part \in {"shutdown", "dma", "pci", "ioapic", "paging", "decode", "clear", "driver"}
  /\ Init /\ GuestInit /\ PagingInit /\ ClearInit /\ DriverInit
  /\ maxlvt \in (IF part = "clear" THEN {4, 6} ELSE {6})
  /\ (part = "dma" \/ other = 0) /\ (part = "shutdown" \/ ~unplugs)
  /\ out = <<>> /\ IF part = "decode" THEN q \in Inputs ELSE q = NoInput

DevicesNext ==
  \/ /\ ManageCells /\ (part = "dma" \/ hcall'.cell # "c")
     /\ Cardinality(Lost) < MaxLost \/ hcall'.kind # "destroy" \/ hcall'.cell \notin BigCpuSets
  \/ part = "dma" /\ (Surroundings \/ \E g \in Guests : Mmconfig(g))
  \/ part = "pci" /\ \E g \in Guests : PciWindow(g)
  \/ part = "ioapic" /\ \E g \in Guests : IoapicWindow(g)

MCNext ==
  /\ UNCHANGED part
  /\ \/ /\ part = "shutdown" /\ Next
        /\ UNCHANGED <<x86All, pagingVars, decodeVars, clearVars, driverVars>>
     \/ /\ part \in {"dma", "pci", "ioapic"} /\ DevicesNext
        /\ UNCHANGED <<vars, pagingVars, decodeVars, clearVars, driverVars>>
     \/ /\ part = "paging" /\ PagingNext
        /\ UNCHANGED <<vars, x86All, decodeVars, clearVars, driverVars>>
     \/ /\ part = "decode" /\ Compute
        /\ UNCHANGED <<vars, x86All, pagingVars, clearVars, driverVars>>
     \/ /\ part = "clear" /\ ClearNext
        /\ UNCHANGED <<vars, x86All, pagingVars, decodeVars, driverVars>>
     \/ /\ part = "driver" /\ DriverNext
        /\ UNCHANGED <<vars, x86All, pagingVars, decodeVars, clearVars>>

MCSpec == MCInit /\ [][MCNext]_allVars /\ Fairness /\ ClearFairness
============================================================================
