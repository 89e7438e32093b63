------------------------------ MODULE X86Cells ------------------------------
(***************************************************************************)
(* What a cell owns on x86 besides CPUs and memory: PCI devices and their  *)
(* VT-d context entries, IOAPIC pins, I/O ports, a VT-d domain id and the  *)
(* pages of its data structures.  arch_cell_create() takes them one after  *)
(* the other and can fail at each; arch_cell_destroy() gives them back.    *)
(* One action per callee; the hypercall in progress is hcall. Devices keep *)
(* doing DMA while it runs, and the IOMMU caches the contexts it uses.     *)
(*                                                                         *)
(* A page of the pool is a pair <<cell, use>> in held, or the context      *)
(* table of a bus in tables; <<NoCell, n>> is the n-th page that nobody    *)
(* will ever free.  Mapping the memory regions is a step that succeeds or  *)
(* not: module Paging models it.                                           *)
(***************************************************************************)
EXTENDS Integers, FiniteSets

CONSTANTS NonRoot,        \* the non-root cells
          RootCell, NoCell,
          Devices, BusOf, DevicesOf,    \* PCI devices, their bus, the configs
          Pins, PinsOf,                 \* IOAPIC pins and the configs
          Ports, PortsOf, PmTimer,      \* I/O ports; PmTimer is in every cell
          BigCpuSets,   \* cells whose CPU set needs a page of its own
          NumDid,       \* dmar_num_did
          PoolSize,     \* pages left in mem_pool for all this
          OtherUses     \* the numbers of pages the other users may hold

CellsAndRoot == NonRoot \cup {RootCell}

\* Two configurations never list the same resource (jailhouse does not check
\* this), and none but the implicit rule gives the PM timer port away.
ASSUME DisjointAssumption ==
  /\ RootCell \notin NonRoot /\ NoCell \notin CellsAndRoot
  /\ \A c \in NonRoot : PmTimer \notin PortsOf[c]
  /\ \A c \in NonRoot : \A d \in NonRoot \ {c} :
       /\ DevicesOf[c] \cap DevicesOf[d] = {}
       /\ PinsOf[c] \cap PinsOf[d] = {}
       /\ PortsOf[c] \cap PortsOf[d] = {}

ASSUME ResourceAssumption ==
  /\ IsFiniteSet(NonRoot) /\ IsFiniteSet(Devices)
  /\ DevicesOf \in [CellsAndRoot -> SUBSET Devices]
  /\ PinsOf \in [CellsAndRoot -> SUBSET Pins]
  /\ PortsOf \in [CellsAndRoot -> SUBSET Ports]
  /\ NumDid \in Nat /\ PoolSize \in Nat /\ OtherUses \subseteq Nat

VARIABLES
  created,   \* cells in the cell list, root cell excluded
  id,       \* cell->id
  held,     \* pool pages of cells: <<cell, use>>
  tables,   \* buses with a present root entry (one context table page each)
  other,    \* pool pages of everybody else
  ctx,      \* device -> cell its present context entry names, or NoCell
  own,      \* <<cell, device>> with a non-NULL device->cell
  silent,   \* devices whose command register allows neither DMA nor INTx
  cached,   \* <<device, domain id>>: contexts in the IOMMU's cache
  pin,      \* cell -> ioapic_pin_bitmap
  port,     \* cell -> ports with a clear bit in io_bitmap
  hcall     \* the hypercall in progress

x86Vars == <<created, id, held, tables, other, ctx, own, silent, cached,
             pin, port, hcall>>

NoCall == [pc |-> "idle", kind |-> "none", cell |-> NoCell, todo |-> {}]

Free == PoolSize - other - Cardinality(held) - Cardinality(tables)

Go(pc) == hcall' = [hcall EXCEPT !.pc = pc]
At(pc) == hcall.pc = pc
Hold(use) == held' = held \cup {<<hcall.cell, use>>}
Lost == {e \in held : e[1] = NoCell}
Drop(uses) == held' = held \ ({hcall.cell} \X uses)

-----------------------------------------------------------------------------
(* The VT-d context entries: vtd_add_pci_device, vtd_remove_pci_device.    *)
(* State is passed as h = [ctx, tab]: entries and buses with a table.      *)

\* -ENOMEM: the bus has no table and the pool no page.
AddFails(h, d, pages) == BusOf[d] \notin h.tab /\ pages = 0

vtd_add_pci_device(h, c, d) ==
  [ctx |-> [h.ctx EXCEPT ![d] = c], tab |-> h.tab \cup {BusOf[d]}]

\* Mutant: the context table is never freed.
RemoveKeepsTable(h, d) ==
  [ctx |-> [h.ctx EXCEPT ![d] = NoCell], tab |-> h.tab]

\* The table goes with the last present entry of the bus.
vtd_remove_pci_device(h, d) ==
  LET left == {e \in Devices \ {d} : BusOf[e] = BusOf[d] /\ h.ctx[e] # NoCell}
  IN  [ctx |-> [h.ctx EXCEPT ![d] = NoCell],
       tab |-> IF left = {} THEN h.tab \ {BusOf[d]} ELSE h.tab]

Now == [ctx |-> ctx, tab |-> tables]
DevPages(h) == PoolSize - other - Cardinality(held) - Cardinality(h.tab)
SetVtd(h) == ctx' = h.ctx /\ tables' = h.tab

\* pci_remove_device: besides the context entry the command register goes to
\* PCI_CMD_INTX_OFF, which also ends bus mastering.
pci_remove_device(d) == silent' = silent \cup {d}

-----------------------------------------------------------------------------
(* cell_create up to arch_cell_create: the cell's pages and its id.        *)

\* Mutant: the id of the first cell of the list that comes to mind, the count.
CountId == Cardinality(created) + 1

get_free_cell_id ==
  LET used == {id[c] : c \in created \cup {RootCell}}
  IN  CHOOSE i \in 0 .. Cardinality(NonRoot) + 1 :
        i \notin used /\ \A j \in 0 .. i - 1 : j \in used

\* Without a page for the cell the hypercall returns with nothing changed.
cell_create(c) ==
  /\ At("idle") /\ c \notin created /\ Free > 0
  /\ hcall' = [pc |-> "init", kind |-> "create", cell |-> c, todo |-> {}]
  /\ held' = held \cup {<<c, "cell">>}
  /\ UNCHANGED <<created, id, tables, other, ctx, own, silent, cached, pin, port>>

cell_init ==
  /\ At("init")
  /\ id' = [id EXCEPT ![hcall.cell] = get_free_cell_id]
  /\ \/ hcall.cell \notin BigCpuSets /\ Go("vmx") /\ UNCHANGED held
     \/ hcall.cell \in BigCpuSets /\ Free > 0 /\ Go("vmx") /\ Hold("cpus")
     \/ /\ hcall.cell \in BigCpuSets /\ Free = 0
        /\ hcall' = [hcall EXCEPT !.pc = "free", !.kind = "fail"] /\ UNCHANGED held
  /\ UNCHANGED <<created, tables, other, ctx, own, silent, cached, pin, port>>

\* Leaving arch_cell_create on an error: the exits of what was initialised.
Fail(pc) == hcall' = [hcall EXCEPT !.pc = pc, !.kind = "fail", !.todo = {}]

\* The ports vmx_cell_exit gives back: those of both configurations.
PortsBack(c) == port[RootCell] \cup (PortsOf[c] \cap PortsOf[RootCell])

\* Without a page for the APIC mapping vmx_cell_exit runs before the ports of
\* the root cell were touched.
vmx_cell_init ==
  /\ At("vmx")
  /\ \/ Free = 0 /\ Fail("free") /\ UNCHANGED <<held, port>>
     \/ /\ Free = 1 /\ Fail("free") /\ UNCHANGED held
        /\ port' = [port EXCEPT ![RootCell] = PortsBack(hcall.cell)]
     \/ /\ Free > 1 /\ Go("vtd")
        /\ held' = held \cup {<<hcall.cell, "ept">>, <<hcall.cell, "apic">>}
        /\ port' = [port EXCEPT ![hcall.cell] = PortsOf[hcall.cell] \cup {PmTimer},
                                ![RootCell] = @ \ PortsOf[hcall.cell]]
  /\ UNCHANGED <<created, id, tables, other, ctx, own, silent, cached, pin>>

\* -ERANGE when the domain id does not fit the IOMMU.
vtd_cell_init ==
  /\ At("vtd")
  /\ \/ (id[hcall.cell] >= NumDid \/ Free = 0) /\ Fail("vmxx") /\ UNCHANGED held
     \/ id[hcall.cell] < NumDid /\ Free > 0 /\ Go("array") /\ Hold("vtd")
  /\ UNCHANGED <<created, id, tables, other, ctx, own, silent, cached, pin, port>>

\* pci_cell_init, the device array: page_alloc of no pages wants a free page
\* too, but takes none.
PciArray ==
  /\ At("array")
  /\ \/ Free = 0 /\ Fail("vtdx") /\ UNCHANGED held
     \/ /\ Free > 0
        /\ hcall' = [hcall EXCEPT !.pc = "pci", !.todo = DevicesOf[hcall.cell]]
        /\ IF DevicesOf[hcall.cell] # {} THEN Hold("pci") ELSE UNCHANGED held
  /\ UNCHANGED <<created, id, tables, other, ctx, own, silent, cached, pin, port>>

\* pci_cell_init, one device: taken from the root cell if that owns it, then
\* added.  On -ENOMEM pci_cell_exit returns those added so far.
pci_cell_init(d) ==
  LET h == IF <<RootCell, d>> \in own
           THEN vtd_remove_pci_device(Now, d) ELSE Now
      bad == AddFails(h, d, DevPages(h))
  IN  /\ At("pci") /\ d \in hcall.todo
      /\ SetVtd(IF bad THEN h ELSE vtd_add_pci_device(h, hcall.cell, d))
      /\ own' = (own \ {<<RootCell, d>>})
                  \cup (IF bad THEN {} ELSE {<<hcall.cell, d>>})
      /\ IF <<RootCell, d>> \in own THEN pci_remove_device(d)
                                    ELSE UNCHANGED silent
      /\ IF bad
         THEN hcall' = [hcall EXCEPT !.pc = "pcix", !.kind = "fail",
                       !.todo = {e \in Devices : <<hcall.cell, e>> \in own}]
         ELSE hcall' = [hcall EXCEPT !.todo = @ \ {d}]
      /\ UNCHANGED <<created, id, held, other, cached, pin, port>>

\* Mutant: the root cell keeps the pins.
InitNoShrink ==
  /\ At("pci") /\ hcall.todo = {} /\ Go("map")
  /\ pin' = [pin EXCEPT ![hcall.cell] = PinsOf[hcall.cell]]
  /\ UNCHANGED <<created, id, held, tables, other, ctx, own, silent, cached, port>>

\* ioapic_cell_init and ioapic_root_cell_shrink, which cannot fail.
ioapic_cell_init ==
  /\ At("pci") /\ hcall.todo = {} /\ Go("map")
  /\ pin' = [pin EXCEPT ![hcall.cell] = PinsOf[hcall.cell],
                        ![RootCell] = @ \ PinsOf[hcall.cell]]
  /\ UNCHANGED <<created, id, held, tables, other, ctx, own, silent, cached, port>>

\* Unmapping from the root cell or mapping into the cell may run out of pages:
\* the cell is destroyed again.
MapRegions ==
  /\ At("map")
  /\ \/ Go("commit")
     \/ hcall' = [hcall EXCEPT !.pc = "ioapicx", !.kind = "undo"]
  /\ UNCHANGED <<created, id, held, tables, other, ctx, own, silent, cached,
                 pin, port>>

-----------------------------------------------------------------------------
(* Destruction, and the error path from "pcix" on.                         *)

cell_destroy(c) ==
  /\ At("idle") /\ c \in created
  /\ hcall' = [pc |-> "ioapicx", kind |-> "destroy", cell |-> c, todo |-> {}]
  /\ UNCHANGED <<created, id, held, tables, other, ctx, own, silent, cached,
                 pin, port>>

ioapic_cell_exit ==
  /\ At("ioapicx")
  /\ hcall' = [hcall EXCEPT !.pc = "pcix",
                      !.todo = {d \in Devices : <<hcall.cell, d>> \in own}]
  /\ pin' = [pin EXCEPT ![RootCell] =
                @ \cup (PinsOf[hcall.cell] \cap PinsOf[RootCell])]
  /\ UNCHANGED <<created, id, held, tables, other, ctx, own, silent, cached, port>>

\* pci_cell_exit, one device: removed, and added to the root cell if that has
\* it configured (pci_return_device_to_root_cell).
ReturnDevice(d) ==
  LET h == vtd_remove_pci_device(Now, d)
      back == d \in DevicesOf[RootCell] /\ ~AddFails(h, d, DevPages(h))
  IN  /\ At("pcix") /\ d \in hcall.todo
      /\ SetVtd(IF back THEN vtd_add_pci_device(h, RootCell, d) ELSE h)
      /\ pci_remove_device(d)
      /\ own' = IF back THEN own \cup {<<RootCell, d>>} ELSE own
      /\ hcall' = [hcall EXCEPT !.todo = @ \ {d}]
      /\ UNCHANGED <<created, id, held, other, cached, pin, port>>

\* Mutant: the device array stays allocated.
ExitKeepsArray ==
  /\ At("pcix") /\ hcall.todo = {} /\ Go("vtdx")
  /\ own' = own \ ({hcall.cell} \X Devices)
  /\ UNCHANGED <<created, id, held, tables, other, ctx, silent, cached, pin, port>>

\* pci_cell_exit, after the loop: the array goes, and device->cell with it.
pci_cell_exit ==
  /\ At("pcix") /\ hcall.todo = {} /\ Go("vtdx")
  /\ Drop({"pci"}) /\ own' = own \ ({hcall.cell} \X Devices)
  /\ UNCHANGED <<created, id, tables, other, ctx, silent, cached, pin, port>>

vtd_cell_exit ==
  /\ At("vtdx") /\ Go("vmxx") /\ Drop({"vtd"})
  /\ UNCHANGED <<created, id, tables, other, ctx, own, silent, cached, pin, port>>

\* Mutant: the root cell does not get the ports back.
ExitKeepsPorts ==
  /\ At("vmxx") /\ Go(IF hcall.kind = "fail" THEN "free" ELSE "commit")
  /\ Drop({"ept", "apic"})
  /\ UNCHANGED <<created, id, tables, other, ctx, own, silent, cached, pin, port>>

\* A creation that failed inside arch_cell_create skips the commit.
vmx_cell_exit ==
  /\ At("vmxx") /\ Go(IF hcall.kind = "fail" THEN "free" ELSE "commit")
  /\ Drop({"ept", "apic"})
  /\ port' = [port EXCEPT ![RootCell] = PortsBack(hcall.cell)]
  /\ UNCHANGED <<created, id, tables, other, ctx, own, silent, cached, pin>>

\* Mutant: only the root cell's domain is flushed.
CommitRootOnly ==
  /\ At("commit")
  /\ cached' = {e \in cached : e[2] # id[RootCell]}
  /\ IF hcall.kind = "create" THEN hcall' = NoCall /\ created' = created \cup {hcall.cell}
                           ELSE Go("free") /\ UNCHANGED created
  /\ UNCHANGED <<id, held, tables, other, ctx, own, silent, pin, port>>

\* The domain caches of the cell and of the root cell are flushed.  A new cell
\* is created; a cell that goes still has to be freed.
vtd_config_commit ==
  /\ At("commit")
  /\ cached' = {e \in cached : e[2] \notin {id[hcall.cell], id[RootCell]}}
  /\ IF hcall.kind = "create" THEN hcall' = NoCall /\ created' = created \cup {hcall.cell}
                           ELSE Go("free") /\ UNCHANGED created
  /\ UNCHANGED <<id, held, tables, other, ctx, own, silent, pin, port>>

\* The error exits of cell_create free the CPU set and the cell with its bitmaps.
\* cell_destroy does not call destroy_cpu_set: nobody has a large set's page any
\* more, and it never returns.
free_cell ==
  /\ At("free") /\ hcall' = NoCall
  /\ held' = (held \ ({hcall.cell} \X {"cell", "cpus"})) \cup
               (IF hcall.kind = "destroy" /\ hcall.cell \in BigCpuSets
                THEN {<<NoCell, Cardinality(Lost) + 1>>} ELSE {})
  /\ created' = created \ {hcall.cell} /\ id' = [id EXCEPT ![hcall.cell] = 0]
  /\ pin' = [pin EXCEPT ![hcall.cell] = {}] /\ port' = [port EXCEPT ![hcall.cell] = {}]
  /\ UNCHANGED <<tables, other, ctx, own, silent, cached>>

-----------------------------------------------------------------------------
(* Surroundings: devices, and the other users of the page pool.            *)

\* A device with bus mastering on translates through its context entry.
DeviceDma(d) ==
  /\ d \notin silent /\ ctx[d] # NoCell
  /\ cached' = cached \cup {<<d, id[ctx[d]]>>}
  /\ UNCHANGED <<created, id, held, tables, other, ctx, own, silent, pin, port, hcall>>

\* The page tables of the regions grow and shrink, between the hypercalls as far
\* as this module is concerned.
OtherPages ==
  /\ At("idle") /\ other' \in OtherUses \ {other} /\ Free + other >= other'
  /\ UNCHANGED <<created, id, held, tables, ctx, own, silent, cached, pin, port, hcall>>

\* The root cell has what its configuration lists.  Devices it does not list may
\* be active already.
vmx_init == port = [c \in CellsAndRoot |->
                      IF c = RootCell THEN PortsOf[c] \cup {PmTimer} ELSE {}]
pci_init ==
  /\ own = {RootCell} \X DevicesOf[RootCell]
  /\ ctx = [d \in Devices |-> IF d \in DevicesOf[RootCell] THEN RootCell ELSE NoCell]
  /\ tables = {BusOf[d] : d \in DevicesOf[RootCell]}
ioapic_init == pin = [c \in CellsAndRoot |-> IF c = RootCell THEN PinsOf[c] ELSE {}]

X86Init ==
  /\ created = {} /\ id = [c \in CellsAndRoot |-> 0] /\ held = {}
  /\ vmx_init /\ pci_init /\ ioapic_init
  /\ other \in OtherUses /\ other <= PoolSize - Cardinality(tables)
  /\ silent = {} /\ cached = {} /\ hcall = NoCall

CreateStep ==
  \/ cell_init \/ vmx_cell_init \/ vtd_cell_init \/ PciArray
  \/ \E d \in Devices : pci_cell_init(d)
  \/ ioapic_cell_init \/ MapRegions \/ vtd_config_commit

DestroyStep ==
  \/ ioapic_cell_exit \/ \E d \in Devices : ReturnDevice(d)
  \/ pci_cell_exit \/ vtd_cell_exit \/ vmx_cell_exit \/ free_cell

X86Next ==
  \/ \E c \in NonRoot : cell_create(c) \/ cell_destroy(c)
  \/ CreateStep \/ DestroyStep
  \/ \E d \in Devices : DeviceDma(d)
  \/ OtherPages

X86Spec == X86Init /\ [][X86Next]_x86Vars

-----------------------------------------------------------------------------
\* The cells whose device states are meant: not one in pci_cell_exit, whose
\* device->cell pointers live until the array is freed.
Stable(c) == ~(c = hcall.cell /\ hcall.pc = "pcix")

TablesExact == tables = {BusOf[d] : d \in {e \in Devices : ctx[e] # NoCell}}

\* A PCI device belongs to at most one cell, its context entry names exactly
\* the owner, and a bus has a context table exactly while one of its devices
\* has an entry, in every step of a creation, of a failing one and of a
\* destruction (pci_cell_init, pci_cell_exit, vtd_remove_pci_device).
DeviceExclusive ==
  /\ \A d \in Devices : \A c \in CellsAndRoot : Stable(c) =>
       (<<c, d>> \in own <=> ctx[d] = c)
  /\ TablesExact

\* Between hypercalls the root cell owns exactly the devices, pins and ports of
\* its configuration that no existing cell has in its own: a destroyed cell, or
\* one whose creation failed half way, returns everything.  In particular the
\* "Failed to re-assign PCI device" branch is never taken.
RootRegains ==
  At("idle") =>
    /\ {d \in Devices : <<RootCell, d>> \in own}
         = DevicesOf[RootCell] \ UNION {DevicesOf[c] : c \in created}
    /\ pin[RootCell] = PinsOf[RootCell] \ UNION {PinsOf[c] : c \in created}
    /\ port[RootCell] = (PortsOf[RootCell] \ UNION {PortsOf[c] : c \in created})
                          \cup {PmTimer}

\* Existing cells (but the one that is going) share neither pins nor ports with
\* each other or with the root cell; the PM timer is the exception.
PinsPortsExclusive ==
  \A c \in created \ {hcall.cell} : \A d \in (created \cup {RootCell}) \ {c, hcall.cell} :
    /\ pin[c] = PinsOf[c] /\ pin[c] \cap pin[d] = {}
    /\ port[c] \cap port[d] = {PmTimer}

\* Pages are held only by existing cells and by the one being created or
\* destroyed, on every error path; only the separate page of a large CPU set is
\* lost, by cell_destroy.
PagesReturned == \A e \in held \ Lost : e[1] \in created \cup {hcall.cell}

\* Two cells never have the same VT-d domain id, and it fits the IOMMU.
DomainsDistinct ==
  \A c \in created : /\ id[c] < NumDid
                    /\ \A d \in (created \cup {RootCell}) \ {c} : id[c] # id[d]

\* A device that may do DMA for its owner finds no context of another domain in
\* the IOMMU's cache, although a failed creation moves devices and returns them
\* without any flush: a device that moves is silenced, and its new owner's
\* configuration is committed before that can enable it again.  This needs that a
\* creation cannot fail between two devices that come from outside the root cell:
\* OutsideOnOneBus below.
NoStaleContext ==
  \A e \in cached : (e[1] \notin silent /\ ctx[e[1]] # NoCell)
                      => e[2] = id[ctx[e[1]]]

\* Every device, pin, port and domain id has one owner, also in the eyes of the
\* IOMMU's cache, in every step of a creation, of a failing one and of a
\* destruction (arch_cell_create, arch_cell_destroy, vtd_config_commit).
ResourcesExclusive ==
  DeviceExclusive /\ PinsPortsExclusive /\ DomainsDistinct /\ NoStaleContext

\* What a cell took comes back when it is destroyed or its creation fails at any
\* step: devices, pins and ports to the root cell, pages to the pool.
ResourcesReturned == RootRegains /\ PagesReturned

-----------------------------------------------------------------------------
(***************************************************************************)
(* Why it holds: the inductive invariant behind ResourcesExclusive and     *)
(* ResourcesReturned, by kind of resource. The cell of the hypercall in    *)
(* progress is between two of its states; where it is depends on hcall.pc. *)
(***************************************************************************)
Uses == {"cell", "cpus", "ept", "apic", "vtd", "pci"}

HeldPages == (NonRoot \X Uses) \cup ({NoCell} \X Nat)
Hypercalls ==
  [pc : {"idle", "init", "vmx", "vtd", "array", "pci", "map", "commit", "ioapicx",
         "pcix", "vtdx", "vmxx", "free"},
   kind : {"none", "create", "fail", "undo", "destroy"},
   cell : NonRoot \cup {NoCell}, todo : SUBSET Devices]

X86TypeOK ==
  /\ created \in SUBSET NonRoot
  /\ id \in [CellsAndRoot -> Nat]
  /\ held \in SUBSET HeldPages
  /\ other \in Nat
  /\ ctx \in [Devices -> CellsAndRoot \cup {NoCell}]
  /\ own \in SUBSET (CellsAndRoot \X Devices)
  /\ silent \in SUBSET Devices
  /\ cached \in SUBSET (Devices \X Nat)
  /\ pin \in [CellsAndRoot -> SUBSET Pins]
  /\ port \in [CellsAndRoot -> SUBSET (Ports \cup {PmTimer})]
  /\ hcall \in Hypercalls

\* Where each kind of hypercall can be, and that it works on a cell that exists
\* exactly if it destroys it.
CallInv ==
  /\ At("idle") => hcall = NoCall
  /\ ~At("idle") => hcall.kind # "none" /\ hcall.cell \in NonRoot
  /\ hcall.kind = "create" =>
       hcall.pc \in {"init", "vmx", "vtd", "array", "pci", "map", "commit"}
  /\ hcall.kind = "fail" => hcall.pc \in {"pcix", "vtdx", "vmxx", "free"}
  /\ hcall.kind \in {"undo", "destroy"} =>
       hcall.pc \in {"ioapicx", "pcix", "vtdx", "vmxx", "commit", "free"}
  /\ hcall.cell \in created <=> hcall.kind = "destroy"

\* The cell of the hypercall has no device yet, or no more; it has all of them.
HasNone == \/ hcall.pc \in {"init", "vmx", "vtd", "array", "vtdx", "vmxx", "free"}
           \/ At("commit") /\ hcall.kind # "create"
HasAll == \/ hcall.pc \in {"map", "ioapicx"}
          \/ At("commit") /\ hcall.kind = "create"

\* Devices are with the cells that list them, those of no cell with the root cell
\* if that lists them.
DeviceInv ==
  /\ DeviceExclusive
  /\ \A c \in NonRoot, d \in Devices : <<c, d>> \in own =>
       d \in DevicesOf[c] /\ c \in created \cup {hcall.cell}
  /\ \A c \in created \ {hcall.cell} : \A d \in DevicesOf[c] : <<c, d>> \in own
  /\ \A d \in Devices : <<RootCell, d>> \in own <=>
       /\ d \in DevicesOf[RootCell]
       /\ \A c \in NonRoot : <<c, d>> \in own => ~Stable(c) /\ d \notin hcall.todo
  /\ At("pci") =>
       /\ hcall.todo \subseteq DevicesOf[hcall.cell]
       /\ \A d \in DevicesOf[hcall.cell] :
            <<hcall.cell, d>> \in own <=> d \notin hcall.todo
  /\ At("pcix") => \A d \in Devices :
       /\ ctx[d] = hcall.cell <=> d \in hcall.todo
       /\ d \in hcall.todo => <<hcall.cell, d>> \in own
  /\ HasNone => \A d \in Devices : <<hcall.cell, d>> \notin own
  /\ HasAll => \A d \in DevicesOf[hcall.cell] : <<hcall.cell, d>> \in own

\* The pages in use fit the pool, so that a context table that was just freed can be
\* allocated again.
PoolInv == IsFiniteSet(held) /\ Free >= 0

\* What the cell of the hypercall may hold, and that each cell has its first pages.
PageInv ==
  /\ PagesReturned
  /\ \A c \in created \cup {hcall.cell} : c # NoCell => <<c, "cell">> \in held
  /\ ~At("idle") => \A u \in Uses : <<hcall.cell, u>> \in held =>
       /\ hcall.pc \in {"init", "vmx", "free"} => u \in {"cell", "cpus"}
       /\ At("commit") /\ hcall.kind # "create" => u \in {"cell", "cpus"}
       /\ hcall.pc \in {"vtd", "vmxx"} => u \in {"cell", "cpus", "ept", "apic"}
       /\ hcall.pc \in {"array", "vtdx"} => u # "pci"

\* The ports of the cell of the hypercall are taken from the root cell. (The pins
\* are when it has all its devices.)
PortsTaken ==
  \/ hcall.pc \in {"vtd", "array", "pci", "map", "ioapicx", "pcix", "vtdx", "vmxx"}
  \/ At("commit") /\ hcall.kind = "create"

PinInv ==
  /\ \A c \in created : pin[c] = PinsOf[c]
  /\ HasAll => pin[hcall.cell] = PinsOf[hcall.cell]
  /\ \A p \in Pins : p \in pin[RootCell] <=>
       /\ p \in PinsOf[RootCell]
       /\ \A c \in created \ {hcall.cell} : p \notin PinsOf[c]
       /\ HasAll => p \notin PinsOf[hcall.cell]

PortInv ==
  /\ \A c \in created : port[c] = PortsOf[c] \cup {PmTimer}
  /\ PortsTaken => port[hcall.cell] = PortsOf[hcall.cell] \cup {PmTimer}
  /\ \A p \in Ports \cup {PmTimer} : p \in port[RootCell] <=>
       \/ p = PmTimer
       \/ /\ p \in PortsOf[RootCell]
          /\ \A c \in created \ {hcall.cell} : p \notin PortsOf[c]
          /\ PortsTaken => p \notin PortsOf[hcall.cell]

DomainInv ==
  /\ DomainsDistinct
  /\ id[RootCell] = 0
  /\ hcall.kind = "create" /\ ~At("init") =>
       \A c \in created \cup {RootCell} : id[hcall.cell] # id[c]
  /\ hcall.kind = "create" /\ hcall.pc \in {"array", "pci", "map", "commit"} =>
       id[hcall.cell] < NumDid

\* What holds for every configuration.
X86Inv ==
  /\ X86TypeOK /\ CallInv /\ DeviceInv /\ PoolInv
  /\ PageInv /\ PinInv /\ PortInv /\ DomainInv

\* The configurations for which a creation that fails leaves nothing in the IOMMU's
\* cache: the devices of a cell that the root cell does not list are on one bus.
\* Otherwise pci_cell_init can fail after such a device was added and did DMA, and
\* nobody flushes the cell's domain then.
OutsideOnOneBus ==
  \A c \in NonRoot : \A d, e \in DevicesOf[c] \ DevicesOf[RootCell] : BusOf[d] = BusOf[e]

\* The contexts of d in the IOMMU's cache are of these domains.
CachedOnly(d, domains) == \A e \in cached : e[1] = d => e[2] \in domains

\* Which contexts of a device can be in the cache: of a device that is not silent, that
\* of its context entry; of one of a cell that runs, that cell's; of one that neither
\* such a cell nor the hypercall's lists, the root cell's or none.
CacheCurrent == \A d \in Devices \ silent :
  CachedOnly(d, IF ctx[d] = NoCell THEN {} ELSE {id[ctx[d]]})
CacheSettled == \A c \in created \ {hcall.cell} : \A d \in DevicesOf[c] :
  CachedOnly(d, {id[c]})
CacheUnlisted == \A d \in Devices :
  (\A c \in NonRoot : d \in DevicesOf[c] => c \notin created \cup {hcall.cell}) =>
    CachedOnly(d, IF d \in DevicesOf[RootCell] THEN {0} ELSE {})

\* A device of the hypercall's cell is silent after it changed hands, and what it used
\* before is flushed before that cell runs or is freed.
CacheMoving(d) ==
  /\ d \in DevicesOf[RootCell] /\ hcall.kind # "destroy" =>
       CachedOnly(d, {0}) /\ (<<hcall.cell, d>> \in own => d \in silent)
  /\ d \notin DevicesOf[RootCell] =>
       /\ hcall.kind = "create" /\ ctx[d] # hcall.cell => CachedOnly(d, {})
       /\ hcall.kind = "fail" => CachedOnly(d, {}) /\ <<hcall.cell, d>> \notin own
       /\ hcall.kind \in {"create", "undo"} => CachedOnly(d, {id[hcall.cell]})
  /\ hcall.kind = "destroy" => CachedOnly(d, {id[hcall.cell]})
  /\ hcall.kind \in {"undo", "destroy"} /\ ctx[d] = RootCell => d \in silent
  /\ hcall.kind \in {"undo", "destroy"} /\ At("free") => CachedOnly(d, {})

CacheInv ==
  /\ CacheCurrent /\ CacheSettled /\ CacheUnlisted
  /\ ~At("idle") => \A d \in DevicesOf[hcall.cell] : CacheMoving(d)
=============================================================================
