-------------------------------- MODULE Paging --------------------------------
(***************************************************************************)
(* The life of the page pool and of two paging structures built from it:   *)
(* the hypervisor's own (set up by paging_init, with the temporary mapping *)
(* region) and that of a cell, whose regions are mapped and unmapped as a  *)
(* whole (cell_create, cell_destroy) or in part (the root cell, when other *)
(* cells take memory from it and give it back).  Other users of the pool   *)
(* may exhaust it at any time.                                             *)
(***************************************************************************)
EXTENDS PageTables, SequencesExt

CONSTANTS PoolPages,      \* mem_pool.pages
          ReservedPages,  \* per-CPU data, configuration and bitmap pages
          TempPages,      \* possible_cpus * NUM_TEMPORARY_PAGES
          RemapPages,     \* remap_pool.pages
          REMAP_BASE,     \* first page of the remapping region
          HvRegion,       \* the hypervisor region: [virt, size, phys, fl]
          CellRegions,    \* the memory regions of the cell, in order
          Parts,          \* parts of regions that are unmapped and remapped
          GuestPages,     \* guest-physical addresses the hypervisor looks up
          OtherSizes,     \* sizes of allocations of other users
          MaxOthers       \* bound: number of such allocations at a time

\* page_map_destroy relies on its callers: a range begins on a boundary of every
\* page size that fits into it, and has no gap (see NoGap).  The README says what
\* happens otherwise.
AllRanges == Range(CellRegions) \cup Parts

ASSUME AlignmentAssumption ==
    \A r \in AllRanges : \A l \in 1 .. Levels :
        Sizes[l] > 0 /\ Sizes[l] <= r.size => r.virt % Sizes[l] = 0

VARIABLES m,       \* mem_pool, the tables in it, and the last error
          remap,   \* remap_pool
          hvRoot,  \* hv_paging_structs.root_table
          root,    \* root table of the cell, INVALID_PAGE_NR if there is none
          others,  \* allocations of other users: [page, num]
          tr,      \* history: the translations the cell should have
          whole    \* history: regions mapped as a whole since the last unmap

pagingVars == <<m, remap, hvRoot, root, others, tr, whole>>

Unmapped == [phys |-> INVALID_PHYS_ADDR, fl |-> "np"]
NoTranslation == [v \in 0 .. Space - 1 |-> Unmapped]
Pages(r) == r.virt .. r.virt + r.size - 1
TempVirt == REMAP_BASE .. REMAP_BASE + TempPages - 1

EmptyPool(n, reserved) == [pages |-> n, used |-> 0 .. reserved - 1, used_pages |-> reserved]

MapRange(mm, rt, r) == page_map_create(mm, rt, 1, r.phys, r.size, r.virt, r.fl)
TempRegion == [virt |-> REMAP_BASE, size |-> TempPages, phys |-> 0, fl |-> "np"]

\* Mutant: the temporary region gets its tables when it is used first.
InitNoTemp(mm, rt) == MapRange(mm, rt, HvRegion)

\* The mappings of paging_init: the hypervisor region, then non-present entries
\* for the temporary mappings, which leave their tables behind.
InitMappings(mm, rt) == MapRange(MapRange(mm, rt, HvRegion), rt, TempRegion)

\* Before paging_init: core, per-CPU data, configuration and bitmap are in use.
PagingInit ==
    /\ m = [pool |-> EmptyPool(PoolPages, ReservedPages),
            tab |-> [p \in 0 .. PoolPages - 1 |-> ZeroPage], err |-> 0]
    /\ remap = EmptyPool(RemapPages, 0)
    /\ hvRoot = INVALID_PAGE_NR
    /\ root = INVALID_PAGE_NR
    /\ others = {}
    /\ tr = NoTranslation
    /\ whole = {}

Initialized == hvRoot # INVALID_PAGE_NR

\* A page for the bitmap of remap_pool, the root table, the mappings.
paging_init ==
    LET bitmap == AllocTable(m)
        table == AllocTable(bitmap.m)
    IN  /\ ~Initialized
        /\ m' = InitMappings(table.m, table.page)
        /\ hvRoot' = table.page
        /\ remap' = EmptyPool(RemapPages, TempPages)
        /\ UNCHANGED <<root, others, tr, whole>>

\* The cell gets its root table (vmx_cell_init, vtd_cell_init, arch_mmu_cell_init).
InitCell ==
    LET a == AllocTable(m)
    IN  /\ Initialized
        /\ root = INVALID_PAGE_NR
        /\ m' = a.m
        /\ root' = a.page
        /\ UNCHANGED <<remap, hvRoot, others, tr, whole>>

\* What the cell's translations become: inside the range as asked for, or, if the
\* call failed half-way, as it left them; outside as before.
After(r, err, new) ==
    [v \in 0 .. Space - 1 |->
        IF v \notin Pages(r) THEN tr[v]
        ELSE IF err = 0 THEN new[v] ELSE page_map_virt2phys(m', root, v)]

\* vmx_map_memory_region, vtd_map_memory_region, arch_map_memory_region of ARM.
map_region(r) ==
    /\ root # INVALID_PAGE_NR
    /\ m' = MapRange(m, root, r)
    /\ tr' = After(r, m'.err, [v \in Pages(r) |-> [phys |-> r.phys + v - r.virt, fl |-> r.fl]])
    /\ whole' = IF m'.err = 0 /\ r \in Range(CellRegions) THEN whole \cup {r} ELSE whole
    /\ UNCHANGED <<remap, hvRoot, root, others>>

\* The mapped pages of a range come first: it was mapped as a whole, or up to the
\* page at which that failed.
NoGap(r) == \A v \in Pages(r) : tr[v] # Unmapped =>
                \A u \in r.virt .. v : tr[u] # Unmapped

\* vmx_unmap_memory_region and its counterparts.
UnmapRegion(r) ==
    /\ root # INVALID_PAGE_NR
    /\ NoGap(r)
    /\ m' = page_map_destroy(m, root, 1, r.virt, r.size)
    /\ tr' = After(r, m'.err, [v \in Pages(r) |-> Unmapped])
    /\ whole' = whole \ {r}
    /\ UNCHANGED <<remap, hvRoot, root, others>>

\* cell_destroy_internal and vmx_cell_exit: unmap the regions, whatever the
\* results, and free the root table.
ExitCell ==
    LET unmap(r, mm) == page_map_destroy(mm, root, 1, r.virt, r.size)
    IN  /\ root # INVALID_PAGE_NR
        /\ \A r \in Range(CellRegions) : NoGap(r)
        /\ m' = [FreeTable(FoldRight(unmap, CellRegions, m), root) EXCEPT !.err = 0]
        /\ root' = INVALID_PAGE_NR
        /\ tr' = NoTranslation
        /\ whole' = {}
        /\ UNCHANGED <<remap, hvRoot, others>>

\* What other users write into their pages looks like anything.
Written == [i \in 0 .. Fan - 1 |-> [fl |-> "rw", leaf |-> TRUE, addr |-> 0]]

\* Other users: cell structures, CPU sets, PCI device arrays, context tables.
AllocOther(num) ==
    LET a == page_alloc(m.pool, num)
    IN  /\ Initialized
        /\ Cardinality(others) < MaxOthers
        /\ a.page # INVALID_PAGE_NR
        /\ m' = [m EXCEPT !.pool = a.pool, !.err = 0, !.tab =
                     [p \in DOMAIN m.tab |-> IF p \in a.page .. a.page + num - 1
                                             THEN Written ELSE m.tab[p]]]
        /\ others' = others \cup {[page |-> a.page, num |-> num]}
        /\ UNCHANGED <<remap, hvRoot, root, tr, whole>>

FreeOther(o) ==
    /\ m' = [FreePages(m, o.page, o.num) EXCEPT !.err = 0]
    /\ others' = others \ {o}
    /\ UNCHANGED <<remap, hvRoot, root, tr, whole>>

\* A device is mapped into the remapping region (ioapic_init, apic_init, vtd_init,
\* pci_init); the code aborts the start of the hypervisor if this fails.
MapDevice ==
    LET a == page_alloc(remap, 1)
        mapped == MapRange(m, hvRoot, [virt |-> REMAP_BASE + a.page, size |-> 1,
                                       phys |-> 0, fl |-> "rw"])
    IN  /\ Initialized
        /\ a.page # INVALID_PAGE_NR
        /\ mapped.err = 0
        /\ remap' = a.pool
        /\ m' = mapped
        /\ UNCHANGED <<hvRoot, root, others, tr, whole>>

\* One step of page_map_get_guest_page: translate a guest-physical address and map
\* the page into the temporary region of the CPU.
MapGuestPage(virt, gphys) ==
    LET phys == page_map_virt2phys(m, root, gphys).phys
    IN  /\ root # INVALID_PAGE_NR
        /\ phys # INVALID_PHYS_ADDR
        /\ m' = MapRange(m, hvRoot, [virt |-> virt, size |-> 1, phys |-> phys, fl |-> "ro"])
        /\ UNCHANGED <<remap, hvRoot, root, others, tr, whole>>

PagingNext ==
    \/ paging_init
    \/ InitCell
    \/ \E r \in AllRanges : map_region(r)
    \/ \E r \in AllRanges : UnmapRegion(r)
    \/ ExitCell
    \/ \E num \in OtherSizes : AllocOther(num)
    \/ \E o \in others : FreeOther(o)
    \/ MapDevice
    \/ \E virt \in TempVirt, gphys \in GuestPages : MapGuestPage(virt, gphys)

PagingSpec == PagingInit /\ [][PagingNext]_pagingVars

-------------------------------------------------------------------------------
(* Properties *)

\* Every page of the cell translates exactly to what the sequence of successful map
\* and unmap calls says, flags included; a call that fails leaves the translations
\* outside its range alone.  This is what splitting hugepages, replacing finer
\* mappings and releasing empty tables in page_map_create and page_map_destroy
\* must not disturb.
TranslationExact ==
    root # INVALID_PAGE_NR =>
        \A v \in 0 .. Space - 1 : page_map_virt2phys(m, root, v) = tr[v]

\* The pages marked in the bitmap are those that somebody has: reserved pages, the
\* pages of reachable tables and the other allocations, each once, and used_pages
\* counts them.  Page tables are therefore neither leaked - not when a mapping fails
\* with -ENOMEM either - nor given out twice.
PagesAccounted ==
    LET tables == TablePages(m, hvRoot, 1)
                    \cup (IF root = INVALID_PAGE_NR THEN {} ELSE TablePages(m, root, 1))
        other == UNION {o.page .. o.page + o.num - 1 : o \in others}
        reserved == 0 .. ReservedPages
    IN  Initialized =>
        /\ m.pool.used = reserved \cup tables \cup other
        /\ m.pool.used_pages = Cardinality(m.pool.used)
        /\ tables \cap other = {}
        /\ (reserved \cap (tables \cup other)) = {}

\* A free page is zero, so that a page taken from the pool is an empty table: no user
\* of page_alloc clears what it gets.
FreePagesClean ==
    Initialized => \A p \in (0 .. PoolPages - 1) \ m.pool.used : m.tab[p] = ZeroPage

\* page_alloc finds the lowest fitting run of free pages, and fails only if there is
\* none, although it restarts its search at every gap (searchable pages: those of
\* complete bitmap words).
AllocFirstFit == Initialized => \A num \in 1 .. PoolPages : FirstFit(m.pool, num)

\* Unmapping a region that was mapped as a whole never fails, not even when the pool
\* is empty: cell_destroy_internal ignores the result.
WholeUnmapSucceeds == [][\A r \in whole : UnmapRegion(r) => m'.err = 0]_pagingVars

\* Mapping a guest page into the temporary region takes no page from the pool and
\* cannot fail: CPUs do it concurrently, without a lock, and while the pool is empty.
TempNeedsNoPage ==
    Initialized => \A v \in TempVirt :
        LET mapped == MapRange(m, hvRoot, [virt |-> v, size |-> 1, phys |-> 0, fl |-> "ro"])
        IN  mapped.err = 0 /\ mapped.pool = m.pool

\* The page pool serves the page tables without a flaw: pages are accounted for,
\* clean when free, found when there are any, and not needed for what must not
\* fail (page_alloc, page_free, page_map_create, page_map_destroy, paging_init).
PoolExact == PagesAccounted /\ FreePagesClean /\ AllocFirstFit /\ TempNeedsNoPage
===============================================================================
