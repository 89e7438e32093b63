------------------------- MODULE GuestAccessProofs --------------------------
(***************************************************************************)
(* What is proved of the resources of x86 cells and of the accesses of     *)
(* their guests (GuestSpec), for every number of cells, devices, pins,     *)
(* ports and virtual CPUs and every configuration that assigns no          *)
(* resource to two non-root cells.  First what counting gives; then the    *)
(* accesses of virtual CPUs while cells come and go; then the theorems.    *)
(***************************************************************************)
EXTENDS GuestAccess, X86CellsProofs, FiniteSetTheorems

-----------------------------------------------------------------------------
(* The page pool and the domain ids.                                       *)

\* A set of natural numbers that is not empty has a least element.
LEMMA LeastNatural ==
  ASSUME NEW T, T \subseteq Nat, T # {}
  PROVE  \E i \in T : \A j \in T : i <= j
  <1>. DEFINE R == OpToRel(<, Nat)
  <1>1. R = {ss \in Nat \X Nat : ss[1] < ss[2]}
    BY Zenon DEF OpToRel
  <1>2. IsWellFoundedOn(R, Nat)
    BY Zenon, NatLessThanWellFounded
  <1>. HIDE DEF R
  <1>3. PICK i \in T : \A j \in T : ~(<<j, i>> \in R)
    BY Zenon, <1>2, WFMin
  <1>4. ASSUME NEW j \in T PROVE i <= j
    <2>1. ~(<<j, i>> \in {ss \in Nat \X Nat : ss[1] < ss[2]})
      BY Zenon, <1>1, <1>3
    <2>. QED
      BY <2>1
  <1>. QED
    BY Zenon, <1>4

\* There are more domain ids than cells: get_free_cell_id finds one that is free.
LEMMA FreeId ==
  ASSUME X86TypeOK
  PROVE  /\ get_free_cell_id \in Nat
         /\ \A c \in created \cup {RootCell} : id[c] # get_free_cell_id
  <1>. DEFINE all == created \cup {RootCell}
              used == {id[c] : c \in all}
              n == Cardinality(NonRoot)
              range == 0 .. n + 1
  <1>1. IsFiniteSet(all) /\ n \in Nat /\ Cardinality(all) <= n + 1
    <2>1. IsFiniteSet(created) /\ Cardinality(created) <= n
      BY Zenon, ResourceAssumption, FS_Subset DEF X86TypeOK
    <2>2. n \in Nat /\ Cardinality(created) \in Nat
      BY Zenon, <2>1, ResourceAssumption, FS_CardinalityType
    <2>. QED
      BY <2>1, <2>2, FS_AddElement
  <1>2. IsFiniteSet(used) /\ Cardinality(used) <= Cardinality(all)
    <2>1. [c \in all |-> id[c]] \in Surjection(all, used)
      BY Zenon DEF Surjection
    <2>. QED
      BY Zenon, <1>1, <2>1, FS_Surjection
  <1>3. IsFiniteSet(range) /\ Cardinality(range) = n + 2
    BY <1>1, FS_Interval
  <1>4. range \ used # {}
    <2>1. SUFFICES ASSUME range \subseteq used PROVE FALSE
      OBVIOUS
    <2>2. Cardinality(range) <= Cardinality(used)
      BY Zenon, <1>2, <2>1, FS_Subset
    <2>3. Cardinality(used) \in Nat /\ Cardinality(all) \in Nat
      BY Zenon, <1>1, <1>2, FS_CardinalityType
    <2>. QED
      BY <1>1, <1>2, <1>3, <2>2, <2>3
  <1>5. PICK i \in range \ used : \A j \in range \ used : i <= j
    <2>. DEFINE free == range \ used
    <2>1. free \subseteq Nat /\ free # {}
      BY <1>1, <1>4
    <2>. HIDE DEF free
    <2>2. \E k \in free : \A j \in free : k <= j
      BY Zenon, <2>1, LeastNatural
    <2>. QED
      BY Zenon, <2>2 DEF free
  <1>6. \A j \in 0 .. i - 1 : j \in used
    BY <1>1, <1>5
  <1>7. get_free_cell_id \in range /\ get_free_cell_id \notin used
    <2>. HIDE DEF range, used
    <2>1. get_free_cell_id = CHOOSE k \in range :
                               k \notin used /\ \A j \in 0 .. k - 1 : j \in used
      BY Zenon DEF get_free_cell_id, range, used
    <2>. QED
      BY Zenon, <1>5, <1>6, <2>1
  <1>. QED
    BY <1>1, <1>7

\* There is a context table per bus at most.
LEMMA TablesFinite ==
  ASSUME TablesExact
  PROVE  IsFiniteSet(tables) /\ Cardinality(tables) \in Nat
  <1>. DEFINE mapped == {e \in Devices : ctx[e] # NoCell}
  <1>1. IsFiniteSet(mapped)
    BY Zenon, ResourceAssumption, FS_Subset
  <1>2. [e \in mapped |-> BusOf[e]] \in Surjection(mapped, tables)
    BY Zenon DEF TablesExact, Surjection
  <1>3. IsFiniteSet(tables)
    BY Zenon, <1>1, <1>2, FS_Surjection
  <1>. QED
    BY Zenon, <1>3, FS_CardinalityType

\* A page more or less.
LEMMA OnePage ==
  ASSUME NEW S, IsFiniteSet(S), NEW T, NEW x, T \subseteq S \cup {x}
  PROVE  IsFiniteSet(T) /\ Cardinality(T) \in Nat /\ Cardinality(T) <= Cardinality(S) + 1
  <1>0. Cardinality(S) \in Nat
    BY Zenon, FS_CardinalityType
  <1>1. IsFiniteSet(S \cup {x}) /\ Cardinality(S \cup {x}) <= Cardinality(S) + 1
    BY <1>0, FS_AddElement
  <1>2. IsFiniteSet(T) /\ Cardinality(T) <= Cardinality(S \cup {x})
    BY Zenon, <1>1, FS_Subset
  <1>. QED
    BY <1>0, <1>1, <1>2, FS_CardinalityType

\* Counted holds: the pages in use fit the pool, and so does one that was just freed.
LEMMA Counting ==
  ASSUME X86TypeOK, TablesExact, PoolInv
  PROVE  Counted
  <1>1. IsFiniteSet(tables) /\ Cardinality(tables) \in Nat /\ Cardinality(held) \in Nat
    BY Zenon, TablesFinite, FS_CardinalityType DEF PoolInv
  <1>2. Free \in Nat
    BY <1>1, ResourceAssumption DEF Free, PoolInv, X86TypeOK
  <1>3. Cardinality(Lost) \in Nat
    BY Zenon, FS_Subset, FS_CardinalityType DEF PoolInv, Lost
  <1>4. ASSUME NEW d \in Devices, ctx[d] # NoCell
        PROVE  LET h == vtd_remove_pci_device(Now, d) IN ~AddFails(h, d, DevPages(h))
    <2>. DEFINE h == vtd_remove_pci_device(Now, d)
    <2>1. BusOf[d] \in tables /\ (h.tab = tables \/ h.tab = tables \ {BusOf[d]})
      BY Zenon, <1>4 DEF TablesExact, vtd_remove_pci_device, Now
    <2>. HIDE DEF h
    <2>. SUFFICES ASSUME BusOf[d] \notin h.tab PROVE DevPages(h) # 0
      BY Zenon DEF AddFails, h
    <2>2. CASE h.tab = tables
      BY Zenon, <2>1, <2>2
    <2>3. CASE h.tab = tables \ {BusOf[d]}
      <3>1. Cardinality(tables \ {BusOf[d]}) = Cardinality(tables) - 1
        BY Zenon, <1>1, <2>1, FS_RemoveElement
      <3>. QED
        BY SMTT(30), <1>1, <1>2, <2>3, <3>1, ResourceAssumption DEF DevPages, Free, X86TypeOK
    <2>. QED
      BY Zenon, <2>1, <2>2, <2>3
  <1>. QED
    BY Zenon, <1>2, <1>3, <1>4, FreeId DEF Counted

\* The pages in use always fit the pool.
LEMMA PoolKept ==
  ASSUME X86TypeOK, TablesExact, PoolInv, PoolMove
  PROVE  PoolInv'
  <1>1. /\ IsFiniteSet(tables) /\ Cardinality(tables) \in Nat
        /\ IsFiniteSet(held) /\ Cardinality(held) \in Nat
    BY Zenon, TablesFinite, FS_CardinalityType DEF PoolInv
  <1>2. PoolSize \in Nat /\ other \in Nat /\ Free >= 0
    BY Zenon, ResourceAssumption DEF X86TypeOK, PoolInv
  <1>. USE <1>1, <1>2 DEF PoolInv, Free
  <1>3. CASE held' \subseteq held /\ tables' \subseteq tables /\ other' = other
    <2>1. /\ IsFiniteSet(held') /\ Cardinality(held') \in Nat
          /\ Cardinality(held') <= Cardinality(held)
      BY Zenon, <1>3, FS_Subset, FS_CardinalityType
    <2>2. Cardinality(tables') \in Nat /\ Cardinality(tables') <= Cardinality(tables)
      BY Zenon, <1>3, FS_Subset, FS_CardinalityType
    <2>. QED
      BY <1>3, <2>1, <2>2
  <1>4. ASSUME NEW x, held' = held \cup {x}, tables' = tables, other' = other, Free > 0
        PROVE  PoolInv'
    <2>1. IsFiniteSet(held') /\ Cardinality(held') \in Nat /\ Cardinality(held') <= Cardinality(held) + 1
      BY Zenon, <1>4, OnePage
    <2>. QED
      BY <1>4, <2>1
  <1>5. ASSUME NEW x, NEW y, held' = held \cup {x, y}, tables' = tables, other' = other, Free > 1
        PROVE  PoolInv'
    <2>. DEFINE one == held \cup {x}
    <2>1. IsFiniteSet(one) /\ Cardinality(one) \in Nat /\ Cardinality(one) <= Cardinality(held) + 1
      BY Zenon, OnePage
    <2>2. held' = one \cup {y}
      BY Zenon, <1>5
    <2>. HIDE DEF one
    <2>3. IsFiniteSet(held') /\ Cardinality(held') \in Nat /\ Cardinality(held') <= Cardinality(one) + 1
      BY Zenon, <2>1, <2>2, OnePage
    <2>. QED
      BY <1>5, <2>1, <2>3
  <1>6. ASSUME NEW x \in held, NEW y, held' \subseteq (held \ {x}) \cup {y},
               tables' = tables, other' = other
        PROVE  PoolInv'
    <2>1. IsFiniteSet(held \ {x}) /\ Cardinality(held \ {x}) = Cardinality(held) - 1
      BY Zenon, FS_RemoveElement
    <2>2. IsFiniteSet(held') /\ Cardinality(held') \in Nat /\ Cardinality(held') <= Cardinality(held \ {x}) + 1
      BY Zenon, <1>6, <2>1, OnePage
    <2>. QED
      BY <1>6, <2>1, <2>2
  <1>7. ASSUME NEW b, tables' = tables \cup {b}, held' = held, other' = other, Free > 0
        PROVE  PoolInv'
    <2>1. Cardinality(tables') \in Nat /\ Cardinality(tables') <= Cardinality(tables) + 1
      BY Zenon, <1>7, OnePage
    <2>. QED
      BY <1>7, <2>1
  <1>8. CASE held' = held /\ tables' = tables /\ other' \in Nat /\ Free + other >= other'
    BY <1>8
  <1>. HIDE DEF PoolInv, Free
  <1>. QED
    BY Zenon, <1>3, <1>4, <1>5, <1>6, <1>7, <1>8 DEF PoolMove

-----------------------------------------------------------------------------
(* Guests.                                                                 *)

\* A cell may enable one of its devices: what the IOMMU has cached for it is of its
\* own domain by then.
LEMMA CommandStep ==
  ASSUME X86Inv, NEW g \in Guests, MayRun(g), NEW d, <<CellOf[g], d>> \in own, Command(d)
  PROVE  X86Inv' /\ (CacheInv => CacheInv')
  <1>. DEFINE c == CellOf[g]
  <1>1. /\ X86TypeOK /\ CallInv /\ DeviceInv /\ PoolInv
        /\ PageInv /\ PinInv /\ PortInv /\ DomainInv
    BY Zenon DEF X86Inv
  <1>2. /\ UNCHANGED <<created, id, held, tables, other, ctx, own, cached, pin, port, hcall>>
        /\ silent' \in {silent, silent \ {d}, silent \cup {d}}
    BY Zenon DEF Command
  <1>3. c \in CellsAndRoot /\ d \in Devices /\ created \subseteq NonRoot
    BY Zenon, <1>1, GuestAssumption DEF X86TypeOK
  <1>4. X86TypeOK'
    BY Zenon, <1>1, <1>2, <1>3 DEF X86TypeOK
  <1>5. CallInv' /\ DeviceInv' /\ PoolInv' /\ PageInv'
    <2>1. CallInv' /\ PageInv'
      BY Zenon, <1>1, <1>2 DEF CallInv, PageInv, PagesReturned, Lost, At, NoCall
    <2>2. TablesExact' /\ PoolInv'
      BY SMTT(30), <1>1, <1>2 DEF TablesExact, PoolInv, Free, DeviceInv, DeviceExclusive
    <2>3. DeviceInv'
      BY Zenon, <1>1, <1>2, <2>2 DEF DeviceInv, DeviceExclusive, Stable, HasNone, HasAll, At
    <2>. QED
      BY Zenon, <2>1, <2>2, <2>3
  <1>6. PinInv' /\ PortInv' /\ DomainInv'
    <2>1. PinInv'
      BY Zenon, <1>1, <1>2 DEF PinInv, HasAll, At
    <2>2. PortInv'
      BY Zenon, <1>1, <1>2 DEF PortInv, PortsTaken, At
    <2>3. DomainInv'
      BY <1>1, <1>2 DEF DomainInv, DomainsDistinct, At
    <2>. QED
      BY Zenon, <2>1, <2>2, <2>3
  <1>7. ASSUME CacheInv PROVE CacheInv'
    <2>1. ctx[d] = c /\ ctx[d] # NoCell /\ id[RootCell] = 0
      <3>1. Stable(c)
        BY Zenon, <1>1, <1>3, Lists DEF MayRun, Stable, CallInv, At, NoCall
      <3>2. ctx[d] = c
        BY Zenon, <1>1, <1>3, <3>1 DEF DeviceInv, DeviceExclusive
      <3>. QED
        BY Zenon, <1>1, <1>3, <3>2, DisjointAssumption DEF DomainInv
    <2>2. CachedOnly(d, {id[c]}) /\ (hcall.pc # "idle" => d \notin DevicesOf[hcall.cell])
      <3>1. CASE c = RootCell
        <4>1. hcall.pc = "idle" /\ hcall.cell = NoCell
          BY <1>1, <3>1 DEF MayRun, At, CallInv, NoCall
        <4>2. d \in DevicesOf[RootCell] /\ \A b \in NonRoot : <<b, d>> \notin own
          BY Zenon, <1>1, <1>3, <3>1, <4>1 DEF DeviceInv, Stable
        <4>3. \A b \in NonRoot : d \in DevicesOf[b] => b \notin created \cup {hcall.cell}
          BY Zenon, <1>1, <4>1, <4>2, Lists DEF DeviceInv
        <4>. QED
          BY Zenon, <1>3, <1>7, <2>1, <3>1, <4>1, <4>2, <4>3 DEF CacheInv, CacheUnlisted
      <3>2. CASE c # RootCell
        <4>1. c \in created \ {hcall.cell} /\ c \in NonRoot
          BY Zenon, <1>3, <3>2 DEF MayRun
        <4>2. d \in DevicesOf[c]
          BY Zenon, <1>1, <1>3, <4>1 DEF DeviceInv
        <4>3. hcall.pc # "idle" => hcall.cell \in NonRoot
          BY Zenon, <1>1 DEF CallInv, At
        <4>. QED
          BY Zenon, <1>7, <4>1, <4>2, <4>3, Lists DEF CacheInv, CacheSettled
      <3>. QED
        BY Zenon, <3>1, <3>2
    <2>3. CacheCurrent'
      BY Zenon, <1>2, <1>7, <2>1, <2>2 DEF CacheInv, CacheCurrent, CachedOnly
    <2>4. CacheSettled' /\ CacheUnlisted'
      BY Zenon, <1>2, <1>7 DEF CacheInv, CacheSettled, CacheUnlisted, CachedOnly
    <2>5. ASSUME hcall.pc # "idle", NEW e \in DevicesOf[hcall.cell] PROVE CacheMoving(e)'
      BY Zenon, <1>2, <1>7, <2>2, <2>5 DEF CacheInv, CacheMoving, CachedOnly, At
    <2>. QED
      BY Zenon, <1>2, <2>3, <2>4, <2>5 DEF CacheInv, At
  <1>. QED
    BY Zenon, <1>4, <1>5, <1>6, <1>7 DEF X86Inv

\* The steps of a hypercall are taken while there is one.
LEMMA NotIdle ==
  ASSUME CreateStep \/ DestroyStep
  PROVE  hcall.pc # "idle"
  BY Zenon DEF CreateStep, DestroyStep, cell_init, vmx_cell_init, vtd_cell_init, PciArray,
     pci_cell_init, ioapic_cell_init, MapRegions, vtd_config_commit, ioapic_cell_exit,
     ReturnDevice, pci_cell_exit, vtd_cell_exit, vmx_cell_exit, free_cell, At

\* What the management of cells means to the virtual CPUs: the root cell, and a cell to
\* be destroyed, are suspended first.
LEMMA Managed ==
  ASSUME ManageCells \/ Surroundings
  PROVE  /\ X86Next /\ UNCHANGED <<acc, hwSel, lock>>
         /\ hcall.pc = "idle" =>
              \/ cell_suspend(RootCell)
              \/ UNCHANGED <<created, own, pin, hcall>>
         /\ \A c \in NonRoot : cell_destroy(c) => cell_suspend(c)
  <1>1. ASSUME NEW c \in NonRoot, cell_suspend(RootCell), cell_create(c)
        PROVE  \A b \in NonRoot : ~cell_destroy(b)
    BY Zenon, <1>1 DEF cell_create, cell_destroy
  <1>2. ASSUME NEW c \in NonRoot, cell_suspend(c), cell_destroy(c)
        PROVE  \A b \in NonRoot : cell_destroy(b) => b = c
    BY Zenon, <1>2 DEF cell_destroy
  <1>3. (CreateStep \/ DestroyStep) => \A b \in NonRoot : ~cell_destroy(b)
    BY Zenon, NotIdle DEF cell_destroy, At
  <1>4. Surroundings =>
          UNCHANGED <<created, own, pin, hcall>> /\ \A b \in NonRoot : ~cell_destroy(b)
    BY DEF Surroundings, OtherPages, DeviceDma, cell_destroy, At
  <1>5. free_cell => DestroyStep
    BY Zenon DEF DestroyStep
  <1>. QED
    BY Zenon, <1>1, <1>2, <1>3, <1>4, <1>5, NotIdle
       DEF ManageCells, Surroundings, X86Next, guestVars

\* A virtual CPU goes on with its access while cells come and go.
LEMMA ManagedAccess ==
  ASSUME X86Inv, Counted, AccessInv, ManageCells \/ Surroundings
  PROVE  AccessInv'
  <1>1. /\ X86Next /\ UNCHANGED <<acc, hwSel, lock>>
        /\ hcall.pc = "idle" =>
             cell_suspend(RootCell) \/ UNCHANGED <<created, own, pin, hcall>>
        /\ \A c \in NonRoot : cell_destroy(c) => cell_suspend(c)
    BY Zenon, Managed
  <1>2. Spared
    BY Zenon, <1>1, X86Keeps DEF X86Inv, Kept
  <1>3. ASSUME NEW g \in Guests, acc[g].st # "none"
        PROVE  MayRun(g)' /\ Assigned(CellOf[g], acc[g].win, acc[g].target)'
    <2>. DEFINE c == CellOf[g]
                t == acc[g].target
    <2>1. MayRun(g) /\ Assigned(c, acc[g].win, t) /\ c \in CellsAndRoot
      BY Zenon, <1>3, GuestAssumption DEF AccessInv
    <2>2. ~cell_suspend(c)
      BY Zenon, <1>3 DEF cell_suspend
    <2>3. CASE c = RootCell
      <3>1. UNCHANGED <<created, own, pin, hcall>>
        BY Zenon, <1>1, <2>1, <2>2, <2>3 DEF MayRun, At
      <3>. QED
        BY Zenon, <1>1, <2>1, <2>3, <3>1 DEF MayRun, Assigned, At
    <2>4. CASE c # RootCell
      <3>1. c \in created /\ c # hcall.cell /\ c \in NonRoot
        BY Zenon, <2>1, <2>4 DEF MayRun, CellsAndRoot
      <3>2. /\ c \in created' /\ pin'[c] = pin[c] /\ c # hcall'.cell
            /\ \A d \in Devices : <<c, d>> \in own => <<c, d>> \in own'
        BY Zenon, <1>1, <1>2, <2>2, <3>1 DEF Spared
      <3>3. MayRun(g)'
        BY Zenon, <2>4, <3>2 DEF MayRun
      <3>4. Assigned(c, acc[g].win, t)'
        BY Zenon, <1>1, <2>1, <3>2 DEF Assigned, X86Inv, X86TypeOK
      <3>. QED
        BY Zenon, <3>3, <3>4
    <2>. QED
      BY Zenon, <2>3, <2>4
  <1>4. (\A g \in Guests : acc[g].st # "none" =>
           MayRun(g) /\ Assigned(CellOf[g], acc[g].win, acc[g].target))'
    BY Zenon, <1>1, <1>3
  <1>. QED
    BY Zenon, <1>1, <1>4 DEF AccessInv

\* What a virtual CPU may do next.
LEMMA GuestMoves ==
  ASSUME X86Inv, AccessInv, NEW g \in Guests, PciWindow(g) \/ IoapicWindow(g) \/ Mmconfig(g)
  PROVE  \/ UNCHANGED <<x86Vars, acc, hwSel, lock>>
         \/ UNCHANGED x86Vars /\ \E w \in Windows : Begin(g, w) \/ Select(g, w)
         \/ /\ \E w \in Windows : AccessDone(g, w)
            /\ \/ UNCHANGED x86Vars
               \/ \E d \in Devices : MayRun(g) /\ <<CellOf[g], d>> \in own /\ Command(d)
         \/ /\ UNCHANGED <<acc, hwSel, lock>>
            /\ \E d \in Devices : MayRun(g) /\ <<CellOf[g], d>> \in own /\ Command(d)
  <1>1. CASE \/ \E t \in Devices : SelectWrite(g, "pci", t)
             \/ \E t \in Pins : SelectWrite(g, "ioapic", t)
    BY Zenon, <1>1 DEF SelectWrite
  <1>2. CASE \/ x86_pci_config_handler(g) \/ ioapic_access_handler(g)
             \/ Select(g, "pci") \/ Select(g, "ioapic")
    BY Zenon, <1>2 DEF x86_pci_config_handler, ioapic_access_handler, Begin, Select, Windows
  <1>3. CASE IoapicData(g)
    BY Zenon, <1>3 DEF IoapicData, Windows
  <1>4. CASE arch_pci_write_config(g)
    <2>1. /\ AccessDone(g, "pci") /\ acc[g].st = "data" /\ acc[g].win = "pci"
          /\ Command(hwSel["pci"])
      BY Zenon, <1>4 DEF arch_pci_write_config, AccessDone
    <2>2. MayRun(g) /\ <<CellOf[g], hwSel["pci"]>> \in own
      BY Zenon, <2>1 DEF AccessInv, Assigned
    <2>3. hwSel["pci"] \in Devices
      BY Zenon, <2>2 DEF X86Inv, X86TypeOK
    <2>. QED
      BY Zenon, <2>1, <2>2, <2>3 DEF Windows
  <1>5. CASE Mmconfig(g)
    BY Zenon, <1>5 DEF Mmconfig, pci_mmio_access_handler, guestVars, Assigned
  <1>. QED
    BY Zenon, <1>1, <1>2, <1>3, <1>4, <1>5 DEF PciWindow, IoapicWindow

\* The lock of a window keeps the select register for its holder.
LEMMA GuestAccessStep ==
  ASSUME X86Inv, AccessInv, NEW g \in Guests, PciWindow(g) \/ IoapicWindow(g) \/ Mmconfig(g)
  PROVE  AccessInv'
  <1>0. /\ UNCHANGED <<created, own, pin, hcall>>
        /\ \/ UNCHANGED <<acc, hwSel, lock>>
           \/ \E w \in Windows : Begin(g, w) \/ Select(g, w) \/ AccessDone(g, w)
    BY Zenon, GuestMoves DEF x86Vars, Command
  <1>1. /\ \A h \in Guests : MayRun(h)' <=> MayRun(h)
        /\ \A c, w, t : Assigned(c, w, t)' <=> Assigned(c, w, t)
    BY Zenon, <1>0 DEF MayRun, Assigned, At
  <1>2. CASE UNCHANGED <<acc, hwSel, lock>>
    BY Zenon, <1>1, <1>2 DEF AccessInv
  <1>3. ASSUME NEW w \in Windows, Begin(g, w) PROVE AccessInv'
    <2>. DEFINE t == sel[w][CellOf[g]]
    <2>1. /\ MayRun(g) /\ Assigned(CellOf[g], w, t) /\ UNCHANGED <<hwSel, lock>>
          /\ acc' = [acc EXCEPT ![g] = [st |-> "spin", win |-> w, target |-> t]]
      BY Zenon, <1>3 DEF Begin
    <2>2. t \in Devices \cup Pins
      <3>1. own \subseteq CellsAndRoot \X Devices /\ pin \in [CellsAndRoot -> SUBSET Pins]
        BY Zenon DEF X86Inv, X86TypeOK
      <3>. QED
        BY Zenon, <2>1, <3>1, GuestAssumption DEF Assigned
    <2>. HIDE DEF t
    <2>. QED
      BY Zenon, <1>1, <2>1, <2>2 DEF AccessInv
  <1>4. ASSUME NEW w \in Windows, Select(g, w) PROVE AccessInv'
    <2>1. /\ acc[g].st = "spin" /\ acc[g].win = w /\ lock[w] = NoGuest
          /\ lock' = [lock EXCEPT ![w] = g] /\ acc' = [acc EXCEPT ![g].st = "data"]
          /\ hwSel' = [hwSel EXCEPT ![w] = acc[g].target]
      BY Zenon, <1>4 DEF Select
    <2>2. /\ \A h \in Guests \ {g} : acc'[h] = acc[h]
          /\ acc'[g] = [st |-> "data", win |-> w, target |-> acc[g].target]
      BY <2>1 DEF AccessInv
    <2>3. acc' \in [Guests -> [st : {"none", "spin", "data"}, win : Windows,
                               target : Devices \cup Pins \cup {FirstTarget("pci")}]]
      BY <2>1 DEF AccessInv
    <2>4. \A h \in Guests \ {g} : acc[h].st = "data" => acc[h].win # w
      BY <2>1, GuestAssumption DEF AccessInv
    <2>5. /\ lock'[w] = g /\ hwSel'[w] = acc[g].target
          /\ \A v \in Windows \ {w} : lock'[v] = lock[v] /\ hwSel'[v] = hwSel[v]
          /\ lock' \in [Windows -> Guests \cup {NoGuest}] /\ DOMAIN hwSel' = Windows
      BY Zenon, <2>1 DEF AccessInv
    <2>6. ASSUME NEW h \in Guests, acc'[h].st # "none"
          PROVE  MayRun(h) /\ Assigned(CellOf[h], acc'[h].win, acc'[h].target)
      <3>1. acc[h].st # "none" /\ acc'[h].win = acc[h].win /\ acc'[h].target = acc[h].target
        BY <2>1, <2>2, <2>6
      <3>. QED
        BY Zenon, <3>1 DEF AccessInv
    <2>7. ASSUME NEW h \in Guests, acc'[h].st = "data"
          PROVE  lock'[acc'[h].win] = h /\ hwSel'[acc'[h].win] = acc'[h].target
      <3>1. CASE h = g
        BY SMTT(30), <2>2, <2>5, <3>1
      <3>2. CASE h # g
        <4>1. acc'[h] = acc[h] /\ acc[h].st = "data" /\ acc[h].win \in Windows \ {w}
          BY Zenon, <2>2, <2>4, <2>7, <3>2 DEF AccessInv
        <4>. QED
          BY <2>5, <4>1 DEF AccessInv
      <3>. QED
        BY Zenon, <3>1, <3>2
    <2>. QED
      BY Zenon, <1>1, <2>3, <2>5, <2>6, <2>7 DEF AccessInv
  <1>5. ASSUME NEW w \in Windows, AccessDone(g, w) PROVE AccessInv'
    <2>1. /\ acc[g].st = "data" /\ acc[g].win = w /\ acc' = [acc EXCEPT ![g] = NoAccess]
          /\ lock' = [lock EXCEPT ![w] = NoGuest]
          /\ hwSel' = [hwSel EXCEPT ![w] = FirstTarget(w)]
      BY Zenon, <1>5 DEF AccessDone
    <2>2. \A h \in Guests \ {g} : acc[h].st = "data" => acc[h].win # w
      BY Zenon, <2>1, GuestAssumption DEF AccessInv
    <2>3. /\ \A h \in Guests \ {g} : acc'[h] = acc[h]
          /\ acc'[g].st = "none"
          /\ acc' \in [Guests -> [st : {"none", "spin", "data"}, win : Windows,
                               target : Devices \cup Pins \cup {FirstTarget("pci")}]]
      BY Zenon, <2>1 DEF AccessInv, NoAccess, Windows
    <2>4. /\ \A v \in Windows \ {w} : lock'[v] = lock[v] /\ hwSel'[v] = hwSel[v]
          /\ lock' \in [Windows -> Guests \cup {NoGuest}] /\ DOMAIN hwSel' = Windows
      BY Zenon, <2>1 DEF AccessInv
    <2>5. \A h \in Guests : acc'[h].st # "none" =>
            MayRun(h) /\ Assigned(CellOf[h], acc'[h].win, acc'[h].target)
      BY Zenon, <2>3 DEF AccessInv
    <2>6. \A h \in Guests : acc'[h].st = "data" =>
            lock'[acc'[h].win] = h /\ hwSel'[acc'[h].win] = acc'[h].target
      BY <2>2, <2>3, <2>4 DEF AccessInv
    <2>. QED
      BY Zenon, <1>1, <2>3, <2>4, <2>5, <2>6 DEF AccessInv
  <1>. QED
    BY Zenon, <1>0, <1>2, <1>3, <1>4, <1>5

\* A step of the whole system is one of a hypercall or its surroundings, a virtual CPU
\* writing to the command register of a device it was assigned, or leaves the cells alone.
LEMMA SystemStep ==
  ASSUME GuestInv, Counted, [GuestNext]_<<x86Vars, guestVars>>
  PROVE  /\ AccessInv'
         /\ \/ [X86Next]_x86Vars
            \/ \E g \in Guests, d \in Devices :
                 MayRun(g) /\ <<CellOf[g], d>> \in own /\ Command(d)
  <1>0. X86Inv /\ AccessInv
    BY Zenon DEF GuestInv
  <1>1. CASE ManageCells \/ Surroundings
    BY Zenon, <1>0, <1>1, Managed, ManagedAccess
  <1>2. ASSUME NEW g \in Guests, PciWindow(g) \/ IoapicWindow(g) \/ Mmconfig(g)
        PROVE  /\ AccessInv'
               /\ \/ UNCHANGED x86Vars
                  \/ \E d \in Devices : MayRun(g) /\ <<CellOf[g], d>> \in own /\ Command(d)
    BY Zenon, <1>0, <1>2, GuestAccessStep, GuestMoves DEF x86Vars
  <1>3. CASE UNCHANGED <<x86Vars, guestVars>>
    BY Zenon, <1>0, <1>3 DEF AccessInv, MayRun, Assigned, At, x86Vars, guestVars
  <1>. QED
    BY Zenon, <1>1, <1>2, <1>3 DEF GuestNext

\* The cache of the IOMMU while guests run.
LEMMA GuestCache ==
  ASSUME OutsideOnOneBus, GuestInv, Counted, CacheInv, [GuestNext]_<<x86Vars, guestVars>>
  PROVE  CacheInv'
  <1>1. CASE [X86Next]_x86Vars
    BY Zenon, <1>1, CacheStep DEF GuestInv, X86Inv
  <1>2. ASSUME NEW g \in Guests, NEW d \in Devices, MayRun(g), <<CellOf[g], d>> \in own,
               Command(d)
        PROVE  CacheInv'
    BY Zenon, <1>2, CommandStep DEF GuestInv
  <1>. QED
    BY Zenon, <1>1, <1>2, SystemStep

-----------------------------------------------------------------------------
(* What the invariant implies, and the start.                              *)

\* Nothing has two owners.
LEMMA Exclusive ==
  ASSUME X86Inv, CacheInv
  PROVE  ResourcesExclusive
  <1>1. DeviceExclusive /\ DomainsDistinct
    BY Zenon DEF X86Inv, DeviceInv, DomainInv
  <1>2. NoStaleContext
    BY Zenon DEF X86Inv, X86TypeOK, CacheInv, CacheCurrent, CachedOnly, NoStaleContext
  <1>3. PinsPortsExclusive
    <2>1. SUFFICES ASSUME NEW c \in created \ {hcall.cell},
                          NEW d \in (created \cup {RootCell}) \ {c, hcall.cell}
                   PROVE  /\ pin[c] = PinsOf[c] /\ pin[c] \cap pin[d] = {}
                          /\ port[c] \cap port[d] = {PmTimer}
      BY Zenon DEF PinsPortsExclusive
    <2>2. c \in NonRoot /\ created \subseteq NonRoot /\ PinsOf[c] \subseteq Pins
      BY Zenon, ResourceAssumption DEF X86Inv, X86TypeOK, CellsAndRoot
    <2>3. pin[c] = PinsOf[c] /\ port[c] = PortsOf[c] \cup {PmTimer}
      BY Zenon DEF X86Inv, PinInv, PortInv
    <2>4. PmTimer \notin PortsOf[c] /\ PortsOf[c] \subseteq Ports
      BY Zenon, <2>2, DisjointAssumption, ResourceAssumption DEF CellsAndRoot
    <2>5. CASE d = RootCell
      <3>1. PinsOf[c] \cap pin[d] = {}
        BY Zenon, <2>1, <2>2, <2>5 DEF X86Inv, PinInv
      <3>2. PmTimer \in port[d] /\ \A p \in PortsOf[c] : p \notin port[d]
        BY Zenon, <2>1, <2>4, <2>5 DEF X86Inv, PortInv
      <3>. QED
        BY Zenon, <2>3, <3>1, <3>2
    <2>6. CASE d \in created
      <3>1. pin[d] = PinsOf[d] /\ port[d] = PortsOf[d] \cup {PmTimer}
        BY Zenon, <2>6 DEF X86Inv, PinInv, PortInv
      <3>2. PinsOf[c] \cap PinsOf[d] = {} /\ PortsOf[c] \cap PortsOf[d] = {}
        BY Zenon, <2>1, <2>2, <2>6, DisjointAssumption
      <3>. QED
        BY Zenon, <2>3, <3>1, <3>2
    <2>. QED
      BY Zenon, <2>5, <2>6
  <1>. QED
    BY Zenon, <1>1, <1>2, <1>3 DEF ResourcesExclusive

\* No window is in use at first.
LEMMA GuestStart ==
  ASSUME GuestInit
  PROVE  AccessInv
  BY Zenon DEF GuestInit, AccessInv, NoAccess, Windows

-----------------------------------------------------------------------------
(* The theorems.                                                           *)

\* The invariant holds for every configuration whose cells share nothing.
LEMMA GuestInvariant == GuestSpec => []GuestInv
  <1>1. GuestInit => GuestInv
    <2>1. SUFFICES ASSUME GuestInit PROVE X86Inv
      BY Zenon, GuestStart DEF GuestInv
    <2>2. /\ X86TypeOK /\ CallInv /\ DeviceInv /\ TablesExact /\ PageInv /\ PinInv
          /\ PortInv /\ DomainInv
      BY Zenon, <2>1, X86Start DEF GuestInit
    <2>3. /\ held = {} /\ PoolSize \in Nat /\ other \in Nat
          /\ other <= PoolSize - Cardinality(tables)
      BY Zenon, <2>1, <2>2, ResourceAssumption DEF GuestInit, X86Init, X86TypeOK
    <2>4. Cardinality(tables) \in Nat /\ IsFiniteSet(held) /\ Cardinality(held) = 0
      BY Zenon, <2>2, <2>3, TablesFinite, FS_EmptySet
    <2>5. PoolInv
      BY <2>3, <2>4 DEF PoolInv, Free
    <2>. QED
      BY Zenon, <2>2, <2>5 DEF X86Inv
  <1>2. GuestInv /\ [GuestNext]_<<x86Vars, guestVars>> => GuestInv'
    <2>1. SUFFICES ASSUME GuestInv, [GuestNext]_<<x86Vars, guestVars>> PROVE GuestInv'
      BY Zenon
    <2>2. /\ X86TypeOK /\ CallInv /\ DeviceInv /\ TablesExact /\ PoolInv /\ PageInv /\ PinInv
          /\ PortInv /\ DomainInv /\ X86Inv
      BY Zenon, <2>1 DEF GuestInv, X86Inv, DeviceInv, DeviceExclusive
    <2>3. Counted
      BY Zenon, <2>2, Counting
    <2>4. ASSUME [X86Next]_x86Vars PROVE X86Inv'
      <3>1. Kept
        BY Zenon, <2>2, <2>3, <2>4, X86Keeps
      <3>2. PoolInv'
        BY Zenon, <2>2, <3>1, PoolKept DEF Kept
      <3>. QED
        BY Zenon, <3>1, <3>2 DEF Kept, X86Inv
    <2>5. ASSUME NEW g \in Guests, NEW d \in Devices, MayRun(g), <<CellOf[g], d>> \in own,
                 Command(d)
          PROVE  X86Inv'
      BY Zenon, <2>2, <2>5, CommandStep
    <2>. QED
      BY Zenon, <2>1, <2>3, <2>4, <2>5, SystemStep DEF GuestInv
  <1>. QED
    BY <1>1, <1>2, PTL DEF GuestSpec

\* Whatever a creation or a destruction does, and wherever a creation fails: between the
\* hypercalls the root cell has all of its devices, pins and ports that no existing cell
\* lists, and no page is lost but the one of a large CPU set (arch_cell_create,
\* arch_cell_destroy, cell_create, cell_destroy).
THEOREM AllReturned == GuestSpec => []ResourcesReturned
  <1>1. GuestInv => ResourcesReturned
    BY Zenon, Returned DEF GuestInv
  <1>. QED
    BY <1>1, GuestInvariant, PTL

\* An access through 0xcf8/0xcfc or the IOAPIC window reaches the device or pin that was
\* checked, and that is the cell's while the access lasts, whatever other virtual CPUs
\* do and whichever cells are created and destroyed (pci_lock, ioapic_lock, cell_suspend).
THEOREM AccessesOwned == GuestSpec => []AccessOwned
  <1>1. GuestInv => AccessOwned
    BY Zenon DEF GuestInv, AccessInv, AccessOwned
  <1>. QED
    BY <1>1, GuestInvariant, PTL

\* Every device, pin, port and domain has one owner at each step, also in the IOMMU's
\* cache, provided that the devices of a cell that the root cell does not list are on one
\* bus. Without that a creation that fails in pci_cell_init can leave a context in the
\* cache that nobody flushes (arch_cell_create, arch_cell_destroy, vtd_config_commit).
THEOREM OneOwner ==
  ASSUME OutsideOnOneBus
  PROVE  GuestSpec => []ResourcesExclusive
  <1>1. GuestInit => CacheInv
    BY Zenon, X86Start DEF GuestInit
  <1>2. ASSUME GuestInv, CacheInv, [GuestNext]_<<x86Vars, guestVars>> PROVE CacheInv'
    <2>1. Counted
      BY Zenon, <1>2, Counting DEF GuestInv, X86Inv, DeviceInv, DeviceExclusive
    <2>. QED
      BY Zenon, <1>2, <2>1, GuestCache
  <1>3. GuestInv /\ CacheInv => ResourcesExclusive
    BY Zenon, Exclusive DEF GuestInv
  <1>. QED
    BY <1>1, <1>2, <1>3, GuestInvariant, PTL DEF GuestSpec
=============================================================================
