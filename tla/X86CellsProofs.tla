---------------------------- MODULE X86CellsProofs ----------------------------
(*****************************************************************************)
(* What all proofs about X86Cells use, and the steps of cell_create and      *)
(* cell_destroy on x86.  Each step keeps what X86Inv says of types, the order *)
(* of the steps, devices, pages, pins, ports and domain ids, takes pages only *)
(* from those that are free, and leaves the cells alone that it is not about. *)
(* Then all steps together, and the cache of the IOMMU through all of them.  *)
(* What counting gives (Counted) is assumed here and shown in                *)
(* GuestAccessProofs.                                                        *)
(*****************************************************************************)
EXTENDS X86Cells, TLAPS

\* hcall with its fields given.
Call(pc, kind, c, todo) == [pc |-> pc, kind |-> kind, cell |-> c, todo |-> todo]

\* What the sizes of the pool and of the set of cells imply: page counts are numbers, a
\* cell can get a domain id that no other has, and a device that was removed can be
\* added again, because the table of its bus is there or its page is free.
Counted ==
  /\ Free \in Nat /\ Cardinality(Lost) \in Nat
  /\ get_free_cell_id \in Nat /\ \A c \in created \cup {RootCell} : id[c] # get_free_cell_id
  /\ \A d \in Devices : ctx[d] # NoCell =>
       LET h == vtd_remove_pci_device(Now, d) IN ~AddFails(h, d, DevPages(h))

\* How a step may change the use of the pool: pages go back, at most as many are taken as
\* are free, a cell's page becomes a lost one, or other users take from the free ones.
PoolMove ==
  \/ held' \subseteq held /\ tables' \subseteq tables /\ other' = other
  \/ tables' = tables /\ other' = other /\ Free > 0 /\ \E x : held' = held \cup {x}
  \/ tables' = tables /\ other' = other /\ Free > 1 /\ \E x, y : held' = held \cup {x, y}
  \/ tables' = tables /\ other' = other
     /\ \E x \in held : \E y : held' \subseteq (held \ {x}) \cup {y}
  \/ held' = held /\ other' = other /\ Free > 0 /\ \E b : tables' = tables \cup {b}
  \/ held' = held /\ tables' = tables /\ other' \in Nat /\ Free + other >= other'

\* The cells a hypercall is not about keep their devices and pins; the next one is about
\* one of them only if it destroys it.
Spared ==
  \A c \in created : c # hcall.cell =>
    /\ c \in created' /\ pin'[c] = pin[c]
    /\ \A d \in Devices : <<c, d>> \in own => <<c, d>> \in own'
    /\ c # hcall'.cell \/ cell_destroy(c)

\* What is shown of every step.
Kept == /\ X86TypeOK' /\ CallInv' /\ DeviceInv' /\ PageInv' /\ PinInv' /\ PortInv' /\ DomainInv'
        /\ PoolMove /\ Spared

-----------------------------------------------------------------------------
(* The configurations and the types, by kind of resource.                  *)

\* The three kinds of cells differ.
LEMMA CellKinds ==
  /\ RootCell \notin NonRoot /\ NoCell \notin NonRoot /\ RootCell # NoCell
  /\ NonRoot \subseteq CellsAndRoot /\ RootCell \in CellsAndRoot /\ NoCell \notin CellsAndRoot
  BY Zenon, DisjointAssumption DEF CellsAndRoot

\* The hypercall works on devices its cell lists.
LEMMA CallFacts ==
  ASSUME X86TypeOK
  PROVE  /\ created \subseteq NonRoot /\ hcall \in Hypercalls /\ hcall.todo \subseteq Devices
         /\ NoCell \notin NonRoot /\ \A c \in NonRoot : DevicesOf[c] \subseteq Devices
  BY Zenon, CellKinds, ResourceAssumption DEF X86TypeOK, Hypercalls

\* Pages.
LEMMA PageFacts ==
  ASSUME X86TypeOK
  PROVE  /\ created \subseteq NonRoot /\ held \in SUBSET HeldPages
         /\ RootCell \notin NonRoot /\ NoCell \notin NonRoot /\ RootCell # NoCell
  BY Zenon, CellKinds DEF X86TypeOK

\* The lists of the configurations.
LEMMA TypeFacts ==
  /\ DevicesOf \in [CellsAndRoot -> SUBSET Devices]
  /\ PinsOf \in [CellsAndRoot -> SUBSET Pins]
  /\ PortsOf \in [CellsAndRoot -> SUBSET Ports] /\ OtherUses \subseteq Nat
  /\ NonRoot \subseteq CellsAndRoot /\ RootCell \in CellsAndRoot
  BY Zenon, CellKinds, ResourceAssumption

\* Devices.
LEMMA DeviceFacts ==
  ASSUME X86TypeOK
  PROVE  /\ created \subseteq NonRoot /\ DevicesOf \in [CellsAndRoot -> SUBSET Devices]
         /\ own \subseteq CellsAndRoot \X Devices /\ ctx \in [Devices -> CellsAndRoot \cup {NoCell}]
         /\ RootCell \notin NonRoot /\ NoCell \notin NonRoot /\ RootCell # NoCell
         /\ NonRoot \subseteq CellsAndRoot /\ RootCell \in CellsAndRoot /\ NoCell \notin CellsAndRoot
  BY Zenon, CellKinds, ResourceAssumption DEF X86TypeOK

\* Pins.
LEMMA PinFacts ==
  ASSUME X86TypeOK
  PROVE  /\ created \subseteq NonRoot
         /\ pin \in [CellsAndRoot -> SUBSET Pins] /\ PinsOf \in [CellsAndRoot -> SUBSET Pins]
         /\ RootCell \notin NonRoot /\ NoCell \notin NonRoot /\ RootCell # NoCell
         /\ NonRoot \subseteq CellsAndRoot /\ RootCell \in CellsAndRoot
  BY Zenon, CellKinds, ResourceAssumption DEF X86TypeOK

\* Ports.
LEMMA PortFacts ==
  ASSUME X86TypeOK
  PROVE  /\ created \subseteq NonRoot /\ \A c \in NonRoot : PmTimer \notin PortsOf[c]
         /\ port \in [CellsAndRoot -> SUBSET (Ports \cup {PmTimer})]
         /\ PortsOf \in [CellsAndRoot -> SUBSET Ports]
         /\ RootCell \notin NonRoot /\ NoCell \notin NonRoot /\ RootCell # NoCell
         /\ NonRoot \subseteq CellsAndRoot /\ RootCell \in CellsAndRoot
  BY Zenon, CellKinds, ResourceAssumption, DisjointAssumption DEF X86TypeOK

\* Domain ids.
LEMMA DomainFacts ==
  ASSUME X86TypeOK
  PROVE  /\ created \subseteq NonRoot /\ id \in [CellsAndRoot -> Nat]
         /\ RootCell \notin NonRoot /\ NoCell \notin NonRoot /\ RootCell # NoCell
         /\ NonRoot \subseteq CellsAndRoot /\ RootCell \in CellsAndRoot
  BY Zenon, CellKinds DEF X86TypeOK

\* Two cells list no device in common, and the three kinds of cells differ.
LEMMA Lists ==
  /\ \A b, c \in NonRoot : b # c => DevicesOf[b] \cap DevicesOf[c] = {}
  /\ \A c \in NonRoot : DevicesOf[c] \subseteq Devices
  /\ DevicesOf[RootCell] \subseteq Devices
  /\ RootCell \notin NonRoot /\ NoCell \notin NonRoot /\ RootCell # NoCell
  BY Zenon, DisjointAssumption, ResourceAssumption DEF CellsAndRoot

\* Before the first hypercall everything is the root cell's.
LEMMA X86Start ==
  ASSUME X86Init
  PROVE  /\ X86TypeOK /\ CallInv /\ DeviceInv /\ TablesExact /\ PageInv /\ PinInv
         /\ PortInv /\ DomainInv /\ CacheInv
  <1>. DEFINE R == RootCell
  <1>1. /\ created = {} /\ id = [c \in CellsAndRoot |-> 0] /\ held = {}
        /\ silent = {} /\ cached = {} /\ hcall = NoCall
        /\ other \in OtherUses /\ other <= PoolSize - Cardinality(tables)
    BY Zenon DEF X86Init
  <1>2. /\ own = {R} \X DevicesOf[R]
        /\ ctx = [d \in Devices |-> IF d \in DevicesOf[R] THEN R ELSE NoCell]
        /\ tables = {BusOf[d] : d \in DevicesOf[R]}
    BY Zenon DEF X86Init, pci_init
  <1>3. /\ pin = [c \in CellsAndRoot |-> IF c = R THEN PinsOf[c] ELSE {}]
        /\ port = [c \in CellsAndRoot |-> IF c = R THEN PortsOf[c] \cup {PmTimer} ELSE {}]
    BY Zenon DEF X86Init, vmx_init, ioapic_init
  <1>4. /\ R \in CellsAndRoot /\ NoCell \notin CellsAndRoot /\ R \notin NonRoot
        /\ DevicesOf[R] \subseteq Devices /\ PinsOf[R] \subseteq Pins
        /\ PortsOf[R] \subseteq Ports /\ OtherUses \subseteq Nat /\ PoolSize \in Nat
    BY Zenon, DisjointAssumption, ResourceAssumption DEF CellsAndRoot
  <1>5. X86TypeOK
    BY Zenon, <1>1, <1>2, <1>3, <1>4 DEF X86TypeOK, Hypercalls, NoCall
  <1>6. CallInv
    BY Zenon, <1>1 DEF CallInv, NoCall, At
  <1>7. TablesExact
    <2>1. {e \in Devices : ctx[e] # NoCell} = DevicesOf[R]
      BY Zenon, <1>2, <1>4
    <2>. QED
      BY Zenon, <1>2, <2>1 DEF TablesExact
  <1>8. DeviceInv
    <2>1. \A c, d : <<c, d>> \in own <=> c = R /\ d \in DevicesOf[R]
      BY Zenon, <1>2
    <2>2. DeviceExclusive
      BY Zenon, <1>2, <1>4, <1>7, <2>1 DEF DeviceExclusive
    <2>. QED
      BY <1>1, <1>4, <2>1, <2>2 DEF DeviceInv, Stable, HasNone, HasAll, NoCall, At, CellsAndRoot
  <1>9. PageInv /\ PinInv
    BY Zenon, <1>1, <1>3, <1>4 DEF PageInv, PagesReturned, PinInv, HasAll, NoCall, At
  <1>10. PortInv /\ DomainInv
    BY Zenon, <1>1, <1>3, <1>4 DEF PortInv, PortsTaken, DomainInv, DomainsDistinct, NoCall, At
  <1>11. CacheInv
    BY Zenon, <1>1 DEF CacheInv, CacheCurrent, CacheSettled, CacheUnlisted, CachedOnly,
       NoCall, At
  <1>. QED
    BY Zenon, <1>5, <1>6, <1>7, <1>8, <1>9, <1>10, <1>11

-----------------------------------------------------------------------------
(* Moving a device.                                                        *)

\* Removing a device frees the table of its bus or leaves it in use: either way the
\* device can be added again, to whichever cell (vtd_remove_pci_device).
LEMMA RoomAfterRemove ==
  ASSUME X86TypeOK, TablesExact, Counted, NEW d \in Devices, ctx[d] # NoCell
  PROVE  LET h == vtd_remove_pci_device(Now, d)
         IN  /\ h.ctx = [ctx EXCEPT ![d] = NoCell]
             /\ h.tab \subseteq tables /\ h.tab \cup {BusOf[d]} = tables
             /\ h.tab = {BusOf[e] : e \in {x \in Devices : h.ctx[x] # NoCell}}
             /\ ~AddFails(h, d, DevPages(h))
  <1>. DEFINE h == vtd_remove_pci_device(Now, d)
              left == {e \in Devices \ {d} : BusOf[e] = BusOf[d] /\ ctx[e] # NoCell}
  <1>1. /\ h.ctx = [ctx EXCEPT ![d] = NoCell]
        /\ h.tab = IF left = {} THEN tables \ {BusOf[d]} ELSE tables
    BY Zenon DEF vtd_remove_pci_device, Now
  <1>2. BusOf[d] \in tables
    BY Zenon DEF TablesExact
  <1>3. h.tab \subseteq tables /\ h.tab \cup {BusOf[d]} = tables
    BY Zenon, <1>1, <1>2
  <1>4. h.tab = {BusOf[e] : e \in {x \in Devices : h.ctx[x] # NoCell}}
    BY <1>1 DEF TablesExact, X86TypeOK
  <1>5. ~AddFails(h, d, DevPages(h))
    BY Zenon DEF Counted
  <1>. QED
    BY Zenon, <1>1, <1>3, <1>4, <1>5

\* What pci_cell_init does with one device: taking it from the root cell always works.
LEMMA TakeDevice ==
  ASSUME X86TypeOK, CallInv, TablesExact, DeviceInv, Counted,
         NEW d \in Devices, pci_cell_init(d)
  PROVE  /\ hcall.pc = "pci" /\ d \in hcall.todo
         /\ hcall.kind = "create" /\ hcall.cell \in NonRoot \ created
         /\ UNCHANGED <<created, id, held, other, cached, pin, port>>
         /\ \/ /\ ctx' = [ctx EXCEPT ![d] = hcall.cell]
               /\ own' = (own \ {<<RootCell, d>>}) \cup {<<hcall.cell, d>>}
               /\ hcall' = [hcall EXCEPT !.todo = hcall.todo \ {d}]
               /\ \/ /\ <<RootCell, d>> \in own /\ d \in DevicesOf[RootCell]
                     /\ tables' = tables /\ silent' = silent \cup {d}
                  \/ /\ <<RootCell, d>> \notin own /\ d \notin DevicesOf[RootCell]
                     /\ tables' = tables \cup {BusOf[d]} /\ silent' = silent
                     /\ BusOf[d] \in tables \/ Free > 0
            \/ /\ <<RootCell, d>> \notin own /\ d \notin DevicesOf[RootCell]
               /\ BusOf[d] \notin tables
               /\ UNCHANGED <<ctx, tables, own, silent>>
               /\ hcall' = [hcall EXCEPT !.pc = "pcix", !.kind = "fail",
                             !.todo = {e \in Devices : <<hcall.cell, e>> \in own}]
  <1>1. /\ hcall.pc = "pci" /\ d \in hcall.todo
        /\ hcall.kind = "create" /\ hcall.cell \in NonRoot \ created
        /\ UNCHANGED <<created, id, held, other, cached, pin, port>>
    BY Zenon DEF pci_cell_init, At, CallInv, X86TypeOK, Hypercalls, NoCall
  <1>2. CASE <<RootCell, d>> \in own
    <2>1. ctx[d] = RootCell /\ d \in DevicesOf[RootCell]
      BY Zenon, <1>1, <1>2, DisjointAssumption DEF DeviceInv, DeviceExclusive, Stable,
         CellsAndRoot
    <2>2. ctx[d] # NoCell
      BY Zenon, <2>1, DisjointAssumption DEF CellsAndRoot
    <2>. DEFINE h == vtd_remove_pci_device(Now, d)
    <2>3. /\ h.ctx = [ctx EXCEPT ![d] = NoCell] /\ h.tab \cup {BusOf[d]} = tables
          /\ ~AddFails(h, d, DevPages(h))
      BY Zenon, <2>2, RoomAfterRemove
    <2>4. /\ SetVtd(vtd_add_pci_device(h, hcall.cell, d))
          /\ own' = (own \ {<<RootCell, d>>}) \cup {<<hcall.cell, d>>}
          /\ silent' = silent \cup {d}
          /\ hcall' = [hcall EXCEPT !.todo = hcall.todo \ {d}]
      BY Zenon, <1>2, <2>3 DEF pci_cell_init, pci_remove_device
    <2>5. tables' = tables /\ ctx' = [ctx EXCEPT ![d] = hcall.cell]
      BY Zenon, <2>3, <2>4 DEF SetVtd, vtd_add_pci_device, X86TypeOK
    <2>. QED
      BY Zenon, <1>1, <1>2, <2>1, <2>4, <2>5
  <1>3. CASE <<RootCell, d>> \notin own
    <2>1. d \in DevicesOf[hcall.cell]
      BY Zenon, <1>1 DEF DeviceInv, At
    <2>2. \A c \in NonRoot : <<c, d>> \notin own
      BY <1>1, <2>1, DisjointAssumption DEF DeviceInv, At
    <2>3. d \notin DevicesOf[RootCell]
      BY Zenon, <1>3, <2>2 DEF DeviceInv
    <2>4. DevPages(Now) = Free /\ Now.ctx = ctx /\ Now.tab = tables
      BY Zenon DEF DevPages, Free, Now
    <2>5. Free \in Nat
      BY Zenon DEF Counted
    <2>6. CASE BusOf[d] \notin tables /\ Free = 0
      BY Zenon, <1>1, <1>3, <2>3, <2>4, <2>6 DEF pci_cell_init, AddFails, SetVtd
    <2>7. CASE BusOf[d] \in tables \/ Free # 0
      <3>1. ~AddFails(Now, d, DevPages(Now))
        BY Zenon, <2>4, <2>7 DEF AddFails
      <3>2. /\ SetVtd(vtd_add_pci_device(Now, hcall.cell, d))
            /\ own' = (own \ {<<RootCell, d>>}) \cup {<<hcall.cell, d>>}
            /\ silent' = silent
            /\ hcall' = [hcall EXCEPT !.todo = hcall.todo \ {d}]
        BY Zenon, <1>3, <3>1 DEF pci_cell_init
      <3>3. tables' = tables \cup {BusOf[d]} /\ ctx' = [ctx EXCEPT ![d] = hcall.cell]
        BY Zenon, <2>4, <3>2 DEF SetVtd, vtd_add_pci_device
      <3>4. BusOf[d] \in tables \/ Free > 0
        BY <2>5, <2>7
      <3>. QED
        BY Zenon, <1>1, <1>3, <2>3, <3>2, <3>3, <3>4
    <2>. QED
      BY Zenon, <2>6, <2>7
  <1>. QED
    BY Zenon, <1>2, <1>3

\* What pci_cell_exit does with one device: it goes back to the root cell if that
\* lists it, without fail (pci_return_device_to_root_cell).
LEMMA GiveDevice ==
  ASSUME X86TypeOK, CallInv, TablesExact, DeviceInv, Counted,
         NEW d \in Devices, ReturnDevice(d)
  PROVE  /\ hcall.pc = "pcix" /\ d \in hcall.todo /\ ctx[d] = hcall.cell
         /\ hcall.cell \in NonRoot
         /\ UNCHANGED <<created, id, held, other, cached, pin, port>>
         /\ ctx' = [ctx EXCEPT ![d] = IF d \in DevicesOf[RootCell] THEN RootCell ELSE NoCell]
         /\ own' = IF d \in DevicesOf[RootCell] THEN own \cup {<<RootCell, d>>} ELSE own
         /\ tables' \subseteq tables
         /\ TablesExact'
         /\ silent' = silent \cup {d}
         /\ hcall' = [hcall EXCEPT !.todo = hcall.todo \ {d}]
  <1>1. /\ hcall.pc = "pcix" /\ d \in hcall.todo /\ hcall.cell \in NonRoot
        /\ UNCHANGED <<created, id, held, other, cached, pin, port>>
        /\ silent' = silent \cup {d}
        /\ hcall' = [hcall EXCEPT !.todo = hcall.todo \ {d}]
    BY Zenon DEF ReturnDevice, At, CallInv, pci_remove_device
  <1>2. ctx[d] = hcall.cell
    BY Zenon, <1>1 DEF DeviceInv, At
  <1>3. ctx[d] # NoCell
    BY Zenon, <1>1, <1>2, DisjointAssumption DEF CellsAndRoot
  <1>. DEFINE h == vtd_remove_pci_device(Now, d)
  <1>4. /\ h.ctx = [ctx EXCEPT ![d] = NoCell]
        /\ h.tab \subseteq tables /\ h.tab \cup {BusOf[d]} = tables
        /\ h.tab = {BusOf[e] : e \in {x \in Devices : h.ctx[x] # NoCell}}
        /\ ~AddFails(h, d, DevPages(h))
    BY Zenon, <1>3, RoomAfterRemove
  <1>5. CASE d \in DevicesOf[RootCell]
    <2>1. SetVtd(vtd_add_pci_device(h, RootCell, d)) /\ own' = own \cup {<<RootCell, d>>}
      BY Zenon, <1>4, <1>5 DEF ReturnDevice
    <2>2. tables' = tables /\ ctx' = [ctx EXCEPT ![d] = RootCell]
      BY Zenon, <1>4, <2>1 DEF SetVtd, vtd_add_pci_device, X86TypeOK
    <2>3. TablesExact'
      BY Zenon, <1>3, <2>2, DisjointAssumption DEF TablesExact, X86TypeOK, CellsAndRoot
    <2>. QED
      BY Zenon, <1>1, <1>2, <1>5, <2>1, <2>2, <2>3
  <1>6. CASE d \notin DevicesOf[RootCell]
    <2>1. SetVtd(h) /\ own' = own
      BY Zenon, <1>6 DEF ReturnDevice
    <2>2. tables' = h.tab /\ ctx' = h.ctx
      BY Zenon, <2>1 DEF SetVtd
    <2>. QED
      BY Zenon, <1>1, <1>2, <1>4, <1>6, <2>1, <2>2 DEF TablesExact
  <1>. QED
    BY Zenon, <1>5, <1>6

-----------------------------------------------------------------------------
(* The steps of a creation.                                                *)

\* pci_cell_init goes on with the next device, or gives up.
LEMMA TakeKeeps ==
  ASSUME X86TypeOK, CallInv, DeviceInv, PageInv, PinInv, PortInv, DomainInv, Counted,
         NEW d \in Devices, pci_cell_init(d)
  PROVE  Kept
  <1>1. /\ hcall.pc = "pci"
        /\ hcall.kind = "create" /\ hcall.cell \in NonRoot \ created
        /\ UNCHANGED <<created, id, held, other, cached, pin, port>>
        /\ d \in hcall.todo
        /\ \/ hcall' = Call("pci", "create", hcall.cell, hcall.todo \ {d})
           \/ hcall' = Call("pcix", "fail", hcall.cell,
                            {e \in Devices : <<hcall.cell, e>> \in own})
    <2>1. /\ \/ hcall' = [hcall EXCEPT !.pc = "pcix", !.kind = "fail",
                           !.todo = {e \in Devices : <<hcall.cell, e>> \in own}]
             \/ hcall' = [hcall EXCEPT !.todo = hcall.todo \ {d}]
          /\ hcall.pc = "pci" /\ d \in hcall.todo
          /\ UNCHANGED <<created, id, held, other, cached, pin, port>>
      BY Zenon DEF pci_cell_init, At
    <2>2. hcall.kind = "create" /\ hcall.cell \in NonRoot \ created
      BY Zenon, <2>1 DEF X86TypeOK, Hypercalls, CallInv, NoCall, At
    <2>. QED
      BY Zenon, <2>1, <2>2 DEF X86TypeOK, Hypercalls, Call
  <1>. USE DEF At, Call, NoCall
  <1>2. hcall' \in Hypercalls /\ CallInv'
    <2>. USE CallFacts
    <2>1. {e \in Devices : <<hcall.cell, e>> \in own} \subseteq Devices
      OBVIOUS
    <2>2. PICK t \in SUBSET Devices :
            hcall' = Call("pci", "create", hcall.cell, t) \/ hcall' = Call("pcix", "fail", hcall.cell, t)
      BY Zenon, <2>1, <1>1
    <2>. QED
      BY <2>2, <1>1 DEF CallInv, Hypercalls
  <1>3. held' \in SUBSET HeldPages
    BY Zenon, <1>1, PageFacts
  <1>4. X86TypeOK'
    <2>. USE <1>2, <1>3, TypeFacts
    <2>1. hcall.cell \in CellsAndRoot
      BY Zenon, <1>1
    <2>2. /\ ctx' \in [Devices -> CellsAndRoot \cup {NoCell}]
          /\ own' \in SUBSET (CellsAndRoot \X Devices) /\ silent' \in SUBSET Devices
      BY <2>1
        DEF X86TypeOK, pci_cell_init, vtd_remove_pci_device, vtd_add_pci_device, SetVtd, Now,
             pci_remove_device
    <2>. QED
      BY Zenon, <2>2, <1>1 DEF X86TypeOK
  <1>5. TablesExact'
    <2>. USE DeviceFacts
    <2>0. TablesExact
      BY Zenon DEF DeviceInv, DeviceExclusive
    <2>1. /\ hcall.cell \in NonRoot /\ hcall.pc = "pci"
          /\ \/ tables' = tables \cup {BusOf[d]} /\ ctx' = [ctx EXCEPT ![d] = hcall.cell]
             \/ tables' = tables /\ ctx' = [ctx EXCEPT ![d] = hcall.cell] /\ <<RootCell, d>> \in own
             \/ tables' = tables /\ ctx' = ctx
      BY Zenon, <2>0, TakeDevice
    <2>2. CASE tables' = tables \cup {BusOf[d]} /\ ctx' = [ctx EXCEPT ![d] = hcall.cell]
      BY <2>0, <2>1, <2>2 DEF TablesExact
    <2>3. CASE tables' = tables /\ ctx' = [ctx EXCEPT ![d] = hcall.cell] /\ <<RootCell, d>> \in own
      <3>1. ctx[d] = RootCell
        BY Zenon, <2>1, <2>3 DEF DeviceInv, DeviceExclusive, Stable
      <3>. QED
        BY Zenon, <2>0, <2>1, <2>3, <3>1 DEF TablesExact
    <2>4. CASE tables' = tables /\ ctx' = ctx
      BY Zenon, <2>0, <2>4 DEF TablesExact
    <2>. QED
      BY Zenon, <2>1, <2>2, <2>3, <2>4
  <1>6. DeviceInv'
    <2>. USE <1>5, DeviceFacts
    <2>. DEFINE c == hcall.cell
    <2>0. hcall \in Hypercalls /\ TablesExact
      BY Zenon DEF X86TypeOK, DeviceInv, DeviceExclusive
    <2>1. /\ hcall.pc = "pci" /\ d \in hcall.todo /\ c \in NonRoot \ created /\ created' = created
          /\ \/ /\ ctx' = [ctx EXCEPT ![d] = c] /\ own' = (own \ {<<RootCell, d>>}) \cup {<<c, d>>}
                /\ hcall' = [hcall EXCEPT !.todo = hcall.todo \ {d}]
             \/ /\ UNCHANGED <<ctx, own>>
                /\ hcall' = [hcall EXCEPT !.pc = "pcix", !.kind = "fail",
                               !.todo = {e \in Devices : <<hcall.cell, e>> \in own}]
      BY Zenon, <2>0, TakeDevice
    <2>2. d \in DevicesOf[c] /\ <<c, d>> \notin own /\ \A b \in NonRoot : <<b, d>> \notin own
      BY <2>1, DisjointAssumption DEF DeviceInv, DeviceExclusive, Stable, HasNone, HasAll
    <2>3. CASE /\ ctx' = [ctx EXCEPT ![d] = c] /\ own' = (own \ {<<RootCell, d>>}) \cup {<<c, d>>}
               /\ hcall' = [hcall EXCEPT !.todo = hcall.todo \ {d}]
      <3>1. hcall'.pc = "pci" /\ hcall'.cell = c /\ hcall'.todo = hcall.todo \ {d}
        BY Zenon, <2>0, <2>1, <2>3 DEF Hypercalls
      <3>2. \A e \in Devices : \A b \in CellsAndRoot : <<b, e>> \in own <=> ctx[e] = b
        <4>1. ASSUME NEW b PROVE Stable(b)
          BY Zenon, <2>1 DEF Stable
        <4>. QED
          BY Zenon, <4>1 DEF DeviceInv, DeviceExclusive
      <3>3. \A e \in Devices : \A b \in CellsAndRoot : <<b, e>> \in own' <=> ctx'[e] = b
        <4>1. ctx[d] \in {RootCell, NoCell}
          BY Zenon, <2>2, <3>2 DEF CellsAndRoot
        <4>. QED
          BY ZenonT(30), <2>1, <2>3, <3>2, <4>1
      <3>4. DeviceExclusive'
        BY Zenon, <3>1, <3>3 DEF DeviceExclusive
      <3>5. /\ \A b \in NonRoot, e \in Devices : <<b, e>> \in own' <=>
                 <<b, e>> \in own \/ (b = c /\ e = d)
            /\ \A e \in Devices : <<RootCell, e>> \in own' <=> <<RootCell, e>> \in own /\ e # d
        BY Zenon, <2>1, <2>3
      <3>6. /\ \A b \in NonRoot, e \in Devices : <<b, e>> \in own' =>
                 e \in DevicesOf[b] /\ b \in created \cup {c}
            /\ \A b \in created \ {c} : \A e \in DevicesOf[b] : <<b, e>> \in own'
        BY <2>1, <2>2, <3>5 DEF DeviceInv
      <3>7. \A e \in Devices : <<RootCell, e>> \in own' <=>
               e \in DevicesOf[RootCell] /\ \A b \in NonRoot : <<b, e>> \notin own'
        <4>1. \A e \in Devices : <<RootCell, e>> \in own <=>
                 e \in DevicesOf[RootCell] /\ \A b \in NonRoot : <<b, e>> \notin own
          BY Zenon, <2>1 DEF DeviceInv, Stable
        <4>. QED
          BY Zenon, <2>1, <3>5, <4>1
      <3>8. /\ hcall.todo \ {d} \subseteq DevicesOf[c]
            /\ \A e \in DevicesOf[c] : <<c, e>> \in own' <=> e \notin hcall.todo \ {d}
        BY Zenon, <2>1, <2>2, <3>5 DEF DeviceInv
      <3>. HIDE DEF c
      <3>. QED
        BY Zenon, <2>1, <3>1, <3>4, <3>6, <3>7, <3>8 DEF DeviceInv, Stable, HasNone, HasAll
    <2>4. CASE /\ UNCHANGED <<ctx, own>>
               /\ hcall' = [hcall EXCEPT !.pc = "pcix", !.kind = "fail",
                              !.todo = {e \in Devices : <<hcall.cell, e>> \in own}]
      <3>1. /\ hcall'.pc = "pcix" /\ hcall'.cell = c
            /\ hcall'.todo = {e \in Devices : <<c, e>> \in own}
        BY Zenon, <2>0, <2>1, <2>4 DEF Hypercalls
      <3>. QED
        BY <2>1, <2>2, <2>4, <3>1 DEF DeviceInv, DeviceExclusive, Stable, HasNone, HasAll
    <2>. QED
      BY Zenon, <2>1, <2>3, <2>4
  <1>7. PageInv'
    BY <1>1, PageFacts DEF PageInv, PagesReturned, Lost, HeldPages, Uses
  <1>8. PinInv' /\ PortInv' /\ DomainInv'
    BY <1>1, PinFacts, PortFacts, DomainFacts
      DEF PinInv, HasAll, PortInv, PortsTaken, DomainInv, DomainsDistinct
  <1>9. PoolMove
    <2>1. TablesExact
      BY Zenon DEF DeviceInv, DeviceExclusive
    <2>2. /\ held' = held /\ other' = other
          /\ \/ tables' = tables
             \/ tables' = tables \cup {BusOf[d]} /\ (BusOf[d] \in tables \/ Free > 0)
      BY Zenon, <2>1, TakeDevice
    <2>3. CASE tables' = tables
      BY Zenon, <2>2, <2>3 DEF PoolMove
    <2>4. CASE tables' = tables \cup {BusOf[d]} /\ BusOf[d] \in tables
      BY Zenon, <2>2, <2>4 DEF PoolMove
    <2>5. CASE tables' = tables \cup {BusOf[d]} /\ Free > 0
      BY Zenon, <2>2, <2>5 DEF PoolMove
    <2>. QED
      BY Zenon, <2>2, <2>3, <2>4, <2>5
  <1>10. Spared
    <2>1. \A c \in created, e \in Devices : c # RootCell /\ <<c, e>> \in own => <<c, e>> \in own'
      BY Zenon DEF pci_cell_init
    <2>. QED
      BY <1>1, <2>1, PinFacts DEF Spared
  <1>. QED
    BY Zenon, <1>2, <1>4, <1>6, <1>7, <1>8, <1>9, <1>10 DEF Kept

\* vmx_cell_init: the pages of the EPT and of the APIC mapping, and the ports.
LEMMA VmxKeeps ==
  ASSUME X86TypeOK, CallInv, DeviceInv, PageInv, PinInv, PortInv, DomainInv, Counted,
         vmx_cell_init
  PROVE  Kept
  <1>1. /\ hcall.pc = "vmx"
        /\ hcall.kind = "create" /\ hcall.cell \in NonRoot \ created
        /\ UNCHANGED <<created, id, tables, other, ctx, own, silent, cached, pin>>
        /\ \/ hcall' = Call("free", "fail", hcall.cell, {}) /\ held' = held /\ port' = port
           \/ /\ hcall' = Call("free", "fail", hcall.cell, {}) /\ held' = held
              /\ port' = [port EXCEPT ![RootCell] = PortsBack(hcall.cell)]
           \/ /\ hcall' = Call("vtd", "create", hcall.cell, hcall.todo) /\ Free > 1
              /\ held' = held \cup {<<hcall.cell, "ept">>, <<hcall.cell, "apic">>}
              /\ port' = [port EXCEPT ![hcall.cell] = PortsOf[hcall.cell] \cup {PmTimer},
                                      ![RootCell] = port[RootCell] \ PortsOf[hcall.cell]]
    <2>1. hcall \in Hypercalls
      BY Zenon DEF X86TypeOK
    <2>. QED
      BY Zenon, <2>1 DEF Hypercalls, CallInv, NoCall, At, Call, vmx_cell_init, Go, Fail
  <1>. USE DEF At, Call, NoCall
  <1>2. hcall' \in Hypercalls /\ CallInv'
    BY <1>1, CallFacts DEF CallInv, Hypercalls
  <1>3. held' \in SUBSET HeldPages
    BY <1>1, PageFacts DEF HeldPages, Uses
  <1>4. X86TypeOK'
    BY SMTT(30), <1>1, <1>2, <1>3, TypeFacts DEF X86TypeOK, PortsBack
  <1>5. DeviceInv'
    BY <1>1, DeviceFacts DEF DeviceInv, DeviceExclusive, TablesExact, Stable, HasNone, HasAll
  <1>6. PageInv'
    BY <1>1, PageFacts DEF PageInv, PagesReturned, Lost, HeldPages, Uses
  <1>7. PinInv'
    BY <1>1, PinFacts DEF PinInv, HasAll
  <1>8. PortInv'
    BY <1>1, DisjointAssumption, PortFacts DEF PortInv, PortsTaken, PortsBack
  <1>9. DomainInv'
    BY <1>1, DomainFacts DEF DomainInv, DomainsDistinct
  <1>10. PoolMove
    BY Zenon, <1>1 DEF PoolMove
  <1>11. Spared
    BY <1>1, PinFacts DEF Spared
  <1>. QED
    BY Zenon, <1>2, <1>4, <1>5, <1>6, <1>7, <1>8, <1>9, <1>10, <1>11 DEF Kept

\* cell_init: the domain id, and a page for a large CPU set.
LEMMA InitKeeps ==
  ASSUME X86TypeOK, CallInv, DeviceInv, PageInv, PinInv, PortInv, DomainInv, Counted,
         cell_init
  PROVE  Kept
  <1>1. /\ hcall.pc = "init"
        /\ hcall.kind = "create" /\ hcall.cell \in NonRoot \ created
        /\ UNCHANGED <<created, tables, other, ctx, own, silent, cached, pin, port>>
        /\ id' = [id EXCEPT ![hcall.cell] = get_free_cell_id]
        /\ \/ hcall' = Call("vmx", "create", hcall.cell, hcall.todo) /\ held' = held
           \/ /\ hcall' = Call("vmx", "create", hcall.cell, hcall.todo) /\ Free > 0
              /\ held' = held \cup {<<hcall.cell, "cpus">>}
           \/ hcall' = Call("free", "fail", hcall.cell, hcall.todo) /\ held' = held
    <2>1. hcall \in Hypercalls
      BY Zenon DEF X86TypeOK
    <2>. QED
      BY Zenon, <2>1 DEF Hypercalls, CallInv, NoCall, At, Call, cell_init, Go, Hold
  <1>. USE DEF At, Call, NoCall
  <1>2. hcall' \in Hypercalls /\ CallInv'
    BY <1>1, CallFacts DEF CallInv, Hypercalls
  <1>3. held' \in SUBSET HeldPages
    BY <1>1, PageFacts DEF HeldPages, Uses
  <1>4. X86TypeOK'
    BY Zenon, <1>1, <1>2, <1>3, TypeFacts DEF X86TypeOK, Counted
  <1>5. DeviceInv'
    BY <1>1, DeviceFacts DEF DeviceInv, DeviceExclusive, TablesExact, Stable, HasNone, HasAll
  <1>6. PageInv'
    BY <1>1, PageFacts DEF PageInv, PagesReturned, Lost, HeldPages, Uses
  <1>7. PinInv'
    BY <1>1, PinFacts DEF PinInv, HasAll
  <1>8. PortInv'
    BY <1>1, PortFacts DEF PortInv, PortsTaken
  <1>9. DomainInv'
    BY <1>1, DomainFacts DEF DomainInv, DomainsDistinct, Counted
  <1>10. PoolMove
    BY Zenon, <1>1 DEF PoolMove
  <1>11. Spared
    BY <1>1, PinFacts DEF Spared
  <1>. QED
    BY Zenon, <1>2, <1>4, <1>5, <1>6, <1>7, <1>8, <1>9, <1>10, <1>11 DEF Kept

\* ioapic_cell_init and ioapic_root_cell_shrink.
LEMMA IoapicKeeps ==
  ASSUME X86TypeOK, CallInv, DeviceInv, PageInv, PinInv, PortInv, DomainInv, Counted,
         ioapic_cell_init
  PROVE  Kept
  <1>1. /\ hcall.pc = "pci"
        /\ hcall.kind = "create" /\ hcall.cell \in NonRoot \ created
        /\ UNCHANGED <<created, id, held, tables, other, ctx, own, silent, cached, port>>
        /\ hcall.todo = {} /\ hcall' = Call("map", "create", hcall.cell, hcall.todo)
        /\ pin' = [pin EXCEPT ![hcall.cell] = PinsOf[hcall.cell],
                              ![RootCell] = pin[RootCell] \ PinsOf[hcall.cell]]
    <2>1. hcall \in Hypercalls
      BY Zenon DEF X86TypeOK
    <2>. QED
      BY Zenon, <2>1 DEF Hypercalls, CallInv, NoCall, At, Call, ioapic_cell_init, Go
  <1>. USE DEF At, Call, NoCall
  <1>2. hcall' \in Hypercalls /\ CallInv'
    BY Zenon, <1>1, CallFacts DEF CallInv, Hypercalls
  <1>3. X86TypeOK'
    BY Zenon, <1>1, <1>2, PageFacts, TypeFacts DEF HeldPages, Uses, X86TypeOK
  <1>4. DeviceInv'
    BY <1>1, DeviceFacts DEF DeviceInv, DeviceExclusive, TablesExact, Stable, HasNone, HasAll
  <1>5. PageInv'
    BY Zenon, <1>1, PageFacts DEF PageInv, PagesReturned, Lost, HeldPages, Uses
  <1>6. PinInv'
    BY Zenon, <1>1, PinFacts DEF PinInv, HasAll
  <1>7. PortInv'
    BY Zenon, <1>1, PortFacts DEF PortInv, PortsTaken
  <1>8. DomainInv'
    BY Zenon, <1>1, DomainFacts DEF DomainInv, DomainsDistinct
  <1>9. PoolMove /\ Spared
    BY Zenon, <1>1, PinFacts DEF PoolMove, Spared
  <1>. QED
    BY Zenon, <1>2, <1>3, <1>4, <1>5, <1>6, <1>7, <1>8, <1>9 DEF Kept

\* The device array of pci_cell_init.
LEMMA ArrayKeeps ==
  ASSUME X86TypeOK, CallInv, DeviceInv, PageInv, PinInv, PortInv, DomainInv, Counted,
         PciArray
  PROVE  Kept
  <1>1. /\ hcall.pc = "array"
        /\ hcall.kind = "create" /\ hcall.cell \in NonRoot \ created
        /\ UNCHANGED <<created, id, tables, other, ctx, own, silent, cached, pin, port>>
        /\ \/ hcall' = Call("vtdx", "fail", hcall.cell, {}) /\ held' = held
           \/ /\ hcall' = Call("pci", "create", hcall.cell, DevicesOf[hcall.cell]) /\ Free > 0
              /\ held' = held \/ held' = held \cup {<<hcall.cell, "pci">>}
    <2>1. hcall \in Hypercalls
      BY Zenon DEF X86TypeOK
    <2>. QED
      BY Zenon, <2>1 DEF Hypercalls, CallInv, NoCall, At, Call, PciArray, Fail, Hold
  <1>. USE DEF At, Call, NoCall
  <1>2. hcall' \in Hypercalls /\ CallInv'
    BY <1>1, CallFacts DEF CallInv, Hypercalls
  <1>3. held' \in SUBSET HeldPages
    BY <1>1, PageFacts DEF HeldPages, Uses
  <1>4. X86TypeOK'
    BY Zenon, <1>1, <1>2, <1>3, TypeFacts DEF X86TypeOK
  <1>5. DeviceInv'
    BY <1>1, DeviceFacts DEF DeviceInv, DeviceExclusive, TablesExact, Stable, HasNone, HasAll
  <1>6. PageInv'
    BY SMTT(30), <1>1, PageFacts DEF PageInv, PagesReturned, Lost, HeldPages, Uses
  <1>7. PinInv' /\ PortInv' /\ DomainInv'
    BY <1>1, PinFacts, PortFacts, DomainFacts
      DEF PinInv, HasAll, PortInv, PortsTaken, DomainInv, DomainsDistinct
  <1>8. PoolMove
    BY Zenon, <1>1 DEF PoolMove
  <1>9. Spared
    BY <1>1, PinFacts DEF Spared
  <1>. QED
    BY Zenon, <1>2, <1>4, <1>5, <1>6, <1>7, <1>8, <1>9 DEF Kept

\* vtd_cell_init: the domain id fits, and there is a page.
LEMMA VtdKeeps ==
  ASSUME X86TypeOK, CallInv, DeviceInv, PageInv, PinInv, PortInv, DomainInv, Counted,
         vtd_cell_init
  PROVE  Kept
  <1>1. /\ hcall.pc = "vtd"
        /\ hcall.kind = "create" /\ hcall.cell \in NonRoot \ created
        /\ UNCHANGED <<created, id, tables, other, ctx, own, silent, cached, pin, port>>
        /\ \/ hcall' = Call("vmxx", "fail", hcall.cell, {}) /\ held' = held
           \/ /\ hcall' = Call("array", "create", hcall.cell, hcall.todo) /\ Free > 0
              /\ id[hcall.cell] < NumDid
              /\ held' = held \cup {<<hcall.cell, "vtd">>}
    <2>1. hcall \in Hypercalls
      BY Zenon DEF X86TypeOK
    <2>. QED
      BY Zenon, <2>1 DEF Hypercalls, CallInv, NoCall, At, Call, vtd_cell_init, Go, Fail, Hold
  <1>. USE DEF At, Call, NoCall
  <1>2. hcall' \in Hypercalls /\ CallInv'
    BY <1>1, CallFacts DEF CallInv, Hypercalls
  <1>3. held' \in SUBSET HeldPages
    BY <1>1, PageFacts DEF HeldPages, Uses
  <1>4. X86TypeOK'
    BY Zenon, <1>1, <1>2, <1>3, TypeFacts DEF X86TypeOK
  <1>5. DeviceInv'
    BY <1>1, DeviceFacts DEF DeviceInv, DeviceExclusive, TablesExact, Stable, HasNone, HasAll
  <1>6. PageInv'
    BY SMTT(30), <1>1, PageFacts DEF PageInv, PagesReturned, Lost, HeldPages, Uses
  <1>7. PinInv' /\ PortInv' /\ DomainInv'
    BY <1>1, PinFacts, PortFacts, DomainFacts
      DEF PinInv, HasAll, PortInv, PortsTaken, DomainInv, DomainsDistinct
  <1>8. PoolMove
    BY Zenon, <1>1 DEF PoolMove
  <1>9. Spared
    BY <1>1, PinFacts DEF Spared
  <1>. QED
    BY Zenon, <1>2, <1>4, <1>5, <1>6, <1>7, <1>8, <1>9 DEF Kept

\* cell_create: a page for the cell.
LEMMA CreateKeeps ==
  ASSUME X86TypeOK, CallInv, DeviceInv, PageInv, PinInv, PortInv, DomainInv, Counted,
         NEW c \in NonRoot, cell_create(c)
  PROVE  Kept
  <1>1. /\ hcall.pc = "idle"
        /\ hcall = NoCall
        /\ UNCHANGED <<created, id, tables, other, ctx, own, silent, cached, pin, port>>
        /\ c \notin created /\ Free > 0 /\ held' = held \cup {<<c, "cell">>}
        /\ hcall' = Call("init", "create", c, {})
    <2>1. hcall \in Hypercalls
      BY Zenon DEF X86TypeOK
    <2>. QED
      BY Zenon, <2>1 DEF Hypercalls, CallInv, NoCall, At, Call, cell_create
  <1>. USE DEF At, Call, NoCall
  <1>2. hcall' \in Hypercalls /\ CallInv'
    BY Zenon, <1>1, CallFacts DEF CallInv, Hypercalls
  <1>3. held' \in SUBSET HeldPages
    BY <1>1, PageFacts DEF HeldPages, Uses
  <1>4. X86TypeOK'
    BY Zenon, <1>1, <1>2, <1>3, TypeFacts DEF X86TypeOK
  <1>5. DeviceInv'
    BY SMTT(30), <1>1, DeviceFacts DEF DeviceInv, DeviceExclusive, TablesExact, Stable, HasNone, HasAll
  <1>6. PageInv'
    BY SMTT(30), <1>1, PageFacts DEF PageInv, PagesReturned, Lost, HeldPages, Uses
  <1>7. PinInv' /\ PortInv' /\ DomainInv'
    BY <1>1, PinFacts, PortFacts, DomainFacts
      DEF PinInv, HasAll, PortInv, PortsTaken, DomainInv, DomainsDistinct
  <1>8. PoolMove
    BY Zenon, <1>1 DEF PoolMove
  <1>9. Spared
    BY Zenon, <1>1, PinFacts DEF Spared
  <1>. QED
    BY Zenon, <1>2, <1>4, <1>5, <1>6, <1>7, <1>8, <1>9 DEF Kept

\* Mapping the memory regions.
LEMMA MapKeeps ==
  ASSUME X86TypeOK, CallInv, DeviceInv, PageInv, PinInv, PortInv, DomainInv, Counted,
         MapRegions
  PROVE  Kept
  <1>1. /\ hcall.pc = "map"
        /\ hcall.kind = "create" /\ hcall.cell \in NonRoot \ created
        /\ UNCHANGED <<created, id, held, tables, other, ctx, own, silent, cached, pin, port>>
        /\ \/ hcall' = Call("commit", "create", hcall.cell, hcall.todo)
           \/ hcall' = Call("ioapicx", "undo", hcall.cell, hcall.todo)
    <2>1. hcall \in Hypercalls
      BY Zenon DEF X86TypeOK
    <2>. QED
      BY Zenon, <2>1 DEF Hypercalls, CallInv, NoCall, At, Call, MapRegions, Go
  <1>. USE DEF At, Call, NoCall
  <1>2. hcall' \in Hypercalls /\ CallInv'
    BY <1>1, CallFacts DEF CallInv, Hypercalls
  <1>3. X86TypeOK'
    BY Zenon, <1>1, <1>2, PageFacts, TypeFacts DEF HeldPages, Uses, X86TypeOK
  <1>4. DeviceInv'
    BY <1>1, DeviceFacts DEF DeviceInv, DeviceExclusive, TablesExact, Stable, HasNone, HasAll
  <1>5. PageInv'
    BY SMTT(30), <1>1, PageFacts DEF PageInv, PagesReturned, Lost, HeldPages, Uses
  <1>6. PinInv' /\ PortInv' /\ DomainInv'
    BY <1>1, PinFacts, PortFacts, DomainFacts
      DEF PinInv, HasAll, PortInv, PortsTaken, DomainInv, DomainsDistinct
  <1>7. PoolMove /\ Spared
    BY <1>1, PinFacts DEF PoolMove, Spared
  <1>. QED
    BY Zenon, <1>2, <1>3, <1>4, <1>5, <1>6, <1>7 DEF Kept

\* vtd_config_commit: the cell exists, or has still to be freed.
LEMMA CommitKeeps ==
  ASSUME X86TypeOK, CallInv, DeviceInv, PageInv, PinInv, PortInv, DomainInv, Counted,
         vtd_config_commit
  PROVE  Kept
  <1>1. /\ hcall.pc = "commit"
        /\ hcall.kind \in {"create", "undo", "destroy"} /\ hcall.cell \in NonRoot
        /\ hcall.cell \in created <=> hcall.kind = "destroy"
        /\ UNCHANGED <<id, held, tables, other, ctx, own, silent, pin, port>>
        /\ cached' = {e \in cached : e[2] \notin {id[hcall.cell], id[RootCell]}}
        /\ \/ /\ hcall.kind = "create" /\ hcall' = NoCall
              /\ created' = created \cup {hcall.cell}
           \/ /\ hcall.kind # "create" /\ hcall' = Call("free", hcall.kind, hcall.cell, hcall.todo)
              /\ created' = created
    <2>1. hcall \in Hypercalls
      BY Zenon DEF X86TypeOK
    <2>. QED
      BY Zenon, <2>1 DEF Hypercalls, CallInv, NoCall, At, Call, vtd_config_commit, Go
  <1>. USE DEF At, Call, NoCall
  <1>2. hcall' \in Hypercalls /\ CallInv'
    BY <1>1, CallFacts DEF CallInv, Hypercalls
  <1>3. X86TypeOK'
    BY Zenon, <1>1, <1>2, PageFacts, TypeFacts DEF HeldPages, Uses, X86TypeOK
  <1>4. DeviceInv'
    BY SMTT(30), <1>1, DeviceFacts DEF DeviceInv, DeviceExclusive, TablesExact, Stable, HasNone, HasAll
  <1>5. PageInv'
    BY SMTT(30), <1>1, PageFacts DEF PageInv, PagesReturned, Lost, HeldPages, Uses
  <1>6. PinInv'
    BY <1>1, PinFacts DEF PinInv, HasAll
  <1>7. PortInv'
    BY <1>1, PortFacts DEF PortInv, PortsTaken
  <1>8. DomainInv'
    BY <1>1, DomainFacts DEF DomainInv, DomainsDistinct
  <1>9. PoolMove /\ Spared
    BY <1>1, PinFacts DEF PoolMove, Spared
  <1>. QED
    BY Zenon, <1>2, <1>3, <1>4, <1>5, <1>6, <1>7, <1>8, <1>9 DEF Kept

\* pci_cell_exit, one device.
LEMMA ReturnKeeps ==
  ASSUME X86TypeOK, CallInv, DeviceInv, PageInv, PinInv, PortInv, DomainInv, Counted,
         NEW d \in Devices, ReturnDevice(d)
  PROVE  Kept
  <1>1. /\ hcall.pc = "pcix"
        /\ hcall.kind \in {"fail", "undo", "destroy"} /\ hcall.cell \in NonRoot
        /\ hcall.cell \in created <=> hcall.kind = "destroy"
        /\ UNCHANGED <<created, id, held, other, cached, pin, port>>
        /\ d \in hcall.todo /\ silent' = silent \cup {d}
        /\ hcall' = Call("pcix", hcall.kind, hcall.cell, hcall.todo \ {d})
    BY Zenon DEF ReturnDevice, pci_remove_device, X86TypeOK, Hypercalls, CallInv, NoCall, At,
       Call
  <1>. USE DEF At, Call, NoCall
  <1>2. hcall' \in Hypercalls /\ CallInv'
    BY Zenon, <1>1, CallFacts DEF CallInv, Hypercalls
  <1>3. held' \in SUBSET HeldPages
    BY Zenon, <1>1, PageFacts
  <1>4. X86TypeOK'
    <2>. USE <1>2, <1>3, TypeFacts
    <2>1. /\ ctx' \in [Devices -> CellsAndRoot \cup {NoCell}]
          /\ own' \in SUBSET (CellsAndRoot \X Devices) /\ silent' \in SUBSET Devices
      BY
        DEF X86TypeOK, ReturnDevice, vtd_remove_pci_device, vtd_add_pci_device, SetVtd, Now,
             pci_remove_device
    <2>. QED
      BY Zenon, <2>1, <1>1 DEF X86TypeOK
  <1>5. TablesExact'
    <2>1. TablesExact
      BY Zenon DEF DeviceInv, DeviceExclusive
    <2>. QED
      BY Zenon, <2>1, GiveDevice
  <1>6. DeviceInv'
    <2>. USE <1>5, DeviceFacts
    <2>. DEFINE c == hcall.cell
                back == IF d \in DevicesOf[RootCell] THEN RootCell ELSE NoCell
    <2>0. hcall \in Hypercalls /\ TablesExact
      BY Zenon DEF X86TypeOK, DeviceInv, DeviceExclusive
    <2>1. /\ hcall.pc = "pcix" /\ d \in hcall.todo /\ ctx[d] = c /\ c \in NonRoot
          /\ created' = created /\ hcall'.cell = c /\ hcall'.pc = "pcix" /\ hcall'.kind = hcall.kind
          /\ ctx' = [ctx EXCEPT ![d] = back] /\ hcall'.todo = hcall.todo \ {d}
          /\ own' = IF d \in DevicesOf[RootCell] THEN own \cup {<<RootCell, d>>} ELSE own
      BY <2>0, GiveDevice DEF Hypercalls
    <2>. QED
      BY <2>1 DEF DeviceInv, DeviceExclusive, Stable, HasNone, HasAll
  <1>7. PageInv'
    BY Zenon, <1>1, PageFacts DEF PageInv, PagesReturned, Lost, HeldPages, Uses
  <1>8. PinInv' /\ PortInv' /\ DomainInv'
    BY <1>1, PinFacts, PortFacts, DomainFacts
      DEF PinInv, HasAll, PortInv, PortsTaken, DomainInv, DomainsDistinct
  <1>9. PoolMove
    <2>1. TablesExact
      BY Zenon DEF DeviceInv, DeviceExclusive
    <2>2. held' = held /\ other' = other /\ tables' \subseteq tables
      BY Zenon, <2>1, GiveDevice
    <2>. QED
      BY Zenon, <2>2 DEF PoolMove
  <1>10. Spared
    <2>1. own \subseteq own'
      BY Zenon DEF ReturnDevice
    <2>. QED
      BY Zenon, <1>1, <2>1 DEF Spared
  <1>. QED
    BY Zenon, <1>2, <1>4, <1>6, <1>7, <1>8, <1>9, <1>10 DEF Kept

\* The end of a cell, or of a creation that failed.
LEMMA FreeKeeps ==
  ASSUME X86TypeOK, CallInv, DeviceInv, PageInv, PinInv, PortInv, DomainInv, Counted,
         free_cell
  PROVE  Kept
  <1>1. /\ hcall.pc = "free"
        /\ hcall.kind \in {"fail", "undo", "destroy"} /\ hcall.cell \in NonRoot
        /\ hcall.cell \in created <=> hcall.kind = "destroy"
        /\ UNCHANGED <<tables, other, ctx, own, silent, cached>>
        /\ hcall' = NoCall /\ created' = created \ {hcall.cell}
        /\ \/ held' = held \ ({hcall.cell} \X {"cell", "cpus"})
           \/ held' = (held \ ({hcall.cell} \X {"cell", "cpus"}))
                        \cup {<<NoCell, Cardinality(Lost) + 1>>}
        /\ id' = [id EXCEPT ![hcall.cell] = 0]
        /\ pin' = [pin EXCEPT ![hcall.cell] = {}]
        /\ port' = [port EXCEPT ![hcall.cell] = {}]
    <2>1. hcall \in Hypercalls
      BY Zenon DEF X86TypeOK
    <2>. QED
      BY Zenon, <2>1 DEF Hypercalls, CallInv, NoCall, At, Call, free_cell
  <1>. USE DEF At, Call, NoCall
  <1>2. hcall' \in Hypercalls /\ CallInv'
    BY Zenon, <1>1, CallFacts DEF CallInv, Hypercalls
  <1>3. held' \in SUBSET HeldPages
    <2>1. Cardinality(Lost) \in Nat
      BY Zenon DEF Counted
    <2>. QED
      BY <1>1, <2>1, PageFacts DEF HeldPages, Uses
  <1>4. X86TypeOK'
    BY Zenon, <1>1, <1>2, <1>3, TypeFacts DEF X86TypeOK
  <1>5. DeviceInv'
    BY <1>1, DeviceFacts DEF DeviceInv, DeviceExclusive, TablesExact, Stable, HasNone, HasAll
  <1>6. PageInv'
    <2>. USE PageFacts
    <2>. DEFINE c == hcall.cell
                rest == held \ ({c} \X {"cell", "cpus"})
    <2>1. /\ hcall.pc = "free" /\ c \in NonRoot /\ hcall' = NoCall /\ created' = created \ {c}
          /\ held' = rest \/ held' = rest \cup {<<NoCell, Cardinality(Lost) + 1>>}
      BY Zenon, <1>1
    <2>2. \A e \in rest : e[1] # c
      BY <2>1 DEF PageInv, HeldPages, Uses
    <2>3. \A e \in held' : e \in rest \/ e[1] = NoCell
      BY <2>1
    <2>4. \A b \in created' : <<b, "cell">> \in held'
      BY Zenon, <2>1 DEF PageInv
    <2>. QED
      BY Zenon, <2>1, <2>2, <2>3, <2>4 DEF PageInv, PagesReturned, Lost
  <1>7. PinInv'
    BY Zenon, <1>1, PinFacts DEF PinInv, HasAll
  <1>8. PortInv'
    BY Zenon, <1>1, PortFacts DEF PortInv, PortsTaken
  <1>9. DomainInv'
    BY <1>1, DomainFacts DEF DomainInv, DomainsDistinct
  <1>10. PoolMove
    <2>. DEFINE rest == held \ ({hcall.cell} \X {"cell", "cpus"})
                first == <<hcall.cell, "cell">>
    <2>1. first \in held /\ rest \subseteq held \ {first}
      BY <1>1, PageFacts DEF PageInv
    <2>2. \E y : held' \subseteq (held \ {first}) \cup {y}
      <3>1. CASE held' = rest
        BY Zenon, <2>1, <3>1
      <3>2. CASE held' = rest \cup {<<NoCell, Cardinality(Lost) + 1>>}
        BY Zenon, <2>1, <3>2
      <3>. QED
        BY Zenon, <1>1, <3>1, <3>2
    <2>3. tables' = tables /\ other' = other
      BY Zenon, <1>1
    <2>. HIDE DEF rest, first
    <2>. QED
      BY Zenon, <2>1, <2>2, <2>3 DEF PoolMove
  <1>11. Spared
    BY Zenon, <1>1, PinFacts DEF Spared
  <1>. QED
    BY Zenon, <1>2, <1>4, <1>5, <1>6, <1>7, <1>8, <1>9, <1>10, <1>11 DEF Kept

-------------------------------------------------------------------------------
(* The other steps of cell_destroy, the surroundings, and all steps together. *)

\* What was taken comes back.
LEMMA Returned ==
  ASSUME X86Inv
  PROVE  ResourcesReturned
  <1>1. PagesReturned
    BY Zenon DEF X86Inv, PageInv
  <1>2. ASSUME At("idle")
        PROVE  {d \in Devices : <<RootCell, d>> \in own}
                 = DevicesOf[RootCell] \ UNION {DevicesOf[c] : c \in created}
    <2>1. hcall.pc = "idle" /\ hcall.cell = NoCell /\ created \subseteq NonRoot
      BY <1>2 DEF X86Inv, CallInv, NoCall, X86TypeOK, At
    <2>2. \A c \in NonRoot : \A d \in Devices :
            <<c, d>> \in own <=> c \in created /\ d \in DevicesOf[c]
      BY Zenon, <2>1, Lists DEF X86Inv, DeviceInv
    <2>3. \A d \in Devices : <<RootCell, d>> \in own <=>
            d \in DevicesOf[RootCell] /\ \A c \in NonRoot : <<c, d>> \notin own
      BY Zenon, <2>1 DEF X86Inv, DeviceInv, Stable
    <2>4. DevicesOf[RootCell] \subseteq Devices
      BY Zenon, ResourceAssumption DEF CellsAndRoot
    <2>5. \A d \in Devices : <<RootCell, d>> \in own <=>
            d \in DevicesOf[RootCell] /\ \A c \in created : d \notin DevicesOf[c]
      BY Zenon, <2>1, <2>2, <2>3
    <2>. QED
      BY Zenon, <2>4, <2>5
  <1>3. ASSUME At("idle")
        PROVE  /\ pin[RootCell] = PinsOf[RootCell] \ UNION {PinsOf[c] : c \in created}
               /\ port[RootCell] = (PortsOf[RootCell] \ UNION {PortsOf[c] : c \in created})
                                     \cup {PmTimer}
    <2>1. hcall.pc = "idle" /\ hcall.cell = NoCell /\ created \subseteq NonRoot
      BY <1>3 DEF X86Inv, CallInv, NoCall, X86TypeOK, At
    <2>2. /\ pin[RootCell] \subseteq Pins /\ PinsOf[RootCell] \subseteq Pins
          /\ port[RootCell] \subseteq Ports \cup {PmTimer} /\ PortsOf[RootCell] \subseteq Ports
      BY Zenon, ResourceAssumption DEF X86Inv, X86TypeOK, CellsAndRoot
    <2>3. \A p \in Pins : p \in pin[RootCell] <=>
            p \in PinsOf[RootCell] /\ \A c \in created : p \notin PinsOf[c]
      BY Zenon, <2>1, Lists DEF X86Inv, PinInv, HasAll, At
    <2>4. \A p \in Ports \cup {PmTimer} : p \in port[RootCell] <=>
            p = PmTimer \/ (p \in PortsOf[RootCell] /\ \A c \in created : p \notin PortsOf[c])
      BY Zenon, <2>1, Lists DEF X86Inv, PortInv, PortsTaken, At
    <2>5. pin[RootCell] = PinsOf[RootCell] \ UNION {PinsOf[c] : c \in created}
      BY <2>2, <2>3
    <2>6. port[RootCell] = (PortsOf[RootCell] \ UNION {PortsOf[c] : c \in created})
                             \cup {PmTimer}
      BY <2>2, <2>4
    <2>. QED
      BY Zenon, <2>5, <2>6
  <1>. QED
    BY Zenon, <1>1, <1>2, <1>3 DEF ResourcesReturned, RootRegains

\* ioapic_cell_exit: the pins of both configurations go back.
LEMMA IoapicExitKeeps ==
  ASSUME X86TypeOK, CallInv, DeviceInv, PageInv, PinInv, PortInv, DomainInv, Counted,
         ioapic_cell_exit
  PROVE  Kept
  <1>1. /\ hcall.pc = "ioapicx"
        /\ hcall.kind \in {"undo", "destroy"} /\ hcall.cell \in NonRoot
        /\ hcall.cell \in created <=> hcall.kind = "destroy"
        /\ UNCHANGED <<created, id, held, tables, other, ctx, own, silent, cached, port>>
        /\ hcall' = Call("pcix", hcall.kind, hcall.cell, 
                        {d \in Devices : <<hcall.cell, d>> \in own})
        /\ pin' = [pin EXCEPT ![RootCell] =
                     pin[RootCell] \cup (PinsOf[hcall.cell] \cap PinsOf[RootCell])]
    <2>1. hcall \in Hypercalls
      BY Zenon DEF X86TypeOK
    <2>. QED
      BY Zenon, <2>1 DEF Hypercalls, CallInv, NoCall, At, Call, ioapic_cell_exit
  <1>. USE DEF At, Call, NoCall
  <1>2. hcall' \in Hypercalls /\ CallInv'
    <2>. USE CallFacts
    <2>1. {e \in Devices : <<hcall.cell, e>> \in own} \subseteq Devices
      OBVIOUS
    <2>2. PICK t \in SUBSET Devices : hcall' = Call("pcix", hcall.kind, hcall.cell, t)
      BY Zenon, <2>1, <1>1
    <2>. QED
      BY <2>2, <1>1 DEF CallInv, Hypercalls
  <1>3. X86TypeOK'
    BY Zenon, <1>1, <1>2, PageFacts, TypeFacts DEF HeldPages, Uses, X86TypeOK
  <1>4. DeviceInv'
    BY <1>1, DeviceFacts DEF DeviceInv, DeviceExclusive, TablesExact, Stable, HasNone, HasAll
  <1>5. PageInv'
    BY ZenonT(40), <1>1, PageFacts DEF PageInv, PagesReturned, Lost, HeldPages, Uses
  <1>6. PinInv'
    BY <1>1, DisjointAssumption, PinFacts DEF PinInv, HasAll
  <1>7. PortInv'
    BY Zenon, <1>1, PortFacts DEF PortInv, PortsTaken
  <1>8. DomainInv'
    BY Zenon, <1>1, DomainFacts DEF DomainInv, DomainsDistinct
  <1>9. PoolMove /\ Spared
    BY Zenon, <1>1, PinFacts DEF PoolMove, Spared
  <1>. QED
    BY Zenon, <1>2, <1>3, <1>4, <1>5, <1>6, <1>7, <1>8, <1>9 DEF Kept

\* vmx_cell_exit: the ports of both configurations go back.
LEMMA VmxExitKeeps ==
  ASSUME X86TypeOK, CallInv, DeviceInv, PageInv, PinInv, PortInv, DomainInv, Counted,
         vmx_cell_exit
  PROVE  Kept
  <1>1. /\ hcall.pc = "vmxx"
        /\ hcall.kind \in {"fail", "undo", "destroy"} /\ hcall.cell \in NonRoot
        /\ hcall.cell \in created <=> hcall.kind = "destroy"
        /\ UNCHANGED <<created, id, tables, other, ctx, own, silent, cached, pin>>
        /\ \/ hcall.kind = "fail" /\ hcall' = Call("free", "fail", hcall.cell, hcall.todo)
           \/ hcall.kind # "fail" /\ hcall' = Call("commit", hcall.kind, hcall.cell, hcall.todo)
        /\ held' = held \ ({hcall.cell} \X {"ept", "apic"})
        /\ port' = [port EXCEPT ![RootCell] = PortsBack(hcall.cell)]
    <2>1. hcall \in Hypercalls
      BY Zenon DEF X86TypeOK
    <2>. QED
      BY Zenon, <2>1 DEF Hypercalls, CallInv, NoCall, At, Call, vmx_cell_exit, Go, Drop
  <1>. USE DEF At, Call, NoCall
  <1>2. hcall' \in Hypercalls /\ CallInv'
    BY <1>1, CallFacts DEF CallInv, Hypercalls
  <1>3. X86TypeOK'
    BY Zenon, <1>1, <1>2, PageFacts, TypeFacts DEF HeldPages, Uses, X86TypeOK, PortsBack
  <1>4. DeviceInv'
    BY SMTT(30), <1>1, DeviceFacts DEF DeviceInv, DeviceExclusive, TablesExact, Stable, HasNone, HasAll
  <1>5. PageInv'
    BY SMTT(30), <1>1, PageFacts DEF PageInv, PagesReturned, Lost, HeldPages, Uses
  <1>6. PinInv'
    BY SMTT(30), <1>1, PinFacts DEF PinInv, HasAll
  <1>7. PortInv'
    BY SMTT(30), <1>1, DisjointAssumption, PortFacts DEF PortInv, PortsTaken, PortsBack
  <1>8. DomainInv'
    BY SMTT(30), <1>1, DomainFacts DEF DomainInv, DomainsDistinct
  <1>9. PoolMove /\ Spared
    BY <1>1, PinFacts DEF PoolMove, Spared
  <1>. QED
    BY Zenon, <1>2, <1>3, <1>4, <1>5, <1>6, <1>7, <1>8, <1>9 DEF Kept

\* pci_cell_exit, after the loop.
LEMMA PciExitKeeps ==
  ASSUME X86TypeOK, CallInv, DeviceInv, PageInv, PinInv, PortInv, DomainInv, Counted,
         pci_cell_exit
  PROVE  Kept
  <1>1. /\ hcall.pc = "pcix"
        /\ hcall.kind \in {"fail", "undo", "destroy"} /\ hcall.cell \in NonRoot
        /\ hcall.cell \in created <=> hcall.kind = "destroy"
        /\ UNCHANGED <<created, id, tables, other, ctx, silent, cached, pin, port>>
        /\ hcall.todo = {} /\ hcall' = Call("vtdx", hcall.kind, hcall.cell, hcall.todo)
        /\ held' = held \ ({hcall.cell} \X {"pci"})
        /\ own' = own \ ({hcall.cell} \X Devices)
    <2>1. hcall \in Hypercalls
      BY Zenon DEF X86TypeOK
    <2>. QED
      BY Zenon, <2>1 DEF Hypercalls, CallInv, NoCall, At, Call, pci_cell_exit, Go, Drop
  <1>. USE DEF At, Call, NoCall
  <1>2. hcall' \in Hypercalls /\ CallInv'
    BY Zenon, <1>1, CallFacts DEF CallInv, Hypercalls
  <1>3. X86TypeOK'
    BY Zenon, <1>1, <1>2, PageFacts, TypeFacts DEF HeldPages, Uses, X86TypeOK
  <1>4. DeviceInv'
    BY <1>1, DeviceFacts DEF DeviceInv, DeviceExclusive, TablesExact, Stable, HasNone, HasAll
  <1>5. PageInv'
    BY Zenon, <1>1, PageFacts DEF PageInv, PagesReturned, Lost, HeldPages, Uses
  <1>6. PinInv' /\ PortInv' /\ DomainInv'
    BY <1>1, PinFacts, PortFacts, DomainFacts
      DEF PinInv, HasAll, PortInv, PortsTaken, DomainInv, DomainsDistinct
  <1>7. PoolMove /\ Spared
    BY Zenon, <1>1, PinFacts DEF PoolMove, Spared
  <1>. QED
    BY Zenon, <1>2, <1>3, <1>4, <1>5, <1>6, <1>7 DEF Kept

\* vtd_cell_exit.
LEMMA VtdExitKeeps ==
  ASSUME X86TypeOK, CallInv, DeviceInv, PageInv, PinInv, PortInv, DomainInv, Counted,
         vtd_cell_exit
  PROVE  Kept
  <1>1. /\ hcall.pc = "vtdx"
        /\ hcall.kind \in {"fail", "undo", "destroy"} /\ hcall.cell \in NonRoot
        /\ hcall.cell \in created <=> hcall.kind = "destroy"
        /\ UNCHANGED <<created, id, tables, other, ctx, own, silent, cached, pin, port>>
        /\ hcall' = Call("vmxx", hcall.kind, hcall.cell, hcall.todo)
        /\ held' = held \ ({hcall.cell} \X {"vtd"})
    <2>1. hcall \in Hypercalls
      BY Zenon DEF X86TypeOK
    <2>. QED
      BY Zenon, <2>1 DEF Hypercalls, CallInv, NoCall, At, Call, vtd_cell_exit, Go, Drop
  <1>. USE DEF At, Call, NoCall
  <1>2. hcall' \in Hypercalls /\ CallInv'
    BY Zenon, <1>1, CallFacts DEF CallInv, Hypercalls
  <1>3. X86TypeOK'
    BY Zenon, <1>1, <1>2, PageFacts, TypeFacts DEF HeldPages, Uses, X86TypeOK
  <1>4. DeviceInv'
    BY <1>1, DeviceFacts DEF DeviceInv, DeviceExclusive, TablesExact, Stable, HasNone, HasAll
  <1>5. PageInv'
    BY Zenon, <1>1, PageFacts DEF PageInv, PagesReturned, Lost, HeldPages, Uses
  <1>6. PinInv' /\ PortInv' /\ DomainInv'
    BY <1>1, PinFacts, PortFacts, DomainFacts
      DEF PinInv, HasAll, PortInv, PortsTaken, DomainInv, DomainsDistinct
  <1>7. PoolMove /\ Spared
    BY Zenon, <1>1, PinFacts DEF PoolMove, Spared
  <1>. QED
    BY Zenon, <1>2, <1>3, <1>4, <1>5, <1>6, <1>7 DEF Kept

\* cell_destroy.
LEMMA DestroyKeeps ==
  ASSUME X86TypeOK, CallInv, DeviceInv, PageInv, PinInv, PortInv, DomainInv, Counted,
         NEW c \in NonRoot, cell_destroy(c)
  PROVE  Kept
  <1>1. /\ hcall.pc = "idle"
        /\ hcall = NoCall
        /\ UNCHANGED <<created, id, held, tables, other, ctx, own, silent, cached, pin, port>>
        /\ c \in created /\ hcall' = Call("ioapicx", "destroy", c, {})
    <2>1. hcall \in Hypercalls
      BY Zenon DEF X86TypeOK
    <2>. QED
      BY Zenon, <2>1 DEF Hypercalls, CallInv, NoCall, At, Call, cell_destroy
  <1>. USE DEF At, Call, NoCall
  <1>2. hcall' \in Hypercalls /\ CallInv'
    BY Zenon, <1>1, CallFacts DEF CallInv, Hypercalls
  <1>3. X86TypeOK'
    BY Zenon, <1>1, <1>2, PageFacts, TypeFacts DEF HeldPages, Uses, X86TypeOK
  <1>4. DeviceInv'
    BY <1>1, DeviceFacts DEF DeviceInv, DeviceExclusive, TablesExact, Stable, HasNone, HasAll
  <1>5. PageInv'
    BY Zenon, <1>1, PageFacts DEF PageInv, PagesReturned, Lost, HeldPages, Uses
  <1>6. PinInv' /\ PortInv' /\ DomainInv'
    BY <1>1, PinFacts, PortFacts, DomainFacts
      DEF PinInv, HasAll, PortInv, PortsTaken, DomainInv, DomainsDistinct
  <1>7. PoolMove /\ Spared
    BY Zenon, <1>1, PinFacts DEF PoolMove, Spared
  <1>. QED
    BY Zenon, <1>2, <1>3, <1>4, <1>5, <1>6, <1>7 DEF Kept

\* A device that uses its context entry.
LEMMA DmaKeeps ==
  ASSUME X86TypeOK, CallInv, DeviceInv, PageInv, PinInv, PortInv, DomainInv, Counted,
         NEW d \in Devices, DeviceDma(d)
  PROVE  Kept
  <1>. USE DEF At, Call, NoCall, DeviceDma
  <1>1. hcall' \in Hypercalls /\ CallInv'
    BY Zenon, CallFacts DEF CallInv, Hypercalls
  <1>2. X86TypeOK'
    BY SMTT(30), <1>1, PageFacts, TypeFacts DEF HeldPages, Uses, X86TypeOK
  <1>3. DeviceInv'
    BY DeviceFacts DEF DeviceInv, DeviceExclusive, TablesExact, Stable, HasNone, HasAll
  <1>4. PageInv'
    BY Zenon, PageFacts DEF PageInv, PagesReturned, Lost, HeldPages, Uses
  <1>5. PinInv' /\ PortInv' /\ DomainInv'
    BY PinFacts, PortFacts, DomainFacts
      DEF PinInv, HasAll, PortInv, PortsTaken, DomainInv, DomainsDistinct
  <1>6. PoolMove /\ Spared
    BY Zenon, PinFacts DEF PoolMove, Spared
  <1>. QED
    BY Zenon, <1>1, <1>2, <1>3, <1>4, <1>5, <1>6 DEF Kept

\* The other users of the pool.
LEMMA OtherKeeps ==
  ASSUME X86TypeOK, CallInv, DeviceInv, PageInv, PinInv, PortInv, DomainInv, Counted,
         OtherPages
  PROVE  Kept
  <1>. USE DEF At, Call, NoCall, OtherPages
  <1>1. hcall' \in Hypercalls /\ CallInv'
    BY Zenon, CallFacts DEF CallInv, Hypercalls
  <1>2. X86TypeOK'
    BY Zenon, <1>1, PageFacts, TypeFacts DEF HeldPages, Uses, X86TypeOK
  <1>3. DeviceInv'
    BY DeviceFacts DEF DeviceInv, DeviceExclusive, TablesExact, Stable, HasNone, HasAll
  <1>4. PageInv'
    BY Zenon, PageFacts DEF PageInv, PagesReturned, Lost, HeldPages, Uses
  <1>5. PinInv' /\ PortInv' /\ DomainInv'
    BY PinFacts, PortFacts, DomainFacts
      DEF PinInv, HasAll, PortInv, PortsTaken, DomainInv, DomainsDistinct
  <1>6. PoolMove /\ Spared
    BY Zenon, ResourceAssumption, PinFacts DEF PoolMove, Spared
  <1>. QED
    BY Zenon, <1>1, <1>2, <1>3, <1>4, <1>5, <1>6 DEF Kept

\* No step.
LEMMA StutterKeeps ==
  ASSUME X86TypeOK, CallInv, DeviceInv, PageInv, PinInv, PortInv, DomainInv,
         UNCHANGED x86Vars
  PROVE  Kept
  <1>. USE DEF x86Vars
  <1>1. X86TypeOK' /\ CallInv'
    BY Zenon DEF X86TypeOK, CallInv, At
  <1>2. DeviceInv'
    <2>1. DeviceExclusive' <=> DeviceExclusive
      BY Zenon DEF DeviceExclusive, TablesExact, Stable
    <2>2. \A c : Stable(c)' <=> Stable(c)
      BY Zenon DEF Stable
    <2>3. (HasNone' <=> HasNone) /\ (HasAll' <=> HasAll)
      BY Zenon DEF HasNone, HasAll, At
    <2>4. QED
      BY Zenon, <2>1, <2>2, <2>3 DEF DeviceInv, At
  <1>3. PageInv' /\ PoolMove /\ Spared
    BY Zenon DEF PageInv, PagesReturned, Lost, PoolMove, Spared, At
  <1>4. PinInv' /\ PortInv' /\ DomainInv'
    BY ZenonT(30) DEF PinInv, PortInv, DomainInv, DomainsDistinct, PortsTaken, HasAll, At
  <1>. QED
    BY Zenon, <1>1, <1>2, <1>3, <1>4 DEF Kept

\* Every step of the hypercalls and of their surroundings.
LEMMA X86Keeps ==
  ASSUME X86TypeOK, CallInv, DeviceInv, PageInv, PinInv, PortInv, DomainInv, Counted,
         [X86Next]_x86Vars
  PROVE  Kept
  <1>1. CASE \E c \in NonRoot : cell_create(c) \/ cell_destroy(c)
    BY Zenon, <1>1, CreateKeeps, DestroyKeeps
  <1>2. CASE CreateStep
    BY Zenon, <1>2, InitKeeps, VmxKeeps, VtdKeeps, ArrayKeeps, TakeKeeps, IoapicKeeps, MapKeeps,
       CommitKeeps DEF CreateStep
  <1>3. CASE DestroyStep
    BY Zenon, <1>3, IoapicExitKeeps, ReturnKeeps, PciExitKeeps, VtdExitKeeps, VmxExitKeeps,
       FreeKeeps DEF DestroyStep
  <1>4. CASE (\E d \in Devices : DeviceDma(d)) \/ OtherPages \/ UNCHANGED x86Vars
    BY Zenon, <1>4, DmaKeeps, OtherKeeps, StutterKeeps
  <1>. QED
    BY Zenon, <1>1, <1>2, <1>3, <1>4 DEF X86Next

-----------------------------------------------------------------------------
(* The context cache of the IOMMU.                                         *)

\* A context entry names the root cell, if that lists the device, or a cell that lists
\* it and exists or is in the making.
LEMMA Location ==
  ASSUME X86TypeOK, CallInv, DeviceInv, NEW d \in Devices
  PROVE  \/ ctx[d] = NoCell
         \/ ctx[d] = RootCell /\ d \in DevicesOf[RootCell]
         \/ /\ ctx[d] \in NonRoot /\ d \in DevicesOf[ctx[d]] /\ <<ctx[d], d>> \in own
            /\ ctx[d] \in created \cup {hcall.cell}
  <1>1. ctx[d] \in NonRoot \cup {RootCell, NoCell}
    BY Zenon DEF X86TypeOK, CellsAndRoot
  <1>2. CASE ctx[d] = RootCell
    <2>1. Stable(RootCell)
      BY Zenon, DisjointAssumption DEF Stable, CallInv, At, CellsAndRoot, NoCall
    <2>. QED
      BY Zenon, <1>2, <2>1 DEF DeviceInv, DeviceExclusive, CellsAndRoot
  <1>3. CASE ctx[d] \in NonRoot
    <2>1. <<ctx[d], d>> \in own
      BY Zenon, <1>3 DEF DeviceInv, DeviceExclusive, CellsAndRoot, Stable, At
    <2>. QED
      BY Zenon, <1>3, <2>1 DEF DeviceInv
  <1>. QED
    BY Zenon, <1>1, <1>2, <1>3

\* The cell of the hypercall is in no context entry while it has no device.
LEMMA NotYet ==
  ASSUME X86TypeOK, CallInv, DeviceInv, HasNone, NEW d \in Devices
  PROVE  ctx[d] # hcall.cell /\ <<hcall.cell, d>> \notin own
  <1>1. hcall.cell \in CellsAndRoot /\ Stable(hcall.cell)
    BY Zenon DEF HasNone, CallInv, At, CellsAndRoot, Stable
  <1>. QED
    BY Zenon, <1>1 DEF DeviceInv, DeviceExclusive

\* A running cell has the devices of its configuration.
LEMMA Settled ==
  ASSUME X86TypeOK, CallInv, DeviceInv, NEW c \in created \ {hcall.cell}, NEW d \in DevicesOf[c]
  PROVE  d \in Devices /\ ctx[d] = c
  BY Zenon, ResourceAssumption DEF X86TypeOK, DeviceInv, DeviceExclusive, Stable, CellsAndRoot

\* Nothing the cache depends on changes.
LEMMA CacheFrame ==
  ASSUME CacheInv, UNCHANGED <<created, id, ctx, own, silent, cached, hcall>>
  PROVE  CacheInv'
  BY SMTT(30) DEF CacheInv, CacheCurrent, CacheSettled, CacheUnlisted, CacheMoving, CachedOnly, At

\* A step of a hypercall that moves no device and stays on its way.
LEMMA CacheSame ==
  ASSUME CacheInv, UNCHANGED <<created, id, ctx, silent, cached>>, own' \subseteq own,
         hcall'.cell = hcall.cell, hcall'.kind = hcall.kind, hcall.pc # "idle",
         hcall'.pc = "free" => hcall.kind \notin {"undo", "destroy"}
  PROVE  CacheInv'
  <1>1. CacheCurrent' /\ CacheSettled' /\ CacheUnlisted'
    BY DEF CacheInv, CacheCurrent, CacheSettled, CacheUnlisted, CachedOnly
  <1>2. ASSUME NEW d \in DevicesOf[hcall.cell] PROVE CacheMoving(d)'
    BY Zenon DEF CacheInv, CacheMoving, CachedOnly, At
  <1>. QED
    BY Zenon, <1>1, <1>2 DEF CacheInv

\* A creation that fails before the cell has devices: none of them did DMA for it.
LEMMA CacheFail ==
  ASSUME X86TypeOK, CallInv, DeviceInv, HasNone, CacheInv, hcall.kind = "create",
         UNCHANGED <<created, id, ctx, own, silent, cached>>,
         hcall'.cell = hcall.cell, hcall'.kind = "fail", hcall.pc # "idle"
  PROVE  CacheInv'
  <1>1. \A d \in DevicesOf[hcall.cell] : ctx[d] # hcall.cell /\ <<hcall.cell, d>> \notin own
    BY Zenon, NotYet, Lists DEF CallInv, At
  <1>2. CacheCurrent' /\ CacheSettled' /\ CacheUnlisted'
    BY Zenon DEF CacheInv, CacheCurrent, CacheSettled, CacheUnlisted, CachedOnly
  <1>3. ASSUME NEW d \in DevicesOf[hcall.cell] PROVE CacheMoving(d)'
    BY Zenon, <1>1 DEF CacheInv, CacheMoving, CachedOnly, At
  <1>. QED
    BY Zenon, <1>2, <1>3 DEF CacheInv

\* The devices a new cell lists are the root cell's, or have done no DMA.
LEMMA CacheCreate ==
  ASSUME X86TypeOK, CallInv, DeviceInv, CacheInv, NEW c \in NonRoot, cell_create(c)
  PROVE  CacheInv'
  <1>1. /\ UNCHANGED <<created, id, ctx, own, silent, cached>> /\ c \notin created
        /\ hcall = NoCall /\ hcall' = Call("init", "create", c, {})
    BY Zenon DEF X86TypeOK, Hypercalls, CallInv, NoCall, At, Call, cell_create
  <1>2. \A d \in Devices : <<c, d>> \notin own
    BY Zenon, <1>1, Lists DEF DeviceInv, NoCall
  <1>3. \A d \in DevicesOf[c] : CachedOnly(d, IF d \in DevicesOf[RootCell] THEN {0} ELSE {})
    BY Zenon, <1>1, Lists DEF CacheInv, CacheUnlisted, NoCall
  <1>4. CacheCurrent' /\ CacheSettled' /\ CacheUnlisted'
    <2>1. created \subseteq NonRoot
      BY Zenon DEF X86TypeOK
    <2>2. CacheCurrent'
      BY Zenon, <1>1 DEF CacheInv, CacheCurrent, CachedOnly
    <2>3. CacheSettled' /\ CacheUnlisted'
      BY <1>1, <2>1, Lists DEF CacheInv, CacheSettled, CacheUnlisted, CachedOnly, Call, NoCall
    <2>. QED
      BY Zenon, <2>2, <2>3
  <1>5. \A d \in DevicesOf[c] : CacheMoving(d)'
    BY Zenon, <1>1, <1>2, <1>3, Lists DEF CacheMoving, CachedOnly, Call, At
  <1>. QED
    BY Zenon, <1>1, <1>4, <1>5 DEF CacheInv, Call

\* The cell that goes was running.
LEMMA CacheDestroy ==
  ASSUME X86TypeOK, CallInv, DeviceInv, CacheInv, NEW c \in NonRoot, cell_destroy(c)
  PROVE  CacheInv'
  <1>1. /\ UNCHANGED <<created, id, ctx, own, silent, cached>> /\ c \in created
        /\ hcall = NoCall /\ hcall' = Call("ioapicx", "destroy", c, {})
    BY Zenon DEF X86TypeOK, Hypercalls, CallInv, NoCall, At, Call, cell_destroy
  <1>2. \A d \in DevicesOf[c] : ctx[d] = c /\ CachedOnly(d, {id[c]})
    BY Zenon, <1>1, Settled, Lists DEF CacheInv, CacheSettled, NoCall
  <1>3. CacheCurrent' /\ CacheSettled' /\ CacheUnlisted'
    <2>1. created \subseteq NonRoot
      BY Zenon DEF X86TypeOK
    <2>2. CacheCurrent'
      BY Zenon, <1>1 DEF CacheInv, CacheCurrent, CachedOnly
    <2>3. CacheSettled' /\ CacheUnlisted'
      BY <1>1, <2>1, Lists DEF CacheInv, CacheSettled, CacheUnlisted, CachedOnly, Call, NoCall
    <2>. QED
      BY Zenon, <2>2, <2>3
  <1>4. \A d \in DevicesOf[c] : CacheMoving(d)'
    BY Zenon, <1>1, <1>2, Lists DEF CacheMoving, CachedOnly, Call, At
  <1>. QED
    BY Zenon, <1>1, <1>3, <1>4 DEF CacheInv, Call

\* The domain id of a cell that has no devices is in no context.
LEMMA CacheId ==
  ASSUME X86TypeOK, CallInv, DeviceInv, CacheInv, cell_init
  PROVE  CacheInv'
  <1>. DEFINE c == hcall.cell
  <1>1. /\ UNCHANGED <<created, ctx, own, silent, cached>> /\ c \in NonRoot \ created
        /\ id' = [id EXCEPT ![c] = get_free_cell_id] /\ hcall.pc = "init"
        /\ hcall.kind = "create" /\ hcall'.cell = c
        /\ hcall'.kind \in {"create", "fail"}
    <2>1. hcall \in Hypercalls
      BY Zenon DEF X86TypeOK
    <2>. QED
      BY Zenon, <2>1 DEF Hypercalls, CallInv, NoCall, At, Call, cell_init, Go, Hold
  <1>2. \A d \in Devices : ctx[d] # c /\ <<c, d>> \notin own
    BY Zenon, <1>1, NotYet DEF HasNone
  <1>3. \A b \in CellsAndRoot : b # c => id'[b] = id[b]
    BY Zenon, <1>1 DEF X86TypeOK
  <1>4. \A d \in Devices : ctx[d] # NoCell => id'[ctx[d]] = id[ctx[d]]
    BY Zenon, <1>2, <1>3 DEF X86TypeOK
  <1>5. \A b \in created \ {c} : id'[b] = id[b]
    BY Zenon, <1>3 DEF X86TypeOK, CellsAndRoot
  <1>6. CacheCurrent' /\ CacheSettled' /\ CacheUnlisted'
    <2>1. CacheCurrent'
      BY ZenonT(30), <1>1, <1>4 DEF CacheInv, CacheCurrent, CachedOnly
    <2>2. CacheSettled' /\ CacheUnlisted'
      BY Zenon, <1>1, <1>5 DEF CacheInv, CacheSettled, CacheUnlisted, CachedOnly
    <2>. QED
      BY Zenon, <2>1, <2>2
  <1>7. \A d \in DevicesOf[c] : CacheMoving(d)'
    BY <1>1, <1>2, Lists DEF CacheInv, CacheMoving, CachedOnly, At
  <1>. QED
    BY Zenon, <1>1, <1>6, <1>7 DEF CacheInv

\* When its memory cannot be mapped, the new cell has all its devices.
LEMMA CacheMap ==
  ASSUME X86TypeOK, CallInv, DeviceInv, CacheInv, MapRegions
  PROVE  CacheInv'
  <1>. DEFINE c == hcall.cell
  <1>1. /\ UNCHANGED <<created, id, ctx, own, silent, cached>>
        /\ hcall.pc = "map" /\ hcall.kind = "create" /\ hcall'.cell = c /\ c \in NonRoot
        /\ \/ hcall'.pc = "commit" /\ hcall'.kind = "create"
           \/ hcall'.pc = "ioapicx" /\ hcall'.kind = "undo"
    <2>1. hcall \in Hypercalls
      BY Zenon DEF X86TypeOK
    <2>. QED
      BY Zenon, <2>1 DEF Hypercalls, CallInv, NoCall, At, Call, MapRegions, Go
  <1>2. CASE hcall'.pc = "commit" /\ hcall'.kind = "create"
    BY Zenon, <1>1, <1>2, CacheSame
  <1>3. CASE hcall'.pc = "ioapicx" /\ hcall'.kind = "undo"
    <2>1. \A d \in DevicesOf[c] : ctx[d] = c
      BY Zenon, <1>1, Lists DEF DeviceInv, DeviceExclusive, Stable, HasAll, CellsAndRoot
    <2>2. CacheCurrent' /\ CacheSettled' /\ CacheUnlisted'
      BY Zenon, <1>1 DEF CacheInv, CacheCurrent, CacheSettled, CacheUnlisted, CachedOnly
    <2>3. \A d \in DevicesOf[c] : CacheMoving(d)'
      BY Zenon, <1>1, <1>3, <2>1, Lists DEF CacheInv, CacheMoving, CachedOnly, At
    <2>. QED
      BY Zenon, <1>1, <2>2, <2>3 DEF CacheInv
  <1>. QED
    BY Zenon, <1>1, <1>2, <1>3

\* vtd_config_commit: what the devices of the hypercall's cell used is of its domain or
\* of the root cell's.
LEMMA CacheCommit ==
  ASSUME X86TypeOK, CallInv, DomainInv, CacheInv, vtd_config_commit
  PROVE  CacheInv'
  <1>. DEFINE c == hcall.cell
  <1>1. /\ UNCHANGED <<id, ctx, own, silent>> /\ hcall.pc = "commit" /\ c \in NonRoot
        /\ cached' = {e \in cached : e[2] \notin {id[c], id[RootCell]}}
        /\ hcall.kind \in {"create", "undo", "destroy"}
        /\ \/ hcall.kind = "create" /\ hcall' = NoCall /\ created' = created \cup {c}
           \/ /\ hcall.kind # "create" /\ hcall' = Call("free", hcall.kind, c, hcall.todo)
              /\ created' = created
    <2>1. hcall \in Hypercalls
      BY Zenon DEF X86TypeOK
    <2>. QED
      BY Zenon, <2>1 DEF Hypercalls, CallInv, NoCall, At, Call, vtd_config_commit, Go
  <1>2. /\ created \subseteq NonRoot /\ id[RootCell] = 0
        /\ \A e \in cached' : e \in cached /\ e[2] # id[c] /\ e[2] # 0
    BY Zenon, <1>1 DEF X86TypeOK, DomainInv
  <1>4. \A d \in DevicesOf[c] : CachedOnly(d, {})'
    <2>1. \A d \in DevicesOf[c] : CachedOnly(d, {0, id[c]})
      BY Zenon, <1>1 DEF CacheInv, CacheMoving, CachedOnly, At
    <2>. QED
      BY Zenon, <1>2, <2>1 DEF CachedOnly
  <1>5. CacheCurrent'
    BY Zenon, <1>1, <1>2 DEF CacheInv, CacheCurrent, CachedOnly
  <1>6. CacheSettled'
    BY SMTT(30), <1>1, <1>2, <1>4, Lists DEF CacheInv, CacheSettled, CachedOnly, Call, NoCall
  <1>7. CacheUnlisted'
    BY SMTT(30), <1>1, <1>2, Lists DEF CacheInv, CacheUnlisted, CachedOnly, Call, NoCall
  <1>8. hcall'.pc # "idle" => hcall'.cell = c /\ \A d \in DevicesOf[c] : CacheMoving(d)'
    BY <1>1, <1>2, <1>4, Lists DEF CacheInv, CacheMoving, CachedOnly, Call, NoCall, At
  <1>. QED
    BY Zenon, <1>5, <1>6, <1>7, <1>8 DEF CacheInv, At

\* A cell that is freed leaves nothing behind, or what the root cell cached before.
LEMMA CacheFree ==
  ASSUME X86TypeOK, CallInv, DeviceInv, CacheInv, free_cell
  PROVE  CacheInv'
  <1>. DEFINE c == hcall.cell
  <1>1. /\ UNCHANGED <<ctx, own, silent, cached>> /\ hcall.pc = "free" /\ c \in NonRoot
        /\ hcall.kind \in {"fail", "undo", "destroy"} /\ hcall' = NoCall
        /\ created' = created \ {c} /\ id' = [id EXCEPT ![c] = 0]
    <2>1. hcall \in Hypercalls
      BY Zenon DEF X86TypeOK
    <2>. QED
      BY Zenon, <2>1 DEF Hypercalls, CallInv, NoCall, At, Call, free_cell
  <1>2. \A d \in Devices : ctx[d] # c
    BY Zenon, <1>1, NotYet DEF HasNone
  <1>3. \A b \in CellsAndRoot : b # c => id'[b] = id[b]
    BY Zenon, <1>1 DEF X86TypeOK
  <1>4. \A d \in Devices : ctx[d] # NoCell => id'[ctx[d]] = id[ctx[d]]
    BY Zenon, <1>2, <1>3 DEF X86TypeOK
  <1>5. created \subseteq NonRoot /\ \A b \in created \ {c} : id'[b] = id[b]
    BY Zenon, <1>3 DEF X86TypeOK, CellsAndRoot
  <1>6. \A d \in DevicesOf[c] : CachedOnly(d, IF d \in DevicesOf[RootCell] THEN {0} ELSE {})
    BY Zenon, <1>1 DEF CacheInv, CacheMoving, CachedOnly, At
  <1>7. CacheCurrent'
    BY ZenonT(30), <1>1, <1>4 DEF CacheInv, CacheCurrent, CachedOnly
  <1>8. CacheSettled'
    BY <1>1, <1>5 DEF CacheInv, CacheSettled, CachedOnly
  <1>9. CacheUnlisted'
    <2>1. SUFFICES ASSUME NEW d \in Devices,
                          \A b \in NonRoot : d \in DevicesOf[b] => b \notin created \ {c}
                   PROVE  CachedOnly(d, IF d \in DevicesOf[RootCell] THEN {0} ELSE {})
      BY Zenon, <1>1, Lists DEF CacheUnlisted, CachedOnly, NoCall
    <2>2. CASE d \in DevicesOf[c]
      BY Zenon, <1>6, <2>2
    <2>3. CASE d \notin DevicesOf[c]
      BY Zenon, <1>1, <2>1, <2>3 DEF CacheInv, CacheUnlisted
    <2>. QED
      BY Zenon, <2>2, <2>3
  <1>. QED
    BY Zenon, <1>1, <1>7, <1>8, <1>9 DEF CacheInv, At, NoCall

\* pci_cell_init: the root cell's device becomes silent, the first device of another
\* kind has done no DMA, and if there is no page for the latter, none of the cell's has.
\* This is where the configuration matters: nobody flushes after this failure.
LEMMA CacheTake ==
  ASSUME OutsideOnOneBus, X86TypeOK, CallInv, DeviceInv, Counted, CacheInv,
         NEW d \in Devices, pci_cell_init(d)
  PROVE  CacheInv'
  <1>. DEFINE c == hcall.cell
  <1>0. hcall \in Hypercalls /\ TablesExact
    BY Zenon DEF X86TypeOK, DeviceInv, DeviceExclusive
  <1>1. /\ hcall.pc = "pci" /\ d \in hcall.todo
        /\ hcall.kind = "create" /\ c \in NonRoot \ created
        /\ UNCHANGED <<created, id, cached>>
    BY Zenon, <1>0, TakeDevice
  <1>2. d \in DevicesOf[c] /\ <<c, d>> \notin own
    BY Zenon, <1>1 DEF DeviceInv, At
  <1>3. \A e \in Devices : <<c, e>> \in own <=> ctx[e] = c
    BY <1>1 DEF DeviceInv, DeviceExclusive, Stable, CellsAndRoot
  <1>4. CASE /\ ctx' = [ctx EXCEPT ![d] = c] /\ hcall' = [hcall EXCEPT !.todo = hcall.todo \ {d}]
             /\ own' = (own \ {<<RootCell, d>>}) \cup {<<c, d>>}
    <2>1. hcall'.pc = "pci" /\ hcall'.kind = "create" /\ hcall'.cell = c
      BY Zenon, <1>0, <1>1, <1>4 DEF Hypercalls
    <2>2. silent \subseteq silent' /\ (d \in silent' \/ d \notin DevicesOf[RootCell])
      BY Zenon, <1>0, <1>4, TakeDevice
    <2>3. d \notin DevicesOf[RootCell] => CachedOnly(d, {})
      BY Zenon, <1>1, <1>2, <1>3 DEF CacheInv, CacheMoving, At
    <2>4. /\ \A e \in Devices \ {d} : ctx'[e] = ctx[e]
          /\ ctx'[d] = c
          /\ \A e \in Devices \ {d} : <<c, e>> \in own' <=> <<c, e>> \in own
      BY Zenon, <1>1, <1>4, Lists DEF X86TypeOK
    <2>5. CacheCurrent'
      BY <1>1, <2>2, <2>3, <2>4 DEF CacheInv, CacheCurrent, CachedOnly
    <2>6. CacheSettled' /\ CacheUnlisted'
      BY Zenon, <1>1, <2>1 DEF CacheInv, CacheSettled, CacheUnlisted, CachedOnly
    <2>7. \A e \in DevicesOf[c] : CacheMoving(e)'
      BY SMTT(30), <1>1, <2>1, <2>2, <2>3, <2>4, Lists DEF CacheInv, CacheMoving, CachedOnly, At
    <2>. QED
      BY Zenon, <2>1, <2>5, <2>6, <2>7 DEF CacheInv
  <1>5. CASE /\ UNCHANGED <<ctx, tables, own, silent>> /\ BusOf[d] \notin tables
             /\ d \notin DevicesOf[RootCell]
             /\ hcall' = [hcall EXCEPT !.pc = "pcix", !.kind = "fail",
                             !.todo = {e \in Devices : <<hcall.cell, e>> \in own}]
    <2>1. hcall'.kind = "fail" /\ hcall'.cell = c
      BY Zenon, <1>0, <1>5 DEF Hypercalls
    <2>2. \A e \in DevicesOf[c] \ DevicesOf[RootCell] : ctx[e] # c
      <3>1. SUFFICES ASSUME NEW e \in DevicesOf[c] \ DevicesOf[RootCell], ctx[e] = c PROVE FALSE
        OBVIOUS
      <3>2. BusOf[e] = BusOf[d]
        BY <1>1, <1>2, <1>5 DEF OutsideOnOneBus
      <3>3. e \in Devices /\ ctx[e] # NoCell
        BY Zenon, <1>1, <3>1, Lists
      <3>. QED
        BY Zenon, <1>0, <1>5, <3>2, <3>3 DEF TablesExact
    <2>3. CacheCurrent'
      BY Zenon, <1>1, <1>5 DEF CacheInv, CacheCurrent, CachedOnly
    <2>4. CacheSettled' /\ CacheUnlisted'
      BY Zenon, <1>1, <2>1 DEF CacheInv, CacheSettled, CacheUnlisted, CachedOnly
    <2>5. \A e \in DevicesOf[c] : CacheMoving(e)'
      BY SMTT(30), <1>1, <1>3, <1>5, <2>1, <2>2, Lists DEF CacheInv, CacheMoving, CachedOnly, At
    <2>. QED
      BY Zenon, <2>1, <2>3, <2>4, <2>5 DEF CacheInv
  <1>. QED
    BY Zenon, <1>0, <1>4, <1>5, TakeDevice

\* A device does DMA through its context entry: that of the cell it belongs to.
LEMMA CacheDma ==
  ASSUME X86TypeOK, CallInv, DeviceInv, DomainInv, CacheInv, NEW d \in Devices, DeviceDma(d)
  PROVE  CacheInv'
  <1>. DEFINE c == hcall.cell
  <1>1. /\ UNCHANGED <<created, id, ctx, own, silent, hcall>>
        /\ d \notin silent /\ ctx[d] # NoCell /\ cached' = cached \cup {<<d, id[ctx[d]]>>}
    BY Zenon DEF DeviceDma
  <1>3. id[RootCell] = 0
    BY Zenon DEF DomainInv
  <1>4. \/ ctx[d] = RootCell /\ d \in DevicesOf[RootCell]
        \/ /\ ctx[d] \in NonRoot /\ d \in DevicesOf[ctx[d]] /\ <<ctx[d], d>> \in own
           /\ ctx[d] \in created \cup {c}
    BY Zenon, <1>1, Location
  <1>5. CacheCurrent'
    BY <1>1 DEF CacheInv, CacheCurrent, CachedOnly
  <1>6. CacheSettled'
    <2>1. \A b \in created \ {c} : d \in DevicesOf[b] => ctx[d] = b
      BY Zenon, Settled
    <2>. QED
      BY <1>1, <2>1 DEF CacheInv, CacheSettled, CachedOnly
  <1>7. CacheUnlisted'
    BY <1>1, <1>3, <1>4 DEF CacheInv, CacheUnlisted, CachedOnly
  <1>8. ASSUME hcall.pc # "idle", d \in DevicesOf[c] PROVE CacheMoving(d)'
    <2>1. c \in NonRoot /\ CacheMoving(d)
      BY Zenon, <1>8 DEF CallInv, CacheInv, At
    <2>2. ctx[d] \in {RootCell, c} /\ (ctx[d] = c => <<c, d>> \in own)
      BY Zenon, <1>4, <1>8, <2>1, Lists
    <2>3. CASE ctx[d] = RootCell
      BY SMTT(30), <1>1, <1>3, <1>4, <2>1, <2>3 DEF CacheMoving, CachedOnly, At, CallInv
    <2>4. CASE ctx[d] = c
      <3>1. hcall.pc # "free"
        BY Zenon, <2>2, <2>4, <1>8, Lists, <2>1, NotYet DEF HasNone
      <3>. QED
        BY <1>1, <1>3, <2>1, <2>2, <2>4, <3>1 DEF CacheMoving, CachedOnly, At
    <2>. QED
      BY Zenon, <2>2, <2>3, <2>4
  <1>9. ASSUME hcall.pc # "idle", NEW e \in DevicesOf[c], e # d PROVE CacheMoving(e)'
    BY <1>1, <1>9 DEF CacheInv, CacheMoving, CachedOnly, At
  <1>. QED
    BY Zenon, <1>1, <1>5, <1>6, <1>7, <1>8, <1>9 DEF CacheInv, At

\* pci_cell_exit: the device that goes back is silent.
LEMMA CacheReturn ==
  ASSUME X86TypeOK, CallInv, DeviceInv, Counted, CacheInv, NEW d \in Devices, ReturnDevice(d)
  PROVE  CacheInv'
  <1>. DEFINE c == hcall.cell
  <1>0. TablesExact
    BY Zenon DEF DeviceInv, DeviceExclusive
  <1>1. /\ hcall.pc = "pcix" /\ c \in NonRoot /\ UNCHANGED <<created, id, cached>>
        /\ hcall.kind \in {"fail", "undo", "destroy"} /\ silent' = silent \cup {d}
        /\ hcall'.pc = "pcix" /\ hcall'.kind = hcall.kind /\ hcall'.cell = c
    <2>1. hcall \in Hypercalls
      BY Zenon DEF X86TypeOK
    <2>. QED
      BY Zenon, <2>1 DEF Hypercalls, CallInv, NoCall, At, Call, ReturnDevice, pci_remove_device
  <1>2. /\ \A e \in Devices \ {d} : ctx'[e] = ctx[e]
        /\ \A e \in Devices : <<c, e>> \in own' <=> <<c, e>> \in own
    BY SMTT(30), <1>0, <1>1, GiveDevice, Lists DEF X86TypeOK
  <1>3. CacheCurrent'
    BY <1>1, <1>2 DEF CacheInv, CacheCurrent, CachedOnly
  <1>4. CacheSettled' /\ CacheUnlisted'
    BY Zenon, <1>1 DEF CacheInv, CacheSettled, CacheUnlisted, CachedOnly
  <1>5. \A e \in DevicesOf[c] : CacheMoving(e)'
    BY Zenon, <1>1, <1>2, Lists DEF CacheInv, CacheMoving, CachedOnly, At
  <1>. QED
    BY Zenon, <1>1, <1>3, <1>4, <1>5 DEF CacheInv

\* The steps that take a creation further, or make it fail, before it has devices.
LEMMA CacheEarly ==
  ASSUME X86TypeOK, CallInv, DeviceInv, CacheInv,
         vmx_cell_init \/ vtd_cell_init \/ PciArray
  PROVE  CacheInv'
  <1>1. hcall \in Hypercalls
    BY Zenon DEF X86TypeOK
  <1>2. /\ UNCHANGED <<created, id, ctx, own, silent, cached>>
        /\ hcall.pc \in {"vmx", "vtd", "array"} /\ hcall'.cell = hcall.cell
        /\ \/ hcall'.pc # "free" /\ hcall'.kind = hcall.kind
           \/ hcall'.kind = "fail"
    <2>1. CASE vmx_cell_init
      BY Zenon, <1>1, <2>1 DEF Hypercalls, vmx_cell_init, Go, Fail, At
    <2>2. CASE vtd_cell_init
      BY Zenon, <1>1, <2>2 DEF Hypercalls, vtd_cell_init, Go, Fail, At
    <2>3. CASE PciArray
      BY Zenon, <1>1, <2>3 DEF Hypercalls, PciArray, Fail, At
    <2>. QED
      BY Zenon, <2>1, <2>2, <2>3
  <1>3. hcall.kind = "create"
    BY Zenon, <1>1, <1>2 DEF Hypercalls, CallInv, NoCall, At
  <1>4. CASE hcall'.pc # "free" /\ hcall'.kind = hcall.kind
    BY Zenon, <1>2, <1>4, CacheSame
  <1>5. CASE hcall'.kind = "fail"
    BY Zenon, <1>2, <1>3, <1>5, CacheFail DEF HasNone
  <1>. QED
    BY Zenon, <1>2, <1>4, <1>5

\* The steps that move no device and stay on their way.
LEMMA CacheQuiet ==
  ASSUME X86TypeOK, CacheInv,
         \/ ioapic_cell_init \/ ioapic_cell_exit \/ pci_cell_exit
         \/ vtd_cell_exit \/ vmx_cell_exit
  PROVE  CacheInv'
  <1>1. hcall \in Hypercalls
    BY Zenon DEF X86TypeOK
  <1>2. /\ UNCHANGED <<created, id, ctx, silent, cached>> /\ own' \subseteq own
        /\ hcall.pc # "idle" /\ (hcall'.pc = "free" => hcall.kind = "fail")
        /\ hcall'.cell = hcall.cell /\ hcall'.kind = hcall.kind
    <2>1. CASE ioapic_cell_init \/ ioapic_cell_exit
      BY Zenon, <1>1, <2>1 DEF Hypercalls, ioapic_cell_init, ioapic_cell_exit, Go, At
    <2>2. CASE pci_cell_exit \/ vtd_cell_exit
      BY Zenon, <1>1, <2>2 DEF Hypercalls, pci_cell_exit, vtd_cell_exit, Go, At
    <2>3. CASE vmx_cell_exit
      BY Zenon, <1>1, <2>3 DEF Hypercalls, vmx_cell_exit, Go, At
    <2>. QED
      BY Zenon, <2>1, <2>2, <2>3
  <1>. QED
    BY Zenon, <1>2, CacheSame

\* A device whose context is cached is silent or still with the domain it was cached for.
LEMMA CacheStep ==
  ASSUME OutsideOnOneBus, X86TypeOK, CallInv, DeviceInv, Counted, DomainInv,
         CacheInv, [X86Next]_x86Vars
  PROVE  CacheInv'
  <1>1. CASE \E c \in NonRoot : cell_create(c) \/ cell_destroy(c)
    BY Zenon, <1>1, CacheCreate, CacheDestroy
  <1>2. CASE CreateStep
    BY Zenon, <1>2, CacheId, CacheEarly, CacheTake, CacheQuiet, CacheMap,
       CacheCommit DEF CreateStep
  <1>3. CASE DestroyStep
    BY Zenon, <1>3, CacheQuiet, CacheReturn, CacheFree DEF DestroyStep
  <1>4. CASE \E d \in Devices : DeviceDma(d)
    BY Zenon, <1>4, CacheDma
  <1>5. CASE OtherPages \/ UNCHANGED x86Vars
    BY Zenon, <1>5, CacheFrame DEF OtherPages, x86Vars
  <1>. QED
    BY Zenon, <1>1, <1>2, <1>3, <1>4, <1>5 DEF X86Next

===============================================================================
