---------------------------- MODULE GuestAccess -----------------------------
(***************************************************************************)
(* The accesses of running cells to the registers that all cells share:    *)
(* the PCI configuration space (ports 0xcf8/0xcfc, or MMCONFIG) and the    *)
(* IOAPIC.  Both 0xcf8/0xcfc and the IOAPIC are windows: a select register *)
(* and a data register.  A cell's select register is virtual, the hardware *)
(* one is written just before the data access, under a lock.               *)
(*                                                                         *)
(* Composed with X86Cells: what a cell may touch changes under its feet    *)
(* while other cells are created and destroyed.                            *)
(***************************************************************************)
EXTENDS X86Cells

CONSTANTS Guests,   \* virtual CPUs
          CellOf,   \* virtual CPU -> cell
          NoGuest

ASSUME GuestAssumption ==
  CellOf \in [Guests -> CellsAndRoot] /\ NoGuest \notin Guests

VARIABLES
  sel,      \* window -> cell -> pci_addr_port_val, ioapic_index_reg_val
  acc,      \* virtual CPU -> access in progress
  hwSel,    \* window -> hardware select register (the first value when unlocked:
            \* what an access leaves there is overwritten by the next one)
  lock      \* window -> holder of pci_lock, ioapic_lock

guestVars == <<sel, acc, hwSel, lock>>

Windows == {"pci", "ioapic"}
Targets(w) == IF w = "pci" THEN Devices ELSE Pins
FirstTarget(w) == CHOOSE t \in Targets(w) : TRUE
NoAccess == [st |-> "none", win |-> "pci", target |-> FirstTarget("pci")]

\* pci_get_assigned_device; the pin test of ioapic_access_handler.
Assigned(c, w, t) == IF w = "pci" THEN <<c, t>> \in own ELSE t \in pin[c]

\* cell_suspend returns when no CPU of the cell is in a handler any more.
cell_suspend(c) == \A g \in Guests : CellOf[g] = c => acc[g].st = "none"

\* The root cell is suspended for the whole hypercall, the cell that goes too.
MayRun(g) ==
  LET c == CellOf[g]
  IN  IF c = RootCell THEN At("idle") ELSE c \in created /\ c # hcall.cell

\* Writing the (virtual) select register: ports 0xcf8, IOAPIC_REG_INDEX.
SelectWrite(g, w, t) ==
  /\ MayRun(g) /\ acc[g].st = "none"
  /\ sel' = [sel EXCEPT ![w][CellOf[g]] = t]
  /\ UNCHANGED <<x86Vars, acc, hwSel, lock>>

Begin(g, w) ==
  LET t == sel[w][CellOf[g]]
  IN  /\ MayRun(g) /\ acc[g].st = "none" /\ Assigned(CellOf[g], w, t)
      /\ acc' = [acc EXCEPT ![g] = [st |-> "spin", win |-> w, target |-> t]]
      /\ UNCHANGED <<x86Vars, sel, hwSel, lock>>

\* A data port access to a device that is not assigned reads -1 or is refused;
\* one to an assigned device goes on with a local copy of the address.
x86_pci_config_handler(g) == Begin(g, "pci")

\* An access to a redirection entry whose pin is not assigned is refused.
ioapic_access_handler(g) == Begin(g, "ioapic")

\* Mutant: the hardware select register is written without the lock.
SelectUnlocked(g, w) ==
  /\ acc[g].st = "spin" /\ acc[g].win = w
  /\ acc' = [acc EXCEPT ![g].st = "data"]
  /\ hwSel' = [hwSel EXCEPT ![w] = acc[g].target]
  /\ UNCHANGED <<x86Vars, sel, lock>>
\* spin_lock and the write of the hardware select register.
Select(g, w) ==
  /\ acc[g].st = "spin" /\ acc[g].win = w /\ lock[w] = NoGuest
  /\ lock' = [lock EXCEPT ![w] = g] /\ acc' = [acc EXCEPT ![g].st = "data"]
  /\ hwSel' = [hwSel EXCEPT ![w] = acc[g].target]
  /\ UNCHANGED <<x86Vars, sel>>

AccessDone(g, w) ==
  /\ acc[g].st = "data" /\ acc[g].win = w
  /\ acc' = [acc EXCEPT ![g] = NoAccess]
  /\ lock' = [lock EXCEPT ![w] = NoGuest]
  /\ hwSel' = [hwSel EXCEPT ![w] = FirstTarget(w)]

\* What a permitted access does to a device: the command register is on the
\* whitelist, so its owner may enable and disable DMA.
Command(d) ==
  /\ silent' \in {silent, silent \ {d}, silent \cup {d}}
  /\ UNCHANGED <<created, id, held, tables, other, ctx, own, cached, pin, port, hcall>>

\* The data half of arch_pci_read_config and arch_pci_write_config.
arch_pci_write_config(g) ==
  AccessDone(g, "pci") /\ Command(hwSel["pci"]) /\ UNCHANGED sel

\* The data half of an IOAPIC access.
IoapicData(g) == AccessDone(g, "ioapic") /\ UNCHANGED <<x86Vars, sel>>

\* MMCONFIG: look-up and access in one go, no window.
pci_mmio_access_handler(g, d) ==
  /\ MayRun(g) /\ acc[g].st = "none" /\ Assigned(CellOf[g], "pci", d)
  /\ Command(d) /\ UNCHANGED guestVars

GuestInit ==
  /\ X86Init
  /\ sel = [w \in Windows |-> [c \in CellsAndRoot |-> FirstTarget(w)]]
  /\ acc = [g \in Guests |-> NoAccess]
  /\ hwSel = [w \in Windows |-> FirstTarget(w)]
  /\ lock = [w \in Windows |-> NoGuest]

\* The hypercalls of module X86Cells.  A freed cell's select registers are
\* zeroed with the rest of its pages.
ManageCells ==
  \/ /\ \E c \in NonRoot : \/ cell_suspend(RootCell) /\ cell_create(c)
                         \/ /\ cell_suspend(RootCell) /\ cell_suspend(c)
                            /\ cell_destroy(c)
     /\ UNCHANGED guestVars
  \/ (CreateStep \/ DestroyStep) /\ ~At("free") /\ UNCHANGED guestVars
  \/ /\ free_cell /\ UNCHANGED <<acc, hwSel, lock>>
     /\ sel' = [w \in Windows |-> [sel[w] EXCEPT ![hcall.cell] = FirstTarget(w)]]

Surroundings ==
  (OtherPages \/ \E d \in Devices : DeviceDma(d)) /\ UNCHANGED guestVars

PciWindow(g) ==
  \/ \E t \in Devices : SelectWrite(g, "pci", t)
  \/ x86_pci_config_handler(g) \/ Select(g, "pci") \/ arch_pci_write_config(g)

IoapicWindow(g) ==
  \/ \E t \in Pins : SelectWrite(g, "ioapic", t)
  \/ ioapic_access_handler(g) \/ Select(g, "ioapic") \/ IoapicData(g)

Mmconfig(g) == \E d \in Devices : pci_mmio_access_handler(g, d)

GuestNext ==
  \/ ManageCells \/ Surroundings
  \/ \E g \in Guests : PciWindow(g) \/ IoapicWindow(g) \/ Mmconfig(g)

GuestSpec == GuestInit /\ [][GuestNext]_<<x86Vars, guestVars>>

-----------------------------------------------------------------------------
\* When a data register is accessed, the hardware select register names the
\* device or pin that was checked, and it still belongs to the cell: other
\* CPUs of the cell rewrite the virtual register meanwhile, other cells use the
\* window, and devices and pins change hands (pci_lock, ioapic_lock, the local
\* copies of x86_pci_config_handler and ioapic_access_handler, cell_suspend).
AccessOwned ==
  \A g \in Guests : acc[g].st = "data" =>
    /\ hwSel[acc[g].win] = acc[g].target
    /\ Assigned(CellOf[g], acc[g].win, acc[g].target)

\* Why it holds: from the check on, the cell of the virtual CPU neither waits for a
\* hypercall nor goes, so it keeps what it was assigned, and the holder of the lock
\* has set the select register.
AccessInv ==
  /\ acc \in [Guests -> [st : {"none", "spin", "data"}, win : Windows,
                         target : Devices \cup Pins \cup {FirstTarget("pci")}]]
  /\ lock \in [Windows -> Guests \cup {NoGuest}]
  /\ DOMAIN hwSel = Windows
  /\ \A g \in Guests : acc[g].st # "none" =>
       MayRun(g) /\ Assigned(CellOf[g], acc[g].win, acc[g].target)
  /\ \A g \in Guests : acc[g].st = "data" =>
       lock[acc[g].win] = g /\ hwSel[acc[g].win] = acc[g].target

\* The inductive invariant of GuestSpec, for every configuration.
GuestInv == X86Inv /\ AccessInv
=============================================================================
