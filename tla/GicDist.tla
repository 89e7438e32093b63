------------------------------ MODULE GicDist -------------------------------
(***************************************************************************)
(* The GICv2 distributor that all cells share.  Every guest access is      *)
(* trapped and restricted to the SPIs of the guest's cell; registers that  *)
(* hold fields of several SPIs are read and written back under dist_lock.  *)
(* Cell creation and destruction move SPIs between the root cell and a     *)
(* cell and route them to its first CPU, without the lock and without      *)
(* waiting for the handlers that are running on other CPUs.                *)
(*                                                                         *)
(* One kind of register at a time: a field is the set of the CPU           *)
(* interfaces it targets, or of the bits that are set in it.               *)
(***************************************************************************)
EXTENDS Integers, FiniteSets

CONSTANTS Spis, PerWord,     \* SPIs, and how many share a register
          RootCpus, CellCpu, \* root CPUs, the first being HyperCpu; the cell's CPU
          HyperCpu,          \* the CPU that creates and destroys the cell
          RootPins, CellPins \* pin_bitmap of the two configurations

ASSUME DistAssumption ==
  /\ HyperCpu \in RootCpus /\ CellCpu \notin RootCpus
  /\ RootPins \subseteq Spis /\ CellPins \subseteq Spis

VARIABLES kind,   \* the register: "target", "config" (read and written back), "poke"
          reg,    \* its field for each SPI
          spis,   \* cell->arch.spis of "root" and of the "cell"
          member, \* whether CellCpu is in the cell
          dlock,  \* dist_lock is taken
          dist,   \* the access that each guest CPU is in
          hc,     \* the hypercall: its step, the words left, the value read
          late    \* history: SPIs last written by a handler that ran into a
                  \* hand-over

distVars == <<kind, reg, spis, member, dlock, dist, hc, late>>

Word(w) == {s \in Spis : s \div PerWord = w}
Words == {s \div PerWord : s \in Spis}
NoFields == [s \in {} |-> {}]
None == [at |-> "guest", w |-> 0, val |-> NoFields, mask |-> {}, old |-> NoFields,
         crossed |-> FALSE]
Quiet == [at |-> "idle", op |-> "none", left |-> {}, old |-> NoFields]
DistCpus == (RootCpus \ {HyperCpu}) \cup {CellCpu}
CellName(c) == IF c = CellCpu /\ member THEN "cell" ELSE "root"
CpusOf(k) == IF k = "cell" THEN {CellCpu} ELSE IF member THEN RootCpus ELSE RootCpus \cup {CellCpu}
spi_in_cell(k, s) == s \in spis[k]

\* What a guest writes into a field.  Linux does not route interrupts to a CPU
\* that it has taken offline for the cell.
Fields(c) == IF kind # "target" THEN {{}, {"set"}}
             ELSE {{t} : t \in IF c = CellCpu THEN DistCpus ELSE RootCpus}

-----------------------------------------------------------------------------
\* Mutant: targets of other cells' CPUs are let through.
BeginUnchecked(c, w, v) ==
  /\ dist[c].at = "guest" /\ (c = CellCpu => member)
  /\ dist' = [dist EXCEPT ![c] = [at |-> kind, w |-> w, val |-> v, old |-> NoFields,
                mask |-> {s \in Word(w) : spi_in_cell(CellName(c), s)}, crossed |-> FALSE]]
  /\ UNCHANGED <<kind, reg, spis, member, dlock, hc, late>>

\* Begin of handle_irq_target and of restrict_bitmask_access: the mask, computed
\* before any lock is taken, and the check of the fields inside it.  A route to
\* a CPU of another cell is forbidden and halts the guest.
gic_handle_dist_access(c, w, v) ==
  LET k == CellName(c)
      mask == {s \in Word(w) : spi_in_cell(k, s)}
  IN  /\ dist[c].at = "guest" /\ (c = CellCpu => member)
      /\ kind = "target" => \A s \in mask : v[s] \subseteq CpusOf(k)
      /\ dist' = [dist EXCEPT ![c] = [at |-> kind, w |-> w, val |-> v, mask |-> mask,
                                      old |-> NoFields, crossed |-> FALSE]]
      /\ UNCHANGED <<kind, reg, spis, member, dlock, hc, late>>

\* Mutant: the registers are read without the lock.
ReadUnlocked(c) ==
  /\ dist[c].at \in {"target", "config"}
  /\ dlock' = TRUE
  /\ dist' = [dist EXCEPT ![c].at = "write", ![c].old = [s \in Word(dist[c].w) |-> reg[s]]]
  /\ UNCHANGED <<kind, reg, spis, member, hc, late>>

\* The first half of a read-modify-write.
LockAndRead(c) ==
  /\ dist[c].at \in {"target", "config"} /\ ~dlock
  /\ dlock' = TRUE
  /\ dist' = [dist EXCEPT ![c].at = "write", ![c].old = [s \in Word(dist[c].w) |-> reg[s]]]
  /\ UNCHANGED <<kind, reg, spis, member, hc, late>>

\* A write to the distributor by an access with the mask of CPU c.
Put(c, field) ==
  /\ reg' = [s \in Spis |-> IF s \in Word(dist[c].w) THEN field[s] ELSE reg[s]]
  /\ late' = (late \ dist[c].mask) \cup
       {s \in dist[c].mask : hc # Quiet \/ ~spi_in_cell(CellName(c), s)} \cup
       (IF dist[c].crossed THEN Word(dist[c].w) ELSE {})
  /\ dist' = [dist EXCEPT ![c] = None]
  /\ UNCHANGED <<kind, spis, member, hc>>

\* The rest of handle_irq_target.
handle_irq_target(c) ==
  /\ dist[c].at = "write" /\ kind = "target" /\ dlock' = FALSE
  /\ Put(c, [s \in Word(dist[c].w) |->
               IF s \in dist[c].mask THEN dist[c].val[s] ELSE dist[c].old[s]])

\* The rest of restrict_bitmask_access for registers that are written back: only
\* bits inside the mask are cleared, but every bit of the value is set.
restrict_bitmask_access(c) ==
  /\ dist[c].at = "write" /\ kind = "config" /\ dlock' = FALSE
  /\ Put(c, [s \in Word(dist[c].w) |->
               (IF s \in dist[c].mask THEN {} ELSE dist[c].old[s]) \cup dist[c].val[s]])

\* "Set" and "clear" registers act on the bits that are 1.
Poke(c) ==
  LET bits == [s \in Word(dist[c].w) |-> IF s \in dist[c].mask THEN dist[c].val[s] ELSE {}]
  IN  /\ dist[c].at = "poke" /\ UNCHANGED dlock
      /\ \/ Put(c, [s \in Word(dist[c].w) |-> reg[s] \cup bits[s]])
         \/ Put(c, [s \in Word(dist[c].w) |-> reg[s] \ bits[s]])

-----------------------------------------------------------------------------
Then(at, left) == hc' = [hc EXCEPT !.at = at, !.left = left, !.old = NoFields]
Routed == IF kind = "target" THEN Words ELSE {}

\* irqchip_cell_init, in arch_cell_create.
irqchip_cell_init ==
  /\ hc = Quiet /\ ~member /\ spis["cell"] = {}
  /\ spis' = [spis EXCEPT !["cell"] = CellPins]
  /\ hc' = [Quiet EXCEPT !.at = "route", !.op = "create", !.left = Routed]
  /\ UNCHANGED <<kind, reg, member, dlock, dist, late>>

\* irqchip_root_cell_shrink; then the CPU, parked, goes over to the cell.
irqchip_root_cell_shrink ==
  /\ hc.at = "route" /\ hc.op = "create" /\ hc.left = {}
  /\ spis' = [spis EXCEPT !["root"] = @ \ spis["cell"]]
  /\ Then("move", {})
  /\ UNCHANGED <<kind, reg, member, dlock, dist, late>>
MoveCpu ==
  /\ hc.at = "move" /\ dist[CellCpu].at = "guest"
  /\ IF hc.op = "create" THEN member' = TRUE /\ hc' = Quiet
                         ELSE member' = FALSE /\ Then("exit", {})
  /\ UNCHANGED <<kind, reg, spis, dlock, dist, late>>

\* Destroying parks the CPU first.
Destroy2 ==
  /\ hc = Quiet /\ member /\ hc' = [Quiet EXCEPT !.at = "move", !.op = "destroy"]
  /\ UNCHANGED <<kind, reg, spis, member, dlock, dist, late>>

\* Mutant: the root cell gets pins it never had.
ExitAllPins ==
  /\ hc.at = "exit"
  /\ spis' = [spis EXCEPT !["root"] = @ \cup spis["cell"]]
  /\ Then("route", Routed)
  /\ UNCHANGED <<kind, reg, member, dlock, dist, late>>

irqchip_cell_exit ==
  /\ hc.at = "exit"
  /\ spis' = [spis EXCEPT !["root"] = @ \cup (spis["cell"] \cap RootPins)]
  /\ Then("route", Routed)
  /\ UNCHANGED <<kind, reg, member, dlock, dist, late>>

\* gic_target_spis: the cell's SPIs to the first CPU of the new owner, a word at
\* a time and without dist_lock.
gic_target_spis(w) ==
  LET dest == IF hc.op = "create" THEN {CellCpu} ELSE {HyperCpu}
  IN  \/ /\ hc.at = "route" /\ w \in hc.left
         /\ hc' = [hc EXCEPT !.at = "written", !.left = @ \ {w},
                             !.old = [s \in Word(w) |-> reg[s]]]
         /\ UNCHANGED <<kind, reg, spis, member, dlock, dist, late>>
      \/ /\ hc.at = "written" /\ DOMAIN hc.old = Word(w)
         /\ reg' = [s \in Spis |-> IF s \notin Word(w) THEN reg[s]
                                   ELSE IF spi_in_cell("cell", s) THEN dest ELSE hc.old[s]]
         /\ late' = late \ (Word(w) \cap spis["cell"])
         /\ dist' = [c \in DistCpus |->
              IF dist[c].at = "write" /\ dist[c].w = w
              THEN [dist[c] EXCEPT !.crossed = TRUE] ELSE dist[c]]
         /\ Then("route", hc.left)
         /\ UNCHANGED <<kind, spis, member, dlock>>

FreeCell2 ==
  /\ hc.at = "route" /\ hc.op = "destroy" /\ hc.left = {}
  /\ spis' = [spis EXCEPT !["cell"] = {}] /\ hc' = Quiet
  /\ UNCHANGED <<kind, reg, member, dlock, dist, late>>

-----------------------------------------------------------------------------
\* The root cell runs alone; Linux has routed all SPIs to its first CPU.
DistInit ==
  /\ kind \in {"target", "config", "poke"}
  /\ reg = [s \in Spis |-> IF kind = "target" THEN {HyperCpu} ELSE {}]
  /\ spis = [root |-> RootPins, cell |-> {}] /\ member = FALSE
  /\ dlock = FALSE /\ dist = [c \in DistCpus |-> None] /\ hc = Quiet /\ late = {}

GuestAccess2(c) ==
  \/ \E w \in Words : \E v \in [Word(w) -> Fields(c)] : gic_handle_dist_access(c, w, v)
  \/ LockAndRead(c) \/ handle_irq_target(c) \/ restrict_bitmask_access(c) \/ Poke(c)

DistNext ==
  \/ \E c \in DistCpus : GuestAccess2(c)
  \/ irqchip_cell_init \/ irqchip_root_cell_shrink \/ MoveCpu \/ Destroy2
  \/ irqchip_cell_exit \/ FreeCell2
  \/ \E w \in Words : gic_target_spis(w)

DistSpec == DistInit /\ [][DistNext]_distVars

-----------------------------------------------------------------------------
\* Outside of a hand-over no SPI is in two cells, and the root cell has exactly
\* those of its configuration that no cell has (irqchip_cell_init, _exit, _shrink).
SpisPartitioned ==
  hc = Quiet => /\ spis["root"] = RootPins \ spis["cell"]
                /\ spis["cell"] = IF member THEN CellPins ELSE {}

\* An SPI is routed to CPUs of the cell it is assigned to, through creation and
\* destruction and concurrent guest writes to the same register; except after a
\* handler that had computed its mask, or read the register, during a hand-over.
TargetsOwned ==
  kind = "target" /\ hc = Quiet =>
    \A k \in {"root", "cell"} : \A s \in spis[k] \ late : reg[s] \subseteq CpusOf(k)

\* A guest's write leaves the fields of all other SPIs as they are, although it
\* writes the whole register (dist_lock), unless gic_target_spis came between
\* its read and its write; in registers that are written back it may set bits
\* of other SPIs but clears none.
OthersUntouched ==
  [][\A c \in DistCpus : dist[c].at \in {"write", "poke"} /\ dist'[c] = None =>
       \A s \in Spis \ dist[c].mask :
         \/ reg'[s] = reg[s]
         \/ dist[c].crossed
         \/ kind = "config" /\ reg[s] \subseteq reg'[s]]_distVars

\* Each SPI belongs to one cell and interrupts only its CPUs (irqchip_cell_init,
\* irqchip_cell_exit, gic_target_spis, gic_handle_dist_access).
SpisOwned == SpisPartitioned /\ TargetsOwned

-----------------------------------------------------------------------------
(* The strengthenings that make them inductive. *)

\* What the fields of a register hold, and the values of a register.
Marks == RootCpus \cup {CellCpu, "set"}
AnyFields == UNION {[W -> SUBSET Marks] : W \in SUBSET Spis}

\* The records of the accesses and of the hypercall.
Accesses == [at : {"guest", "target", "config", "poke", "write"}, w : Words \cup {0},
             val : AnyFields, mask : SUBSET Spis, old : AnyFields, crossed : BOOLEAN]
Calls == [at : {"idle", "route", "written", "move", "exit"},
          op : {"none", "create", "destroy"}, left : SUBSET Words, old : AnyFields]

DistTypeOK ==
  /\ kind \in {"target", "config", "poke"} /\ member \in BOOLEAN
  /\ reg \in [Spis -> SUBSET Marks] /\ spis \in [{"root", "cell"} -> SUBSET Spis]
  /\ late \subseteq Spis /\ dist \in [DistCpus -> Accesses] /\ hc \in Calls

\* How far the hypercall has got with moving the SPIs and the CPU.
HandOverInv ==
  /\ hc.at = "idle" => hc = Quiet
  /\ hc.at # "idle" => hc.op \in {"create", "destroy"} /\ spis["cell"] = CellPins
  /\ hc.at = "idle" => spis["cell"] = IF member THEN CellPins ELSE {}
  /\ hc.at \in {"route", "written"} => ~member /\ spis["root"] = RootPins
  /\ hc.at \in {"idle", "move", "exit"} => spis["root"] = RootPins \ spis["cell"]
  /\ hc.at = "move" => (member <=> hc.op = "destroy")
  /\ hc.at = "exit" => ~member /\ hc.op = "destroy"

\* A guest access has a mask from its begin on and holds dist_lock while it writes;
\* what it read is then what the registers hold, unless a hand-over came between.
AccessInv(c) ==
  LET a == dist[c] IN
  /\ a.at \in {"guest", "write", kind}
  /\ a.at = "write" => /\ dlock /\ \A d \in DistCpus \ {c} : dist[d].at # "write"
                       /\ kind # "poke" /\ a.old \in [Word(a.w) -> SUBSET Marks]
                       /\ a.crossed \/ \A s \in Word(a.w) : a.old[s] = reg[s]
  /\ a.at # "guest" => /\ a.val \in [Word(a.w) -> SUBSET Marks] /\ a.mask \subseteq Word(a.w)
                       /\ c = CellCpu => member /\ a.mask \subseteq CellPins
  /\ a.at # "guest" /\ kind = "target" =>
       \A s \in a.mask : a.val[s] \subseteq IF c = CellCpu THEN {CellCpu} ELSE RootCpus

\* gic_target_spis is behind the register of SPI s.
Rerouted(s) == /\ \A w \in hc.left : s \notin Word(w)
               /\ hc.at = "written" => s \notin DOMAIN hc.old

\* Where an SPI that no late handler wrote is routed to during a hand-over.
RouteInv ==
  kind = "target" => \A s \in Spis \ late :
    /\ s \in RootPins \ CellPins => reg[s] \subseteq RootCpus
    /\ s \in CellPins /\ (hc.at = "idle" => member) /\ hc.at \in {"idle", "move", "exit"} =>
         reg[s] \subseteq {CellCpu}
    /\ s \in CellPins \cap RootPins /\ hc.at = "idle" /\ ~member => reg[s] \subseteq RootCpus
    /\ s \in CellPins /\ hc.at \in {"route", "written"} /\ Rerouted(s) =>
         reg[s] \subseteq IF hc.op = "create" THEN {CellCpu} ELSE RootCpus
    /\ hc.at = "written" /\ s \in DOMAIN hc.old => hc.old[s] = reg[s]

\* The inductive invariant.
DistInv == DistTypeOK /\ HandOverInv /\ RouteInv /\ \A c \in DistCpus : AccessInv(c)
=============================================================================
