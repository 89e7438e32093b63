------------------------------- MODULE ArmCpu -------------------------------
(***************************************************************************)
(* ARM CPU control: the PSCI mailboxes through which a CPU stops itself    *)
(* and is woken, the suspend SGI, the reset path, the guests' own CPU_ON   *)
(* and CPU_OFF, and the management hypercalls that drive them from one     *)
(* root CPU.  Interrupts are taken only in guest code, so an SGI waits     *)
(* while its target is inside the hypervisor.                              *)
(***************************************************************************)
EXTENDS FiniteSets

CONSTANTS ArmCpus, Master, CellSet,  \* all CPUs, the caller, the cell's CPUs
          Primary,                   \* the cell CPU with virtual id 0
          MboxWriters, MayOff, MayFail  \* CPUs whose guests write the spin mailbox,
                                        \* call CPU_OFF, do a forbidden access

ASSUME ArmCpuAssumption == Master \in ArmCpus /\ CellSet \subseteq ArmCpus

VARIABLES
  mbox,     \* psci_mbox.entry: "stop" is PSCI_INVALID_ADDRESS
  gmbox,    \* guest_mbox.entry # 0
  where,    \* guest, off, reset, spin, on, ready, mmio, wild, left
  from,     \* what called _psci_cpu_off: sgi, spin, panic; the target of an "on"
  tgt,      \* targets left of a mailbox write
  sgiOff,   \* SGI_CPU_OFF is pending
  inCell,   \* CPUs whose per_cpu->cell is the new cell
  stage2,   \* CPUs whose VTTBR is the new cell's
  dirty,    \* cell_pages_dirty
  shut,     \* per_cpu->shutdown
  due,      \* history: a reset was posted and not performed
  exists, loadable, master

armCpuVars == <<mbox, gmbox, where, from, tgt, sgiOff, inCell, stage2, dirty, shut,
                due, exists, loadable, master>>
cpuSide == <<gmbox, where, from, tgt, stage2>>
books2 == <<exists, loadable>>

Calm == [op |-> "none", step |-> "none", todo |-> {}]
Others == (ArmCpus \ inCell) \ {Master}
psci_cpu_stopped(c) == mbox[c] = "stop"
CellOfCpu(c) == IF c \in inCell THEN inCell ELSE ArmCpus \ inCell

\* Mutant: the mailbox is written without the exclusive compare.
BlindCpuOn(c, entry) ==
  /\ mbox' = [mbox EXCEPT ![c] = entry]
  /\ due' = IF entry = "reset" THEN due \cup {c} ELSE due

\* ldrexd, compare with PSCI_INVALID_ADDRESS, strexd: one of two wakers wins.
psci_cpu_on(c, entry) ==
  IF psci_cpu_stopped(c)
  THEN /\ mbox' = [mbox EXCEPT ![c] = entry]
       /\ due' = IF entry = "reset" THEN due \cup {c} ELSE due
  ELSE UNCHANGED <<mbox, due>>

\* The CPU clears its mailbox and waits for an entry.
psci_cpu_off(c, why) ==
  /\ mbox' = [mbox EXCEPT ![c] = "stop"]
  /\ where' = [where EXCEPT ![c] = "off"] /\ from' = [from EXCEPT ![c] = why]

At2(c, w) == where' = [where EXCEPT ![c] = w]

-----------------------------------------------------------------------------
(* What each CPU does by itself. *)

\* SGI_CPU_OFF in guest code.
arch_suspend_self(c) ==
  /\ where[c] = "guest" /\ c \in sgiOff
  /\ sgiOff' = sgiOff \ {c} /\ psci_cpu_off(c, "sgi")
  /\ UNCHANGED <<gmbox, tgt, inCell, stage2, dirty, shut, due, books2, master>>

\* Mutant: a woken CPU takes the entry out of its mailbox.
WakeClears(c) ==
  /\ where[c] = "off" /\ ~psci_cpu_stopped(c)
  /\ mbox' = [mbox EXCEPT ![c] = "stop"]
  /\ At2(c, IF mbox[c] = "reset" THEN "reset" ELSE "guest")
  /\ UNCHANGED <<gmbox, from, tgt, sgiOff, inCell, stage2, dirty, shut, due, books2,
                 master>>

\* The off loop sees an entry: _psci_suspend_return goes back to the caller,
\* which flushes a dirty TLB; arch_reset_self does not return.  After a panic
\* nothing is there to return to.
WakeUp(c) ==
  /\ where[c] = "off" /\ ~psci_cpu_stopped(c)
  /\ \/ mbox[c] = "reset" /\ At2(c, "reset") /\ UNCHANGED dirty
     \/ /\ mbox[c] = "resume" /\ from[c] = "sgi"
        /\ At2(c, "guest") /\ dirty' = dirty \ {c}
     \/ /\ mbox[c] = "resume" /\ from[c] = "spin"
        /\ At2(c, "spin") /\ UNCHANGED dirty
     \/ /\ mbox[c] = "resume" /\ from[c] = "panic"
        /\ At2(c, "wild") /\ UNCHANGED dirty
  /\ from' = [from EXCEPT ![c] = "none"]
  /\ UNCHANGED <<mbox, gmbox, tgt, sgiOff, inCell, stage2, shut, due, books2,
                 master>>

\* MMU and GIC of the cell the CPU is in now; a secondary CPU of a cell waits
\* for its entry point, after clearing it.
arch_reset_self(c) ==
  /\ where[c] = "reset"
  /\ due' = due \ {c}
  /\ stage2' = IF c \in inCell \ shut THEN stage2 \cup {c} ELSE stage2 \ {c}
  /\ dirty' = dirty \ {c}
  /\ \/ /\ c \in shut /\ At2(c, "left") /\ UNCHANGED gmbox
     \/ /\ c \notin shut /\ (c \notin inCell \/ c = Primary)
        /\ At2(c, "guest") /\ UNCHANGED gmbox
     \/ /\ c \notin shut /\ c \in inCell /\ c # Primary
        /\ gmbox' = gmbox \ {c} /\ At2(c, "spin")
  /\ UNCHANGED <<mbox, from, tgt, sgiOff, inCell, shut, books2, master>>

\* The loop of psci_emulate_spin.
psci_emulate_spin(c) ==
  /\ where[c] = "spin"
  /\ IF c \in gmbox THEN At2(c, "guest") /\ UNCHANGED <<mbox, from>>
                    ELSE psci_cpu_off(c, "spin")
  /\ UNCHANGED <<gmbox, tgt, sgiOff, inCell, stage2, dirty, shut, due, books2, master>>

\* PSCI_CPU_OFF.
PsciCpuOff(c) ==
  /\ where[c] = "guest" /\ c \in inCell \cap MayOff /\ At2(c, "reset")
  /\ UNCHANGED <<mbox, gmbox, from, tgt, sgiOff, inCell, stage2, dirty, shut, due,
                 books2, master>>

\* PSCI_CPU_ON of a CPU of the same cell: the entry, then psci_resume.
psci_emulate_cpu_on(c) ==
  /\ where[c] = "guest" /\ c \in inCell
  /\ \E t \in inCell \ {c} :
       /\ gmbox' = gmbox \cup {t} /\ from' = [from EXCEPT ![c] = t]
  /\ At2(c, "on")
  /\ UNCHANGED <<mbox, tgt, sgiOff, inCell, stage2, dirty, shut, due, books2, master>>

\* psci_resume waits until the target has stopped; then another waker may still
\* be faster.
psci_wait_cpu_stopped(c) ==
  /\ where[c] = "on" /\ psci_cpu_stopped(from[c]) /\ At2(c, "ready")
  /\ UNCHANGED <<mbox, gmbox, from, tgt, sgiOff, inCell, stage2, dirty, shut, due,
                 books2, master>>
psci_resume(c) ==
  /\ where[c] = "ready"
  /\ psci_cpu_on(from[c], "resume")
  /\ At2(c, IF tgt[c] = {} THEN "guest" ELSE "mmio")
  /\ from' = [from EXCEPT ![c] = "none"]
  /\ UNCHANGED <<gmbox, tgt, sgiOff, inCell, stage2, dirty, shut, books2, master>>

\* A write to the spin mailbox: the entry for every other CPU of the cell, and
\* psci_resume of those that are stopped.
arch_generic_smp_mmio(c) ==
  /\ where[c] = "guest" /\ c \in MboxWriters /\ CellOfCpu(c) # {c}
  /\ (c = Master => master = Calm)
  /\ tgt' = [tgt EXCEPT ![c] = CellOfCpu(c) \ {c}] /\ At2(c, "mmio")
  /\ UNCHANGED <<mbox, gmbox, from, sgiOff, inCell, stage2, dirty, shut, due,
                 books2, master>>
psci_try_resume(c) ==
  /\ where[c] = "mmio"
  /\ \E t \in tgt[c] :
       /\ gmbox' = gmbox \cup ({t} \cap inCell) /\ tgt' = [tgt EXCEPT ![c] = @ \ {t}]
       /\ IF psci_cpu_stopped(t)
          THEN from' = [from EXCEPT ![c] = t] /\ At2(c, "on")
          ELSE UNCHANGED from /\ At2(c, IF tgt[c] = {t} THEN "guest" ELSE "mmio")
  /\ UNCHANGED <<mbox, sgiOff, inCell, stage2, dirty, shut, due, books2, master>>

\* A forbidden access of a cell CPU: panic_halt, then the off loop.
arch_panic_halt(c) ==
  /\ where[c] = "guest" /\ c \in inCell \cap MayFail /\ psci_cpu_off(c, "panic")
  /\ UNCHANGED <<gmbox, tgt, sgiOff, inCell, stage2, dirty, shut, due, books2, master>>

\* The end of arch_handle_exit.
ExitShutdown(c) ==
  /\ where[c] = "guest" /\ c \in shut /\ (c = Master => master = Calm)
  /\ At2(c, "left") /\ stage2' = stage2 \ {c} /\ dirty' = dirty \ {c}
  /\ UNCHANGED <<mbox, gmbox, from, tgt, sgiOff, inCell, shut, due, books2, master>>

-----------------------------------------------------------------------------
(* The management hypercall on Master, one call of an arch function per step. *)

Step(s, todo) == master' = [master EXCEPT !.step = s, !.todo = todo]
Pop(c) == master' = [master EXCEPT !.todo = @ \ {c}]
Doing2(s) == master.step = s
DoneWith(s) == Doing2(s) /\ master.todo = {}

Hypercall2(op) ==
  /\ master = Calm /\ where[Master] = "guest" /\ shut = {}
  /\ op = "shutdown" \/ (op = "create") = ~exists
  /\ master' = [op |-> op, step |-> IF op = "shutdown" THEN "cell" ELSE "root",
                todo |-> IF op = "shutdown" THEN inCell ELSE Others]
  /\ UNCHANGED <<mbox, cpuSide, sgiOff, inCell, dirty, shut, due, books2>>

\* cell_suspend of the root cell, then of the cell: an SGI, and no wait.
arch_suspend_cpu(c) ==
  /\ master.step \in {"root", "cell"} /\ c \in master.todo
  /\ sgiOff' = IF psci_cpu_stopped(c) THEN sgiOff ELSE sgiOff \cup {c}
  /\ Pop(c)
  /\ UNCHANGED <<mbox, cpuSide, inCell, dirty, shut, due, books2>>

\* The checks of the hypercall end it, or it goes on.
Decide ==
  /\ DoneWith("root")
  /\ \/ Step("resume", Others)
     \/ master.op = "create" /\ Step("park", CellSet)
     \/ master.op # "create" /\ Step("cell", inCell)
  /\ UNCHANGED <<mbox, cpuSide, sgiOff, inCell, dirty, shut, due, books2>>

Suspended2 ==
  /\ DoneWith("cell")
  /\ Step(IF master.op \in {"load", "destroy"} THEN "park"
          ELSE IF master.op = "start" THEN "commit" ELSE "shut",
          IF master.op = "start" THEN {} ELSE inCell)
  /\ UNCHANGED <<mbox, cpuSide, sgiOff, inCell, dirty, shut, due, books2>>

\* psci_wait_cpu_stopped; creating moves the CPU to the cell, destroying back.
arch_park_cpu(c) ==
  /\ Doing2("park") /\ c \in master.todo /\ psci_cpu_stopped(c)
  /\ inCell' = IF master.op = "create" THEN inCell \cup {c}
               ELSE IF master.op = "destroy" THEN inCell \ {c} ELSE inCell
  /\ Pop(c)
  /\ UNCHANGED <<mbox, cpuSide, sgiOff, dirty, shut, due, books2>>

Parked2 ==
  /\ DoneWith("park")
  /\ Step(IF master.op = "destroy" THEN "reset" ELSE "commit",
          IF master.op = "destroy" THEN CellSet ELSE {})
  /\ exists' = (master.op # "destroy")
  /\ UNCHANGED <<mbox, cpuSide, sgiOff, inCell, dirty, shut, due, loadable>>

\* Every other root CPU, and on creation and destruction those of the cell,
\* must flush before it runs a guest again.  Starting and loading commit only
\* when the loadable state changes.
arch_config_commit ==
  /\ Doing2("commit")
  /\ dirty' = CASE master.op \in {"create", "destroy"} ->
                     dirty \cup (Others \cup inCell \cup CellSet)
                [] OTHER -> IF loadable = (master.op = "start")
                            THEN dirty \cup Others ELSE dirty
  /\ loadable' = (master.op = "load")
  /\ IF master.op = "start" THEN Step("reset", inCell) ELSE Step("resume", Others)
  /\ UNCHANGED <<mbox, cpuSide, sgiOff, inCell, shut, due, exists>>

\* A memory region cannot be mapped or unmapped: the cell that is being created
\* is destroyed again; starting and loading give up where they are.
RemapFails ==
  /\ Doing2("commit") /\ master.op # "destroy"
  /\ \/ /\ master.op = "create"
        /\ master' = [master EXCEPT !.op = "destroy", !.step = "park",
                                    !.todo = CellSet]
        /\ UNCHANGED loadable
     \/ /\ master.op # "create" /\ loadable = (master.op = "start")
        /\ loadable' = TRUE /\ Step("resume", Others)
  /\ UNCHANGED <<mbox, cpuSide, sgiOff, inCell, dirty, shut, due, exists>>

\* arch_reset_cpu of cell_start and of arch_cell_destroy.
arch_reset_cpu(c) ==
  /\ Doing2("reset") /\ c \in master.todo
  /\ psci_cpu_on(c, "reset") /\ Pop(c)
  /\ UNCHANGED <<cpuSide, sgiOff, inCell, dirty, shut, books2>>
ResetAll ==
  /\ DoneWith("reset")
  /\ IF master.op = "destroy" THEN Step("commit", {}) ELSE Step("resume", Others)
  /\ UNCHANGED <<mbox, cpuSide, sgiOff, inCell, dirty, shut, due, books2>>

\* cell_resume: psci_resume of a CPU that is stopped.
arch_resume_cpu(c) ==
  /\ Doing2("resume") /\ c \in master.todo /\ where[Master] = "guest"
  /\ IF psci_cpu_stopped(c)
     THEN from' = [from EXCEPT ![Master] = c] /\ At2(Master, "on")
     ELSE UNCHANGED <<from, where>>
  /\ Pop(c)
  /\ UNCHANGED <<mbox, gmbox, tgt, stage2, sgiOff, inCell, dirty, shut, due, books2>>
Return2 ==
  /\ DoneWith("resume") /\ where[Master] = "guest" /\ master' = Calm
  /\ UNCHANGED <<mbox, cpuSide, sgiOff, inCell, dirty, shut, due, books2>>

\* Shutdown of a cell CPU: marked, awaited, reset.  A CPU that ends an exit in
\* between leaves by itself and is awaited in vain.
MarkShutdown(c) ==
  /\ Doing2("shut") /\ c \in master.todo /\ master.todo \cap shut = {}
  /\ shut' = shut \cup {c}
  /\ UNCHANGED <<mbox, cpuSide, sgiOff, inCell, dirty, due, books2, master>>
AwaitShutdown(c) ==
  /\ Doing2("shut") /\ c \in master.todo \cap shut /\ psci_cpu_stopped(c)
  /\ Step("stopped", master.todo)
  /\ UNCHANGED <<mbox, cpuSide, sgiOff, inCell, dirty, shut, due, books2>>
arch_shutdown_cpu(c) ==
  /\ Doing2("stopped") /\ c \in master.todo \cap shut
  /\ psci_cpu_on(c, "reset") /\ Step("shut", master.todo \ {c})
  /\ UNCHANGED <<cpuSide, sgiOff, inCell, dirty, shut, books2>>

\* Mutant: the root CPUs may leave before the cells' CPUs were told.
ShutdownRootFirst ==
  /\ Doing2("shut") /\ shut' = ArmCpus \ inCell /\ master' = Calm
  /\ UNCHANGED <<mbox, cpuSide, sgiOff, inCell, dirty, due, books2>>

\* The root CPUs leave at the end of their next exit.
arch_shutdown ==
  /\ DoneWith("shut") /\ shut' = shut \cup (ArmCpus \ inCell) /\ master' = Calm
  /\ UNCHANGED <<mbox, cpuSide, sgiOff, inCell, dirty, due, books2>>

-----------------------------------------------------------------------------
ArmCpuInit ==
  /\ mbox = [c \in ArmCpus |-> "resume"] /\ gmbox = {}
  /\ where = [c \in ArmCpus |-> "guest"] /\ from = [c \in ArmCpus |-> "none"]
  /\ tgt = [c \in ArmCpus |-> {}]
  /\ sgiOff = {} /\ inCell = {} /\ stage2 = {} /\ dirty = {} /\ shut = {}
  /\ due = {} /\ exists = FALSE /\ loadable = FALSE /\ master = Calm

CpuStep(c) ==
  \/ arch_suspend_self(c) \/ WakeUp(c) \/ arch_reset_self(c)
  \/ psci_emulate_spin(c) \/ PsciCpuOff(c) \/ psci_emulate_cpu_on(c)
  \/ arch_panic_halt(c)

ArmCpuNext ==
  \/ \E c \in ArmCpus \ {Master} : CpuStep(c)
  \/ \E c \in ArmCpus : \/ arch_generic_smp_mmio(c) \/ psci_try_resume(c)
                        \/ psci_wait_cpu_stopped(c) \/ psci_resume(c) \/ ExitShutdown(c)
  \/ \E op \in {"create", "start", "load", "destroy", "shutdown"} : Hypercall2(op)
  \/ \E c \in ArmCpus :
       \/ arch_suspend_cpu(c) \/ arch_park_cpu(c) \/ arch_reset_cpu(c)
       \/ arch_resume_cpu(c) \/ MarkShutdown(c) \/ AwaitShutdown(c)
       \/ arch_shutdown_cpu(c)
  \/ Decide \/ Suspended2 \/ Parked2 \/ arch_config_commit
  \/ RemapFails \/ ResetAll \/ Return2
  \/ arch_shutdown

ArmCpuSpec == ArmCpuInit /\ [][ArmCpuNext]_armCpuVars

-----------------------------------------------------------------------------
\* psci_cpu_stopped, on which suspending, parking, resuming and shutting down
\* all decide, is true only of a CPU that waits in the off loop.
StoppedWaits == \A c \in ArmCpus : psci_cpu_stopped(c) => where[c] = "off"

\* A reset that psci_cpu_on accepted is performed before its CPU executes guest
\* code again, although a guest's CPU_ON or mailbox write may try to wake the
\* same CPU at the same time.
ResetSticks == \A c \in due : where[c] \in {"off", "reset"}

\* A root CPU leaves the hypervisor only after every CPU of the cell was told to.
CellsToldFirst == \A c \in ArmCpus \ inCell : where[c] = "left" => inCell \subseteq shut

\* The PSCI mailboxes carry suspension, reset and shutdown safely: only waiting
\* CPUs count as stopped, an accepted reset is performed, and root CPUs leave
\* last (psci_cpu_stopped, psci_cpu_on, arch_shutdown).
MailboxSafe == StoppedWaits /\ ResetSticks /\ CellsToldFirst

-----------------------------------------------------------------------------
(* The strengthenings that make it inductive. *)

ArmCpuTypeOK ==
  /\ mbox \in [ArmCpus -> {"stop", "resume", "reset"}]
  /\ where \in [ArmCpus -> {"guest", "off", "reset", "spin", "on", "ready", "mmio",
                            "wild", "left"}]
  /\ due \subseteq ArmCpus /\ inCell \subseteq ArmCpus /\ shut \subseteq ArmCpus
  /\ master \in [op : {"none", "create", "start", "load", "destroy", "shutdown"},
                 step : {"none", "root", "cell", "park", "commit", "reset", "resume",
                         "shut", "stopped"}, todo : SUBSET ArmCpus]

\* The mailbox of a CPU keeps "stop" while it waits, and an accepted reset until
\* it is performed.
MailboxInv ==
  /\ \A c \in ArmCpus : psci_cpu_stopped(c) => where[c] = "off"
  /\ \A c \in due : mbox[c] = "reset" /\ where[c] \in {"off", "reset"}

\* Only shutdown marks CPUs: first those of the cell, then the others.
ShutInv ==
  /\ \A c \in ArmCpus : where[c] = "left" => c \in shut
  /\ \A c \in shut : c \in inCell \/ inCell \subseteq shut
  /\ master.op \in {"create", "start", "load", "destroy"} =>
       shut = {} /\ master.step \notin {"none", "shut", "stopped"}
  /\ master.op = "create" => master.step # "cell"
  /\ master.op = "shutdown" => master.step \in {"cell", "shut", "stopped"}
  /\ master.op = "none" => master.step = "none"
  /\ master.op = "shutdown" => shut \subseteq inCell
  /\ master.step \in {"shut", "stopped"} =>
       master.todo \subseteq inCell /\ inCell \subseteq master.todo \cup shut

\* The inductive invariant.
ArmCpuInv == ArmCpuTypeOK /\ MailboxInv /\ ShutInv
=============================================================================
