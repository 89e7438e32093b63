------------------------------ MODULE CpuControl ------------------------------
(***************************************************************************)
(* How the x86 hypervisor takes CPUs away from a running guest and gives   *)
(* them back: the control fields of struct per_cpu, the event loop         *)
(* x86_handle_events that every CPU runs when it is kicked by an NMI, the  *)
(* INIT/SIPI messages of the guests, and the management hypercalls of      *)
(* hypervisor/control.c that suspend, park, reset, resume and shut down    *)
(* CPUs while all the others go on running.                                *)
(*                                                                         *)
(* Every access to a field that another CPU may touch is a step of its     *)
(* own.  control_lock is held across steps only by the CPU that runs the   *)
(* event loop, so the lock is a predicate on that CPU's program counter;   *)
(* the short critical sections of the other parties are single steps that  *)
(* are disabled while the lock is taken.                                   *)
(***************************************************************************)
EXTENDS FiniteSets

CONSTANTS
  CPU,          \* the physical CPUs of the system configuration
  Cell,         \* the non-root cells that may be created
  Root,         \* the root cell
  CellConfig,   \* the CPU set in the configuration of each non-root cell
  Managers,     \* CPUs on which Linux may issue management hypercalls
  IpiTargets,   \* CPUs to which guests may send INIT and SIPI
  MayPanic,     \* CPUs whose guest may run into panic_halt
  PromptResume, \* TRUE: a resumed CPU has left the stop loop of the event
                \* handler before somebody suspends it again
  GlobalInvept  \* TRUE: vmx_invept drops the translations of all EPTs,
                \* FALSE: only those of the EPT that is loaded

ASSUME ConstAssumption ==
  /\ IsFiniteSet(CPU)
  /\ Root \notin Cell
  /\ CellConfig \in [Cell -> SUBSET CPU]
  /\ Managers \subseteq CPU
  /\ IpiTargets \subseteq CPU
  /\ MayPanic \subseteq CPU
  /\ PromptResume \in BOOLEAN
  /\ GlobalInvept \in BOOLEAN

AllCells == Cell \cup {Root}

VARIABLES
  (* what each CPU is doing *)
  pc,                 \* position of the CPU, see PCs below
  vector,             \* local variable sipi_vector of x86_handle_events
  dest,               \* target of the NMI that ends x86_send_init_sipi
  (* struct per_cpu *)
  stop_cpu, cpu_stopped, init_signaled, wait_for_sipi, sipi_vector,
  flush_virt_caches, shutdown_cpu, failed,
  percell,            \* per_cpu(cpu)->cell
  (* the processor *)
  nmi,                \* an NMI is pending at the CPU
  timer,              \* the VMX preemption timer forces an immediate exit
  config,             \* the cell whose EPT and I/O bitmap the VMCS points to
  stale,              \* cells whose EPT had mappings removed that the CPU
                      \* may still have cached
  (* struct cell *)
  cpu_set, loadable, cell_state,
  (* the management hypercall in progress *)
  mpc,                \* position in the hypercall, see ManagerPCs below
  op,                 \* which hypercall
  phase,              \* which of the hypercall's suspend loops is running
  mcpu, mcell,        \* the CPU that executes it and the cell it is about
  todo,               \* CPUs the current loop has still to visit
  target,             \* the CPU the loop is working on
  held                \* CPUs that arch_suspend_cpu stopped and nobody resumed

local    == <<pc, vector, dest>>
stop     == <<stop_cpu, cpu_stopped>>
initsipi == <<init_signaled, wait_for_sipi, sipi_vector>>
marks    == <<flush_virt_caches, shutdown_cpu, failed>>
control  == <<stop_cpu, cpu_stopped, init_signaled, wait_for_sipi,
              sipi_vector, flush_virt_caches, shutdown_cpu, failed>>
kick     == <<nmi, timer>>
tables   == <<config, stale>>
virt     == <<nmi, timer, config, stale>>
cells    == <<percell, cpu_set, loadable, cell_state>>
call     == <<op, phase, mcpu, mcell>>
loop     == <<mpc, todo, target, held>>
manager  == <<op, phase, mcpu, mcell, mpc, todo, target, held>>
vars     == <<local, control, virt, cells, manager>>

(***************************************************************************)
(* Positions of a CPU:                                                     *)
(*   guest   executing guest code, or halted in the parked state           *)
(*   trap    in some VM-exit handler; the management hypercalls start here *)
(*   ipi     in x86_send_init_sipi, control_lock released, NMI to be sent  *)
(*   panic   in panic_halt, already marked as failed                       *)
(*   hc      executing a management hypercall                              *)
(*   exit    NMI or preemption-timer exit, timer not yet disabled          *)
(*   lock    about to enter x86_handle_events                              *)
(*   top     head of its loop, lock held                                   *)
(*   spin    lock released, looping on stop_cpu                            *)
(*   window  stop_cpu was seen clear, lock not yet taken again             *)
(*   flush   behind the loop, lock held                                    *)
(*   leave   lock released, about to return to the guest                   *)
(*   dead    halted with VMX off, or handed back to Linux                  *)
(***************************************************************************)
PCs == {"guest", "trap", "ipi", "panic", "hc", "exit", "lock", "top", "spin",
        "window", "flush", "leave", "dead"}

ManagerPCs == {"idle", "suspend", "nmi", "wait", "off", "check", "assign",
               "assigned", "unassign", "unassigned", "reclaim", "commit",
               "reset", "park", "resume", "closing", "closed"}

Vectors == {"none", "bsp", "sipi"}
Ops     == {"create", "start", "set_loadable", "destroy", "disable"}
Phases  == {"root", "cell", "off"}
States  == {"NONE", "SHUT_DOWN", "RUNNING", "FAILED"}

Locked(c) == pc[c] \in {"top", "flush"}

Linked(k) == cell_state[k] # "NONE"

CpuTypeOK ==
  /\ pc \in [CPU -> PCs]
  /\ vector \in [CPU -> Vectors]
  /\ dest \in [CPU -> CPU]
  /\ stop_cpu \in [CPU -> BOOLEAN]
  /\ cpu_stopped \in [CPU -> BOOLEAN]
  /\ init_signaled \in [CPU -> BOOLEAN]
  /\ wait_for_sipi \in [CPU -> BOOLEAN]
  /\ sipi_vector \in [CPU -> Vectors]
  /\ flush_virt_caches \in [CPU -> BOOLEAN]
  /\ shutdown_cpu \in [CPU -> BOOLEAN]
  /\ failed \in [CPU -> BOOLEAN]

ProcessorTypeOK ==
  /\ nmi \in [CPU -> BOOLEAN]
  /\ timer \in [CPU -> BOOLEAN]
  /\ config \in [CPU -> AllCells]
  /\ stale \in [CPU -> SUBSET AllCells]

CellTypeOK ==
  /\ percell \in [CPU -> AllCells]
  /\ cpu_set \in [AllCells -> SUBSET CPU]
  /\ loadable \in [AllCells -> BOOLEAN]
  /\ cell_state \in [AllCells -> States]

CallTypeOK ==
  /\ mpc \in ManagerPCs
  /\ op \in Ops
  /\ phase \in Phases
  /\ mcpu \in CPU
  /\ mcell \in AllCells
  /\ todo \in SUBSET CPU
  /\ target \in CPU
  /\ held \in SUBSET CPU

\* The fields of struct per_cpu, of the processor, of struct cell and of the
\* hypercall in progress have values of their types; sipi_vector is a vector,
\* the pseudo vector APIC_BSP_PSEUDO_SIPI or none, never a flag.
TypeOK == CpuTypeOK /\ ProcessorTypeOK /\ CellTypeOK /\ CallTypeOK

(***************************************************************************)
(* The hypervisor has just been enabled: all CPUs run the root cell.       *)
(***************************************************************************)
Init ==
  /\ pc = [c \in CPU |-> "guest"]
  /\ vector = [c \in CPU |-> "none"]
  /\ dest = [c \in CPU |-> c]
  /\ stop_cpu = [c \in CPU |-> FALSE]
  /\ cpu_stopped = [c \in CPU |-> FALSE]
  /\ init_signaled = [c \in CPU |-> FALSE]
  /\ wait_for_sipi = [c \in CPU |-> FALSE]
  /\ sipi_vector = [c \in CPU |-> "none"]
  /\ flush_virt_caches = [c \in CPU |-> FALSE]
  /\ shutdown_cpu = [c \in CPU |-> FALSE]
  /\ failed = [c \in CPU |-> FALSE]
  /\ percell = [c \in CPU |-> Root]
  /\ nmi = [c \in CPU |-> FALSE]
  /\ timer = [c \in CPU |-> FALSE]
  /\ config = [c \in CPU |-> Root]
  /\ stale = [c \in CPU |-> {}]
  /\ cpu_set = [k \in AllCells |-> IF k = Root THEN CPU ELSE {}]
  /\ loadable = [k \in AllCells |-> FALSE]
  /\ cell_state = [k \in AllCells |-> IF k = Root THEN "RUNNING" ELSE "NONE"]
  /\ mpc = "idle"
  /\ op = "create"
  /\ phase = "root"
  /\ mcpu \in Managers
  /\ mcell = Root
  /\ todo = {}
  /\ target = mcpu
  /\ held = {}

(***************************************************************************)
(* What the guest of a running CPU does.                                   *)
(***************************************************************************)

\* A VM exit other than NMI and preemption timer.  A parked CPU is halted
\* with interrupts off, an armed timer fires before the first instruction.
VmExit(c) ==
  /\ pc[c] = "guest" /\ ~wait_for_sipi[c] /\ ~timer[c]
  /\ pc' = [pc EXCEPT ![c] = "trap"]
  /\ UNCHANGED <<vector, dest, control, virt, cells, manager>>

\* The exit is handled and the guest continues.
VmEntry(c) ==
  /\ pc[c] = "trap"
  /\ pc' = [pc EXCEPT ![c] = "guest"]
  /\ UNCHANGED <<vector, dest, control, virt, cells, manager>>

\* Mutant of SendInit: the NMI behind it is forgotten.
SendInitNoNmi(c, t) ==
  /\ pc[c] = "trap" /\ t \in cpu_set[percell[c]] \ {c} /\ ~Locked(t)
  /\ ~wait_for_sipi[t]
  /\ init_signaled' = [init_signaled EXCEPT ![t] = TRUE]
  /\ pc' = [pc EXCEPT ![c] = "guest"]
  /\ UNCHANGED <<vector, dest, stop, wait_for_sipi, sipi_vector, marks, virt,
                 cells, manager>>

\* x86_send_init_sipi behind the destination check of apic_send_ipi: the
\* critical section on the target's lock.  An INIT to a waiting CPU and a
\* SIPI to any other are ignored, which is a VmEntry like any other.
SendInit(c, t) ==
  /\ pc[c] = "trap" /\ t \in cpu_set[percell[c]] \ {c} /\ ~Locked(t)
  /\ ~wait_for_sipi[t]
  /\ init_signaled' = [init_signaled EXCEPT ![t] = TRUE]
  /\ pc' = [pc EXCEPT ![c] = "ipi"]
  /\ dest' = [dest EXCEPT ![c] = t]
  /\ UNCHANGED <<vector, stop, wait_for_sipi, sipi_vector, marks, virt, cells,
                  manager>>

SendSipi(c, t) ==
  /\ pc[c] = "trap" /\ t \in cpu_set[percell[c]] \ {c} /\ ~Locked(t)
  /\ wait_for_sipi[t]
  /\ sipi_vector' = [sipi_vector EXCEPT ![t] = "sipi"]
  /\ pc' = [pc EXCEPT ![c] = "ipi"]
  /\ dest' = [dest EXCEPT ![c] = t]
  /\ UNCHANGED <<vector, stop, init_signaled, wait_for_sipi, marks, virt,
                  cells, manager>>

\* ... and the NMI behind it.
SendNmi(c) ==
  /\ pc[c] = "ipi"
  /\ nmi' = [nmi EXCEPT ![dest[c]] = TRUE]
  /\ pc' = [pc EXCEPT ![c] = "guest"]
  /\ dest' = [dest EXCEPT ![c] = c]
  /\ UNCHANGED <<vector, control, timer, tables, cells, manager>>

\* panic_halt: the CPU marks itself as failed ...
PanicHalt(c) ==
  /\ pc[c] = "trap" /\ c \in MayPanic
  /\ pc' = [pc EXCEPT ![c] = "panic"]
  /\ failed' = [failed EXCEPT ![c] = TRUE]
  /\ UNCHANGED <<vector, dest, stop, initsipi, flush_virt_caches,
                  shutdown_cpu, virt, cells, manager>>

\* ... gives up the cell if it was the last one, and parks itself
\* (arch_panic_halt, vmx_cpu_park).
PanicPark(c) ==
  /\ pc[c] = "panic"
  /\ cell_state' = IF \A d \in cpu_set[percell[c]] : failed[d]
                     THEN [cell_state EXCEPT ![percell[c]] = "FAILED"]
                     ELSE cell_state
  /\ init_signaled' = [init_signaled EXCEPT ![c] = FALSE]
  /\ wait_for_sipi' = [wait_for_sipi EXCEPT ![c] = TRUE]
  /\ config' = [config EXCEPT ![c] = percell[c]]
  /\ pc' = [pc EXCEPT ![c] = "guest"]
  /\ UNCHANGED <<vector, dest, stop, sipi_vector, marks, kick, stale, percell,
                  cpu_set, loadable, manager>>

(***************************************************************************)
(* NMIs.  In guest mode an NMI causes an exit, whose handler arms and then *)
(* disables the preemption timer; in the hypervisor it arms the timer, so  *)
(* that the next VM entry exits at once.                                   *)
(***************************************************************************)
NmiExit(c) ==
  /\ pc[c] = "guest" /\ nmi[c]
  /\ pc' = [pc EXCEPT ![c] = "exit"]
  /\ nmi' = [nmi EXCEPT ![c] = FALSE]
  /\ timer' = [timer EXCEPT ![c] = TRUE]
  /\ UNCHANGED <<vector, dest, control, tables, cells, manager>>

TimerExit(c) ==
  /\ pc[c] = "guest" /\ timer[c]
  /\ pc' = [pc EXCEPT ![c] = "exit"]
  /\ UNCHANGED <<vector, dest, control, virt, cells, manager>>

\* Mutant of NmiInHypervisor: the handler drops the NMI.
NmiDropped(c) ==
  /\ pc[c] # "guest" /\ nmi[c]
  /\ nmi' = [nmi EXCEPT ![c] = FALSE]
  /\ UNCHANGED <<local, control, timer, tables, cells, manager>>

NmiInHypervisor(c) ==
  /\ pc[c] # "guest" /\ nmi[c]
  /\ nmi' = [nmi EXCEPT ![c] = FALSE]
  /\ timer' = [timer EXCEPT ![c] = @ \/ pc[c] # "dead"]
  /\ UNCHANGED <<local, control, tables, cells, manager>>

DisableTimer(c) ==
  /\ pc[c] = "exit"
  /\ pc' = [pc EXCEPT ![c] = "lock"]
  /\ timer' = [timer EXCEPT ![c] = FALSE]
  /\ UNCHANGED <<vector, dest, control, nmi, tables, cells, manager>>

(***************************************************************************)
(* x86_handle_events.                                                      *)
(***************************************************************************)
EventsLock(c) ==
  /\ pc[c] = "lock"
  /\ pc' = [pc EXCEPT ![c] = "top"]
  /\ vector' = [vector EXCEPT ![c] = "none"]
  /\ UNCHANGED <<dest, control, virt, cells, manager>>

\* Mutant of EventsInit: init_signaled stays set.
EventsInitSticky(c) ==
  /\ pc[c] = "top" /\ init_signaled[c] /\ ~stop_cpu[c]
  /\ wait_for_sipi' = [wait_for_sipi EXCEPT ![c] = TRUE]
  /\ vector' = [vector EXCEPT ![c] = "none"]
  /\ pc' = [pc EXCEPT ![c] = "flush"]
  /\ UNCHANGED <<dest, stop, init_signaled, sipi_vector, marks, virt, cells,
                 manager>>

\* Head of the loop: a CPU that was sent an INIT and is not stopped enters
\* wait-for-SIPI and leaves the loop (x86_enter_wait_for_sipi).
EventsInit(c) ==
  /\ pc[c] = "top" /\ init_signaled[c] /\ ~stop_cpu[c]
  /\ init_signaled' = [init_signaled EXCEPT ![c] = FALSE]
  /\ wait_for_sipi' = [wait_for_sipi EXCEPT ![c] = TRUE]
  /\ vector' = [vector EXCEPT ![c] = "none"]
  /\ pc' = [pc EXCEPT ![c] = "flush"]
  /\ UNCHANGED <<dest, stop, sipi_vector, marks, virt, cells, manager>>

\* Any other announces that it is stopped and releases the lock.
EventsStop(c) ==
  /\ pc[c] = "top" /\ ~(init_signaled[c] /\ ~stop_cpu[c])
  /\ cpu_stopped' = [cpu_stopped EXCEPT ![c] = TRUE]
  /\ pc' = [pc EXCEPT ![c] = "spin"]
  /\ UNCHANGED <<vector, dest, stop_cpu, initsipi, marks, virt, cells,
                  manager>>

\* Mutants of EventsSpin: the shutdown test is missing, or stop_cpu is tested
\* once instead of in a loop.
EventsSpinNoShutdown(c) ==
  /\ pc[c] = "spin" /\ ~stop_cpu[c]
  /\ pc' = [pc EXCEPT ![c] = "window"]
  /\ UNCHANGED <<vector, dest, control, virt, cells, manager>>

EventsSpinOnce(c) ==
  /\ pc[c] = "spin"
  /\ pc' = [pc EXCEPT ![c] = IF shutdown_cpu[c] THEN "dead" ELSE "window"]
  /\ UNCHANGED <<vector, dest, control, virt, cells, manager>>

\* while (stop_cpu); then the shutdown test.
EventsSpin(c) ==
  /\ pc[c] = "spin" /\ ~stop_cpu[c]
  /\ pc' = [pc EXCEPT ![c] = IF shutdown_cpu[c] THEN "dead" ELSE "window"]
  /\ UNCHANGED <<vector, dest, control, virt, cells, manager>>

\* Mutants of EventsWake: a failed CPU obeys the SIPI, or the loop is left
\* without a second look at init_signaled.
EventsWakeFailed(c) ==
  /\ pc[c] = "window"
  /\ cpu_stopped' = [cpu_stopped EXCEPT ![c] = FALSE]
  /\ IF sipi_vector[c] # "none"
       THEN /\ wait_for_sipi' = [wait_for_sipi EXCEPT ![c] = FALSE]
            /\ vector' = [vector EXCEPT ![c] = sipi_vector[c]]
       ELSE UNCHANGED <<wait_for_sipi, vector>>
  /\ sipi_vector' = [sipi_vector EXCEPT ![c] = "none"]
  /\ pc' = [pc EXCEPT ![c] = IF init_signaled[c] THEN "top" ELSE "flush"]
  /\ UNCHANGED <<dest, stop_cpu, init_signaled, marks, virt, cells, manager>>

EventsWakeNoLoop(c) ==
  /\ pc[c] = "window"
  /\ cpu_stopped' = [cpu_stopped EXCEPT ![c] = FALSE]
  /\ IF sipi_vector[c] # "none" /\ ~failed[c]
       THEN /\ wait_for_sipi' = [wait_for_sipi EXCEPT ![c] = FALSE]
            /\ vector' = [vector EXCEPT ![c] = sipi_vector[c]]
       ELSE UNCHANGED <<wait_for_sipi, vector>>
  /\ sipi_vector' = [sipi_vector EXCEPT ![c] = "none"]
  /\ pc' = [pc EXCEPT ![c] = "flush"]
  /\ UNCHANGED <<dest, stop_cpu, init_signaled, marks, virt, cells, manager>>

\* The lock is taken again, the stop withdrawn, a SIPI consumed.
EventsWake(c) ==
  /\ pc[c] = "window"
  /\ cpu_stopped' = [cpu_stopped EXCEPT ![c] = FALSE]
  /\ IF sipi_vector[c] # "none" /\ ~failed[c]
       THEN /\ wait_for_sipi' = [wait_for_sipi EXCEPT ![c] = FALSE]
            /\ vector' = [vector EXCEPT ![c] = sipi_vector[c]]
       ELSE UNCHANGED <<wait_for_sipi, vector>>
  /\ sipi_vector' = [sipi_vector EXCEPT ![c] = "none"]
  /\ pc' = [pc EXCEPT ![c] = IF init_signaled[c] THEN "top" ELSE "flush"]
  /\ UNCHANGED <<dest, stop_cpu, init_signaled, marks, virt, cells, manager>>

\* vmx_invept: what remains of the stale translations of CPU c.
vmx_invept(c) == IF GlobalInvept THEN {} ELSE stale[c] \ {config[c]}

EventsFlush(c) ==
  /\ pc[c] = "flush"
  /\ pc' = [pc EXCEPT ![c] = "leave"]
  /\ flush_virt_caches' = [flush_virt_caches EXCEPT ![c] = FALSE]
  /\ stale' = [stale EXCEPT ![c] = IF flush_virt_caches[c] THEN vmx_invept(c)
                                                          ELSE @]
  /\ UNCHANGED <<vector, dest, stop, initsipi, shutdown_cpu, failed, kick,
                  config, cells, manager>>

\* Mutant of EventsReload: a reset keeps the configuration that was loaded
\* when the CPU was parked.
EventsReloadParkOnly(c) ==
  /\ pc[c] = "leave" /\ (wait_for_sipi[c] \/ vector[c] # "none")
  /\ config' = [config EXCEPT ![c] = IF wait_for_sipi[c] THEN percell[c] ELSE @]
  /\ vector' = [vector EXCEPT ![c] = "none"]
  /\ pc' = [pc EXCEPT ![c] = "guest"]
  /\ UNCHANGED <<dest, control, kick, stale, cells, manager>>

\* vmx_cpu_park and vmx_cpu_reset load the configuration of the cell into
\* the VMCS ...
EventsReload(c) ==
  /\ pc[c] = "leave" /\ (wait_for_sipi[c] \/ vector[c] # "none")
  /\ config' = [config EXCEPT ![c] = percell[c]]
  /\ vector' = [vector EXCEPT ![c] = "none"]
  /\ pc' = [pc EXCEPT ![c] = "guest"]
  /\ UNCHANGED <<dest, control, kick, stale, cells, manager>>

\* ... and without either the guest continues where it was.
EventsReturn(c) ==
  /\ pc[c] = "leave" /\ ~(wait_for_sipi[c] \/ vector[c] # "none")
  /\ pc' = [pc EXCEPT ![c] = "guest"]
  /\ UNCHANGED <<vector, dest, control, virt, cells, manager>>

(***************************************************************************)
(* The management hypercalls.  The Linux driver's mutex admits one at a    *)
(* time; mcpu executes it.  for_each_cpu visits its CPUs in any order.     *)
(***************************************************************************)

Loop(where, S) == mpc' = where /\ todo' = S

Others(k) == cpu_set[k] \ {mcpu}

\* Entry of cell_create, cell_start, cell_set_loadable, cell_destroy (the
\* first thing they do is cell_suspend(&root_cell)) and of shutdown.
Hypercall(c, o, k) ==
  /\ mpc = "idle" /\ pc[c] = "trap" /\ c \in Managers /\ percell[c] = Root
  /\ o = "disable" <=> k = Root
  /\ pc' = [pc EXCEPT ![c] = "hc"]
  /\ op' = o /\ mcpu' = c /\ mcell' = k /\ target' = c
  /\ phase' = "root"
  /\ IF o = "disable" THEN Loop("check", {})
                      ELSE Loop("suspend", cpu_set[Root] \ {c})
  /\ UNCHANGED <<vector, dest, control, virt, cells, held>>

Stopped(c) ==
  /\ held' = held \cup {c}
  /\ mpc' = IF phase = "off" THEN "off" ELSE "suspend"

\* arch_suspend_cpu: the critical section, the NMI, the wait.
SuspendLock(t) ==
  /\ mpc = "suspend" /\ t \in todo /\ ~Locked(t)
  /\ PromptResume => (cpu_stopped[t] => stop_cpu[t])
  /\ stop_cpu' = [stop_cpu EXCEPT ![t] = TRUE]
  /\ todo' = todo \ {t}
  /\ target' = t
  /\ IF cpu_stopped[t] THEN Stopped(t)
                       ELSE mpc' = "nmi" /\ UNCHANGED held
  /\ UNCHANGED <<local, cpu_stopped, initsipi, marks, virt, cells, call>>

SuspendNmi ==
  /\ mpc = "nmi"
  /\ nmi' = [nmi EXCEPT ![target] = TRUE]
  /\ mpc' = "wait"
  /\ UNCHANGED <<local, control, timer, tables, cells, call, todo, target,
                  held>>

\* Mutant of SuspendWait: arch_suspend_cpu returns behind the NMI.
SuspendNoWait ==
  /\ mpc = "wait"
  /\ Stopped(target)
  /\ UNCHANGED <<local, control, virt, cells, call, todo, target>>

SuspendWait ==
  /\ mpc = "wait" /\ cpu_stopped[target]
  /\ Stopped(target)
  /\ UNCHANGED <<local, control, virt, cells, call, todo, target>>

arch_resume_cpu(c) ==
  /\ stop_cpu' = [stop_cpu EXCEPT ![c] = FALSE]
  /\ held' = held \ {c}

\* Mutant of arch_park_cpu: the CPU is resumed without the INIT.
ParkNoInit(c) == UNCHANGED init_signaled /\ arch_resume_cpu(c)

arch_park_cpu(c) ==
  /\ init_signaled' = [init_signaled EXCEPT ![c] = TRUE]
  /\ arch_resume_cpu(c)

\* Mutant of arch_reset_cpu: the start address is stored in place of the vector.
ResetAddress(c) ==
  /\ sipi_vector' = [sipi_vector EXCEPT ![c] = "reset address"]
  /\ arch_resume_cpu(c)

arch_reset_cpu(c) ==
  /\ sipi_vector' = [sipi_vector EXCEPT ![c] = "bsp"]
  /\ arch_resume_cpu(c)

\* Mutant of arch_config_commit: the other root CPUs are forgotten.
CommitCellOnly(S) ==
  /\ flush_virt_caches' = [c \in CPU |-> flush_virt_caches[c] \/ c \in S \ {mcpu}]
  /\ stale' = [stale EXCEPT ![mcpu] = vmx_invept(mcpu)]

\* All root CPUs and those of a cell that comes or goes have to invalidate
\* their translations before they run again; mcpu does it right away.
arch_config_commit(S) ==
  /\ flush_virt_caches' =
       [c \in CPU |-> flush_virt_caches[c] \/ c \in (cpu_set[Root] \cup S) \ {mcpu}]
  /\ stale' = [stale EXCEPT ![mcpu] = vmx_invept(mcpu)]

\* Mappings disappear from the page tables of cell k; any CPU may have used
\* them before, in this or in an earlier life of the cell.
Unmap(k) == stale' = [c \in CPU |-> stale[c] \cup {k}]

\* The root cell is stopped: look up the cell and ask the cells involved
\* (cell_reconfig_ok, cell_shutdown_ok).  Their answers, and every other
\* reason to refuse a new cell, are arbitrary here.
RefuseRequest ==
  /\ \/ mpc = "suspend" /\ todo = {} /\ phase = "root"
     \/ mpc = "check"
  /\ Loop("resume", IF op = "disable" THEN {} ELSE Others(Root))
  /\ UNCHANGED <<local, control, virt, cells, call, target, held>>

\* cell_create: the checks on the CPU set passed, and so did cell_init and
\* arch_cell_create.
AcceptCreate ==
  /\ mpc = "suspend" /\ todo = {} /\ phase = "root" /\ op = "create"
  /\ mcell \in Cell /\ ~Linked(mcell)
  /\ mcpu \notin CellConfig[mcell] /\ CellConfig[mcell] \subseteq cpu_set[Root]
  /\ cpu_set' = [cpu_set EXCEPT ![mcell] = CellConfig[mcell]]
  /\ loadable' = [loadable EXCEPT ![mcell] = FALSE]
  /\ Loop("assign", CellConfig[mcell])
  /\ UNCHANGED <<local, control, virt, percell, cell_state, call, target,
                  held>>

\* End of cell_management_prologue: stop the cell as well.
AcceptManage ==
  /\ mpc = "suspend" /\ todo = {} /\ phase = "root" /\ op # "create"
  /\ mcell \in Cell /\ Linked(mcell)
  /\ phase' = "cell"
  /\ Loop("suspend", cpu_set[mcell])
  /\ UNCHANGED <<local, control, virt, cells, op, mcpu, mcell, target, held>>

\* cell_create moves a CPU: first it is parked, then it changes cells.
AssignPark(c) ==
  /\ mpc = "assign" /\ c \in todo
  /\ arch_park_cpu(c)
  /\ target' = c
  /\ Loop("assigned", todo \ {c})
  /\ UNCHANGED <<local, cpu_stopped, wait_for_sipi, sipi_vector, marks, virt,
                  cells, call>>

\* Mutant of AssignCell: the bit in the root cell's CPU set stays.
AssignCellKeepBit ==
  /\ mpc = "assigned"
  /\ percell' = [percell EXCEPT ![target] = mcell]
  /\ mpc' = "assign"
  /\ UNCHANGED <<local, control, virt, cpu_set, loadable, cell_state, call,
                 todo, target, held>>

AssignCell ==
  /\ mpc = "assigned"
  /\ cpu_set' = [cpu_set EXCEPT ![Root] = @ \ {target}]
  /\ percell' = [percell EXCEPT ![target] = mcell]
  /\ mpc' = "assign"
  /\ UNCHANGED <<local, control, virt, loadable, cell_state, call, todo,
                  target, held>>

\* The cell's memory leaves the root cell.  If that fails half way, the
\* cell is taken apart again.
MapCell ==
  /\ mpc = "assign" /\ todo = {}
  /\ Unmap(Root)
  /\ \/ Loop("commit", {})
     \/ Loop("unassign", cpu_set[mcell])
  /\ UNCHANGED <<local, control, kick, config, cells, call, target, held>>

CommitCreate ==
  /\ mpc = "commit" /\ op = "create"
  /\ arch_config_commit(cpu_set[mcell])
  /\ cell_state' = [cell_state EXCEPT ![mcell] = "SHUT_DOWN"]
  /\ Loop("resume", Others(Root))
  /\ UNCHANGED <<local, stop, initsipi, shutdown_cpu, failed, kick, config,
                  percell, cpu_set, loadable, call, target, held>>

\* cell_destroy_internal, on behalf of cell_destroy and of a failed
\* cell_create.
StartDestroy ==
  /\ mpc = "suspend" /\ todo = {} /\ phase = "cell" /\ op = "destroy"
  /\ Loop("unassign", cpu_set[mcell])
  /\ UNCHANGED <<local, control, virt, cells, call, target, held>>

UnassignPark(c) ==
  /\ mpc = "unassign" /\ c \in todo
  /\ arch_park_cpu(c)
  /\ target' = c
  /\ Loop("unassigned", todo \ {c})
  /\ UNCHANGED <<local, cpu_stopped, wait_for_sipi, sipi_vector, marks, virt,
                  cells, call>>

\* Mutant of UnassignCell: the bit in the root cell's CPU set is not set.
UnassignCellNoBit ==
  /\ mpc = "unassigned"
  /\ percell' = [percell EXCEPT ![target] = Root]
  /\ failed' = [failed EXCEPT ![target] = FALSE]
  /\ mpc' = "unassign"
  /\ UNCHANGED <<local, stop, initsipi, flush_virt_caches, shutdown_cpu, virt,
                 cpu_set, loadable, cell_state, call, todo, target, held>>

UnassignCell ==
  /\ mpc = "unassigned"
  /\ cpu_set' = [cpu_set EXCEPT ![Root] = @ \cup {target}]
  /\ percell' = [percell EXCEPT ![target] = Root]
  /\ failed' = [failed EXCEPT ![target] = FALSE]
  /\ mpc' = "unassign"
  /\ UNCHANGED <<local, stop, initsipi, flush_virt_caches, shutdown_cpu, virt,
                  loadable, cell_state, call, todo, target, held>>

UnmapCell ==
  /\ mpc = "unassign" /\ todo = {}
  /\ Unmap(mcell)
  /\ mpc' = "reclaim"
  /\ UNCHANGED <<local, control, kick, config, cells, call, todo, target,
                  held>>

\* ... the commit, and the cell is unlinked and freed.
CommitDestroy ==
  /\ mpc = "reclaim"
  /\ arch_config_commit(cpu_set[mcell])
  /\ cell_state' = [cell_state EXCEPT ![mcell] = "NONE"]
  /\ cpu_set' = [cpu_set EXCEPT ![mcell] = {}]
  /\ loadable' = [loadable EXCEPT ![mcell] = FALSE]
  /\ Loop("resume", Others(Root))
  /\ UNCHANGED <<local, stop, initsipi, shutdown_cpu, failed, kick, config,
                  percell, call, target, held>>

\* cell_start: a loadable cell's memory is withdrawn from the root cell.  An
\* error returns with the cell's CPUs still suspended, and without a commit of
\* what was unmapped by then.
StartUnmap ==
  /\ mpc = "suspend" /\ todo = {} /\ phase = "cell" /\ op = "start"
  /\ loadable[mcell]
  /\ \/ Unmap(Root) /\ Loop("commit", {})
     \/ (Unmap(Root) \/ UNCHANGED stale) /\ Loop("resume", Others(Root))
  /\ UNCHANGED <<local, control, kick, config, cells, call, target, held>>

CommitStart ==
  /\ mpc = "commit" /\ op = "start"
  /\ arch_config_commit({})
  /\ loadable' = [loadable EXCEPT ![mcell] = FALSE]
  /\ mpc' = "suspend"
  /\ UNCHANGED <<local, stop, initsipi, shutdown_cpu, failed, kick, config,
                  percell, cpu_set, cell_state, call, todo, target, held>>

StartRun ==
  /\ mpc = "suspend" /\ todo = {} /\ phase = "cell" /\ op = "start"
  /\ ~loadable[mcell]
  /\ cell_state' = [cell_state EXCEPT ![mcell] = "RUNNING"]
  /\ Loop("reset", cpu_set[mcell])
  /\ UNCHANGED <<local, control, virt, percell, cpu_set, loadable, call,
                  target, held>>

ResetCpu(c) ==
  /\ mpc = "reset" /\ c \in todo
  /\ failed' = [failed EXCEPT ![c] = FALSE]
  /\ arch_reset_cpu(c)
  /\ todo' = todo \ {c}
  /\ UNCHANGED <<local, cpu_stopped, init_signaled, wait_for_sipi,
                  flush_virt_caches, shutdown_cpu, virt, cells, call, mpc,
                  target>>

\* Mutant of StartDone: the cell is declared running behind its reset.
StartDoneRunning ==
  /\ mpc = "reset" /\ todo = {}
  /\ cell_state' = [cell_state EXCEPT ![mcell] = "RUNNING"]
  /\ Loop("resume", Others(Root))
  /\ UNCHANGED <<local, control, virt, percell, cpu_set, loadable, call,
                 target, held>>

StartDone ==
  /\ mpc = "reset" /\ todo = {}
  /\ Loop("resume", Others(Root))
  /\ UNCHANGED <<local, control, virt, cells, call, target, held>>

\* cell_set_loadable: all CPUs are parked, then the memory is given to the
\* root cell unless it has it already.
SetLoadable ==
  /\ mpc = "suspend" /\ todo = {} /\ phase = "cell" /\ op = "set_loadable"
  /\ Loop("park", cpu_set[mcell])
  /\ UNCHANGED <<local, control, virt, cells, call, target, held>>

ParkCpu(c) ==
  /\ mpc = "park" /\ c \in todo
  /\ failed' = [failed EXCEPT ![c] = FALSE]
  /\ arch_park_cpu(c)
  /\ todo' = todo \ {c}
  /\ UNCHANGED <<local, cpu_stopped, wait_for_sipi, sipi_vector,
                  flush_virt_caches, shutdown_cpu, virt, cells, call, mpc,
                  target>>

ParkDone ==
  /\ mpc = "park" /\ todo = {}
  /\ IF loadable[mcell]
       THEN Loop("resume", Others(Root)) /\ UNCHANGED <<loadable, cell_state>>
       ELSE /\ cell_state' = [cell_state EXCEPT ![mcell] = "SHUT_DOWN"]
            /\ loadable' = [loadable EXCEPT ![mcell] = TRUE]
            /\ \/ Loop("commit", {})
               \/ Loop("resume", Others(Root))
  /\ UNCHANGED <<local, control, virt, percell, cpu_set, call, target, held>>

CommitLoadable ==
  /\ mpc = "commit" /\ op = "set_loadable"
  /\ arch_config_commit({})
  /\ Loop("resume", Others(Root))
  /\ UNCHANGED <<local, stop, initsipi, shutdown_cpu, failed, kick, config,
                  cells, call, target, held>>

\* cell_resume, and the return to Linux.
ResumeCpu(c) ==
  /\ mpc = "resume" /\ c \in todo
  /\ arch_resume_cpu(c)
  /\ todo' = todo \ {c}
  /\ UNCHANGED <<local, cpu_stopped, initsipi, marks, virt, cells, call, mpc,
                  target>>

Return ==
  /\ mpc = "resume" /\ todo = {}
  /\ mpc' = "idle"
  /\ pc' = [pc EXCEPT ![mcpu] = "guest"]
  /\ op' = "create" /\ phase' = "root" /\ mcell' = Root /\ target' = mcpu
  /\ UNCHANGED <<vector, dest, control, virt, cells, mcpu, todo, held>>

\* shutdown: the non-root cells are closed one after the other.  All CPUs of
\* a cell are suspended, then arch_shutdown_cpu suspends each of them again,
\* marks it and lets it go.
Remaining == {k \in Cell : \E c \in cpu_set[k] : ~shutdown_cpu[c]}

ShutdownCell(k) ==
  /\ mpc \in {"check", "closing"} /\ k \in Remaining
  /\ mcell' = k
  /\ phase' = "cell"
  /\ Loop("suspend", cpu_set[k])
  /\ UNCHANGED <<local, control, virt, cells, op, mcpu, target, held>>

CloseCell ==
  /\ mpc = "suspend" /\ todo = {} /\ phase = "cell" /\ op = "disable"
  /\ phase' = "off"
  /\ Loop("suspend", cpu_set[mcell])
  /\ UNCHANGED <<local, control, virt, cells, op, mcpu, mcell, target, held>>

arch_shutdown_cpu ==
  /\ mpc = "off"
  /\ shutdown_cpu' = [shutdown_cpu EXCEPT ![target] = TRUE]
  /\ arch_resume_cpu(target)
  /\ mpc' = "suspend"
  /\ UNCHANGED <<local, cpu_stopped, initsipi, flush_virt_caches, failed,
                  virt, cells, call, todo, target>>

CellClosed ==
  /\ mpc = "suspend" /\ todo = {} /\ phase = "off"
  /\ mpc' = "closing"
  /\ UNCHANGED <<local, control, virt, cells, call, todo, target, held>>

\* The last non-root cell is gone: the CPU returns to Linux.
ShutdownDone ==
  /\ mpc \in {"check", "closing"} /\ Remaining = {}
  /\ mpc' = "closed"
  /\ pc' = [pc EXCEPT ![mcpu] = "dead"]
  /\ UNCHANGED <<vector, dest, control, virt, cells, call, todo, target,
                  held>>

\* So do the other root CPUs when they issue the hypercall.
LeaveHypervisor(c) ==
  /\ mpc = "closed" /\ pc[c] = "trap" /\ percell[c] = Root
  /\ pc' = [pc EXCEPT ![c] = "dead"]
  /\ UNCHANGED <<vector, dest, control, virt, cells, manager>>

(***************************************************************************)
(* The specification.                                                      *)
(***************************************************************************)
GuestStep(c) ==
  \/ VmExit(c) \/ PanicHalt(c)
  \/ \E t \in IpiTargets : SendInit(c, t) \/ SendSipi(c, t)
  \/ \E o \in Ops, k \in AllCells : Hypercall(c, o, k)

HandlerStep(c) ==
  \/ VmEntry(c) \/ SendNmi(c) \/ PanicPark(c) \/ TimerExit(c) \/ DisableTimer(c)
  \/ EventsLock(c) \/ EventsInit(c) \/ EventsStop(c) \/ EventsSpin(c)
  \/ EventsWake(c) \/ EventsFlush(c) \/ EventsReload(c) \/ EventsReturn(c)
  \/ LeaveHypervisor(c)

NmiStep(c) == NmiExit(c) \/ NmiInHypervisor(c)

LoopStep(c) ==
  \/ SuspendLock(c) \/ AssignPark(c) \/ UnassignPark(c) \/ ResetCpu(c)
  \/ ParkCpu(c) \/ ResumeCpu(c)

ManagerStep ==
  \/ SuspendNmi \/ SuspendWait \/ RefuseRequest \/ AcceptCreate \/ AcceptManage
  \/ AssignCell \/ MapCell \/ CommitCreate \/ StartDestroy \/ UnassignCell
  \/ UnmapCell \/ CommitDestroy \/ StartUnmap \/ CommitStart \/ StartRun
  \/ StartDone \/ SetLoadable \/ ParkDone \/ CommitLoadable \/ Return
  \/ CloseCell \/ arch_shutdown_cpu \/ CellClosed \/ ShutdownDone
  \/ \E k \in Cell : ShutdownCell(k)

Next ==
  \/ \E c \in CPU : GuestStep(c) \/ HandlerStep(c) \/ NmiStep(c) \/ LoopStep(c)
  \/ ManagerStep

Spec == Init /\ [][Next]_vars

(***************************************************************************)
(* Fairness.  Handlers of the hypervisor run to completion, pending NMIs   *)
(* are delivered, and the hypercall goes on.  control_lock is a plain      *)
(* test-and-set lock: that its contender gets it eventually is a strong    *)
(* fairness assumption.  Guests need not do anything.                      *)
(***************************************************************************)
Fairness ==
  /\ \A c \in CPU : /\ WF_vars(HandlerStep(c))
                    /\ WF_vars(NmiStep(c))
                    /\ WF_vars(LoopStep(c))
                    /\ SF_vars(SuspendLock(c))
  /\ WF_vars(ManagerStep)

FairSpec == Spec /\ Fairness

(***************************************************************************)
(* Properties.                                                             *)
(***************************************************************************)

\* CPU c executes code of its guest or handles one of its exits.
Running(c) == pc[c] \in {"guest", "trap", "ipi", "panic"} /\ ~wait_for_sipi[c]

\* The part of a hypercall in which the root cell has to stand still.
Reconfiguring ==
  \/ mpc \in {"assign", "assigned", "unassign", "unassigned", "reclaim",
              "commit", "reset", "park"}
  \/ mpc \in {"suspend", "nmi", "wait"} /\ phase = "cell" /\ op # "disable"

\* A CPU for which arch_suspend_cpu has returned stays in the stop loop of
\* x86_handle_events until it is resumed, parked or reset: control_lock lets
\* no CPU slip through between the two reads of the handshake.
HeldStopped == \A c \in held : pc[c] = "spin"

\* "all root cell CPUs (except cpu_data) have to be stopped" before the
\* configuration changes, which is also why cell_get_state may walk the cell
\* list without a lock: no other CPU of the root cell runs its guest or
\* handles an exit while a hypercall reconfigures cells.  Includes the CPUs
\* that a dying cell has just returned to the root cell.
RootStopped == Reconfiguring => \A c \in Others(Root) : ~Running(c)

\* A CPU that runs a guest does so with the page tables and the I/O bitmap of
\* the cell it belongs to, although park comes before the change of
\* per_cpu->cell and the parked CPU may load either of the two.
RunsOwnCell == \A c \in CPU : Running(c) => config[c] = percell[c]

\* No guest code runs on translations that a hypercall removed from the
\* loaded page tables: flush_virt_caches is seen before the guest is.  Only a
\* cell_start that failed leaves the root cell with translations into the
\* memory of a cell that is still loadable.
NoStaleTranslation ==
  \A c \in CPU : Running(c) /\ config[c] \in stale[c] =>
    config[c] = Root /\ \E k \in Cell : Linked(k) /\ loadable[k]

\* A cell that is shut down or can be loaded by the root cell has no CPU that
\* runs, no matter in which order parking, SIPIs and resumes come together.
ShutDownCellIdle ==
  \A k \in Cell : cell_state[k] = "SHUT_DOWN" \/ loadable[k] =>
                    \A c \in cpu_set[k] : ~Running(c)

\* Guests run only where and while they may: on their own cell's CPUs and tables,
\* not in a cell that is shut down, and not in the root cell during a change.
GuestsConfined == RunsOwnCell /\ ShutDownCellIdle /\ RootStopped

\* A CPU that went through panic_halt runs no guest code until a management
\* hypercall clears its failure; neither SIPI nor resume gets it going.
FailedStaysParked ==
  \A c \in CPU : failed[c] /\ pc[c] # "panic" => ~Running(c)

\* When all CPUs of a cell have panicked, the cell is not left in state
\* RUNNING, even if the last two panic at the same time.
AllFailedReported ==
  \A k \in AllCells :
     /\ cpu_set[k] # {}
     /\ \A c \in cpu_set[k] : failed[c] /\ pc[c] # "panic"
     /\ ~(mpc = "reset" /\ mcell = k)
     => cell_state[k] # "RUNNING"

\* A CPU released by arch_shutdown_cpu never runs a guest again.
ReleasedNeverRuns ==
  \A c \in CPU : shutdown_cpu[c] => pc[c] \in {"spin", "dead"}

\* Between hypercalls, the cells' CPU sets and the per-CPU cell pointers say
\* the same and every CPU belongs to exactly one cell, whatever failed.
CpuSetsPartition ==
  mpc = "idle" => \A c \in CPU, k \in AllCells : c \in cpu_set[k] <=> percell[c] = k

\* Every management hypercall returns, or closes the hypervisor.
HypercallReturns == mpc # "idle" ~> mpc \in {"idle", "closed"}

\* A CPU reset by cell_start gets to run its guest: the pseudo SIPI is not
\* lost between the handshakes.
ResetTakesEffect == \A c \in CPU : sipi_vector[c] = "bsp" ~> Running(c)

\* An INIT, from a guest or from arch_park_cpu, puts its target into
\* wait-for-SIPI, unless the CPU stays suspended or leaves the hypervisor.
InitTakesEffect ==
  \A c \in CPU :
     init_signaled[c] ~> wait_for_sipi[c] \/ c \in held \/ pc[c] = "dead"

\* No request to start over is lost, neither that of cell_start nor an INIT.
ResetsTakeEffect == ResetTakesEffect /\ InitTakesEffect

(***************************************************************************)
(* The strengthenings that make the invariants above inductive.            *)
(***************************************************************************)

\* The CPU that executes a hypercall stays in it until it returns.
CallerInv == mpc \notin {"idle", "closed"} => pc[mcpu] = "hc"

\* The stop handshake of arch_suspend_cpu and x86_handle_events: a stop
\* request and its acknowledgement together pin the CPU in the stop loop; the
\* request of a suspend in progress stays up.
HandshakeInv ==
  /\ \A c \in CPU : stop_cpu[c] /\ cpu_stopped[c] => pc[c] = "spin"
  /\ \A c \in held : stop_cpu[c] /\ cpu_stopped[c]
  /\ mpc \in {"nmi", "wait"} => stop_cpu[target]
  /\ mpc = "off" => target \in held
  /\ CallerInv
  /\ \A c \in CPU : shutdown_cpu[c] => pc[c] \in {"spin", "dead"}

\* A failed CPU is on its way through panic_halt or waits for a SIPI that it
\* will not obey.
FailedInv ==
  /\ CallerInv
  /\ \A c \in CPU : failed[c] => pc[c] = "panic" \/ wait_for_sipi[c]

\* The CPUs that a cell_create or a cell_destroy_internal in progress has not
\* moved yet.
Pending ==
  IF mpc \in {"assigned", "unassigned"} THEN todo \cup {target} ELSE todo

\* Where each CPU of the cell under construction or destruction is.
Assigning   == mpc \in {"assign", "assigned"}
Unassigning == mpc \in {"unassign", "unassigned"}
Moving      == Assigning \/ Unassigning \/ mpc = "reclaim"

\* What the hypercall's position says about its cell and kind.
PositionInv ==
  /\ Moving => mcell \in Cell /\ Pending \subseteq cpu_set[mcell]
  /\ Assigning => op = "create"
  /\ mpc \in {"assigned", "unassigned"} => target \notin todo
  /\ mpc = "reclaim" => todo = {}
  /\ mpc = "park" => op = "set_loadable"
  /\ mpc = "commit" /\ op = "create" => mcell \in Cell
  /\ phase # "root" => mcell \in Cell

\* Only a cell under construction or destruction has CPUs and no state.
UnlinkedInv ==
  \A k \in Cell : cell_state[k] = "NONE" /\ cpu_set[k] # {} =>
     (Moving \/ (mpc = "commit" /\ op = "create")) /\ k = mcell

\* The CPUs of that cell have been moved or not, depending on the direction.
MovingInv ==
  Moving => /\ \A c \in CPU \ cpu_set[mcell] : percell[c] # mcell
            /\ \A c \in cpu_set[mcell] :
                 percell[c] = IF Assigning <=> c \in Pending THEN Root ELSE mcell

\* The root cell's CPU set and the per-CPU cell pointers change together, and
\* a non-root cell's CPU set is made of the CPUs that point to it, except
\* while cell_create or cell_destroy_internal moves them one by one.
PartitionInv ==
  /\ PositionInv /\ UnlinkedInv /\ MovingInv
  /\ \A c \in CPU : c \in cpu_set[Root] <=> percell[c] = Root
  /\ \A k \in Cell : ~(Moving /\ k = mcell) =>
        \A c \in CPU : c \in cpu_set[k] <=> percell[c] = k

\* CPU c waits for a SIPI that nobody has sent, or is on its way there.
Asleep(c) ==
  \/ pc[c] = "dead"
  \/ pc[c] \in {"spin", "window"} /\ init_signaled[c]
  \/ pc[c] = "top" /\ init_signaled[c] /\ sipi_vector[c] = "none"
  \/ /\ wait_for_sipi[c] /\ sipi_vector[c] = "none"
     /\ pc[c] \notin {"trap", "ipi", "panic", "hc"}

\* CPU c will not run its guest before a hypercall or a running peer lets it.
Still(c) == c \in held \/ Asleep(c)

\* The CPUs that the suspend loop has still to stop.
Suspending == IF mpc \in {"nmi", "wait"} THEN todo \cup {target} ELSE todo

\* The cell of the hypercall is being built, taken apart or parked.
Closed == Moving \/ mpc = "park" \/ (mpc = "commit" /\ op = "create")

\* Which CPUs the hypercall has stopped, step by step: the root cell's, then those
\* of its cell; and what is left of the cell's when they have been parked.
StoppedInv ==
  /\ mpc \notin {"idle", "closed"} => percell[mcpu] = Root
  /\ mpc \in {"suspend", "nmi", "wait"} /\ phase = "root" =>
       \A c \in Others(Root) \ Suspending : c \in held
  /\ \/ mpc \in {"suspend", "nmi", "wait"} /\ phase = "cell" /\ op # "disable"
     \/ mpc = "commit" /\ op = "start"
     => \A c \in cpu_set[mcell] \ Suspending : c \in held
  /\ mpc \in {"reset", "park"} \/ (mpc = "commit" /\ op # "create") => phase = "cell"
  /\ mpc = "commit" => todo = {}
  /\ mpc = "off" => phase = "off"
  /\ mpc \in {"check", "closing"} \/ phase = "off" => op = "disable"
  /\ mpc = "reset" => /\ ~loadable[mcell] /\ cell_state[mcell] # "SHUT_DOWN"
                      /\ todo \subseteq cpu_set[mcell]

\* Nobody runs in the root cell, in the cell that is being changed, or in one that
\* is shut down or loadable.
QuietInv ==
  /\ Reconfiguring => \A c \in Others(Root) : Still(c)
  /\ Closed => \A c \in cpu_set[mcell] : Still(c) /\ (c \notin todo => Asleep(c))
  /\ \A k \in Cell : cell_state[k] = "SHUT_DOWN" \/ loadable[k] =>
       \A c \in cpu_set[k] : Asleep(c)

\* A CPU that is not set up for its cell will set itself up before it runs.
SetUpInv ==
  /\ \A c \in CPU : pc[c] \in {"trap", "ipi", "panic", "hc"} => ~wait_for_sipi[c]
  /\ \A c \in CPU :
       \/ config[c] = percell[c] \/ wait_for_sipi[c] \/ pc[c] = "dead"
       \/ pc[c] \in {"spin", "window", "top", "flush", "leave"} /\ vector[c] # "none"
       \/ pc[c] \in {"spin", "window", "top"} /\ init_signaled[c]

\* The inductive invariant behind GuestsConfined.
ConfinedInv == HandshakeInv /\ PartitionInv /\ StoppedInv /\ QuietInv /\ SetUpInv

\* A cell whose CPUs have all failed is running only while cell_start is about to
\* reset one of them.
ReportedInv ==
  \A k \in AllCells :
    /\ cell_state[k] = "RUNNING" /\ cpu_set[k] # {}
    /\ \A c \in cpu_set[k] : failed[c] /\ pc[c] # "panic"
    => mpc = "reset" /\ mcell = k /\ todo # {}

\* CPU c passes the flush of x86_handle_events before it runs its guest again.
Gate(c) == \/ pc[c] \in {"exit", "lock", "top", "spin", "window", "flush", "dead"}
           \/ pc[c] \in {"leave", "guest"} /\ wait_for_sipi[c]

\* A CPU with a stale translation of its own cell is going to flush it, or is stopped
\* by the hypercall that will ask for it; or a loadable cell's start has failed.
StaleInv ==
  /\ \A k \in Cell : loadable[k] => Linked(k)
  /\ \A c \in CPU : percell[c] \in stale[c] =>
       \/ flush_virt_caches[c] /\ Gate(c)
       \/ (Moving \/ mpc = "commit") /\ percell[c] = Root
       \/ (Moving \/ (mpc = "commit" /\ op = "create")) /\ percell[c] = mcell
       \/ percell[c] = Root /\ \E k \in Cell : Linked(k) /\ loadable[k]

=============================================================================
