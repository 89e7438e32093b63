------------------------------ MODULE ArmSetup ------------------------------
(***************************************************************************)
(* Entering and leaving the hypervisor on ARM: under init_lock every CPU   *)
(* switches to EL2 through an identity-mapped trampoline page, turns the   *)
(* MMU on and takes over the interrupt controller.  When a step fails, and *)
(* when the hypervisor is disabled, the CPUs go back to Linux on their own *)
(* through the same page.  The core's part of this is module HvEntry.      *)
(***************************************************************************)
EXTENDS Integers, FiniteSets

CONSTANTS SCpus, NoCpu,
          GicVersion  \* 2 or 3: the backend in the build

ASSUME SetupAssumption ==
  NoCpu \notin SCpus /\ "trampoline" \notin SCpus /\ GicVersion \in {2, 3}

Trampoline == "trampoline"   \* physical page of the trampoline
Pages2 == {Trampoline} \cup SCpus \* and of each CPU's stack

VARIABLES
  pc2, init_lock, master2, error2,
  initialized2,  \* initialized_cpus
  idmap,         \* Pages2 that hv_paging_structs maps to themselves
  ownmap,        \* history: those of them before the first CPU came
  conflict,      \* id_maps[].conflict
  el2, mmu,      \* CPUs at EL2, and with its MMU on
  vectors,       \* HVBAR of each CPU
  saved_vectors,
  traps, s2,     \* CPUs with HCR set, and with stage 2 translation
  irqchip,       \* [ops, is_init]: backend copied, irqchip_is_init
  gicdev,        \* device pages of the backend mapped
  gicr,          \* CPUs that have found their redistributor
  cpuif,         \* physical CPU interface: enabled, and in whose EOI mode
  vmcr           \* CPUs whose VMCR has Linux' settings

setupVars == <<pc2, init_lock, master2, error2, initialized2, idmap, ownmap, conflict, el2,
               mmu, vectors, saved_vectors, traps, s2, irqchip, gicdev, gicr, cpuif, vmcr>>
core == <<init_lock, master2, error2, initialized2>>
maps == <<idmap, ownmap, conflict>>
hyp == <<el2, mmu, vectors, saved_vectors>>
virt == <<traps, s2>>
gic == <<irqchip, gicdev, gicr, cpuif, vmcr>>

To(c, there) == pc2' = [pc2 EXCEPT ![c] = there]

-----------------------------------------------------------------------------
\* Failing under the lock: cpu_init keeps the first error.
Give(c) == error2' = TRUE /\ To(c, "unlock")

\* entry: the first CPU inside becomes the master.
entry(c) ==
  /\ pc2[c] = "linux" /\ init_lock = NoCpu
  /\ init_lock' = c
  /\ IF master2 = NoCpu THEN master2' = c /\ To(c, "early")
     ELSE master2' = master2 /\ To(c, IF error2 THEN "unlock" ELSE "cpu")
  /\ UNCHANGED <<error2, initialized2, maps, hyp, virt, gic>>

\* init_early, arch_init_early: Features, page tables, the UART.
arch_init_early(c) ==
  /\ pc2[c] = "early"
  /\ Give(c) \/ (UNCHANGED error2 /\ To(c, "cpu"))
  /\ UNCHANGED <<init_lock, master2, initialized2, maps, hyp, virt, gic>>

\* Mutant: a page that was mapped before is not remembered.
MapNoConflict == conflict' = {} /\ UNCHANGED ownmap /\ idmap' = idmap \cup {Trampoline, init_lock}

\* The identity maps of the CPU that holds the lock.
create_id_maps ==
  /\ UNCHANGED ownmap
  /\ conflict' = {Trampoline, init_lock} \cap idmap
  /\ idmap' = idmap \cup {Trampoline, init_lock}

destroy_id_maps == idmap' = idmap \ ({Trampoline, init_lock} \ conflict)

\* register_root_cpu, then set_id_map may refuse the trampoline; both leave the
\* CPU at EL1.
set_id_map(c) ==
  /\ pc2[c] = "cpu"
  /\ \/ Give(c) /\ UNCHANGED <<saved_vectors, maps>>
     \/ /\ saved_vectors' = IF saved_vectors = "none" THEN vectors[c] ELSE saved_vectors
        /\ \/ Give(c) /\ UNCHANGED maps
           \/ UNCHANGED error2 /\ create_id_maps /\ To(c, "phys")
  /\ UNCHANGED <<init_lock, master2, initialized2, el2, mmu, vectors, virt, gic>>

\* cpu_switch_el2, by way of the bootstrap vectors.
cpu_switch_el2(c) ==
  /\ pc2[c] = "phys" /\ To(c, "mmu")
  /\ el2' = el2 \cup {c} /\ vectors' = [vectors EXCEPT ![c] = "bootstrap"]
  /\ UNCHANGED <<core, maps, mmu, saved_vectors, virt, gic>>

setup_mmu_el2(c) ==
  /\ pc2[c] = "mmu" /\ To(c, "trampoline")
  /\ mmu' = mmu \cup {c}
  /\ UNCHANGED <<core, maps, el2, vectors, saved_vectors, virt, gic>>

\* Back at virtual addresses: the rest of switch_exception_level.
switch_exception_level(c) ==
  /\ pc2[c] = "trampoline" /\ To(c, "el2")
  /\ vectors' = [vectors EXCEPT ![c] = "hyp"]
  /\ destroy_id_maps
  /\ UNCHANGED <<core, ownmap, conflict, el2, mmu, saved_vectors, virt, gic>>

\* The guest traps and stage 2 tables of the root cell, whose id is in range.
arch_cpu_init(c) ==
  /\ pc2[c] = "el2" /\ To(c, "irqchip")
  /\ traps' = traps \cup {c} /\ s2' = s2 \cup {c}
  /\ UNCHANGED <<core, maps, hyp, gic>>

\* Only the first CPU probes the distributor; irqchip_is_init is set even when
\* the backend cannot map its devices.
irqchip_init(c) ==
  /\ pc2[c] = "irqchip"
  /\ \/ irqchip.is_init /\ UNCHANGED <<error2, irqchip, gicdev>> /\ To(c, "irqcpu")
     \/ ~irqchip.is_init /\ Give(c) /\ UNCHANGED <<irqchip, gicdev>>
     \/ /\ ~irqchip.is_init /\ irqchip' = [ops |-> TRUE, is_init |-> TRUE]
        /\ \/ Give(c) /\ UNCHANGED gicdev
           \/ UNCHANGED error2 /\ gicdev' = TRUE /\ To(c, "irqcpu")
  /\ UNCHANGED <<init_lock, master2, initialized2, maps, hyp, virt, gicr, cpuif, vmcr>>

\* gic_cpu_init: Linux' interface settings move to VMCR.
gic_cpu_init(c) ==
  /\ gicr' = gicr \cup {c} /\ vmcr' = vmcr \cup {c}
  /\ cpuif' = [cpuif EXCEPT ![c] = [on |-> TRUE, eoi |-> "hyp"]]

\* irqchip_cpu_init: no page for the pending list, or (GICv3) no redistributor.
irqchip_cpu_init(c) ==
  /\ pc2[c] = "irqcpu"
  /\ \/ Give(c) /\ UNCHANGED <<initialized2, gicr, cpuif, vmcr>>
     \/ /\ gic_cpu_init(c)
        /\ initialized2' = initialized2 \cup {c} /\ UNCHANGED error2
        /\ To(c, IF c = master2 THEN "late" ELSE "unlock")
  /\ UNCHANGED <<init_lock, master2, maps, hyp, virt, irqchip, gicdev>>

\* init_late: SPIs, SMP operations and memory regions of the root cell.
arch_init_late(c) ==
  /\ pc2[c] = "late"
  /\ Give(c) \/ (UNCHANGED error2 /\ To(c, "unlock"))
  /\ UNCHANGED <<init_lock, master2, initialized2, maps, hyp, virt, gic>>

Unlock2(c) ==
  /\ pc2[c] = "unlock" /\ To(c, "wait")
  /\ init_lock' = NoCpu
  /\ UNCHANGED <<master2, error2, initialized2, maps, hyp, virt, gic>>

\* The end of entry.  arch_cpu_activate_vmm returns to Linux as a guest, and
\* arch_cpu_restore only undoes what a CPU at EL2 has done.
arch_cpu_restore(c) ==
  /\ pc2[c] = "wait" /\ (error2 \/ initialized2 = SCpus)
  /\ To(c, IF ~error2 THEN "guest" ELSE IF c \in el2 THEN "leave" ELSE "failed")
  /\ UNCHANGED <<core, maps, hyp, virt, gic>>

\* Disabling: every CPU leaves at its own time.
Disable(c) ==
  /\ pc2[c] = "guest" /\ To(c, "leave")
  /\ UNCHANGED <<core, maps, hyp, virt, gic>>

\* gic_cpu_reset for the root cell on shutdown.  GICv3 refuses without the
\* redistributor; GICv2 takes the settings for Linux from VMCR in any case.
gic_cpu_reset(c) ==
  IF GicVersion = 3 /\ c \notin gicr THEN UNCHANGED <<cpuif, vmcr>>
  ELSE /\ vmcr' = vmcr \ {c}
       /\ cpuif' = [cpuif EXCEPT ![c] =
            [on |-> c \in vmcr \/ GicVersion = 3,
             eoi |-> IF c \in vmcr \/ GicVersion = 2 THEN "linux" ELSE cpuif[c].eoi]]

\* Mutant: the interrupt controller stays with the hypervisor.
ShutdownKeepsGic(c) ==
  /\ pc2[c] = "leave" /\ UNCHANGED <<cpuif, vmcr>>
  /\ traps' = traps \ {c} /\ s2' = s2 \ {c} /\ To(c, "unmap")
  /\ UNCHANGED <<core, maps, hyp, irqchip, gicdev, gicr>>

\* irqchip_cpu_shutdown, traps and stage 2.  GICv2 aborts on unmapped devices.
arch_shutdown_self(c) ==
  /\ pc2[c] = "leave"
  /\ IF irqchip.ops /\ ~gicdev /\ GicVersion = 2
     THEN UNCHANGED <<cpuif, vmcr, virt>> /\ To(c, "abort")
     ELSE /\ IF irqchip.ops THEN gic_cpu_reset(c) ELSE UNCHANGED <<cpuif, vmcr>>
          /\ traps' = traps \ {c} /\ s2' = s2 \ {c} /\ To(c, "unmap")
  /\ UNCHANGED <<core, maps, hyp, irqchip, gicdev, gicr>>

\* Mutant: only the stack is mapped, as the trampoline was before.
ShutdownMapsStack(c) ==
  /\ pc2[c] = "unmap" /\ To(c, "down")
  /\ idmap' = idmap \cup {c}
  /\ UNCHANGED <<core, ownmap, conflict, hyp, virt, gic>>

\* arch_shutdown_mmu up to the jump, under its map_lock.
arch_shutdown_mmu(c) ==
  /\ pc2[c] = "unmap" /\ To(c, "down")
  /\ idmap' = idmap \cup {c, Trampoline}
  /\ UNCHANGED <<core, ownmap, conflict, hyp, virt, gic>>

\* Mutant: the vectors stay.
ShutdownKeepsVectors(c) ==
  /\ pc2[c] = "down" /\ To(c, IF error2 THEN "failed" ELSE "left")
  /\ mmu' = mmu \ {c} /\ el2' = el2 \ {c}
  /\ UNCHANGED <<core, maps, vectors, saved_vectors, virt, gic>>

shutdown_el2(c) ==
  /\ pc2[c] = "down" /\ To(c, IF error2 THEN "failed" ELSE "left")
  /\ mmu' = mmu \ {c} /\ el2' = el2 \ {c}
  /\ vectors' = [vectors EXCEPT ![c] = saved_vectors]
  /\ UNCHANGED <<core, maps, saved_vectors, virt, gic>>

-----------------------------------------------------------------------------
\* The identity address of the trampoline may belong to the hypervisor's own
\* mappings.
SetupInit ==
  /\ pc2 = [c \in SCpus |-> "linux"] /\ init_lock = NoCpu /\ master2 = NoCpu
  /\ error2 = FALSE /\ initialized2 = {} /\ idmap \in {{}, {Trampoline}}
  /\ ownmap = idmap /\ conflict = {}
  /\ el2 = {} /\ mmu = {} /\ vectors = [c \in SCpus |-> "stub"]
  /\ saved_vectors = "none" /\ traps = {} /\ s2 = {}
  /\ irqchip = [ops |-> FALSE, is_init |-> FALSE] /\ gicdev = FALSE /\ gicr = {}
  /\ cpuif = [c \in SCpus |-> [on |-> TRUE, eoi |-> "linux"]] /\ vmcr = {}

SetupStep(c) ==
  \/ entry(c) \/ arch_init_early(c) \/ set_id_map(c) \/ cpu_switch_el2(c)
  \/ setup_mmu_el2(c) \/ switch_exception_level(c) \/ arch_cpu_init(c)
  \/ irqchip_init(c) \/ irqchip_cpu_init(c) \/ arch_init_late(c) \/ Unlock2(c)
  \/ arch_cpu_restore(c) \/ Disable(c) \/ arch_shutdown_self(c)
  \/ arch_shutdown_mmu(c) \/ shutdown_el2(c)

SetupNext == \E c \in SCpus : SetupStep(c)
SetupSpec == SetupInit /\ [][SetupNext]_setupVars

-----------------------------------------------------------------------------
\* A CPU that runs at physical addresses with the MMU on, in either direction,
\* finds its code and its stack identity-mapped, whatever the other CPUs map
\* and unmap meanwhile (create_id_maps, destroy_id_maps, arch_shutdown_mmu).
TrampolineMapped ==
  \A c \in SCpus : pc2[c] \in {"trampoline", "down"} => {c, Trampoline} \subseteq idmap

\* The identity maps leave no trace: mappings of the hypervisor's own survive
\* them, and from the end of a switch until a CPU leaves, nothing else is mapped.
IdMapsUndone ==
  /\ ownmap \subseteq idmap
  /\ (\A c \in SCpus : pc2[c] \notin {"phys", "mmu", "trampoline", "down", "left", "failed"})
       => idmap = ownmap

\* Whichever step fails on whichever CPU, and after disabling, a CPU that is back
\* in Linux has Linux' hypervisor vectors, no EL2 MMU, no traps and no stage 2
\* translation (arch_cpu_restore, arch_shutdown_self, shutdown_el2).
LinuxRestored ==
  \A c \in SCpus : pc2[c] \in {"linux", "failed", "left"} =>
    vectors[c] = "stub" /\ c \notin el2 \cup mmu \cup traps \cup s2

\* A CPU that is back in Linux can take interrupts, in the mode that Linux chose:
\* the backend only resets an interface that it had initialised
\* (irqchip_cpu_shutdown, gic_cpu_reset).
InterfaceRestored ==
  \A c \in SCpus : pc2[c] \in {"linux", "failed", "left"} =>
    cpuif[c] = [on |-> TRUE, eoi |-> "linux"]

\* Setup can fail anywhere, and shutdown can follow, without a trace: no CPU loses
\* the ground under its feet, and Linux finds its CPU as it left it
\* (arch_cpu_init, setup_mmu_el2, arch_cpu_restore, arch_shutdown_self).
SetupUndone == TrampolineMapped /\ IdMapsUndone /\ LinuxRestored /\ InterfaceRestored

-----------------------------------------------------------------------------
(* The strengthenings that make it inductive. *)

BeforeSwitch == {"linux", "early", "cpu", "phys"}
Switching == {"mmu", "trampoline", "el2", "irqchip", "irqcpu"}
Inside == (BeforeSwitch \ {"linux"}) \cup Switching \cup {"late", "unlock"}
Outside == {"guest", "leave", "unmap", "down", "left", "failed", "abort"}

SetupTypeOK ==
  /\ pc2 \in [SCpus -> {"linux", "wait"} \cup Inside \cup Outside]
  /\ init_lock \in SCpus \cup {NoCpu} /\ error2 \in BOOLEAN
  /\ vectors \in [SCpus -> {"stub", "bootstrap", "hyp"}] /\ saved_vectors \in {"none", "stub"}
  /\ irqchip \in [ops : BOOLEAN, is_init : BOOLEAN]
  /\ cpuif \in [SCpus -> [on : BOOLEAN, eoi : {"linux", "hyp"}]]

\* Only the holder of init_lock sets up, nobody does after an error, and a CPU
\* leaves the wait for the others only then or when all are done.
OrderInv ==
  /\ master2 = NoCpu => ~error2 /\ \A c \in SCpus : pc2[c] = "linux"
  /\ \A c \in SCpus :
       /\ pc2[c] \in Inside => init_lock = c
       /\ pc2[c] \in Inside \ {"unlock"} => ~error2
       /\ pc2[c] \in BeforeSwitch \cup Switching => c \notin initialized2
       /\ pc2[c] \in Outside => error2 \/ initialized2 = SCpus

\* The identity maps are those of the one CPU that switches, until CPUs leave.
MapsInv ==
  /\ ownmap \subseteq idmap
  /\ \A c \in SCpus :
       /\ pc2[c] \in {"phys", "mmu", "trampoline"} =>
            idmap = ownmap \cup {c, Trampoline} /\ conflict = ownmap \cap {c, Trampoline}
       /\ pc2[c] = "down" => {c, Trampoline} \subseteq idmap
  /\ (\A c \in SCpus : pc2[c] \notin {"phys", "mmu", "trampoline", "down", "left", "failed"})
       => idmap = ownmap

\* What a CPU has of the hypervisor, by where it is.
SwitchInv(c) ==
  /\ c \in el2 => saved_vectors = "stub"
  /\ c \notin el2 => vectors[c] = "stub" /\ c \notin mmu \cup traps \cup s2
  /\ pc2[c] = "phys" => saved_vectors = "stub"
  /\ pc2[c] \in BeforeSwitch \cup {"failed", "left"} => c \notin el2
  /\ pc2[c] \in Switching \cup {"late", "guest", "leave", "unmap", "down"} => c \in el2
  /\ pc2[c] \in {"unlock", "wait"} => error2 \/ c \in el2
  /\ pc2[c] \in {"unmap", "down"} => c \notin traps \cup s2

LinuxMode == [on |-> TRUE, eoi |-> "linux"]

\* An interface that the backend initialised (GICv3) has Linux' settings in VMCR.
InterfaceInv(c) ==
  /\ c \notin el2 \cap gicr => cpuif[c] = LinuxMode
  /\ c \in gicr => irqchip.ops
  /\ irqchip.is_init \/ pc2[c] = "irqcpu" => irqchip.ops
  /\ pc2[c] \in BeforeSwitch \cup Switching => c \notin gicr
  /\ pc2[c] \in {"late", "unlock", "wait", "guest", "leave"} /\ c \in gicr => c \in vmcr
  /\ pc2[c] \in {"unmap", "down"} => cpuif[c] = LinuxMode

\* The inductive invariants: of both backends, and of GICv3.
SetupInv == SetupTypeOK /\ OrderInv /\ MapsInv /\ \A c \in SCpus : SwitchInv(c)
GicV3Inv == SetupInv /\ \A c \in SCpus : InterfaceInv(c)
=============================================================================
