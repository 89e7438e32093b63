------------------------------ MODULE X86Exit -------------------------------
(***************************************************************************)
(* vmx_handle_exit: what becomes of one VM exit, as a function of the      *)
(* exit.  The result says whether the guest goes on or its CPU is halted   *)
(* by panic_halt, by how many bytes it goes on, which of its registers     *)
(* change and what is done to the hardware.  An access that the MSR        *)
(* bitmap does not intercept does not exit at all ("direct").              *)
(*                                                                         *)
(* q.reason is the exit reason; the other fields of the input are those    *)
(* the handler of that reason looks at.  An APIC value is abstracted to    *)
(* bits: none set, only defined ones, or reserved ones too; and to the     *)
(* fields that are filtered.  EPT violations have an input and a result of *)
(* their own (vmx_handle_ept_violation in Decode).                         *)
(***************************************************************************)
EXTENDS Decode

GPRs == {"rax", "rbx", "rcx", "rdx", "others"}

Run(skip, regs, hw) == [end |-> "run", skip |-> skip, regs |-> regs, hw |-> hw]
panic_halt == [end |-> "halt", skip |-> 0, regs |-> {}, hw |-> {}]
Direct == [end |-> "direct", skip |-> 0, regs |-> {}, hw |-> {}]

\* Registers of the APIC, as numbers of the x2APIC: the MMIO offset is 16 times
\* it, the MSR is MSR_X2APIC_BASE plus it.  MSR_IA32_APICBASE is outside of them.
EOI == 11
LDR == 13
DFR == 14
LVTCMCI == 47
ICR == 48
ICR_HI == 49
LVTT == 50
LVTERR == 55
ICOUNT == 56
SELF_IPI == 63
APICBASE == -1

\* The registers that msr_bitmap lets exit, for reads and writes.
msr_bitmap(write) ==
  IF write THEN {APICBASE, 8, 11, 15, 40, 47, 48} \cup (50 .. 55) \cup {56, 62, 63}
  ELSE {2, 3, 8, 10, 13, 15} \cup (16 .. 39) \cup {40, 47, 48} \cup (50 .. 55) \cup {56, 57, 62}

-----------------------------------------------------------------------------
(* Filtering of APIC registers.  q: reg, bits, mode, masked, own (the value *)
(* is the CPU's own logical id), flat, x2apic and what                      *)
(* apic_handle_icr_write takes.                                             *)

\* Registers with no defined bits, in the mode that is in use.
AllReserved ==
  (0 .. 7) \cup {9, 10, 12} \cup (16 .. 46) \cup (57 .. 61)
    \cup (IF q.x2apic THEN {LDR, DFR, ICR_HI} ELSE {SELF_IPI})
NoneReserved == {EOI, ICOUNT} \cup (IF q.x2apic THEN {} ELSE {LDR, DFR})

\* Delivery modes are reserved bits of the timer and error registers.
apic_accessing_reserved_bits ==
  \/ q.reg \in AllReserved /\ q.bits # "none"
  \/ q.reg \notin NoneReserved /\ q.bits = "reserved"
  \/ q.reg \in {LVTT, LVTERR} /\ q.mode # "FIXED"

\* Mutant: the mask bit is tested the wrong way round.
LvtModeInverted == q.masked /\ q.mode \notin {"FIXED", "NMI"}

\* A mode that would leave the cell, unless the source is masked.
apic_invalid_lvt_delivery_mode == ~q.masked /\ q.mode \notin {"FIXED", "NMI"}

\* What the two ways to write a register have in common: refuse, send, or write.
Reject == [ok |-> FALSE, hw |-> {}]
IcrWrite == [ok |-> apic_handle_icr_write.ok,
             hw |-> {[op |-> "ipi", to |-> s[1]] : s \in apic_handle_icr_write.sent}]
RawWrite == [ok |-> TRUE, hw |-> {[op |-> "apic", to |-> q.reg]}]
LvtOrRaw == IF q.reg \in LVTCMCI .. LVTERR /\ apic_invalid_lvt_delivery_mode
            THEN Reject ELSE RawWrite

ApicMmioWrite ==
  IF apic_accessing_reserved_bits THEN Reject
  ELSE IF q.reg = ICR THEN IcrWrite
  ELSE IF (q.reg = LDR /\ ~q.own) \/ (q.reg = DFR /\ ~q.flat) THEN Reject
  ELSE LvtOrRaw

x2apic_handle_write ==
  IF apic_accessing_reserved_bits THEN Reject
  ELSE IF q.reg = SELF_IPI THEN [ok |-> TRUE, hw |-> {}]
  ELSE IF q.reg = ICR THEN IcrWrite
  ELSE LvtOrRaw

-----------------------------------------------------------------------------
(* The handlers. *)

\* Management events: the guest may be reset, then its registers are cleared.
HandleEvents == Run(0, IF q.sipi THEN GPRs ELSE {}, {})

\* The instruction is skipped first; the caller has to be the kernel of the guest.
vmx_handle_hypercall ==
  LET refused == (~q.long /\ q.vm86) \/ q.cpl # 0
  IN  Run(3, {"rax"}, IF refused THEN {} ELSE {[op |-> "hypercall", to |-> q.cpl]})

\* Only moves to CR0 and CR4; setting CR0.PG with EFER.LME (and not yet LMA) makes
\* update_efer activate long mode.
vmx_handle_cr ==
  IF q.move /\ q.cr \in {0, 4}
  THEN Run(3, {}, {[op |-> "cr", to |-> q.cr]}
                    \cup (IF q.cr = 0 /\ q.pg /\ q.lme THEN {[op |-> "lma", to |-> 1]} ELSE {}))
  ELSE panic_halt

MsrRead ==
  IF q.reg \notin msr_bitmap(FALSE) THEN Direct ELSE Run(2, {"rax", "rdx"}, {})

MsrWrite ==
  IF q.reg \notin msr_bitmap(TRUE) THEN Direct
  ELSE IF q.reg = APICBASE THEN panic_halt
  ELSE IF x2apic_handle_write.ok THEN Run(2, {}, x2apic_handle_write.hw) ELSE panic_halt

\* Guests in long mode, and with paging but without PAE.
vmx_get_guest_paging_structs == q.long \/ (q.pg /\ ~q.pae)

\* A linear access to an aligned offset by an instruction that can be decoded and
\* is 4 bytes wide; len = 0 stands for any other instruction.
vmx_handle_apic_access ==
  LET w == ApicMmioWrite
  IN  IF ~q.linear \/ q.offset % 16 # 0 \/ q.len = 0
         \/ ~vmx_get_guest_paging_structs
      THEN panic_halt
      ELSE IF q.read THEN Run(q.len, {"others"}, {})
      ELSE IF w.ok THEN Run(q.len, {}, w.hw) ELSE panic_halt

\* Index 0, the FPU bit set, nothing the processor does not have.
Xsetbv ==
  IF q.fp /\ q.supported /\ q.index = 0 THEN Run(3, {}, {[op |-> "xcr", to |-> 0]})
  ELSE panic_halt

\* String and repeated instructions are refused; the PCI handler decides.
vmx_handle_io_access ==
  IF ~q.string /\ q.handler = 1
  THEN Run(q.len, IF q.read THEN {"rax"} ELSE {}, {[op |-> "pci", to |-> 0]})
  ELSE panic_halt

vmx_handle_exit ==
  CASE q.reason \in {"NMI", "TIMER"} -> HandleEvents
    [] q.reason = "CPUID" -> Run(2, {"rax", "rbx", "rcx", "rdx"}, {})
    [] q.reason = "VMCALL" -> vmx_handle_hypercall
    [] q.reason = "CR" -> vmx_handle_cr
    [] q.reason = "RDMSR" -> MsrRead
    [] q.reason = "WRMSR" -> MsrWrite
    [] q.reason = "APIC" -> vmx_handle_apic_access
    [] q.reason = "XSETBV" -> Xsetbv
    [] q.reason = "IO" -> vmx_handle_io_access
    [] OTHER -> panic_halt

-----------------------------------------------------------------------------
(* The step that computes the result of every algorithm of Decode and of    *)
(* this module.                                                             *)
Compute ==
  /\ out = <<>> /\ UNCHANGED q
  /\ out' = <<CASE q.alg = "mmio" -> vmx_handle_ept_violation
               [] q.alg = "icr" -> apic_handle_icr_write
               [] q.alg = "pci" -> [perform |-> pci_cfg_write_moderate]
               [] q.alg = "cr" -> vmx_set_guest_cr
               [] q.alg = "remap" -> [mapped |-> remap_to_root_cell]
               [] q.alg = "load" -> [written |-> load_image]
               [] q.alg = "exit" -> vmx_handle_exit>>

\* The x2APIC as the manual has it: EOI and Self IPI are write-only.
ReadOnlyRegs == {2, 3, 10, 13} \cup (16 .. 39) \cup {57}
WriteOnlyRegs == {11, 63}
PlainRegs == {8, 15, 40, 47, 48} \cup (50 .. 55) \cup {56, 62}

\* What an instruction of a guest does to the APIC, whatever way it takes: no local
\* source is enabled in a mode that would address the hypervisor or another cell
\* (SMI, INIT), the logical id stays the one that apic_send_logical_dest_ipi
\* takes for granted, interrupts go out only to CPUs of the cell, and no register
\* is reached past these filters because the MSR bitmap does not intercept it or
\* because of the order in which vmx_handle_exit and the APIC handlers test.
ExitConfined ==
  Finished("exit") =>
    /\ \A h \in Result.hw :
         /\ h.op = "ipi" => h.to \in q.cpus
         /\ h.op = "apic" =>
              /\ h.to # ICR
              /\ h.to \in {LVTCMCI} \cup (LVTT .. LVTERR) =>
                   q.masked \/ q.mode \in {"FIXED", "NMI"}
              /\ h.to = LDR => q.own
              /\ h.to = DFR => q.flat
    /\ Result.end = "direct" =>
         q.reg \notin PlainRegs \cup (IF q.reason = "RDMSR" THEN ReadOnlyRegs
                                    ELSE WriteOnlyRegs \cup {APICBASE})
    /\ q.reason = "RDMSR" /\ Result.end = "run" => q.reg \notin WriteOnlyRegs

\* Each algorithm computes what its reference definition says, for every input of
\* the instance (mmio_parse, apic_handle_icr_write, pci_cfg_write_moderate,
\* vmx_set_guest_cr, remap_to_root_cell, load_image, vmx_handle_exit).
DecodeExact ==
  /\ MmioExact /\ IpiExact /\ ModerateExact /\ CrShadowed /\ RemapExact /\ LoadConfined
  /\ ExitConfined
=============================================================================
