----------------------------- MODULE ArmDecode ------------------------------
(***************************************************************************)
(* The decisions that the ARM hypervisor takes on one trap: whether the    *)
(* trapped instruction would have executed at all, where execution goes    *)
(* on, which register a load or store means, and which CPU, redistributor  *)
(* or SPI a guest's access to the interrupt controller reaches.  An        *)
(* initial state picks an algorithm and its input, the only step computes  *)
(* the result.                                                             *)
(***************************************************************************)
EXTENDS Integers, Sequences, FiniteSets

CONSTANTS BYTE,  \* bits of a byte; a word has four
          FRAME  \* redist_size of GICv3; GICv4 has twice that

VARIABLES aq,   \* the input, with the algorithm's name
          aout  \* the result: empty, then a sequence of one

armDecodeVars == <<aq, aout>>

-----------------------------------------------------------------------------
(* arch_handle_trap.  aq: class, cv (condition field valid), cond, flags     *)
(* (NZCV), it (ITSTATE), il (instruction length), known (the access is one   *)
(* that is emulated), read; and for a data abort isv, walk (s1ptw, ea or cm).*)

\* One bit per combination of NZCV, for EQ, NE, ... LE, AL, NV.
cc_map == <<61680, 3855, 52428, 13107, 65280, 255, 43690, 21845,
            3084, 62451, 43605, 21930, 2565, 62970, 65535, 0>>

\* Mutant: the condition field is used although it is not valid.
CondAlwaysValid ==
  aq.class \in {"cp15_32", "cp15_64", "cp14"} /\ (cc_map[aq.cond + 1] \div 2^aq.flags) % 2 = 0

\* The classes below 0x10, but not 0, are those that may still fail.
arch_failed_condition ==
  LET cond == IF aq.cv THEN aq.cond ELSE aq.it \div 16
  IN  /\ aq.class \in {"cp15_32", "cp15_64", "cp14"}
      /\ aq.cv \/ aq.it # 0
      /\ (cc_map[cond + 1] \div 2^aq.flags) % 2 = 0

\* Mutant: the last instruction of a block is not recognised.
AdvanceForever(it) == (it \div 32) * 32 + ((it * 2) % 32)

arch_advance_itstate(it) ==
  IF it % 8 = 0 THEN 0 ELSE (it \div 32) * 32 + ((it * 2) % 32)

\* Where the guest goes on, relative to the address that trapped.
arch_skip_instruction == [pc |-> aq.il, it |-> arch_advance_itstate(aq.it), end |-> "run"]
Stay == [pc |-> 0, it |-> aq.it, end |-> "run"]
Halt == [pc |-> 0, it |-> aq.it, end |-> "panic"]
\* arch_inject_dabt: the guest's own abort vector, outside of any IT block.
VECTOR == -1
arch_inject_dabt == [pc |-> VECTOR, it |-> 0, end |-> "run"]

arch_handle_smc == arch_skip_instruction   \* emulated PSCI or passed on
arch_handle_hvc == Stay                    \* HVC returns behind itself
arch_handle_cp15_32 == IF aq.known THEN arch_skip_instruction ELSE Halt
arch_handle_cp15_64 == IF aq.known /\ ~aq.read THEN arch_skip_instruction ELSE Halt

\* Control flow of arch_handle_dabt.
DabtFlow ==
  IF ~aq.isv THEN Halt
  ELSE IF aq.walk THEN arch_inject_dabt
  ELSE IF aq.known THEN arch_skip_instruction ELSE Halt

arch_handle_trap ==
  IF arch_failed_condition THEN arch_skip_instruction
  ELSE CASE aq.class = "cp15_32" -> arch_handle_cp15_32
         [] aq.class = "cp15_64" -> arch_handle_cp15_64
         [] aq.class = "hvc" -> arch_handle_hvc
         [] aq.class = "smc" -> arch_handle_smc
         [] aq.class = "dabt" -> DabtFlow
         [] OTHER -> Halt

\* The architecture's conditions.
Passed(cond, flags) ==
  LET Flag(b) == (flags \div 2^b) % 2 = 1
      N == Flag(3)   Z == Flag(2)   C == Flag(1)   V == Flag(0)
  IN  <<Z, ~Z, C, ~C, N, ~N, V, ~V, C /\ ~Z, ~C \/ Z, N = V, N # V,
        ~Z /\ N = V, Z \/ N # V, TRUE, FALSE>>[cond + 1]

\* An IT block: the upper bits of its condition, and the lowest bit for each of
\* its instructions, as the IT instruction leaves them in ITSTATE.
ItState(base, bits) ==
  LET Bit(i) == IF i <= Len(bits) THEN bits[i] ELSE IF i = Len(bits) + 1 THEN 1 ELSE 0
  IN  base * 32 + Bit(1) * 16 + Bit(2) * 8 + Bit(3) * 4 + Bit(4) * 2 + Bit(5)

\* The hypervisor skips all instructions of the block, one by one.
SkipBlock ==
  LET st[i \in 1 .. Len(aq.bits) + 1] ==
        IF i = 1 THEN ItState(aq.base, aq.bits) ELSE arch_advance_itstate(st[i-1])
  IN  st

-----------------------------------------------------------------------------
(* The data of arch_handle_dabt.  aq: rt, mode, is_write, sse, size, mem,    *)
(* reg (what the register holds).                                            *)

\* Mutant: lr of user mode is taken for a banked register.
SlotLrBanked(rt, mode) ==
  IF rt <= 7 \/ (rt <= 12 /\ mode # "fiq") THEN <<"usr", rt>> ELSE <<mode, rt>>

\* access_cell_reg: the saved user registers, in which lr follows r12, or the
\* banked registers of the mode.
access_cell_reg(rt, mode) ==
  IF rt <= 7 \/ (rt <= 12 /\ mode # "fiq") THEN <<"usr", rt>>
  ELSE IF rt = 14 /\ mode \in {"usr", "sys"} THEN <<"usr", 13>>
  ELSE <<mode, rt>>

\* _access_banked writes the register when asked to read it, and the reverse.
Reads(slot, is_read) == IF slot[1] = "usr" THEN is_read ELSE ~is_read

sign_extend(v, bits) ==
  LET m == 2^(bits - 1)
      x == IF (v \div m) % 2 = 1 THEN v - m ELSE v + m
  IN  IF bits >= 4 * BYTE THEN v ELSE (x - m) % 2^(4 * BYTE)

\* arch_mmio_access moves the low bytes.
arch_mmio_access(v) == v % 2^(BYTE * aq.size)

arch_handle_dabt ==
  LET slot == access_cell_reg(aq.rt, aq.mode)
      Ext(v) == IF aq.sse THEN sign_extend(v, BYTE * aq.size) ELSE v
  IN  [slot |-> slot, right |-> Reads(slot, aq.is_write) = aq.is_write,
       moved |-> IF aq.is_write THEN arch_mmio_access(Ext(aq.reg))
                 ELSE Ext(arch_mmio_access(aq.mem))]

\* Where the saved registers (r0 to r12, then lr_usr) have a register.
Saved(rt, mode) ==
  LET user == <<0, 1, 2, 3, 4, 5, 6, 7, 8, 9, 10, 11, 12, 14>>
      banked == rt = 13 \/ (rt = 14 /\ mode \notin {"usr", "sys"}) \/ (rt >= 8 /\ mode = "fiq")
  IN  IF banked THEN {} ELSE {i \in 0 .. 13 : user[i + 1] = rt}

-----------------------------------------------------------------------------
(* The interrupt controller.  aq: cpus (of the cell), self, vid (virtual id  *)
(* of every CPU), itf (GICv2 interface of every CPU), version; last_virt_id,  *)
(* which is only set for non-root cells.                                     *)

\* gic_handle_sgir_write: who gets the interrupt.  GICv3 targets are virtual ids,
\* GICv2 targets are interfaces.
gic_sgir_targets ==
  {c \in aq.cpus \ {aq.self} :
     aq.rm # 0 \/ (IF aq.version >= 3 THEN aq.vid[c] ELSE aq.itf[c]) \in aq.targets}

\* Mutant: a redistributor's range includes the first byte behind it.
RedistOneMore ==
  LET size == IF aq.version = 4 THEN 2 * FRAME ELSE FRAME
      hit == {c \in aq.cpus : aq.addr >= aq.vid[c] * size /\ aq.addr <= (aq.vid[c] + 1) * size}
      c == CHOOSE c \in hit : \A d \in hit : c <= d
  IN  IF hit = {} THEN {} ELSE {[cpu |-> c, off |-> aq.addr - aq.vid[c] * size,
                                 last |-> aq.vid[c] = aq.last_virt_id]}

\* The cell sees redistributor v of the hardware where its CPU with virtual id v
\* has one; the access goes to that CPU's own.
gic_handle_redist_access ==
  LET size == IF aq.version = 4 THEN 2 * FRAME ELSE FRAME
      hit == {c \in aq.cpus : aq.addr >= aq.vid[c] * size /\ aq.addr < (aq.vid[c] + 1) * size}
      c == CHOOSE c \in hit : \A d \in hit : c <= d
  IN  IF hit = {} THEN {} ELSE {[cpu |-> c, off |-> aq.addr - aq.vid[c] * size,
                                 last |-> aq.vid[c] = aq.last_virt_id]}

cpu_virt2phys(v) == {c \in aq.cpus : aq.vid[c] = v}

\* Mutant: the virtual id is written as it is.
RouteUntranslated ==
  IF aq.high \/ aq.irq < 32 \/ aq.irq - 32 \notin aq.spis THEN [end |-> "ignore", to |-> {}]
  ELSE [end |-> "write", to |-> {aq.val}]

\* handle_irq_route, for a write to IROUTER; the upper half is ignored.
handle_irq_route ==
  IF aq.high \/ aq.irq < 32 \/ aq.irq - 32 \notin aq.spis THEN [end |-> "ignore", to |-> {}]
  ELSE IF cpu_virt2phys(aq.val) = {} THEN [end |-> "forbidden", to |-> {}]
  ELSE [end |-> "write", to |-> cpu_virt2phys(aq.val)]

-----------------------------------------------------------------------------
ArmCompute ==
  /\ aout = <<>> /\ UNCHANGED aq
  /\ aout' = <<CASE aq.alg = "trap" -> arch_handle_trap
                [] aq.alg = "it" -> SkipBlock
                [] aq.alg = "dabt" -> arch_handle_dabt
                [] aq.alg = "sgi" -> gic_sgir_targets
                [] aq.alg = "redist" -> gic_handle_redist_access
                [] aq.alg = "route" -> handle_irq_route>>

Got(alg) == aq.alg = alg /\ aout # <<>>
Answer == aout[1]

\* After a trap the guest goes on behind the instruction exactly when that was
\* emulated or would not have executed, at its own abort vector when the fault
\* is its own, and otherwise not at all; a conditional instruction is never
\* emulated when the flags, or the IT block it is in, say it does not execute.
TrapExact ==
  Got("trap") =>
    LET cond == IF aq.cv THEN aq.cond ELSE IF aq.it = 0 THEN 14 ELSE aq.it \div 16
        executed == aq.class \in {"hvc", "smc", "dabt"} \/ Passed(cond, aq.flags)
        emulated == CASE aq.class \in {"hvc", "smc"} -> TRUE
                      [] aq.class = "dabt" -> aq.isv /\ aq.known /\ ~aq.walk
                      [] aq.class = "cp15_32" -> aq.known
                      [] aq.class = "cp15_64" -> aq.known /\ ~aq.read
                      [] OTHER -> FALSE
    IN  /\ Answer.pc = aq.il <=>
             aq.class # "hvc" /\ ((executed => emulated) /\ aq.class # "other")
        /\ Answer.pc = VECTOR <=> aq.class = "dabt" /\ aq.isv /\ aq.walk
        /\ Answer.end = "panic" <=>
             (executed \/ aq.class = "other") /\ ~emulated /\ Answer.pc # VECTOR

\* Skipped instructions of an IT block leave the guest the conditions of the
\* instructions that follow, and no condition after the last.
ItExact ==
  Got("it") => /\ \A i \in 1 .. Len(aq.bits) : Answer[i] \div 16 = aq.base * 2 + aq.bits[i]
               /\ Answer[Len(aq.bits) + 1] = 0

\* A load or store on one of the saved registers moves exactly the bytes of the
\* access, extends a load as the instruction says and uses the register that the
\* instruction names in the mode it was executed in.
DabtExact ==
  Got("dabt") /\ Saved(aq.rt, aq.mode) # {} =>
    LET bits == BYTE * aq.size
        low == aq.mem % 2^bits
        neg == aq.sse /\ low >= 2^(bits - 1)
    IN  /\ Answer.right /\ Answer.slot[1] = "usr" /\ Answer.slot[2] \in Saved(aq.rt, aq.mode)
        /\ Answer.moved = IF aq.is_write THEN aq.reg % 2^bits
                          ELSE IF neg THEN 2^(4 * BYTE) - 2^bits + low ELSE low

\* A guest's access to redistributors reaches that of the CPU of its cell which
\* has the virtual id of the frame, at the same offset, and no other; in a
\* non-root cell the last CPU's frame, only, is marked as last.
RedistExact ==
  Got("redist") =>
    LET size == IF aq.version = 4 THEN 2 * FRAME ELSE FRAME
        v == aq.addr \div size
    IN  /\ (Answer = {}) <=> v \notin {aq.vid[c] : c \in aq.cpus}
        /\ \A a \in Answer : /\ aq.vid[a.cpu] = v /\ a.cpu \in aq.cpus
                             /\ a.off = aq.addr % size
                             /\ ~aq.root => a.last = \A c \in aq.cpus : aq.vid[c] <= v

\* A route is only written for SPIs of the cell, and only to its CPUs, and a
\* target list reaches the listed CPUs of the cell and no others.
RouteExact ==
  /\ Got("route") /\ Answer.end = "write" =>
       /\ aq.irq - 32 \in aq.spis
       /\ Answer.to = {c \in aq.cpus : aq.vid[c] = aq.val}
  /\ Got("sgi") /\ aq.rm = 0 =>
       Answer = {c \in DOMAIN aq.vid : /\ c \in aq.cpus /\ c # aq.self
                                      /\ IF aq.version >= 3 THEN aq.vid[c] \in aq.targets
                                         ELSE aq.itf[c] \in aq.targets}

\* Each algorithm computes what its reference definition says, for every input of
\* the instance (arch_handle_trap, arch_advance_itstate, arch_handle_dabt,
\* gic_handle_redist_access, handle_irq_route).
ArmDecodeExact == TrapExact /\ ItExact /\ DabtExact /\ RedistExact /\ RouteExact
=============================================================================
