------------------------------- MODULE Decode -------------------------------
(***************************************************************************)
(* The decisions the hypervisor (and the driver) takes on a single value:  *)
(* decoding the instruction of an MMIO access, filtering an interrupt      *)
(* command, moderating a configuration space write, shadowing a control    *)
(* register, and the address arithmetic of region remapping and of image   *)
(* loading.  An initial state picks an algorithm and its input, the only   *)
(* step (in module X86Exit) computes the result, and the invariants        *)
(* compare it with what the hardware or the configuration means by the     *)
(* input.                                                                  *)
(*                                                                         *)
(* Masks are sets of byte or bit numbers; a register or opcode keeps only  *)
(* the fields the code looks at.                                           *)
(***************************************************************************)
EXTENDS Integers, Sequences, FiniteSets, TLC

CONSTANTS PAGE_SIZE,  \* bytes of a page, for the instruction fetch
          HEADER,     \* PCI_CONFIG_HEADER_SIZE
          CLUSTER,    \* logical ids of an x2APIC cluster
          Width       \* addresses are below 2^Width

VARIABLES q,   \* the input, with the algorithm's name
          out  \* the result: empty, then a sequence of one

decodeVars == <<q, out>>
Mod(n) == n % 2^Width

-----------------------------------------------------------------------------
(* mmio_parse.  q: code (bytes from pc on), pc, mapped (whether the page    *)
(* after the first one can be mapped), is_write.  A byte is a record with   *)
(* the fields rex (a REX prefix?), r, x, op, mod, reg, rm.  The base of a   *)
(* SIB byte is where rm is.                                                 *)

\* Mutant: the page is only mapped for the first byte.
MapOnce(pc, page) == IF page # -1 THEN page ELSE pc \div PAGE_SIZE

\* map_code_page: a new page when the offset wraps to 0.
map_code_page(pc, page) ==
  IF page # -1 /\ pc % PAGE_SIZE # 0 THEN page ELSE pc \div PAGE_SIZE

\* What lies at an offset of a mapped page; the code fills it from pc on.
Byte(page, pc) == LET i == page * PAGE_SIZE + (pc % PAGE_SIZE) - q.pc + 1
                  IN  IF i \in 1 .. Len(q.code) THEN q.code[i] ELSE q.code[1]
CanMap(page) == page = q.pc \div PAGE_SIZE \/ q.mapped

Bad == [inst_len |-> 0]

\* mod 0, rm 4: a SIB byte, and a displacement if it has no base.
SibLen(pg, pc, len) == len + 1 + (IF Byte(pg, pc).rm = 5 THEN 4 ELSE 0)

\* The ModR/M byte at pc, behind an opcode.
ModRM(page, pc, len, rexr, writes) ==
  LET pg1 == map_code_page(pc, page)
      b == Byte(pg1, pc)
      pg2 == map_code_page(pc + 1, pg1)
      sib == b.mod = 0 /\ b.rm = 4
      n == IF sib THEN SibLen(pg2, pc + 1, len)
           ELSE IF b.mod = 1 THEN len + 1
           ELSE IF b.mod = 2 THEN len + 4 ELSE len
      bad == \/ ~CanMap(pg1)
             \/ b.mod = 3
             \/ b.mod = 0 /\ b.rm = 5
             \/ b.mod \in {1, 2} /\ b.rm = 4
             \/ sib /\ ~CanMap(pg2)
             \/ ~rexr /\ b.reg = 4
             \/ writes # q.is_write
  IN  IF bad THEN Bad
      ELSE [inst_len |-> n, size |-> 4,
            reg |-> IF rexr THEN 7 - b.reg ELSE 15 - b.reg]

RECURSIVE Opcode(_, _, _, _)
\* Prefixes and opcode, from pc on.
Opcode(page, pc, len, rexr) ==
  LET pg == map_code_page(pc, page)
      b == Byte(pg, pc)
  IN  IF ~CanMap(pg) THEN Bad
      ELSE IF b.rex THEN IF b.x THEN Bad ELSE Opcode(pg, pc + 1, len + 1, rexr \/ b.r)
      ELSE IF b.op \notin {"to", "from"} THEN Bad
      ELSE ModRM(pg, pc + 1, len + 2, rexr, b.op = "to")

mmio_parse == Opcode(-1, q.pc, 0, FALSE)

\* vmx_handle_ept_violation: q.handler is what the device handlers return.  On
\* success the instruction is skipped, and a read gets its register.
vmx_handle_ept_violation ==
  LET a == mmio_parse
      ok == a.inst_len # 0 /\ q.handler = 1
  IN  [ok |-> ok, access |-> a, asked |-> a.inst_len # 0,
       loaded |-> IF ok /\ ~q.is_write THEN {a.reg} ELSE {}]

\* The architectural view: prefixes, opcode, ModR/M, SIB, displacement.
PrefixCount == Cardinality({i \in 1 .. Len(q.code) : q.code[i].rex})
Instruction ==
  LET mrm == q.code[PrefixCount + 2]
      sib == mrm.rm = 4
      base == q.code[PrefixCount + 3].rm
      disp == IF mrm.mod = 1 THEN 1
              ELSE IF mrm.mod = 2 \/ (IF sib THEN base = 5 ELSE mrm.rm = 5) THEN 4
              ELSE 0
  IN  [len |-> PrefixCount + 2 + (IF sib THEN 1 ELSE 0) + disp,
       reg |-> mrm.reg + (IF q.code[1].rex /\ q.code[1].r THEN 8 ELSE 0),
       store |-> q.code[PrefixCount + 1].op = "to"]

\* Index of a general purpose register in struct registers: rax is last.
Index(reg) == 15 - reg

-----------------------------------------------------------------------------
(* apic_handle_icr_write.  q: mode, self, logical, x2apic, dest (a physical *)
(* id, or [cluster, ids]), cells CPUs cpus, apicid (CPU -> APIC id).        *)

INVALID == -1
apic_to_cpu_id(a) ==
  IF \E c \in DOMAIN q.apicid : q.apicid[c] = a
  THEN CHOOSE c \in DOMAIN q.apicid : q.apicid[c] = a ELSE INVALID

apic_valid_ipi_mode ==
  /\ q.mode \in {"INIT", "FIXED", "LOWPRI", "NMI", "SIPI"}
  /\ q.shorthand \in {"NONE", "SELF"}

\* What reaches a target: nothing outside the cell, no NMI, INIT and SIPI by
\* way of the hypervisor.
apic_send_ipi(cpu) ==
  IF cpu = INVALID \/ cpu \notin q.cpus \/ q.mode = "NMI" THEN {}
  ELSE {<<cpu, IF q.mode \in {"INIT", "SIPI"} THEN q.mode ELSE "FIXED">>}

\* Mutant: the cluster of the destination is ignored.
NoCluster ==
  UNION {apic_send_ipi(apic_to_cpu_id(l)) : l \in q.dest.ids}

\* In xAPIC flat mode bit n means CPU n (checked by apic_cpu_init).
apic_send_logical_dest_ipi ==
  UNION {apic_send_ipi(IF q.x2apic THEN apic_to_cpu_id(l + q.dest.cluster * CLUSTER)
                       ELSE l) : l \in q.dest.ids}

apic_handle_icr_write ==
  [ok |-> apic_valid_ipi_mode,
   sent |-> IF ~apic_valid_ipi_mode THEN {}
            ELSE IF q.shorthand = "SELF" THEN {<<q.self, "FIXED">>}
            ELSE IF q.logical THEN apic_send_logical_dest_ipi
            ELSE apic_send_ipi(apic_to_cpu_id(q.dest.id))]

\* The CPUs an ICR value addresses: by APIC id, by logical APIC id (which x2APIC
\* derives from the APIC id, and flat xAPIC from the CPU number).
Addressed ==
  IF q.shorthand = "SELF" THEN {q.self}
  ELSE {c \in DOMAIN q.apicid :
          IF ~q.logical THEN q.apicid[c] = q.dest.id
          ELSE IF ~q.x2apic THEN c \in q.dest.ids
          ELSE /\ q.apicid[c] \div CLUSTER = q.dest.cluster
               /\ q.apicid[c] % CLUSTER \in q.dest.ids}

-----------------------------------------------------------------------------
(* pci_cfg_write_moderate.  q: type, address, size, caps.  The mask of a    *)
(* whitelist entry is the set of its writable bytes.                        *)

WriteAccess(type) ==
  (4 :> 0 .. 3) @@ (12 :> {0, 1, 3}) @@
  (60 :> IF type = "BRIDGE" THEN {0, 2, 3} ELSE {0})
    \* endpoint_write_access, bridge_write_access

pci_find_capability(address) ==
  {c \in q.caps : c.start <= address /\ c.start + c.len > address}

\* Mutant: the byte offset inside the register is not taken into account.
ModerateNoBias ==
  LET reg == q.address - (q.address % 4)
      list == WriteAccess(q.type)
  IN  IF q.address < HEADER
      THEN reg \in DOMAIN list /\ (0 .. q.size - 1) \subseteq list[reg]
      ELSE \E c \in pci_find_capability(q.address) : c.write

\* PCI_ACCESS_PERFORM?
pci_cfg_write_moderate ==
  LET reg == q.address - (q.address % 4)
      bias == q.address % 4
      list == WriteAccess(q.type)
  IN  IF q.address < HEADER
      THEN /\ reg \in DOMAIN list
           /\ (0 .. q.size - 1) \subseteq {b - bias : b \in list[reg]}
      ELSE \E c \in pci_find_capability(q.address) : c.write

\* The bytes of the configuration space a device's owner may write.
Writable ==
  {r + b : r \in {4}, b \in 0 .. 3} \cup {12, 13, 15}
    \cup (IF q.type = "BRIDGE" THEN {60, 62, 63} ELSE {60})
    \cup UNION {c.start .. c.start + c.len - 1 : c \in {c \in q.caps : c.write}}

-----------------------------------------------------------------------------
(* vmx_set_guest_cr.  q: cr, val, fixed0, fixed1 (sets of bits).            *)

\* Mutant: the bits that only the host may set are missing in the mask.
SetCrNoFixed1 ==
  LET fixed1 == IF q.cr = 0 THEN q.fixed1 \ {"NW", "CD"} ELSE q.fixed1
      req == q.fixed0 \cap q.fixed1
      required1 == IF q.cr = 0 THEN (req \ {"PE", "PG"}) \cup {"ET"} ELSE req
      val == IF q.cr = 0 THEN q.val ELSE q.val \cup {"VMXE"}
  IN  [guest |-> (val \cap fixed1) \cup required1, shadow |-> val,
       mask |-> required1]

vmx_set_guest_cr ==
  LET fixed1 == IF q.cr = 0 THEN q.fixed1 \ {"NW", "CD"} ELSE q.fixed1
      req == q.fixed0 \cap q.fixed1
      required1 == IF q.cr = 0 THEN (req \ {"PE", "PG"}) \cup {"ET"} ELSE req
      val == IF q.cr = 0 THEN q.val ELSE q.val \cup {"VMXE"}
  IN  [guest |-> (val \cap fixed1) \cup required1, shadow |-> val,
       mask |-> required1 \cup (q.bits \ fixed1)]

-----------------------------------------------------------------------------
(* remap_to_root_cell and load_image.  Regions: [phys, virt, size, ok].     *)

address_in_region(addr, r) == addr >= r.phys /\ addr < Mod(r.phys + r.size)

\* Mutant: the size of the root region is not a limit.
OverlapNoClip(mem, rt) ==
  IF address_in_region(mem.phys, rt)
  THEN {[phys |-> mem.phys, size |-> mem.size,
         virt |-> Mod(rt.virt + mem.phys - rt.phys)]}
  ELSE {}

\* What remap_to_root_cell maps for one region of the root cell.
Overlap(mem, rt) ==
  LET Piece(start, room, limit) ==
        {[phys |-> start, size |-> IF room > limit THEN limit ELSE room,
          virt |-> Mod(rt.virt + start - rt.phys)]}
  IN  IF address_in_region(mem.phys, rt)
      THEN Piece(mem.phys, Mod(rt.size - (mem.phys - rt.phys)), mem.size)
      ELSE IF address_in_region(rt.phys, mem)
      THEN Piece(rt.phys, Mod(mem.size - (rt.phys - mem.phys)), rt.size)
      ELSE {}

remap_to_root_cell == UNION {Overlap(q.mem, rt) : rt \in q.root}

\* Mutant: the image may be as long as the region, wherever it starts in it.
LoadNoOffset ==
  LET off(r) == Mod(q.target - r.virt)
      hit(i) == q.target >= q.regions[i].virt /\ off(q.regions[i]) < q.regions[i].size
      hits == {i \in 1 .. Len(q.regions) : hit(i)}
      i == CHOOSE i \in hits : \A j \in hits : i <= j
      r == q.regions[i]
  IN  IF hits = {} \/ q.size > r.size \/ ~r.ok THEN {}
      ELSE {[phys |-> Mod(r.phys + off(r)), size |-> q.size]}

\* The first region that holds the target address decides.
load_image ==
  LET off(r) == Mod(q.target - r.virt)
      hit(i) == q.target >= q.regions[i].virt /\ off(q.regions[i]) < q.regions[i].size
      hits == {i \in 1 .. Len(q.regions) : hit(i)}
      i == CHOOSE i \in hits : \A j \in hits : i <= j
      r == q.regions[i]
  IN  IF hits = {} \/ q.size > Mod(r.size - off(r)) \/ ~r.ok THEN {}
      ELSE {[phys |-> Mod(r.phys + off(r)), size |-> q.size]}

Bytes(r) == {Mod(r.phys + i) : i \in 0 .. r.size - 1}

-----------------------------------------------------------------------------
Finished(alg) == q.alg = alg /\ out # <<>>
Result == out[1]

\* An MMIO instruction that is emulated has exactly the length and the register
\* of the instruction the guest executed, wherever it lies relative to a page
\* boundary, and its direction is that of the fault: mmio_parse never skips too
\* few or too many bytes and never touches another register.
MmioExact ==
  Finished("mmio") /\ Result.asked =>
    /\ Result.access.inst_len = Instruction.len
    /\ Result.access.reg = Index(Instruction.reg)
    /\ Instruction.store = q.is_write
    /\ Result.loaded = IF Result.ok /\ ~q.is_write THEN {Index(Instruction.reg)} ELSE {}

\* An interrupt command reaches exactly the addressed CPUs of the sender's cell
\* in every destination mode, NMIs excepted (apic_handle_icr_write).
IpiExact ==
  Finished("icr") =>
    {s[1] : s \in Result.sent} =
      IF ~Result.ok \/ (q.mode = "NMI" /\ q.shorthand # "SELF") THEN {}
      ELSE Addressed \cap q.cpus

\* A configuration space write is performed exactly when every byte it touches
\* is writable: neither size nor misalignment reaches a byte next to it.
ModerateExact ==
  Finished("pci") =>
    (Result.perform <=> (q.address .. q.address + q.size - 1) \subseteq Writable)

\* The guest reads back from a control register what it wrote (with VMXE in
\* CR4), while the real register has every bit VMX requires, and caching on.
CrShadowed ==
  Finished("cr") =>
    /\ (Result.mask \cap Result.shadow) \cup (Result.guest \ Result.mask)
         = q.val \cup (IF q.cr = 0 THEN {} ELSE {"VMXE"})
    /\ (q.fixed0 \ {"PE", "PG"}) \subseteq Result.guest
    /\ Result.guest \subseteq q.fixed1 \ {"NW", "CD"}

\* A region that returns to the root cell is mapped there exactly where the root
\* cell's configuration has it, with the root cell's addresses: neither the
\* part of the region that the root cell never had, nor less.
RemapExact ==
  Finished("remap") =>
    /\ UNION {Bytes(p) : p \in Result.mapped}
         = Bytes(q.mem) \cap UNION {Bytes(rt) : rt \in q.root}
    /\ \A p \in Result.mapped : \A i \in 0 .. p.size - 1 :
         \E rt \in q.root : /\ Mod(p.phys + i) \in Bytes(rt)
                            /\ Mod(p.virt + i - rt.virt) = Mod(p.phys + i - rt.phys)

\* An image is written into loadable memory of the cell only, and lands where
\* the cell will see it at the target address.
LoadConfined ==
  Finished("load") => \A w \in Result.written : \A i \in 0 .. w.size - 1 :
    \E k \in 1 .. Len(q.regions) :
      LET r == q.regions[k]
      IN  /\ r.ok /\ Mod(w.phys + i) \in Bytes(r)
          /\ Mod(w.phys + i - r.phys) = Mod(q.target + i - r.virt)
=============================================================================
