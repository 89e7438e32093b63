------------------------------ MODULE ApicClear ------------------------------
(***************************************************************************)
(* The local APIC of a CPU that changes hands.  apic_clear() masks the     *)
(* local interrupt sources, acknowledges what the old guest had in         *)
(* service and opens a short window in which the CPU takes the interrupts  *)
(* that are still pending (apic_irq_handler).  Devices and other CPUs keep *)
(* raising interrupts all the time, and nothing in the hypervisor stops    *)
(* them.                                                                   *)
(*                                                                         *)
(* A vector is a number, a higher one has priority.  tpr is the priority   *)
(* above which vectors are delivered.                                      *)
(***************************************************************************)
EXTENDS Integers, Sequences, FiniteSetsExt

CONSTANTS NumVectors,  \* vectors are 1 .. NumVectors
          LvtVector,   \* register of the local vector table -> its vector
          MAX_IRQS     \* 256: interrupts taken in the window before it is closed

Vectors == 1 .. NumVectors

\* The order in which apic_clear masks the registers of the table.
LvtOrder == [ERR |-> 1, CMCI |-> 2, T |-> 3, THMR |-> 4, PC |-> 5, LINT0 |-> 6, LINT1 |-> 7]

ASSUME ClearAssumption ==
  /\ NumVectors \in Nat \ {0} /\ MAX_IRQS \in Nat
  /\ LvtVector \in [DOMAIN LvtVector -> Vectors]
  /\ "T" \in DOMAIN LvtVector /\ DOMAIN LvtVector \subseteq DOMAIN LvtOrder

VARIABLES
  apc,       \* guest, mask, ack, window
  maxlvt,    \* of APIC_REG_LVR
  lvtLeft,   \* registers that apic_clear has still to mask
  unmasked,  \* local sources that are enabled
  irr, isr,  \* vectors that are pending, and in service
  tpr,
  num_clear_apic_irqs,
  before     \* history: vectors pending since before apic_clear, not yet taken

clearVars == <<apc, maxlvt, lvtLeft, unmasked, irr, isr, tpr, num_clear_apic_irqs, before>>

\* The registers that the APIC has: LVTCMCI, LVTTHMR, LVTPC only in newer ones.
HasLvt(lvt) ==
  /\ lvt = "CMCI" => maxlvt >= 6
  /\ lvt = "THMR" => maxlvt >= 5
  /\ lvt = "PC" => maxlvt >= 4
Lvts == {l \in DOMAIN LvtVector : HasLvt(l)}

Deliverable == {v \in irr : v > tpr /\ \A w \in isr : v > w}

ClearInit ==
  /\ apc = "guest" /\ maxlvt \in 3 .. 6 /\ lvtLeft = {}
  /\ unmasked = {} /\ irr = {} /\ isr = {} /\ tpr = 0
  /\ num_clear_apic_irqs = 0 /\ before = {}

-----------------------------------------------------------------------------
(* The hardware and the guest. *)

\* A device or another CPU sends an interrupt.
Raise(v) ==
  /\ v \notin irr
  /\ irr' = irr \cup {v}
  /\ UNCHANGED <<apc, maxlvt, lvtLeft, unmasked, isr, tpr, num_clear_apic_irqs, before>>

\* A local source does, unless it is masked.
LvtRaise(lvt) == lvt \in unmasked /\ Raise(LvtVector[lvt])

\* The guest takes an interrupt, acknowledges one, or sets its registers.
GuestStep ==
  /\ apc = "guest"
  /\ \/ /\ Deliverable # {}
        /\ LET v == Max(Deliverable) IN irr' = irr \ {v} /\ isr' = isr \cup {v}
        /\ UNCHANGED <<tpr, unmasked>>
     \/ /\ isr # {} /\ isr' = isr \ {Max(isr)} /\ UNCHANGED <<irr, tpr, unmasked>>
     \/ /\ tpr' \in {0, NumVectors} /\ UNCHANGED <<irr, isr, unmasked>>
     \/ /\ \E l \in Lvts : unmasked' \in {unmasked \cup {l}, unmasked \ {l}}
        /\ UNCHANGED <<irr, isr, tpr>>
  /\ UNCHANGED <<apc, maxlvt, lvtLeft, num_clear_apic_irqs, before>>

-----------------------------------------------------------------------------
(* apic_clear, with interrupts disabled up to OpenWindow. *)

\* The CPU is reset or taken away: x86_handle_events calls apic_clear.
apic_clear ==
  /\ apc = "guest"
  /\ apc' = "mask" /\ lvtLeft' = Lvts /\ before' = irr
  /\ UNCHANGED <<maxlvt, unmasked, irr, isr, tpr, num_clear_apic_irqs>>

\* The next register of the table.
apic_mask_lvt(lvt) ==
  /\ apc = "mask" /\ lvt \in lvtLeft
  /\ \A l \in lvtLeft : LvtOrder[lvt] <= LvtOrder[l]
  /\ unmasked' = unmasked \ {lvt} /\ lvtLeft' = lvtLeft \ {lvt}
  /\ apc' = IF lvtLeft' = {} THEN "ack" ELSE "mask"
  /\ UNCHANGED <<maxlvt, irr, isr, tpr, num_clear_apic_irqs, before>>

\* The loop over the in-service registers: EOI ends the highest one.
AckInService ==
  /\ apc = "ack" /\ isr # {}
  /\ isr' = isr \ {Max(isr)}
  /\ UNCHANGED <<apc, maxlvt, lvtLeft, unmasked, irr, tpr, num_clear_apic_irqs, before>>

\* Mutant: the priority that the guest has set stays during the window.
WindowKeepsTpr ==
  /\ apc = "ack" /\ isr = {}
  /\ apc' = "window" /\ num_clear_apic_irqs' = 0
  /\ UNCHANGED <<maxlvt, lvtLeft, unmasked, irr, isr, tpr, before>>

\* Nothing in service any more: accept all priorities, enable interrupts.
OpenWindow ==
  /\ apc = "ack" /\ isr = {}
  /\ apc' = "window" /\ tpr' = 0 /\ num_clear_apic_irqs' = 0
  /\ UNCHANGED <<maxlvt, lvtLeft, unmasked, irr, isr, before>>

\* Mutant: the priority is not raised, however many interrupts came.
IrqNoLimit ==
  /\ apc = "window" /\ Deliverable # {}
  /\ num_clear_apic_irqs' = IF num_clear_apic_irqs > MAX_IRQS THEN num_clear_apic_irqs
                            ELSE num_clear_apic_irqs + 1
  /\ LET v == Max(Deliverable) IN irr' = irr \ {v} /\ before' = before \ {v}
  /\ UNCHANGED <<apc, maxlvt, lvtLeft, unmasked, isr, tpr>>

\* An interrupt in the window: counted, and acknowledged at once.
apic_irq_handler ==
  /\ apc = "window" /\ Deliverable # {}
  /\ num_clear_apic_irqs' = num_clear_apic_irqs + 1
  /\ tpr' = IF num_clear_apic_irqs' > MAX_IRQS THEN NumVectors ELSE tpr
  /\ LET v == Max(Deliverable) IN irr' = irr \ {v} /\ before' = before \ {v}
  /\ UNCHANGED <<apc, maxlvt, lvtLeft, unmasked, isr>>

\* The CPU gets to the end of the window when nothing can be delivered.  The new
\* guest starts, or the CPU is handed back; what is then pending is its own.
CloseWindow ==
  /\ apc = "window" /\ Deliverable = {}
  /\ apc' = "guest" /\ tpr' = 0 /\ before' = {}
  /\ UNCHANGED <<maxlvt, lvtLeft, unmasked, irr, isr, num_clear_apic_irqs>>

ClearStep ==
  \/ \E l \in DOMAIN LvtVector : apic_mask_lvt(l)
  \/ AckInService \/ OpenWindow \/ apic_irq_handler \/ CloseWindow

ClearNext ==
  \/ \E v \in Vectors : Raise(v)
  \/ \E l \in DOMAIN LvtVector : LvtRaise(l)
  \/ GuestStep \/ apic_clear \/ ClearStep

\* The CPU keeps executing apic_clear, whatever devices do.
ClearFairness == WF_clearVars(ClearStep)

ClearSpec == ClearInit /\ [][ClearNext]_clearVars /\ ClearFairness

-----------------------------------------------------------------------------
\* When the window closes, the CPU has no interrupt in service and no local source
\* enabled, and of the interrupts that were pending for the old guest none is left
\* for the new one - unless so many came meanwhile that the window was cut short,
\* which the comment in apic_irq_handler accepts.
NoOldInterrupt ==
  apc = "window" /\ Deliverable = {} =>
    /\ isr = {} /\ unmasked = {}
    /\ before = {} \/ num_clear_apic_irqs > MAX_IRQS

\* apic_clear returns, even if a device never stops to raise interrupts.
ClearEnds == apc = "mask" ~> apc = "guest"
=============================================================================
