----------------------------- MODULE GicPending -----------------------------
(***************************************************************************)
(* Virtual interrupts on ARM: each CPU has a list of pending interrupts,   *)
(* threaded through an array of slots, and a few list registers.  Other    *)
(* CPUs insert SGIs into the list under its lock and then send SGI_INJECT; *)
(* the owner walks the list without the lock, takes it only to unlink, and *)
(* goes on from the slot it has just unlinked.                             *)
(***************************************************************************)
EXTENDS Integers, FiniteSets

CONSTANTS GCpus,      \* CPUs of one cell
          Senders,    \* those whose guests write SGIR
          Receivers,  \* those they target, which have the hardware interrupt
          NumSlots,   \* MAX_PENDING_IRQS
          NumLr, SgiIds, HwIrq, MaxSends, MaxResets

ASSUME PendingAssumption ==
  /\ NumSlots \in Nat /\ Receivers \subseteq GCpus
  /\ "free" \notin GCpus /\ "none" \notin GCpus

NIL == -1             \* NULL, of list pointers
NoIrq == -1           \* nothing, of list registers
FREE == "free"        \* an unlocked gic_lock
Slots == 0 .. NumSlots - 1

VARIABLES
  slot,      \* pending_irqs: the interrupt and the list pointers
  first,     \* first_pending
  glock,     \* gic_lock: its holder
  lr,        \* list registers: interrupt and state
  uie,       \* CPUs with the underflow maintenance interrupt enabled
  inj,       \* CPUs with SGI_INJECT pending
  raised,    \* CPUs with the hardware interrupt pending
  job,       \* what each CPU is doing in the hypervisor
  owed,      \* history: slots inserted and not yet offered to a list register
  sends, resets

gicVars == <<slot, first, glock, lr, uie, inj, raised, job, owed, sends, resets>>

EmptySlot == [irq |-> 0, next |-> NIL, prev |-> NIL]
EmptyLr == [irq |-> NoIrq, st |-> "free"]
InGuest == [pc |-> "guest", id |-> 0, todo |-> {}, to |-> {}, cpu |-> "none",
            cur |-> NIL, prev |-> NIL, void |-> FALSE]

-----------------------------------------------------------------------------
\* The list as its walk from first_pending, by number of steps.
Nth(c) ==
  LET f[n \in 0 .. NumSlots] ==
        IF n = 0 THEN first[c]
        ELSE IF f[n-1] = NIL THEN NIL ELSE slot[c][f[n-1]].next
  IN f

\* The first slot number that the ascending list skips, and its predecessor.
get_pending_slot(c) ==
  LET P == Nth(c)
      i == CHOOSE i \in 0 .. NumSlots :
             /\ P[i] = NIL \/ i < P[i] \/ i = NumSlots
             /\ \A k \in 0 .. i - 1 : P[k] # NIL /\ k >= P[k]
  IN [slot |-> IF i = NumSlots THEN NIL ELSE i, prev |-> IF i = 0 THEN NIL ELSE P[i-1]]

Linked(c) == {Nth(c)[n] : n \in 0 .. NumSlots} \ {NIL}

Set(c, r) == job' = [job EXCEPT ![c] = r]

\* irqchip_insert_pending of CPU c into the list of t: lock and find a slot.
\* Without one the interrupt is dropped.
InsertLock(c, t) ==
  LET g == get_pending_slot(t)
  IN /\ \/ job[c].pc = "sgir" /\ t \in job[c].todo
        \/ job[c].pc = "phys" /\ t = c
     /\ glock[t] = FREE
     /\ IF g.slot = NIL
        THEN /\ Set(c, IF job[c].pc = "phys" THEN InGuest
                       ELSE [job[c] EXCEPT !.todo = @ \ {t}])
             /\ UNCHANGED glock
        ELSE /\ Set(c, [job[c] EXCEPT !.pc = "fill", !.cpu = t, !.cur = g.slot,
                                      !.prev = g.prev, !.todo = @ \ {t}])
             /\ glock' = [glock EXCEPT ![t] = c]
     /\ UNCHANGED <<slot, first, lr, uie, inj, raised, owed, sends, resets>>

\* The slot's fields, which the owner may still read after unlinking it.
InsertFill(c) ==
  LET t == job[c].cpu  p == job[c].prev
  IN /\ job[c].pc = "fill"
     /\ slot' = [slot EXCEPT ![t][job[c].cur] =
                   [irq |-> job[c].id, prev |-> p,
                    next |-> IF p = NIL THEN first[t] ELSE slot[t][p].next]]
     /\ Set(c, [job[c] EXCEPT !.pc = "link"])
     /\ UNCHANGED <<first, glock, lr, uie, inj, raised, owed, sends, resets>>

\* Mutant: the successor keeps its old predecessor.
LinkOneWay(c) ==
  LET t == job[c].cpu  p == job[c].prev  s == job[c].cur
  IN /\ job[c].pc = "link"
     /\ slot' = [slot EXCEPT ![t] =
                   [k \in Slots |-> IF k = p THEN [@[k] EXCEPT !.next = s] ELSE @[k]]]
     /\ first' = IF p = NIL THEN [first EXCEPT ![t] = s] ELSE first
     /\ glock' = [glock EXCEPT ![t] = FREE]
     /\ owed' = IF job[c].void /\ p # NIL THEN owed
                ELSE [owed EXCEPT ![t] = @ \cup {s}]
     /\ Set(c, IF t = c THEN InGuest
               ELSE [job[c] EXCEPT !.pc = "sgir", !.cur = NIL, !.prev = NIL,
                                   !.cpu = "none", !.void = FALSE])
     /\ UNCHANGED <<lr, uie, inj, raised, sends, resets>>

\* Link and unlock.  An insertion that a reset of t overtook may end up outside
\* the list.
InsertLink(c) ==
  LET t == job[c].cpu  p == job[c].prev  s == job[c].cur
      n == slot[t][s].next
  IN /\ job[c].pc = "link"
     /\ slot' = [slot EXCEPT ![t] =
                   [k \in Slots |->
                      IF k = p THEN [@[k] EXCEPT !.next = s]
                      ELSE IF k = n THEN [@[k] EXCEPT !.prev = s] ELSE @[k]]]
     /\ first' = IF p = NIL THEN [first EXCEPT ![t] = s] ELSE first
     /\ glock' = [glock EXCEPT ![t] = FREE]
     /\ owed' = IF job[c].void /\ p # NIL THEN owed
                ELSE [owed EXCEPT ![t] = @ \cup {s}]
     /\ Set(c, IF t = c THEN InGuest
               ELSE [job[c] EXCEPT !.pc = "sgir", !.cur = NIL, !.prev = NIL,
                                   !.cpu = "none", !.void = FALSE])
     /\ UNCHANGED <<lr, uie, inj, raised, sends, resets>>

\* A guest's SGIR write with a target list, or to all others: CPUs of its cell.
gic_handle_sgir_write(c) ==
  /\ job[c].pc = "guest" /\ c \in Senders /\ sends < MaxSends
  /\ \E T \in SUBSET (Receivers \ {c}) \ {{}} : \E i \in SgiIds :
       Set(c, [InGuest EXCEPT !.pc = "sgir", !.id = i, !.todo = T, !.to = T])
  /\ sends' = sends + 1
  /\ UNCHANGED <<slot, first, glock, lr, uie, inj, raised, owed, resets>>

\* irqchip_send_sgi at the end.
gic_send_sgi(c) ==
  /\ job[c].pc = "sgir" /\ job[c].todo = {}
  /\ inj' = inj \cup job[c].to /\ Set(c, InGuest)
  /\ UNCHANGED <<slot, first, glock, lr, uie, raised, owed, sends, resets>>

-----------------------------------------------------------------------------
FreeLr(c) == {i \in 1 .. NumLr : lr[c][i].st = "free"}
Overlap2(c, id) == \E i \in (1 .. NumLr) \ FreeLr(c) : lr[c][i].irq = id

\* gic_inject_irq: refused if the interrupt is in a list register, "busy" if
\* all are in use.
gic_inject_irq(c, id) ==
  IF Overlap2(c, id) THEN "einval" ELSE IF FreeLr(c) = {} THEN "ebusy" ELSE "ok"
ToLr(c, id) ==
  LET i == CHOOSE i \in FreeLr(c) : \A k \in FreeLr(c) : i <= k
  IN lr' = [lr EXCEPT ![c][i] = [irq |-> id, st |-> "pending"]]

\* SGI_INJECT, or the maintenance interrupt: irqchip_inject_pending starts.
WalkFrom(c) == Set(c, IF first[c] = NIL THEN InGuest
                      ELSE [InGuest EXCEPT !.pc = "walk", !.cur = first[c]])
arch_handle_sgi(c) ==
  /\ job[c].pc = "guest" /\ c \in inj
  /\ inj' = inj \ {c} /\ WalkFrom(c)
  /\ UNCHANGED <<slot, first, glock, lr, uie, raised, owed, sends, resets>>
MaintenanceIrq(c) ==
  /\ job[c].pc = "guest" /\ c \in uie /\ Cardinality(FreeLr(c)) >= NumLr - 1
  /\ WalkFrom(c)
  /\ UNCHANGED <<slot, first, glock, lr, uie, inj, raised, owed, sends, resets>>

\* Mutant: full list registers do not ask for the maintenance interrupt.
InjectNoUie(c) ==
  LET id == slot[c][job[c].cur].irq
  IN /\ job[c].pc = "walk"
     /\ \/ /\ gic_inject_irq(c, id) = "ebusy" /\ Set(c, InGuest)
           /\ UNCHANGED <<lr, uie, owed>>
        \/ /\ gic_inject_irq(c, id) # "ebusy"
           /\ IF gic_inject_irq(c, id) = "ok" THEN ToLr(c, id) ELSE UNCHANGED lr
           /\ owed' = [owed EXCEPT ![c] = @ \ {job[c].cur}]
           /\ Set(c, [job[c] EXCEPT !.pc = "unlink"]) /\ UNCHANGED uie
     /\ UNCHANGED <<slot, first, glock, inj, raised, sends, resets>>

\* One interrupt of the list; the walk ends when the list registers are full.
InjectNext(c) ==
  LET id == slot[c][job[c].cur].irq
  IN /\ job[c].pc = "walk"
     /\ \/ /\ gic_inject_irq(c, id) = "ebusy"
           /\ uie' = uie \cup {c} /\ Set(c, InGuest) /\ UNCHANGED <<lr, owed>>
        \/ /\ gic_inject_irq(c, id) # "ebusy"
           /\ IF gic_inject_irq(c, id) = "ok" THEN ToLr(c, id) ELSE UNCHANGED lr
           /\ owed' = [owed EXCEPT ![c] = @ \ {job[c].cur}]
           /\ Set(c, [job[c] EXCEPT !.pc = "unlink"]) /\ UNCHANGED uie
     /\ UNCHANGED <<slot, first, glock, inj, raised, sends, resets>>

irqchip_remove_pending(c) ==
  LET s == slot[c][job[c].cur]
  IN /\ job[c].pc = "unlink" /\ glock[c] = FREE
     /\ first' = IF first[c] = job[c].cur THEN [first EXCEPT ![c] = s.next] ELSE first
     /\ slot' = [slot EXCEPT ![c] =
                   [k \in Slots |-> IF k = s.prev THEN [@[k] EXCEPT !.next = s.next]
                      ELSE IF k = s.next THEN [@[k] EXCEPT !.prev = s.prev] ELSE @[k]]]
     /\ Set(c, [job[c] EXCEPT !.pc = "next"])
     /\ UNCHANGED <<glock, lr, uie, inj, raised, owed, sends, resets>>

\* pending = pending->next, of a slot that may have been filled again.
Advance(c) ==
  LET n == slot[c][job[c].cur].next
  IN /\ job[c].pc = "next"
     /\ Set(c, IF n = NIL THEN InGuest ELSE [job[c] EXCEPT !.pc = "walk", !.cur = n])
     /\ UNCHANGED <<slot, first, glock, lr, uie, inj, raised, owed, sends, resets>>

-----------------------------------------------------------------------------
\* A hardware interrupt: into a list register at once, or into the list.
arch_handle_phys_irq(c) ==
  /\ job[c].pc = "guest" /\ c \in raised /\ raised' = raised \ {c}
  /\ \/ gic_inject_irq(c, HwIrq) = "ok" /\ ToLr(c, HwIrq) /\ UNCHANGED <<uie, job>>
     \/ /\ gic_inject_irq(c, HwIrq) # "ok" /\ UNCHANGED lr
        /\ uie' = IF gic_inject_irq(c, HwIrq) = "ebusy" THEN uie \cup {c} ELSE uie
        /\ Set(c, [InGuest EXCEPT !.pc = "phys", !.id = HwIrq])
  /\ UNCHANGED <<slot, first, glock, inj, owed, sends, resets>>

\* irqchip_cpu_reset, without the lock.
irqchip_cpu_reset(c) ==
  /\ job[c].pc = "guest" /\ c \in Receivers /\ resets < MaxResets /\ resets' = resets + 1
  /\ slot' = [slot EXCEPT ![c] = [s \in Slots |-> EmptySlot]]
  /\ first' = [first EXCEPT ![c] = NIL] /\ owed' = [owed EXCEPT ![c] = {}]
  /\ lr' = [lr EXCEPT ![c] = [i \in 1 .. NumLr |-> EmptyLr]]
  /\ job' = [d \in GCpus |-> IF job[d].cpu = c THEN [job[d] EXCEPT !.void = TRUE]
                             ELSE job[d]]
  /\ UNCHANGED <<glock, uie, inj, raised, sends>>

\* The guest acknowledges and ends its interrupts; the hardware interrupt can
\* be raised again once it has been deactivated.
Acknowledge(c) ==
  /\ \E i \in 1 .. NumLr : /\ lr[c][i].st = "pending"
                           /\ lr' = [lr EXCEPT ![c][i].st = "active"]
  /\ job[c].pc = "guest"
  /\ UNCHANGED <<slot, first, glock, uie, inj, raised, job, owed, sends, resets>>
EndOfInterrupt(c) ==
  /\ \E i \in 1 .. NumLr : /\ lr[c][i].st = "active"
                           /\ lr' = [lr EXCEPT ![c][i] = EmptyLr]
  /\ job[c].pc = "guest"
  /\ UNCHANGED <<slot, first, glock, uie, inj, raised, job, owed, sends, resets>>
Raise(c) ==
  /\ c \in Receivers \ raised /\ ~Overlap2(c, HwIrq) /\ job[c].id # HwIrq /\ sends < MaxSends
  /\ \A s \in Linked(c) : slot[c][s].irq # HwIrq
  /\ raised' = raised \cup {c} /\ sends' = sends + 1
  /\ UNCHANGED <<slot, first, glock, lr, uie, inj, job, owed, resets>>

-----------------------------------------------------------------------------
GicInit ==
  /\ slot = [c \in GCpus |-> [s \in Slots |-> EmptySlot]]
  /\ first = [c \in GCpus |-> NIL] /\ glock = [c \in GCpus |-> FREE]
  /\ lr = [c \in GCpus |-> [i \in 1 .. NumLr |-> EmptyLr]]
  /\ uie = {} /\ inj = {} /\ raised = {}
  /\ job = [c \in GCpus |-> InGuest] /\ owed = [c \in GCpus |-> {}]
  /\ sends = 0 /\ resets = 0

Inserting(c) ==
  \/ \E t \in GCpus : InsertLock(c, t)
  \/ InsertFill(c) \/ InsertLink(c) \/ gic_send_sgi(c)
Walking(c) == InjectNext(c) \/ irqchip_remove_pending(c) \/ Advance(c)
Taking(c) == arch_handle_sgi(c) \/ MaintenanceIrq(c) \/ arch_handle_phys_irq(c)

GicNext ==
  \E c \in GCpus :
    \/ Inserting(c) \/ Walking(c) \/ Taking(c)
    \/ gic_handle_sgir_write(c) \/ irqchip_cpu_reset(c)
    \/ Acknowledge(c) \/ EndOfInterrupt(c) \/ Raise(c)

\* The hypervisor's code runs on; pending interrupts are taken; a guest that has
\* an interrupt acknowledges it and ends it, however often it is interrupted.
GicFairness ==
  /\ \A c \in GCpus : WF_gicVars(Inserting(c) \/ Walking(c))
  /\ \A c \in Receivers :
       /\ WF_gicVars(arch_handle_sgi(c) \/ arch_handle_phys_irq(c))
       /\ SF_gicVars(MaintenanceIrq(c))
       /\ SF_gicVars(Acknowledge(c) \/ EndOfInterrupt(c))

GicSpec == GicInit /\ [][GicNext]_gicVars /\ GicFairness

-----------------------------------------------------------------------------
\* Whenever its lock is free, a pending list is in ascending slot order with
\* matching back pointers, which get_pending_slot relies on, and holds exactly
\* the interrupts that still have to be injected: no insertion is lost to a
\* concurrent walk and nothing is injected twice.  Until it has unlinked it, the
\* owner has one interrupt in the list that it has injected.
ListExact ==
  \A c \in GCpus :
    glock[c] = FREE =>
      /\ \A s \in Linked(c) :
           LET n == slot[c][s].next IN n # NIL => n > s /\ slot[c][n].prev = s
      /\ first[c] # NIL => slot[c][first[c]].prev = NIL
      /\ Linked(c) = owed[c] \cup (IF job[c].pc = "unlink" THEN {job[c].cur} ELSE {})

\* Every interrupt put into a pending list is injected, also those that found
\* the list registers full and those inserted while the owner was leaving its
\* list.
PendingDrains == \A c \in Receivers : owed[c] # {} ~> owed[c] = {}

-----------------------------------------------------------------------------
(* The strengthenings that make it inductive. *)

Ids == SgiIds \cup {HwIrq, 0}
SlotOrNil == Slots \cup {NIL}
SlotRecords == [irq : Ids, next : SlotOrNil, prev : SlotOrNil]

Jobs == [pc : {"guest", "sgir", "phys", "fill", "link", "walk", "unlink", "next"},
         id : Ids, todo : SUBSET GCpus, to : SUBSET GCpus, cpu : GCpus \cup {"none"},
         cur : SlotOrNil, prev : SlotOrNil, void : BOOLEAN]

GicTypeOK ==
  /\ slot \in [GCpus -> [Slots -> SlotRecords]]
  /\ first \in [GCpus -> SlotOrNil] /\ glock \in [GCpus -> GCpus \cup {FREE}]
  /\ owed \in [GCpus -> SUBSET Slots]
  /\ job \in [GCpus -> Jobs]

\* The slots in the list of CPU c: what has still to be injected, and what it is
\* about to unlink.
Members(c) == owed[c] \cup (IF job[c].pc = "unlink" THEN {job[c].cur} ELSE {})

\* The head h and the pointers in q chain exactly the slots S, in ascending order.
Chain(S, h, q) ==
  /\ S # {} => h # NIL
  /\ h # NIL => h \in S /\ q[h].prev = NIL /\ \A t \in S : h <= t
  /\ \A s \in S :
       LET n == q[s].next  p == q[s].prev
       IN /\ n # NIL => n \in S /\ n > s /\ q[n].prev = s
          /\ \A t \in S : t > s => n # NIL /\ n <= t
          /\ p = NIL => s = h
          /\ p # NIL => p \in S /\ p < s /\ q[p].next = s

\* first_pending and the list pointers are such a chain.
ChainInv(c) == Chain(Members(c), first[c], slot[c])

\* The walk is at a slot of the list, also when it goes on from one that it has
\* unlinked and somebody has filled again.
WalkInv(c) ==
  /\ job[c].pc = "walk" => job[c].cur \in owed[c]
  /\ job[c].pc = "unlink" => job[c].cur \in Slots \ owed[c]
  /\ job[c].pc = "next" => /\ job[c].cur \in Slots
                           /\ slot[c][job[c].cur].next \in owed[c] \cup {NIL}

\* An insertion owns the lock; its slot is free and follows the one it was found
\* behind, unless the owner of the list has been reset since.
InsertInv(c) ==
  LET t == job[c].cpu  s == job[c].cur  p == job[c].prev
  IN /\ job[c].pc \notin {"fill", "link"} => t = "none" /\ ~job[c].void
     /\ job[c].pc \in {"fill", "link"} => t \in GCpus /\ glock[t] = c /\ s \in Slots /\ p # s
     /\ job[c].pc \in {"fill", "link"} /\ ~job[c].void =>
          /\ s \notin Members(t)
          /\ p = NIL => s = 0
          /\ p # NIL => p = s - 1 /\ p \in Members(t)
          /\ job[c].pc = "link" =>
               /\ slot[t][s].prev = p
               /\ slot[t][s].next = IF p = NIL THEN first[t] ELSE slot[t][p].next
     /\ job[c].pc \in {"fill", "link"} /\ job[c].void =>
          /\ Members(t) = {} /\ job[t].pc \notin {"walk", "unlink", "next"}
          /\ job[c].pc = "fill" /\ p # NIL => slot[t][p].next = NIL
          /\ job[c].pc = "link" => slot[t][s].next = NIL /\ slot[t][s].prev \in {p, NIL}

\* The inductive invariant.
GicInv ==
  GicTypeOK /\ \A c \in GCpus : ChainInv(c) /\ WalkInv(c) /\ InsertInv(c)
=============================================================================
