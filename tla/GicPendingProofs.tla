--------------------------- MODULE GicPendingProofs ---------------------------
(*****************************************************************************)
(* What is proved of the lists of pending interrupts (GicPending), for any   *)
(* number of CPUs and slots: while its lock is free a list is in ascending   *)
(* order, has matching back pointers and holds exactly the interrupts that   *)
(* are owed to its CPU.  First what chains of slots keep when a slot is put  *)
(* in or taken out; then one lemma per action; then the theorem.             *)
(*****************************************************************************)
EXTENDS GicPending, NaturalsInduction, WellFoundedInduction, TLAPS

\* A set of natural numbers that is not empty has a least element.
LEMMA LeastNatural ==
  ASSUME NEW T, T \subseteq Nat, T # {}
  PROVE  \E i \in T : \A j \in T : i <= j
  <1>. DEFINE R == OpToRel(<, Nat)
  <1>1. R = {ss \in Nat \X Nat : ss[1] < ss[2]}
    BY Zenon DEF OpToRel
  <1>2. IsWellFoundedOn(R, Nat)
    BY Zenon, NatLessThanWellFounded
  <1>. HIDE DEF R
  <1>3. PICK i \in T : \A j \in T : ~(<<j, i>> \in R)
    BY Zenon, <1>2, WFMin
  <1>4. ASSUME NEW j \in T PROVE i <= j
    <2>1. ~(<<j, i>> \in {ss \in Nat \X Nat : ss[1] < ss[2]})
      BY Zenon, <1>1, <1>3
    <2>. QED
      BY <2>1
  <1>. QED
    BY Zenon, <1>4

\* The walk along a list, step by step: the recursive function Nth exists.
LEMMA NthStep ==
  ASSUME PendingAssumption, NEW c \in GCpus, GicTypeOK
  PROVE  /\ Nth(c)[0] = first[c]
         /\ \A n \in 1 .. NumSlots :
              Nth(c)[n] = IF Nth(c)[n - 1] = NIL THEN NIL ELSE slot[c][Nth(c)[n - 1]].next
  <1>. DEFINE Follow(x) == IF x = NIL THEN NIL ELSE slot[c][x].next
              IsWalk(f, m) == f = [n \in 0 .. m |-> IF n = 0 THEN first[c] ELSE Follow(f[n-1])]
              T == {m \in Nat : ~\E f : IsWalk(f, m)}
  <1>1. \E f : IsWalk(f, 0)
    <2>1. IsWalk([n \in 0 .. 0 |-> first[c]], 0)
      OBVIOUS
    <2>2. QED
      BY Zenon, <2>1
  <1>2. T = {}
    <2>1. SUFFICES ASSUME T # {} PROVE FALSE
      OBVIOUS
    <2>2. PICK m \in T : \A j \in T : m <= j
      BY Zenon, <2>1, LeastNatural
    <2>3. m \in Nat /\ m # 0 /\ m - 1 \in Nat /\ m - 1 \notin T
      <3>1. m \in Nat /\ ~\E f : IsWalk(f, m)
        BY Zenon, <2>2
      <3>2. m # 0
        BY Zenon, <1>1, <3>1
      <3>3. m - 1 \in Nat /\ ~(m <= m - 1)
        BY <3>1, <3>2
      <3>4. QED
        BY Zenon, <2>2, <3>1, <3>2, <3>3
    <2>4. PICK g : IsWalk(g, m - 1)
      BY Zenon, <2>3
    <2>. DEFINE h == [n \in 0 .. m |-> IF n = m THEN Follow(g[m - 1]) ELSE g[n]]
    <2>5. IsWalk(h, m)
      <3>1. SUFFICES ASSUME NEW n \in 0 .. m
                     PROVE  h[n] = IF n = 0 THEN first[c] ELSE Follow(h[n-1])
        BY Zenon
      <3>2. CASE n = m
        <4>1. n # 0 /\ m - 1 \in 0 .. m /\ m - 1 # m
          BY SMTT(30), <3>2, <2>3
        <4>2. h[m - 1] = g[m - 1] /\ h[m] = Follow(g[m - 1])
          BY <4>1, <2>3
        <4>3. QED
          BY Zenon, <4>1, <4>2, <3>2
      <3>3. CASE n # m
        <4>1. n \in 0 .. m - 1 /\ (n # 0 => n - 1 \in 0 .. m /\ n - 1 # m)
          BY <3>3, <2>3
        <4>2. h[n] = g[n] /\ (n # 0 => h[n - 1] = g[n - 1])
          BY Zenon, <4>1, <3>3
        <4>3. g[n] = IF n = 0 THEN first[c] ELSE Follow(g[n - 1])
          BY Zenon, <4>1, <2>4
        <4>4. QED
          BY Zenon, <4>2, <4>3
      <3>4. QED
        BY Zenon, <3>2, <3>3
    <2>6. QED
      BY Zenon, <2>2, <2>5
  <1>3. PICK f : IsWalk(f, NumSlots)
    BY Zenon, <1>2, PendingAssumption
  <1>4. IsWalk(Nth(c), NumSlots)
    BY Zenon, <1>3 DEF Nth
  <1>5. QED
    BY <1>4, PendingAssumption

\* On a chained list the walk stays in it and goes up, so that it reaches every slot.
LEMMA WalkFacts ==
  ASSUME PendingAssumption, GicTypeOK, NEW c \in GCpus, ChainInv(c)
  PROVE  /\ Linked(c) = Members(c) /\ Members(c) \subseteq Slots
         /\ \A n \in 0 .. NumSlots : Nth(c)[n] # NIL => Nth(c)[n] \in Members(c) /\ n <= Nth(c)[n]
  <1>. DEFINE P(n) == Nth(c)[n] # NIL => Nth(c)[n] \in Members(c) /\ n <= Nth(c)[n]
              T == {n \in 0 .. NumSlots : ~P(n)}
  <1>0. /\ NumSlots \in Nat /\ Members(c) \subseteq SlotOrNil /\ NIL = -1
        /\ \A s \in SlotOrNil : s # NIL <=> s \in Slots
        /\ Slots = 0 .. NumSlots - 1
    BY PendingAssumption DEF GicTypeOK, SlotRecords, Jobs, Members, SlotOrNil, Slots, NIL
  <1>1. \A n \in 0 .. NumSlots : P(n)
    <2>1. SUFFICES ASSUME T # {} PROVE FALSE
      BY Zenon
    <2>2. T \subseteq Nat
      BY <1>0
    <2>3. PICK m \in T : \A j \in T : m <= j
      BY Zenon, <2>1, <2>2, LeastNatural
    <2>4. m \in 0 .. NumSlots /\ ~P(m)
      BY Zenon, <2>3
    <2>5. CASE m = 0
      <3>1. Nth(c)[0] = first[c]
        BY Zenon, NthStep
      <3>2. first[c] # NIL /\ first[c] \in Members(c)
        BY Zenon, <3>1, <2>4, <2>5 DEF ChainInv, Chain
      <3>3. QED
        BY <1>0, <2>4, <2>5, <3>1, <3>2
    <2>6. CASE m # 0
      <3>1. m \in 1 .. NumSlots /\ m - 1 \in 0 .. NumSlots /\ ~(m <= m - 1)
        BY <2>4, <2>6, <1>0
      <3>2. P(m - 1)
        BY Zenon, <2>3, <3>1
      <3>. DEFINE x == Nth(c)[m - 1]
      <3>3. x # NIL /\ Nth(c)[m] = slot[c][x].next /\ Nth(c)[m] # NIL
        BY Zenon, NthStep, <3>1, <2>4
      <3>4. x \in Members(c) /\ m - 1 <= x /\ Nth(c)[m] \in Members(c) /\ Nth(c)[m] > x
        BY Zenon, <3>2, <3>3 DEF ChainInv, Chain
      <3>. HIDE DEF x
      <3>5. m <= Nth(c)[m]
        BY <3>4, <3>1, <1>0
      <3>6. QED
        BY Zenon, <3>4, <3>5, <2>4
    <2>7. QED
      BY Zenon, <2>5, <2>6
  <1>2. NIL \notin Members(c)
    BY Zenon, <1>1 DEF ChainInv, Chain
  <1>3. Linked(c) \subseteq Members(c)
    BY Zenon, <1>1 DEF Linked
  <1>4. Members(c) \subseteq Linked(c)
    <2>. DEFINE U == Members(c) \ Linked(c)
    <2>1. SUFFICES ASSUME U # {} PROVE FALSE
      BY Zenon
    <2>2. U \subseteq Nat
      BY <1>0, <1>2
    <2>3. PICK s \in U : \A j \in U : s <= j
      BY Zenon, <2>1, <2>2, LeastNatural
    <2>4. s \in Members(c) /\ s \notin Linked(c) /\ s \in Slots /\ s # NIL
      BY Zenon, <2>3, <1>0, <1>2
    <2>. DEFINE p == slot[c][s].prev
    <2>5. s # first[c]
      <3>1. Nth(c)[0] = first[c]
        BY Zenon, NthStep
      <3>2. 0 \in 0 .. NumSlots
        BY <1>0
      <3>3. QED
        BY Zenon, <2>4, <3>1, <3>2 DEF Linked
    <2>6. p \in Members(c) /\ p < s /\ slot[c][p].next = s /\ p # NIL
      BY Zenon, <2>4, <2>5 DEF ChainInv, Chain
    <2>7. p \in Linked(c)
      BY <2>3, <2>6, <1>0, <1>2
    <2>8. PICK n \in 0 .. NumSlots : p = Nth(c)[n]
      BY Zenon, <2>7 DEF Linked
    <2>9. n <= p /\ p \in Slots
      BY Zenon, <1>0, <1>1, <2>6, <2>8
    <2>10. n + 1 \in 1 .. NumSlots /\ n + 1 \in 0 .. NumSlots /\ (n + 1) - 1 = n
      BY <2>9, <2>6, <2>4, <1>0
    <2>11. Nth(c)[n + 1] = s
      <3>1. Nth(c)[n + 1] = IF Nth(c)[(n + 1) - 1] = NIL THEN NIL ELSE slot[c][Nth(c)[(n + 1) - 1]].next
        BY Zenon, NthStep, <2>10
      <3>2. QED
        BY Zenon, <3>1, <2>10, <2>8, <2>6
    <2>12. QED
      BY Zenon, <2>4, <2>10, <2>11 DEF Linked
  <1>5. QED
    BY Zenon, <1>0, <1>1, <1>2, <1>3, <1>4

\* get_pending_slot finds the first slot that is not in the list.
LEMMA FoundSlot ==
  ASSUME PendingAssumption, GicTypeOK, NEW c \in GCpus, ChainInv(c)
  PROVE  LET g == get_pending_slot(c)
         IN g.slot # NIL => /\ g.slot \in Slots \ Members(c)
                            /\ g.prev = NIL => g.slot = 0
                            /\ g.prev # NIL => g.prev = g.slot - 1 /\ g.prev \in Members(c)
  <1>. DEFINE P == Nth(c)
              Stops(i) == P[i] = NIL \/ i < P[i] \/ i = NumSlots
              Good(i) == /\ Stops(i)
                         /\ \A k \in 0 .. i - 1 : P[k] # NIL /\ k >= P[k]
              T == {i \in 0 .. NumSlots : Stops(i)}
              i == CHOOSE i \in 0 .. NumSlots : Good(i)
  <1>0. NumSlots \in Nat /\ NIL = -1 /\ Slots = 0 .. NumSlots - 1
    BY Zenon, PendingAssumption DEF Slots, NIL
  <1>1. \A n \in 0 .. NumSlots : P[n] # NIL => P[n] \in Members(c) /\ n <= P[n] /\ P[n] \in Slots
    BY Zenon, WalkFacts
  <1>. HIDE DEF P
  <1>2. \E j \in 0 .. NumSlots : Good(j)
    <2>1. T # {} /\ T \subseteq Nat
      <3>1. NumSlots \in 0 .. NumSlots /\ 0 .. NumSlots \subseteq Nat
        BY <1>0
      <3>2. QED
        BY Zenon, <3>1
    <2>2. PICK m \in T : \A j \in T : m <= j
      BY Zenon, <2>1, LeastNatural
    <2>3. ASSUME NEW k \in 0 .. m - 1 PROVE P[k] # NIL /\ k >= P[k]
      <3>1. k \in 0 .. NumSlots /\ ~(m <= k)
        BY <2>2, <1>0
      <3>2. ~Stops(k)
        BY Zenon, <3>1, <2>2
      <3>3. P[k] # NIL /\ ~(k < P[k]) /\ P[k] \in Slots
        BY Zenon, <3>1, <3>2, <1>1
      <3>4. QED
        BY <3>1, <3>3, <1>0
    <2>4. QED
      BY Zenon, <2>2, <2>3
  <1>3. i \in 0 .. NumSlots /\ Good(i)
    BY Zenon, <1>2
  <1>4. get_pending_slot(c) = [slot |-> IF i = NumSlots THEN NIL ELSE i,
                               prev |-> IF i = 0 THEN NIL ELSE P[i - 1]]
    BY Zenon DEF get_pending_slot, P
  <1>. HIDE DEF i
  <1>5. SUFFICES ASSUME i # NumSlots
                 PROVE  /\ i \in Slots \ Members(c)
                        /\ i # 0 => P[i - 1] = i - 1 /\ i - 1 \in Members(c)
    <2>1. i \in Slots /\ i # 0 /\ P[i - 1] = i - 1 => P[i - 1] # NIL
      BY <1>0
    <2>2. i # NumSlots => i # NIL
      BY SMTT(30), <1>3, <1>0
    <2>3. /\ get_pending_slot(c).slot = IF i = NumSlots THEN NIL ELSE i
          /\ get_pending_slot(c).prev = IF i = 0 THEN NIL ELSE P[i - 1]
      BY <1>4
    <2>4. QED
      BY Zenon, <1>5, <2>1, <2>2, <2>3
  <1>6. i \in Slots /\ (P[i] = NIL \/ i < P[i])
    BY <1>0, <1>3, <1>5
  <1>7. ASSUME i # 0 PROVE P[i - 1] = i - 1 /\ i - 1 \in Members(c)
    <2>1. i - 1 \in 0 .. i - 1 /\ i - 1 \in 0 .. NumSlots
      BY <1>0, <1>3, <1>7
    <2>2. P[i - 1] # NIL /\ i - 1 >= P[i - 1] /\ P[i - 1] \in Members(c) /\ i - 1 <= P[i - 1]
          /\ P[i - 1] \in Slots
      BY Zenon, <1>1, <1>3, <2>1
    <2>3. P[i - 1] = i - 1
      BY <1>0, <1>3, <2>2
    <2>4. QED
      BY Zenon, <2>2, <2>3
  <1>8. i \notin Members(c)
    <2>1. CASE i = 0
      <3>1. P[0] = first[c]
        BY Zenon, NthStep DEF P
      <3>2. SUFFICES ASSUME i \in Members(c) PROVE FALSE
        OBVIOUS
      <3>3. first[c] # NIL /\ first[c] <= i /\ first[c] \in Members(c)
        BY Zenon, <3>2 DEF ChainInv, Chain
      <3>4. first[c] \in Slots
        BY Zenon, <3>3, WalkFacts
      <3>5. QED
        BY <3>1, <3>3, <3>4, <1>6, <2>1, <1>0
    <2>2. CASE i # 0
      <3>1. i \in 1 .. NumSlots
        BY <2>2, <1>3, <1>0
      <3>2. P[i] = IF P[i - 1] = NIL THEN NIL ELSE slot[c][P[i - 1]].next
        BY Zenon, NthStep, <3>1 DEF P
      <3>3. P[i - 1] = i - 1 /\ i - 1 \in Members(c) /\ i - 1 # NIL
        BY <1>0, <1>7, <2>2, <3>1
      <3>4. SUFFICES ASSUME i \in Members(c) PROVE FALSE
        OBVIOUS
      <3>5. i > i - 1
        BY <3>1, <1>0
      <3>6. P[i] # NIL /\ P[i] <= i
        <4>1. P[i] = slot[c][i - 1].next
          BY Zenon, <3>2, <3>3
        <4>2. slot[c][i - 1].next # NIL /\ slot[c][i - 1].next <= i
          BY Zenon, <3>3, <3>4, <3>5 DEF ChainInv, Chain
        <4>3. QED
          BY Zenon, <4>1, <4>2
      <3>7. P[i] \in Slots
        BY Zenon, <1>1, <1>3, <3>6
      <3>8. QED
        BY SMTT(30), <3>6, <3>7, <1>6, <3>1, <1>0
    <2>3. QED
      BY Zenon, <2>1, <2>2
  <1>9. QED
    BY Zenon, <1>6, <1>7, <1>8

\* A step on CPU c that leaves the lists alone.
LEMMA JobMove ==
  ASSUME PendingAssumption, GicInv, NEW c \in GCpus, NEW r \in Jobs,
         UNCHANGED <<slot, first, owed>>, Set(c, r), glock' \in [GCpus -> GCpus \cup {FREE}],
         \A t \in GCpus : glock[t] # FREE => glock'[t] = glock[t],
         job[c].pc # "unlink", r.pc \notin {"unlink", "next"},
         r.pc = "walk" => /\ r.cur \in owed[c]
                          /\ \A d \in GCpus : job[d].cpu = c => ~job[d].void,
         InsertInv(c)'
  PROVE  GicInv'
  <1>1. /\ job' = [job EXCEPT ![c] = r] /\ job'[c] = r /\ \A d \in GCpus \ {c} : job'[d] = job[d]
        /\ job \in [GCpus -> Jobs]
    BY Zenon DEF Set, GicInv, GicTypeOK, SlotRecords
  <1>2. GicTypeOK'
    BY Zenon, <1>1 DEF GicInv, GicTypeOK, SlotRecords
  <1>3. \A d \in GCpus : Members(d)' = Members(d)
    BY Zenon, <1>1 DEF Members
  <1>4. \A d \in GCpus : ChainInv(d)'
    <2>1. SUFFICES ASSUME NEW d \in GCpus PROVE ChainInv(d)'
      BY Zenon
    <2>2. ChainInv(d) /\ Members(d)' = Members(d) /\ slot' = slot /\ first' = first
      BY Zenon, <1>3 DEF GicInv
    <2>3. QED
      BY <2>2 DEF ChainInv
  <1>5. WalkInv(c)'
    BY Zenon, <1>1 DEF WalkInv
  <1>6. \A d \in GCpus \ {c} : WalkInv(d)'
    BY Zenon, <1>1 DEF GicInv, WalkInv
  <1>7. ASSUME NEW d \in GCpus \ {c} PROVE InsertInv(d)'
    <2>1. job'[d] = job[d] /\ InsertInv(d)
      BY Zenon, <1>1 DEF GicInv
    <2>. DEFINE t == job[d].cpu
    <2>2. job[d].pc \in {"fill", "link"} => glock'[t] = d /\ Members(t)' = Members(t)
      BY Zenon, <2>1, <1>3, PendingAssumption DEF InsertInv, FREE
    <2>3. job[d].pc \in {"fill", "link"} /\ job[d].void /\ t = c => r.pc # "walk"
      BY Zenon
    <2>4. job[d].pc \in {"fill", "link"} /\ job[d].void =>
            job'[t].pc \notin {"walk", "unlink", "next"}
      BY Zenon, <1>1, <2>1, <2>3 DEF InsertInv
    <2>5. QED
      BY Zenon, <2>1, <2>2, <2>4 DEF InsertInv
  <1>8. QED
    BY Zenon, <1>2, <1>4, <1>5, <1>6, <1>7 DEF GicInv

\* The record of a CPU in the guest.
LEMMA GuestRecord ==
  ASSUME PendingAssumption
  PROVE  /\ InGuest \in Jobs /\ InGuest.pc = "guest" /\ InGuest.cpu = "none" /\ InGuest.void = FALSE
         /\ NIL \in SlotOrNil
  BY Zenon DEF InGuest, Jobs, SlotOrNil, Ids

\* A CPU that goes back to its guest, without a list to unlink from.
LEMMA BackToGuest ==
  ASSUME PendingAssumption, GicInv, NEW c \in GCpus,
         UNCHANGED <<slot, first, owed, glock>>, Set(c, InGuest), job[c].pc # "unlink"
  PROVE  GicInv'
  <1>1. InsertInv(c)'
    <2>1. job'[c] = InGuest
      BY Zenon DEF Set, GicInv, GicTypeOK, SlotRecords
    <2>2. QED
      BY Zenon, <2>1, GuestRecord DEF InsertInv
  <1>2. glock' \in [GCpus -> GCpus \cup {FREE}]
    BY Zenon DEF GicInv, GicTypeOK, SlotRecords
  <1>. QED
    BY Zenon, <1>1, <1>2, JobMove, GuestRecord

\* irqchip_insert_pending takes the lock and finds a slot, or drops the interrupt.
LEMMA LockStep ==
  ASSUME PendingAssumption, GicInv, NEW c \in GCpus, NEW t \in GCpus, InsertLock(c, t)
  PROVE  GicInv'
  <1>. DEFINE g == get_pending_slot(t)
  <1>1. /\ job[c] \in Jobs /\ job[c].pc \in {"sgir", "phys"} /\ glock[t] = FREE
        /\ UNCHANGED <<slot, first, owed>> /\ GicTypeOK /\ ChainInv(t) /\ InsertInv(c)
    BY Zenon DEF InsertLock, GicInv, GicTypeOK, SlotRecords
  <1>2. CASE g.slot = NIL
    <2>. DEFINE r == IF job[c].pc = "phys" THEN InGuest ELSE [job[c] EXCEPT !.todo = @ \ {t}]
    <2>1. Set(c, r) /\ UNCHANGED glock
      BY Zenon, <1>2 DEF InsertLock
    <2>2. r \in Jobs /\ r.pc \in {"guest", "sgir"} /\ r.cpu = "none" /\ ~r.void
      BY Zenon, <1>1, GuestRecord DEF Jobs, InsertInv
    <2>3. glock' \in [GCpus -> GCpus \cup {FREE}]
      BY Zenon, <2>1, <1>1 DEF GicTypeOK, SlotRecords
    <2>. HIDE DEF r
    <2>4. InsertInv(c)'
      BY Zenon, <2>1, <2>2, <1>1 DEF InsertInv, Set, GicTypeOK, SlotRecords
    <2>5. QED
      BY Zenon, JobMove, <1>1, <2>1, <2>2, <2>3, <2>4
  <1>3. CASE g.slot # NIL
    <2>. DEFINE r == [job[c] EXCEPT !.pc = "fill", !.cpu = t, !.cur = g.slot,
                                    !.prev = g.prev, !.todo = @ \ {t}]
    <2>1. Set(c, r) /\ glock' = [glock EXCEPT ![t] = c]
      BY Zenon, <1>3 DEF InsertLock
    <2>2. /\ g.slot \in Slots \ Members(t)
          /\ g.prev = NIL => g.slot = 0
          /\ g.prev # NIL => g.prev = g.slot - 1 /\ g.prev \in Members(t)
      BY Zenon, <1>1, <1>3, FoundSlot
    <2>3. Members(t) \subseteq Slots
      BY Zenon, <1>1, WalkFacts
    <2>. HIDE DEF g
    <2>4. /\ r \in Jobs /\ r.pc = "fill" /\ r.cpu = t /\ r.cur = g.slot /\ r.prev = g.prev
          /\ ~r.void
      BY Zenon, <1>1, <2>2, <2>3 DEF Jobs, SlotOrNil, InsertInv
    <2>5. /\ glock' \in [GCpus -> GCpus \cup {FREE}] /\ glock'[t] = c
          /\ \A d \in GCpus : glock[d] # FREE => glock'[d] = glock[d]
      BY Zenon, <2>1, <1>1 DEF GicTypeOK, SlotRecords
    <2>. HIDE DEF r
    <2>6. job'[c] = r /\ Members(t)' = Members(t)
      BY Zenon, <2>1, <2>4, <1>1 DEF Set, GicTypeOK, SlotRecords, Members
    <2>7. g.prev # g.slot
      BY <2>2, PendingAssumption DEF Slots, NIL
    <2>8. InsertInv(c)'
      BY Zenon, <2>2, <2>4, <2>5, <2>6, <2>7 DEF InsertInv
    <2>9. QED
      BY Zenon, JobMove, <1>1, <2>1, <2>4, <2>5, <2>8
  <1>4. QED
    BY Zenon, <1>2, <1>3

\* Nobody is inserting on behalf of a walk that a reset has overtaken.
LEMMA NoVoidWhileListed ==
  ASSUME GicInv, NEW c \in GCpus, Members(c) # {} \/ job[c].pc \in {"walk", "unlink", "next"}
  PROVE  \A d \in GCpus : job[d].cpu = c => ~job[d].void
  <1>1. ASSUME NEW d \in GCpus, job[d].cpu = c, job[d].void PROVE FALSE
    <2>1. InsertInv(d)
      BY Zenon DEF GicInv
    <2>2. QED
      BY Zenon, <1>1, <2>1 DEF InsertInv
  <1>2. QED
    BY Zenon, <1>1

\* irqchip_inject_pending starts at first_pending.
LEMMA WalkStarts ==
  ASSUME PendingAssumption, GicInv, NEW c \in GCpus,
         UNCHANGED <<slot, first, owed, glock>>, job[c].pc = "guest", WalkFrom(c)
  PROVE  GicInv'
  <1>1. CASE first[c] = NIL
    <2>1. Set(c, InGuest)
      BY Zenon, <1>1 DEF WalkFrom
    <2>2. QED
      BY Zenon, <2>1, BackToGuest
  <1>2. CASE first[c] # NIL
    <2>. DEFINE r == [InGuest EXCEPT !.pc = "walk", !.cur = first[c]]
    <2>1. Set(c, r)
      BY Zenon, <1>2 DEF WalkFrom
    <2>2. first[c] \in Members(c) /\ first[c] \in owed[c] /\ first[c] \in SlotOrNil
      BY <1>2 DEF GicInv, GicTypeOK, SlotRecords, ChainInv, Chain, Members
    <2>3. r \in Jobs /\ r.pc = "walk" /\ r.cur = first[c] /\ r.cpu = "none" /\ r.void = FALSE
      BY Zenon, <2>2, GuestRecord DEF Jobs, InGuest
    <2>. HIDE DEF r
    <2>4. job'[c] = r
      BY Zenon, <2>1 DEF Set, GicInv, GicTypeOK, SlotRecords
    <2>5. InsertInv(c)'
      BY Zenon, <2>3, <2>4 DEF InsertInv
    <2>6. glock' \in [GCpus -> GCpus \cup {FREE}]
      BY Zenon DEF GicInv, GicTypeOK, SlotRecords
    <2>7. \A d \in GCpus : job[d].cpu = c => ~job[d].void
      BY Zenon, <2>2, NoVoidWhileListed
    <2>8. QED
      BY Zenon, JobMove, <2>1, <2>2, <2>3, <2>5, <2>6, <2>7
  <1>3. QED
    BY Zenon, <1>1, <1>2

\* The walk goes on from the slot that it has unlinked.
LEMMA AdvanceStep ==
  ASSUME PendingAssumption, GicInv, NEW c \in GCpus, Advance(c)
  PROVE  GicInv'
  <1>. DEFINE n == slot[c][job[c].cur].next
  <1>0. /\ job[c].pc = "next" /\ UNCHANGED <<slot, first, owed, glock>> /\ n \in owed[c] \cup {NIL}
        /\ job[c] \in Jobs
    BY Zenon DEF Advance, GicInv, GicTypeOK, SlotRecords, WalkInv
  <1>1. CASE n = NIL
    <2>1. Set(c, InGuest)
      BY Zenon, <1>1 DEF Advance
    <2>2. QED
      BY Zenon, <1>0, <2>1, BackToGuest
  <1>2. CASE n # NIL
    <2>. DEFINE r == [job[c] EXCEPT !.pc = "walk", !.cur = n]
    <2>1. Set(c, r)
      BY Zenon, <1>2 DEF Advance
    <2>2. n \in owed[c] /\ n \in SlotOrNil /\ InsertInv(c)
      BY Zenon, <1>0, <1>2 DEF GicInv, GicTypeOK, SlotRecords, SlotOrNil
    <2>. HIDE DEF n
    <2>3. r \in Jobs /\ r.pc = "walk" /\ r.cur = n /\ r.cpu = "none" /\ r.void = FALSE
      BY Zenon, <1>0, <2>2 DEF Jobs, InsertInv
    <2>. HIDE DEF r
    <2>4. job'[c] = r
      BY Zenon, <2>1 DEF Set, GicInv, GicTypeOK, SlotRecords
    <2>5. InsertInv(c)'
      BY Zenon, <2>3, <2>4 DEF InsertInv
    <2>6. glock' \in [GCpus -> GCpus \cup {FREE}]
      BY Zenon, <1>0 DEF GicInv, GicTypeOK, SlotRecords
    <2>7. \A d \in GCpus : job[d].cpu = c => ~job[d].void
      BY Zenon, <1>0, NoVoidWhileListed
    <2>8. QED
      BY Zenon, JobMove, <1>0, <2>1, <2>2, <2>3, <2>5, <2>6, <2>7
  <1>3. QED
    BY Zenon, <1>1, <1>2

\* A step that touches neither lists nor jobs.
LEMMA SameLists ==
  ASSUME GicInv, UNCHANGED <<slot, first, glock, owed, job>>
  PROVE  GicInv'
  <1>1. slot' = slot /\ first' = first /\ glock' = glock /\ owed' = owed /\ job' = job
    BY Zenon
  <1>2. GicTypeOK'
    BY Zenon, <1>1 DEF GicInv, GicTypeOK, SlotRecords
  <1>3. \A c \in GCpus : Members(c)' = Members(c)
    BY Zenon, <1>1 DEF Members
  <1>4. ASSUME NEW c \in GCpus PROVE ChainInv(c)'
    <2>1. ChainInv(c) /\ Members(c)' = Members(c)
      BY Zenon, <1>3 DEF GicInv
    <2>2. QED
      BY <1>1, <2>1 DEF ChainInv
  <1>5. ASSUME NEW c \in GCpus PROVE WalkInv(c)'
    BY Zenon, <1>1 DEF GicInv, WalkInv
  <1>6. ASSUME NEW c \in GCpus PROVE InsertInv(c)'
    <2>1. InsertInv(c) /\ \A d \in GCpus : Members(d)' = Members(d)
      BY Zenon, <1>3 DEF GicInv
    <2>2. QED
      BY Zenon, <1>1, <2>1 DEF InsertInv
  <1>7. QED
    BY Zenon, <1>2, <1>4, <1>5, <1>6 DEF GicInv

\* The handlers in which a CPU starts or ends its own insertions.
LEMMA SendSteps ==
  ASSUME PendingAssumption, GicInv, NEW c \in GCpus,
         gic_handle_sgir_write(c) \/ gic_send_sgi(c) \/ arch_handle_phys_irq(c)
  PROVE  GicInv'
  <1>1. ASSUME NEW r \in Jobs, Set(c, r), UNCHANGED <<slot, first, owed, glock>>,
               r.pc \in {"sgir", "phys"}, r.cpu = "none", r.void = FALSE,
               job[c].pc # "unlink"
        PROVE  GicInv'
    <2>1. job'[c] = r
      BY Zenon, <1>1 DEF Set, GicInv, GicTypeOK, SlotRecords
    <2>2. InsertInv(c)'
      BY Zenon, <1>1, <2>1 DEF InsertInv
    <2>3. glock' \in [GCpus -> GCpus \cup {FREE}]
      BY Zenon, <1>1 DEF GicInv, GicTypeOK, SlotRecords
    <2>4. QED
      BY Zenon, JobMove, <1>1, <2>2, <2>3
  <1>2. CASE gic_handle_sgir_write(c)
    <2>1. PICK T \in SUBSET (Receivers \ {c}) \ {{}}, i \in SgiIds :
            Set(c, [InGuest EXCEPT !.pc = "sgir", !.id = i, !.todo = T, !.to = T])
      BY Zenon, <1>2 DEF gic_handle_sgir_write
    <2>. DEFINE r == [InGuest EXCEPT !.pc = "sgir", !.id = i, !.todo = T, !.to = T]
    <2>2. r \in Jobs /\ r.pc = "sgir" /\ r.cpu = "none" /\ r.void = FALSE
      BY Zenon, PendingAssumption, GuestRecord DEF Jobs, InGuest, Ids
    <2>. HIDE DEF r
    <2>3. QED
      BY Zenon, <1>1, <1>2, <2>1, <2>2 DEF gic_handle_sgir_write, r
  <1>3. CASE gic_send_sgi(c)
    BY Zenon, <1>3, BackToGuest DEF gic_send_sgi
  <1>4. CASE arch_handle_phys_irq(c) /\ gic_inject_irq(c, HwIrq) = "ok"
    BY Zenon, <1>4, SameLists DEF arch_handle_phys_irq
  <1>5. CASE arch_handle_phys_irq(c) /\ gic_inject_irq(c, HwIrq) # "ok"
    <2>. DEFINE r == [InGuest EXCEPT !.pc = "phys", !.id = HwIrq]
    <2>1. Set(c, r) /\ UNCHANGED <<slot, first, owed, glock>> /\ job[c].pc = "guest"
      BY Zenon, <1>5 DEF arch_handle_phys_irq
    <2>2. r \in Jobs /\ r.pc = "phys" /\ r.cpu = "none" /\ r.void = FALSE
      BY Zenon, GuestRecord DEF Jobs, InGuest, Ids
    <2>. HIDE DEF r
    <2>3. QED
      BY Zenon, <1>1, <2>1, <2>2
  <1>6. QED
    BY Zenon, <1>2, <1>3, <1>4, <1>5

\* Another slot, lock or job than those of the list of CPU t and of CPU c does not matter.
LEMMA Apart ==
  ASSUME PendingAssumption, GicInv, NEW c \in GCpus, NEW t \in GCpus, NEW r \in Jobs, Set(c, r),
         \A d \in GCpus \ {t} : /\ slot'[d] = slot[d] /\ first'[d] = first[d]
                                /\ owed'[d] = owed[d] /\ glock'[d] = glock[d],
         c # t => /\ job[c].pc # "unlink" /\ r.pc \notin {"walk", "unlink", "next"},
         \A d \in GCpus \ {c} : job[d].pc \in {"fill", "link"} => job[d].cpu # t
  PROVE  /\ \A d \in GCpus \ {t} : ChainInv(d)' /\ WalkInv(d)'
         /\ \A d \in GCpus \ {c} : InsertInv(d)'
         /\ \A d \in GCpus \ {t} : Members(d)' = Members(d)
         /\ job' \in [GCpus -> Jobs] /\ job'[c] = r
  <1>1. /\ job'[c] = r /\ \A d \in GCpus \ {c} : job'[d] = job[d]
        /\ job' \in [GCpus -> Jobs]
    BY Zenon DEF Set, GicInv, GicTypeOK, SlotRecords
  <1>2. \A d \in GCpus \ {t} : Members(d)' = Members(d)
    BY Zenon, <1>1 DEF Members
  <1>3. ASSUME NEW d \in GCpus \ {t} PROVE ChainInv(d)'
    <2>1. ChainInv(d) /\ Members(d)' = Members(d) /\ slot'[d] = slot[d] /\ first'[d] = first[d]
      BY Zenon, <1>2 DEF GicInv
    <2>2. QED
      BY <2>1 DEF ChainInv
  <1>4. ASSUME NEW d \in GCpus \ {t} PROVE WalkInv(d)'
    <2>1. WalkInv(d) /\ slot'[d] = slot[d] /\ owed'[d] = owed[d]
      BY ZenonT(40) DEF GicInv
    <2>2. QED
      BY ZenonT(40), <2>1, <1>1 DEF WalkInv
  <1>5. ASSUME NEW d \in GCpus \ {c} PROVE InsertInv(d)'
    <2>1. job'[d] = job[d] /\ InsertInv(d)
      BY Zenon, <1>1 DEF GicInv
    <2>0. PICK u : u = job[d].cpu
      BY Zenon
    <2>2. job[d].pc \in {"fill", "link"} => u \in GCpus \ {t}
      BY Zenon, <2>0, <2>1 DEF InsertInv
    <2>3. job[d].pc \in {"fill", "link"} =>
            /\ slot'[u] = slot[u] /\ first'[u] = first[u] /\ glock'[u] = glock[u]
            /\ Members(u)' = Members(u)
      BY Zenon, <2>2, <1>2
    <2>4. job[d].pc \in {"fill", "link"} /\ job[d].void =>
            job'[u].pc \notin {"walk", "unlink", "next"}
      BY Zenon, <2>0, <2>1, <2>2, <1>1 DEF InsertInv
    <2>5. QED
      BY <2>0, <2>1, <2>3, <2>4 DEF InsertInv
  <1>6. QED
    BY Zenon, <1>1, <1>2, <1>3, <1>4, <1>5

\* An insertion has its list for itself.
LEMMA OneInserter ==
  ASSUME GicInv, NEW c \in GCpus, job[c].pc \in {"fill", "link"}
  PROVE  \A d \in GCpus \ {c} : job[d].pc \in {"fill", "link"} => job[d].cpu # job[c].cpu
  <1>1. \A d \in GCpus : InsertInv(d)
    BY Zenon DEF GicInv
  <1>2. QED
    BY <1>1 DEF InsertInv

\* irqchip_insert_pending fills its slot, which is in no list.
LEMMA FillStep ==
  ASSUME PendingAssumption, GicInv, NEW c \in GCpus, InsertFill(c)
  PROVE  GicInv'
  <1>a. PICK t, s, p : t = job[c].cpu /\ s = job[c].cur /\ p = job[c].prev
    BY Zenon
  <1>b. PICK r : r = [job[c] EXCEPT !.pc = "link"]
    BY Zenon
  <1>. DEFINE n == IF p = NIL THEN first[t] ELSE slot[t][p].next
              x == [irq |-> job[c].id, prev |-> p, next |-> n]
  <1>0. GicTypeOK /\ InsertInv(c) /\ job[c].pc = "fill" /\ Set(c, r) /\ job[c] \in Jobs
    BY Zenon, <1>b DEF GicInv, GicTypeOK, SlotRecords, InsertFill
  <1>1. t \in GCpus /\ s \in Slots /\ p \in SlotOrNil /\ p # s /\ glock[t] = c
    BY Zenon, <1>a, <1>0 DEF InsertInv, Jobs
  <1>2. /\ slot' = [slot EXCEPT ![t][s] = x] /\ UNCHANGED <<first, glock, owed>>
    BY Zenon, <1>a DEF InsertFill
  <1>3. /\ r \in Jobs /\ r.pc = "link" /\ r.cpu = t /\ r.cur = s /\ r.prev = p
        /\ r.void = job[c].void
    BY Zenon, <1>a, <1>b, <1>0 DEF Jobs
  <1>4. n \in SlotOrNil
    BY <1>0, <1>1 DEF GicTypeOK, SlotRecords, SlotOrNil
  <1>. HIDE DEF n
  <1>5. x \in SlotRecords /\ x.prev = p /\ x.next = n
    BY Zenon, <1>a, <1>0, <1>1, <1>4 DEF Jobs, SlotRecords
  <1>. HIDE DEF x
  <1>6. /\ slot' \in [GCpus -> [Slots -> SlotRecords]]
        /\ slot'[t][s] = x /\ \A k \in Slots \ {s} : slot'[t][k] = slot[t][k]
        /\ \A d \in GCpus \ {t} : slot'[d] = slot[d]
    BY Zenon, <1>0, <1>1, <1>2, <1>5 DEF GicTypeOK, SlotRecords
  <1>7. /\ \A d \in GCpus \ {t} : ChainInv(d)' /\ WalkInv(d)'
        /\ \A d \in GCpus \ {c} : InsertInv(d)'
        /\ job' \in [GCpus -> Jobs] /\ job'[c] = r
    <2>1. \A d \in GCpus \ {t} : /\ slot'[d] = slot[d] /\ first'[d] = first[d]
                                 /\ owed'[d] = owed[d] /\ glock'[d] = glock[d]
      BY Zenon, <1>2, <1>6
    <2>2. \A d \in GCpus \ {c} : job[d].pc \in {"fill", "link"} => job[d].cpu # t
      BY Zenon, OneInserter, <1>a, <1>0
    <2>3. c # t => job[c].pc # "unlink" /\ r.pc \notin {"walk", "unlink", "next"}
      BY Zenon, <1>0, <1>3
    <2>4. QED
      BY Apart, <1>0, <1>1, <1>3, <2>1, <2>2, <2>3
  <1>8. GicTypeOK'
    BY Zenon, <1>0, <1>2, <1>6, <1>7 DEF GicTypeOK, SlotRecords
  <1>9. Members(t)' = Members(t) /\ s \notin Members(t) /\ Members(t) \subseteq Slots
    <2>1. job'[t].pc = "unlink" <=> job[t].pc = "unlink"
      BY Zenon, <1>0, <1>1, <1>3, <1>7 DEF Set, GicTypeOK, SlotRecords
    <2>2. job'[t].cur = job[t].cur
      BY Zenon, <1>a, <1>0, <1>1, <1>3, <1>7 DEF Set, GicTypeOK, SlotRecords
    <2>3. s \notin Members(t)
      BY Zenon, <1>a, <1>0 DEF InsertInv
    <2>4. Members(t) \subseteq Slots
      BY Zenon, <1>1, WalkFacts DEF GicInv
    <2>5. QED
      BY Zenon, <1>2, <2>1, <2>2, <2>3, <2>4 DEF Members
  <1>10. ChainInv(t)'
    <2>1. ChainInv(t) /\ first' = first /\ \A k \in Members(t) : slot'[t][k] = slot[t][k]
      BY Zenon, <1>1, <1>2, <1>6, <1>9 DEF GicInv
    <2>2. QED
      BY SMTT(30), <1>9, <2>1 DEF ChainInv, Chain
  <1>11. WalkInv(t)'
    <2>1. WalkInv(t) /\ ChainInv(t) /\ owed' = owed
      BY Zenon, <1>1, <1>2 DEF GicInv
    <2>2. job[t].pc = "next" => n \in owed[t] \cup {NIL}
      <3>1. SUFFICES ASSUME job[t].pc = "next" PROVE n \in owed[t] \cup {NIL}
        OBVIOUS
      <3>2. ~job[c].void /\ Members(t) = owed[t]
        BY Zenon, <3>1, <1>a, <1>1, NoVoidWhileListed DEF Members
      <3>3. p # NIL => p \in Members(t)
        BY Zenon, <1>a, <1>0, <3>2 DEF InsertInv
      <3>4. QED
        BY <2>1, <3>2, <3>3 DEF ChainInv, Chain, n
    <2>3. (job'[t].pc = job[t].pc /\ job'[t].cur = job[t].cur) \/ job'[t].pc = "link"
      BY Zenon, <1>0, <1>1, <1>3, <1>7 DEF Set, GicTypeOK, SlotRecords
    <2>4. QED
      BY Zenon, <2>1, <2>2, <2>3, <1>5, <1>6 DEF WalkInv
  <1>12. InsertInv(c)'
    <2>1. p # NIL => p \in Slots \ {s}
      BY Zenon, <1>1 DEF SlotOrNil
    <2>2. p # NIL => slot'[t][p] = slot[t][p]
      BY Zenon, <1>6, <2>1
    <2>3. ~job[c].void =>
             /\ slot'[t][s].prev = p
             /\ slot'[t][s].next = IF p = NIL THEN first'[t] ELSE slot'[t][p].next
      BY Zenon, <1>2, <1>5, <1>6, <2>2 DEF n
    <2>4. job[c].void => Members(t) = {} /\ n = NIL /\ job'[t].pc \notin {"walk", "unlink", "next"}
      <3>1. SUFFICES ASSUME job[c].void
                     PROVE  Members(t) = {} /\ n = NIL /\ job'[t].pc \notin {"walk", "unlink", "next"}
        OBVIOUS
      <3>2. Members(t) = {} /\ ChainInv(t) /\ job[t].pc \notin {"walk", "unlink", "next"}
        BY Zenon, <3>1, <1>a, <1>0, <1>1 DEF InsertInv, GicInv
      <3>3. n = NIL
        BY Zenon, <3>1, <3>2, <1>a, <1>0 DEF InsertInv, ChainInv, Chain, n
      <3>4. QED
        BY Zenon, <3>2, <3>3, <1>0, <1>1, <1>3, <1>7 DEF Set, GicTypeOK, SlotRecords
    <2>5. QED
      <3>1. /\ job'[c].pc = "link" /\ job'[c].cpu = t /\ job'[c].cur = s /\ job'[c].prev = p
            /\ job'[c].void = job[c].void
        BY Zenon, <1>3, <1>7
      <3>2. /\ glock'[t] = c /\ s \notin Members(t)' /\ Members(t)' = Members(t)
            /\ slot'[t][s].next = n /\ slot'[t][s].prev = p
        BY Zenon, <1>1, <1>2, <1>5, <1>6, <1>9
      <3>3. ~job[c].void => (p = NIL => s = 0) /\ (p # NIL => p = s - 1 /\ p \in Members(t))
        BY Zenon, <1>a, <1>0 DEF InsertInv
      <3>4. QED
        BY Zenon, <1>1, <3>1, <3>2, <3>3, <2>3, <2>4 DEF InsertInv
  <1>13. QED
    BY Zenon, <1>7, <1>8, <1>10, <1>11, <1>12 DEF GicInv

\* Slot numbers are integers, and NIL is none of them.
LEMMA SlotFacts ==
  ASSUME PendingAssumption
  PROVE  Slots \subseteq Nat /\ NIL = -1 /\ SlotOrNil \subseteq Int
  BY DEF Slots, NIL, SlotOrNil

\* From the pointers q to w, the slot x comes behind p and the slot y before n.
Relinked(q, w, p, x, n, y) ==
  \A k \in Slots : /\ w[k].next = IF k = p THEN x ELSE q[k].next
                   /\ w[k].prev = IF k # p /\ k = n THEN y ELSE q[k].prev

\* A slot that is linked behind its predecessor in the array, or at the head when it is
\* the first slot, extends the chain.
LEMMA ChainInsert ==
  ASSUME PendingAssumption, NEW S \in SUBSET Slots, NEW h \in SlotOrNil,
         NEW q \in [Slots -> SlotRecords], Chain(S, h, q),
         NEW s \in Slots \ S, NEW p \in SlotOrNil, NEW n \in SlotOrNil,
         p = NIL => s = 0, p # NIL => p = s - 1 /\ p \in S,
         n = IF p = NIL THEN h ELSE q[p].next, q[s].prev = p, q[s].next = n,
         NEW w \in [Slots -> SlotRecords], Relinked(q, w, p, s, n, s),
         NEW g, g = IF p = NIL THEN s ELSE h
  PROVE  Chain(S \cup {s}, g, w)
  <1>0. \A k \in Slots : /\ w[k].next = IF k = p THEN s ELSE q[k].next
                         /\ w[k].prev = IF k # p /\ k = n THEN s ELSE q[k].prev
    BY Zenon DEF Relinked
  <1>1. /\ \A k \in Slots : k \in Int /\ k >= 0
        /\ NIL = -1
    BY SlotFacts
  <1>2. /\ n # NIL => n \in S /\ n > s /\ q[n].prev = p /\ n # p
        /\ \A m \in S : m > s => n # NIL /\ n <= m
        /\ \A m \in S : m < s => p # NIL /\ m <= p
    <2>1. CASE p = NIL
      BY SMTT(30), <2>1, <1>1 DEF Chain
    <2>2. CASE p # NIL
      <3>1. /\ n # NIL => n \in S /\ n > p /\ q[n].prev = p
            /\ \A m \in S : m > p => n # NIL /\ n <= m
        BY SMTT(30), <2>2, <1>1 DEF Chain
      <3>2. QED
        BY SMTT(30), <3>1, <2>2, <1>1
    <2>3. QED
      BY Zenon, <2>1, <2>2
  <1>3. /\ w[s].next = n /\ w[s].prev = p
    BY <1>0, <1>1, <1>2
  <1>4. /\ p # NIL => w[p].next = s /\ w[p].prev = q[p].prev
        /\ n # NIL => w[n].prev = s /\ w[n].next = q[n].next
        /\ \A k \in S \ {p, n} : w[k].next = q[k].next /\ w[k].prev = q[k].prev
    BY Zenon, <1>0, <1>2
  <1>5. g # NIL /\ g \in S \cup {s} /\ w[g].prev = NIL /\ \A t \in S \cup {s} : g <= t
    <2>1. CASE p = NIL
      BY <2>1, <1>1, <1>3
    <2>2. CASE p # NIL
      <3>1. h # NIL /\ h \in S /\ q[h].prev = NIL /\ \A t \in S : h <= t
        BY Zenon, <2>2 DEF Chain
      <3>2. h <= s /\ h # n
        BY <3>1, <2>2, <1>1, <1>2
      <3>3. w[h].prev = NIL
        BY Zenon, <3>1, <3>2, <1>4, <2>2
      <3>4. QED
        BY Zenon, <2>2, <3>1, <3>2, <3>3
    <2>3. QED
      BY Zenon, <2>1, <2>2
  <1>6. ASSUME NEW k \in S \cup {s}
        PROVE  /\ w[k].next # NIL => /\ w[k].next \in S \cup {s} /\ w[k].next > k
                                     /\ w[w[k].next].prev = k
               /\ \A t \in S \cup {s} : t > k => w[k].next # NIL /\ w[k].next <= t
               /\ w[k].prev = NIL => k = g
               /\ w[k].prev # NIL => /\ w[k].prev \in S \cup {s} /\ w[k].prev < k
                                     /\ w[w[k].prev].next = k
    <2>1. CASE k = s
      <3>1. n # NIL => n \in S \cup {s} /\ n > s /\ w[n].prev = s
        BY Zenon, <1>2, <1>4
      <3>2. p = NIL => s = g
        OBVIOUS
      <3>3. p # NIL => p \in S \cup {s} /\ p < s /\ w[p].next = s
        BY SMTT(30), <1>1, <1>4
      <3>4. \A t \in S \cup {s} : t > s => n # NIL /\ n <= t
        BY <1>1, <1>2
      <3>5. QED
        BY Zenon, <2>1, <1>3, <3>1, <3>2, <3>3, <3>4
    <2>2. CASE k # s /\ k = p
      <3>1. k \in S /\ p # NIL /\ w[k].next = s /\ w[k].prev = q[k].prev
        BY SMTT(30), <2>2, <1>1, <1>4
      <3>2. s \in S \cup {s} /\ s > k /\ w[s].prev = k
        BY SMTT(30), <2>2, <3>1, <1>1, <1>3
      <3>3. \A t \in S \cup {s} : t > k => s <= t
        BY <2>2, <3>1, <1>1
      <3>4. q[k].prev = NIL => k = g
        BY Zenon, <3>1 DEF Chain
      <3>5. q[k].prev # NIL => q[k].prev \in S /\ q[k].prev < k /\ q[q[k].prev].next = k
        BY Zenon, <3>1 DEF Chain
      <3>6. q[k].prev # NIL => w[q[k].prev].next = k
        <4>1. q[k].prev # NIL => q[k].prev # p
          BY SMTT(30), <3>5, <2>2, <1>1
        <4>2. QED
          BY Zenon, <1>0, <4>1, <3>5
      <3>7. s # NIL
        BY <1>1
      <3>8. QED
        BY Zenon, <3>1, <3>2, <3>3, <3>4, <3>5, <3>6, <3>7
    <2>3. CASE k # s /\ k # p
      <3>1. k \in S /\ w[k].next = q[k].next
        BY Zenon, <1>0, <2>3
      <3>2. k < p \/ k > s
        BY <2>3, <3>1, <1>1, <1>2
      <3>3. q[k].next # NIL => /\ q[k].next \in S /\ q[k].next > k /\ q[q[k].next].prev = k
        BY Zenon, <3>1 DEF Chain
      <3>4. q[k].next # NIL => w[q[k].next].prev = k
        <4>1. q[k].next # NIL /\ q[k].next = n => p = NIL \/ k = p
          BY Zenon, <3>3, <1>2, <2>3
        <4>2. q[k].next # NIL => q[k].next # n
          <5>1. SUFFICES ASSUME q[k].next # NIL, q[k].next = n PROVE FALSE
            OBVIOUS
          <5>2. q[n].prev = k /\ q[n].prev = p
            BY Zenon, <5>1, <3>3, <1>2
          <5>3. QED
            BY Zenon, <5>2, <2>3
        <4>3. QED
          BY Zenon, <1>0, <4>2, <3>3
      <3>5. \A t \in S \cup {s} : t > k => q[k].next # NIL /\ q[k].next <= t
        <4>1. \A t \in S : t > k => q[k].next # NIL /\ q[k].next <= t
          BY Zenon, <3>1 DEF Chain
        <4>2. s > k => q[k].next # NIL /\ q[k].next <= s
          <5>1. SUFFICES ASSUME s > k PROVE q[k].next # NIL /\ q[k].next <= s
            OBVIOUS
          <5>2. p # NIL /\ p \in S /\ p > k /\ p <= s
            BY SMTT(30), <5>1, <3>1, <3>2, <1>1, <1>2, <2>3
          <5>3. q[k].next # NIL /\ q[k].next <= p /\ q[k].next \in S
            BY Zenon, <5>2, <4>1, <3>3
          <5>4. QED
            BY SMTT(30), <5>2, <5>3, <1>1
        <4>3. QED
          BY Zenon, <4>1, <4>2
      <3>6. CASE k = n
        <4>1. w[k].prev = s /\ k > s /\ s # NIL /\ w[s].next = k
          BY SMTT(30), <1>0, <3>6, <2>3, <3>1, <1>1, <1>2, <1>3
        <4>2. s < k
          BY Zenon, <4>1, <3>1, <1>1
        <4>3. QED
          BY Zenon, <4>1, <4>2, <3>1, <3>3, <3>4, <3>5
      <3>7. CASE k # n
        <4>1. w[k].prev = q[k].prev
          BY Zenon, <1>0, <3>7, <3>1, <2>3
        <4>2. q[k].prev = NIL => k = h
          BY Zenon, <3>1 DEF Chain
        <4>3. q[k].prev = NIL => k = g
          BY Zenon, <4>2, <3>7
        <4>4. q[k].prev # NIL => q[k].prev \in S /\ q[k].prev < k /\ q[q[k].prev].next = k
          BY Zenon, <3>1 DEF Chain
        <4>5. q[k].prev # NIL => w[q[k].prev].next = k
          <5>1. q[k].prev # NIL => q[k].prev # p
            BY Zenon, <4>4, <3>7
          <5>2. QED
            BY Zenon, <1>0, <4>4, <5>1
        <4>6. QED
          BY Zenon, <4>1, <4>3, <4>4, <4>5, <3>1, <3>3, <3>4, <3>5
      <3>8. QED
        BY Zenon, <3>6, <3>7
    <2>4. QED
      BY Zenon, <2>1, <2>2, <2>3
  <1>7. QED
    BY Zenon, <1>5, <1>6 DEF Chain

\* irqchip_insert_pending links its slot and releases the lock: into the list it found
\* the slot in, or, after a reset of the owner, at most into the empty list.
LEMMA LinkStep ==
  ASSUME PendingAssumption, GicInv, NEW c \in GCpus, InsertLink(c)
  PROVE  GicInv'
  <1>a. PICK t, s, p : t = job[c].cpu /\ s = job[c].cur /\ p = job[c].prev
    BY Zenon
  <1>b. PICK r : r = IF t = c THEN InGuest
                     ELSE [job[c] EXCEPT !.pc = "sgir", !.cur = NIL, !.prev = NIL,
                                         !.cpu = "none", !.void = FALSE]
    BY Zenon
  <1>c. PICK n : n = slot[t][s].next
    BY Zenon
  <1>0. GicTypeOK /\ InsertInv(c) /\ job[c].pc = "link" /\ Set(c, r) /\ job[c] \in Jobs
    BY Zenon, <1>a, <1>b DEF GicInv, GicTypeOK, InsertLink
  <1>1. /\ t \in GCpus /\ s \in Slots /\ p \in SlotOrNil /\ p # s /\ glock[t] = c
        /\ n \in SlotOrNil
    BY <1>a, <1>c, <1>0 DEF InsertInv, Jobs, GicTypeOK, SlotRecords
  <1>2. /\ slot' = [slot EXCEPT ![t] =
                      [k \in Slots |->
                         IF k = p THEN [@[k] EXCEPT !.next = s]
                         ELSE IF k = n THEN [@[k] EXCEPT !.prev = s] ELSE @[k]]]
        /\ first' = IF p = NIL THEN [first EXCEPT ![t] = s] ELSE first
        /\ glock' = [glock EXCEPT ![t] = FREE]
        /\ owed' = IF job[c].void /\ p # NIL THEN owed
                   ELSE [owed EXCEPT ![t] = @ \cup {s}]
    BY Zenon, <1>a, <1>c DEF InsertLink
  <1>3. r \in Jobs /\ r.pc \in {"guest", "sgir"} /\ r.cpu = "none" /\ r.void = FALSE
    BY Zenon, <1>b, <1>0, GuestRecord DEF Jobs
  <1>4. \A k \in Slots :
          /\ slot'[t][k] \in SlotRecords
          /\ slot'[t][k].next = IF k = p THEN s ELSE slot[t][k].next
          /\ slot'[t][k].prev = IF k # p /\ k = n THEN s ELSE slot[t][k].prev
    <2>1. SUFFICES ASSUME NEW k \in Slots
                   PROVE  /\ slot'[t][k] \in SlotRecords
                          /\ slot'[t][k].next = IF k = p THEN s ELSE slot[t][k].next
                          /\ slot'[t][k].prev = IF k # p /\ k = n THEN s ELSE slot[t][k].prev
      BY Zenon
    <2>2. slot[t][k] \in SlotRecords /\ s \in SlotOrNil /\ t \in DOMAIN slot
      BY <1>0, <1>1 DEF GicTypeOK, SlotOrNil
    <2>3. slot'[t][k] = IF k = p THEN [slot[t][k] EXCEPT !.next = s]
                        ELSE IF k = n THEN [slot[t][k] EXCEPT !.prev = s] ELSE slot[t][k]
      BY Zenon, <1>2, <2>2
    <2>4. QED
      BY Zenon, <2>2, <2>3 DEF SlotRecords
  <1>5. /\ slot' \in [GCpus -> [Slots -> SlotRecords]]
        /\ \A d \in GCpus \ {t} : slot'[d] = slot[d]
    <2>1. slot \in [GCpus -> [Slots -> SlotRecords]]
      BY Zenon, <1>0 DEF GicTypeOK
    <2>2. \A d \in GCpus \ {t} : slot'[d] = slot[d]
      BY Zenon, <1>2, <2>1
    <2>3. slot'[t] \in [Slots -> SlotRecords]
      <3>1. slot'[t] = [k \in Slots |->
                         IF k = p THEN [slot[t][k] EXCEPT !.next = s]
                         ELSE IF k = n THEN [slot[t][k] EXCEPT !.prev = s] ELSE slot[t][k]]
        BY Zenon, <1>1, <1>2, <2>1
      <3>2. QED
        BY Zenon, <3>1, <1>4
    <2>4. DOMAIN slot' = GCpus /\ slot' = [d \in GCpus |-> slot'[d]]
      BY Zenon, <1>2, <2>1
    <2>5. \A d \in GCpus : slot'[d] \in [Slots -> SlotRecords]
      BY Zenon, <2>1, <2>2, <2>3
    <2>6. QED
      BY Zenon, <2>2, <2>4, <2>5
  <1>6. /\ first' \in [GCpus -> SlotOrNil] /\ glock' \in [GCpus -> GCpus \cup {FREE}]
        /\ owed' \in [GCpus -> SUBSET Slots]
        /\ first'[t] = IF p = NIL THEN s ELSE first[t]
        /\ owed'[t] = IF job[c].void /\ p # NIL THEN owed[t] ELSE owed[t] \cup {s}
        /\ \A d \in GCpus \ {t} : /\ first'[d] = first[d] /\ owed'[d] = owed[d]
                                  /\ glock'[d] = glock[d]
    BY Zenon, <1>0, <1>1, <1>2 DEF GicTypeOK, SlotOrNil
  <1>7. /\ \A d \in GCpus \ {t} : ChainInv(d)' /\ WalkInv(d)'
        /\ \A d \in GCpus \ {c} : InsertInv(d)'
        /\ job' \in [GCpus -> Jobs] /\ job'[c] = r
    <2>1. \A d \in GCpus \ {t} : /\ slot'[d] = slot[d] /\ first'[d] = first[d]
                                 /\ owed'[d] = owed[d] /\ glock'[d] = glock[d]
      BY Zenon, <1>5, <1>6
    <2>2. \A d \in GCpus \ {c} : job[d].pc \in {"fill", "link"} => job[d].cpu # t
      BY Zenon, OneInserter, <1>a, <1>0
    <2>3. c # t => job[c].pc # "unlink" /\ r.pc \notin {"walk", "unlink", "next"}
      BY Zenon, <1>0, <1>3
    <2>4. QED
      BY Apart, <1>0, <1>1, <1>3, <2>1, <2>2, <2>3
  <1>8. GicTypeOK'
    BY Zenon, <1>5, <1>6, <1>7 DEF GicTypeOK
  <1>9. InsertInv(c)'
    BY Zenon, <1>3, <1>7 DEF InsertInv
  <1>10. /\ t # c => job'[t] = job[t]
         /\ t = c => job[t].pc = "link" /\ job'[t].pc \in {"guest", "sgir"}
    BY Zenon, <1>0, <1>1, <1>3, <1>7 DEF Set, GicTypeOK
  <1>11. CASE ~job[c].void
    <2>1. /\ s \notin Members(t) /\ (p = NIL => s = 0)
          /\ p # NIL => p = s - 1 /\ p \in Members(t)
          /\ slot[t][s].prev = p /\ n = IF p = NIL THEN first[t] ELSE slot[t][p].next
      BY Zenon, <1>a, <1>c, <1>0, <1>11 DEF InsertInv
    <2>2. Members(t)' = Members(t) \cup {s}
      BY Zenon, <1>6, <1>10, <1>11 DEF Members
    <2>3. Members(t) \subseteq Slots /\ ChainInv(t) /\ WalkInv(t)
      BY Zenon, <1>1, WalkFacts DEF GicInv
    <2>4. Chain(Members(t) \cup {s}, IF p = NIL THEN s ELSE first[t], slot'[t])
      <3>1. /\ Members(t) \in SUBSET Slots /\ first[t] \in SlotOrNil
            /\ slot[t] \in [Slots -> SlotRecords] /\ slot'[t] \in [Slots -> SlotRecords]
            /\ Chain(Members(t), first[t], slot[t]) /\ s \in Slots \ Members(t)
        BY Zenon, <2>1, <2>3, <1>0, <1>1, <1>5 DEF GicTypeOK, ChainInv
      <3>2. \A k \in Slots :
              /\ slot'[t][k].next = IF k = p THEN s ELSE slot[t][k].next
              /\ slot'[t][k].prev = IF k # p /\ k = n THEN s ELSE slot[t][k].prev
        BY Zenon, <1>4
      <3>3. slot[t][s].next = n
        BY Zenon, <1>c
      <3>4. PICK S, h, q, w : S = Members(t) /\ h = first[t] /\ q = slot[t] /\ w = slot'[t]
        BY Zenon
      <3>5. /\ S \in SUBSET Slots /\ h \in SlotOrNil /\ q \in [Slots -> SlotRecords]
            /\ w \in [Slots -> SlotRecords] /\ Chain(S, h, q) /\ s \in Slots \ S
        BY Zenon, <3>1, <3>4
      <3>6. /\ q[s].prev = p /\ q[s].next = n
            /\ p # NIL => p = s - 1 /\ p \in S
            /\ n = IF p = NIL THEN h ELSE q[p].next
        BY Zenon, <2>1, <3>3, <3>4
      <3>7. Relinked(q, w, p, s, n, s)
        BY Zenon, <3>2, <3>4 DEF Relinked
      <3>8. PICK g : g = IF p = NIL THEN s ELSE h
        BY Zenon
      <3>9. Chain(S \cup {s}, g, w)
        BY Zenon, ChainInsert, <3>5, <3>6, <3>7, <3>8, <2>1, <1>1
      <3>10. QED
        BY Zenon, <3>4, <3>8, <3>9
    <2>5. ChainInv(t)'
      BY Zenon, <2>2, <2>4, <1>6 DEF ChainInv
    <2>6. WalkInv(t)'
      <3>1. owed'[t] = owed[t] \cup {s} /\ job[t].pc # "link" => job'[t] = job[t]
        BY Zenon, <1>6, <1>10, <1>11
      <3>2. job'[t].pc \in {"walk", "unlink", "next"} => job'[t] = job[t] /\ t # c
        BY Zenon, <1>10
      <3>3. owed'[t] = owed[t] \cup {s}
        BY Zenon, <1>6, <1>11
      <3>4. job[t].pc = "unlink" => job[t].cur # s
        BY Zenon, <2>1 DEF Members
      <3>5. job[t].pc = "next" => slot'[t][job[t].cur].next \in {s, slot[t][job[t].cur].next}
        BY Zenon, <1>4, <2>3 DEF WalkInv
      <3>6. QED
        BY Zenon, <2>3, <3>2, <3>3, <3>4, <3>5 DEF WalkInv
    <2>7. QED
      BY Zenon, <1>7, <1>8, <1>9, <2>5, <2>6 DEF GicInv
  <1>12. CASE job[c].void
    <2>1. /\ Members(t) = {} /\ job[t].pc \notin {"walk", "unlink", "next"}
          /\ n = NIL /\ slot[t][s].prev \in {p, NIL} /\ ChainInv(t)
      BY Zenon, <1>a, <1>c, <1>0, <1>1, <1>12 DEF InsertInv, GicInv
    <2>2. first[t] = NIL /\ owed[t] = {}
      BY Zenon, <2>1 DEF ChainInv, Chain, Members
    <2>3. job'[t].pc \notin {"walk", "unlink", "next"}
      BY Zenon, <1>10, <2>1
    <2>4. Members(t)' = owed'[t]
      BY Zenon, <2>3 DEF Members
    <2>5. WalkInv(t)'
      BY Zenon, <2>3 DEF WalkInv
    <2>6. CASE p # NIL
      <3>1. Members(t)' = {} /\ first'[t] = NIL
        BY Zenon, <2>2, <2>4, <2>6, <1>6, <1>12
      <3>2. ChainInv(t)'
        BY Zenon, <3>1 DEF ChainInv, Chain
      <3>3. QED
        BY Zenon, <1>7, <1>8, <1>9, <2>5, <3>2 DEF GicInv
    <2>7. CASE p = NIL
      <3>1. Members(t)' = {s} /\ first'[t] = s
        BY Zenon, <2>2, <2>4, <2>7, <1>6, <1>12
      <3>2. slot'[t][s].next = NIL /\ slot'[t][s].prev = NIL /\ s # NIL /\ s \in Int
        <4>1. s # NIL /\ s \in Int
          BY SMTT(30), <1>1, SlotFacts
        <4>2. QED
          BY Zenon, <1>c, <1>1, <1>4, <2>1, <2>7, <4>1
      <3>3. ChainInv(t)'
        BY <3>1, <3>2 DEF ChainInv, Chain
      <3>4. QED
        BY Zenon, <1>7, <1>8, <1>9, <2>5, <3>3 DEF GicInv
    <2>8. QED
      BY Zenon, <2>6, <2>7
  <1>13. QED
    BY Zenon, <1>11, <1>12

\* One interrupt is taken from the list, which keeps its slot until it is unlinked.
LEMMA InjectStep ==
  ASSUME PendingAssumption, GicInv, NEW c \in GCpus, InjectNext(c)
  PROVE  GicInv'
  <1>0. job[c].pc = "walk" /\ UNCHANGED <<slot, first, glock>>
    BY Zenon DEF InjectNext
  <1>1. CASE gic_inject_irq(c, slot[c][job[c].cur].irq) = "ebusy"
    <2>1. Set(c, InGuest) /\ UNCHANGED owed
      BY Zenon, <1>1 DEF InjectNext
    <2>2. QED
      BY Zenon, <1>0, <2>1, BackToGuest
  <1>2. CASE gic_inject_irq(c, slot[c][job[c].cur].irq) # "ebusy"
    <2>a. PICK s : s = job[c].cur
      BY Zenon
    <2>b. PICK r : r = [job[c] EXCEPT !.pc = "unlink"]
      BY Zenon
    <2>1. owed' = [owed EXCEPT ![c] = @ \ {s}] /\ Set(c, r)
      BY Zenon, <1>2, <2>a, <2>b DEF InjectNext
    <2>2. GicTypeOK /\ job[c] \in Jobs /\ InsertInv(c) /\ WalkInv(c) /\ s \in owed[c]
      BY Zenon, <1>0, <2>a DEF GicInv, GicTypeOK, WalkInv
    <2>3. r \in Jobs /\ r.pc = "unlink" /\ r.cur = s /\ r.cpu = "none" /\ r.void = FALSE
      BY Zenon, <1>0, <2>a, <2>b, <2>2 DEF Jobs, InsertInv
    <2>4. /\ job' \in [GCpus -> Jobs] /\ job'[c] = r /\ \A d \in GCpus \ {c} : job'[d] = job[d]
          /\ owed' \in [GCpus -> SUBSET Slots] /\ owed'[c] = owed[c] \ {s}
          /\ \A d \in GCpus \ {c} : owed'[d] = owed[d]
      BY Zenon, <2>1, <2>2, <2>3 DEF Set, GicTypeOK
    <2>5. GicTypeOK'
      BY Zenon, <1>0, <2>2, <2>4 DEF GicTypeOK
    <2>6. ASSUME NEW d \in GCpus PROVE Members(d)' = Members(d)
      BY Zenon, <1>0, <2>2, <2>3, <2>4 DEF Members
    <2>7. ASSUME NEW d \in GCpus PROVE ChainInv(d)'
      <3>1. ChainInv(d) /\ Members(d)' = Members(d) /\ slot' = slot /\ first' = first
        BY Zenon, <1>0, <2>6 DEF GicInv
      <3>2. QED
        BY Zenon, <3>1 DEF ChainInv
    <2>8. ASSUME NEW d \in GCpus PROVE WalkInv(d)'
      <3>1. CASE d = c
        <4>1. s \in Slots
          BY Zenon, <2>2 DEF GicTypeOK
        <4>2. QED
          BY Zenon, <3>1, <4>1, <2>3, <2>4 DEF WalkInv
      <3>2. CASE d # c
        <4>1. WalkInv(d) /\ slot' = slot
          BY Zenon, <1>0 DEF GicInv
        <4>2. QED
          BY Zenon, <3>2, <4>1, <2>4 DEF WalkInv
      <3>3. QED
        BY Zenon, <3>1, <3>2
    <2>9. ASSUME NEW d \in GCpus PROVE InsertInv(d)'
      <3>1. CASE d = c
        BY Zenon, <3>1, <2>3, <2>4 DEF InsertInv
      <3>2. CASE d # c
        <4>1. job'[d] = job[d] /\ InsertInv(d)
          BY Zenon, <3>2, <2>4 DEF GicInv
        <4>2. PICK u : u = job[d].cpu
          BY Zenon
        <4>3. job[d].pc \in {"fill", "link"} =>
                slot'[u] = slot[u] /\ first'[u] = first[u] /\ glock'[u] = glock[u]
                /\ Members(u)' = Members(u)
          BY Zenon, <1>0, <4>1, <4>2, <2>6 DEF InsertInv
        <4>4. job[d].pc \in {"fill", "link"} /\ job[d].void =>
                job'[u].pc \notin {"walk", "unlink", "next"}
          BY Zenon, <1>0, <4>1, <4>2, <2>4, NoVoidWhileListed DEF InsertInv
        <4>5. QED
          BY Zenon, <4>1, <4>2, <4>3, <4>4 DEF InsertInv
      <3>3. QED
        BY Zenon, <3>1, <3>2
    <2>10. QED
      BY Zenon, <2>5, <2>7, <2>8, <2>9 DEF GicInv
  <1>3. QED
    BY Zenon, <1>1, <1>2

\* Taking a slot out of a chain leaves a chain, and the slot still points into it.
LEMMA ChainRemove ==
  ASSUME PendingAssumption, NEW S \in SUBSET Slots, NEW h \in SlotOrNil,
         NEW q \in [Slots -> SlotRecords], Chain(S, h, q),
         NEW s \in S, NEW p, NEW n, p = q[s].prev, n = q[s].next,
         NEW w \in [Slots -> SlotRecords], Relinked(q, w, p, n, n, p),
         NEW g, g = IF h = s THEN n ELSE h
  PROVE  /\ Chain(S \ {s}, g, w)
         /\ w[s].next \in (S \ {s}) \cup {NIL}
  <1>0. \A k \in Slots : /\ w[k].next = IF k = p THEN n ELSE q[k].next
                         /\ w[k].prev = IF k # p /\ k = n THEN p ELSE q[k].prev
    BY Zenon DEF Relinked
  <1>1. /\ \A k \in Slots : k \in Int /\ k >= 0
        /\ NIL = -1
    BY SlotFacts
  <1>2. /\ n # NIL => n \in S /\ n > s /\ q[n].prev = s
        /\ \A m \in S : m > s => n # NIL /\ n <= m
        /\ p = NIL => s = h
        /\ p # NIL => p \in S /\ p < s /\ q[p].next = s
    BY Zenon DEF Chain
  <1>3. /\ p # NIL => p \in S \ {s} /\ p # n
        /\ n # NIL => n \in S \ {s} /\ p # n
        /\ s # p /\ s # n
        /\ p # NIL /\ n # NIL => n > p
    BY <1>1, <1>2
  <1>4. /\ w[s].next = n
        /\ p # NIL => w[p].next = n /\ w[p].prev = q[p].prev
        /\ n # NIL => w[n].prev = p /\ w[n].next = q[n].next
        /\ \A k \in S \ {p, n} : w[k].next = q[k].next /\ w[k].prev = q[k].prev
    BY Zenon, <1>0, <1>2, <1>3
  <1>5. h # NIL /\ h \in S /\ q[h].prev = NIL /\ \A t \in S : h <= t
    BY Zenon DEF Chain
  <1>6. \A m \in S : m < s => p # NIL /\ m <= p
    <2>1. SUFFICES ASSUME NEW m \in S, m < s PROVE p # NIL /\ m <= p
      OBVIOUS
    <2>2. p # NIL
      BY <2>1, <1>1, <1>2, <1>5
    <2>3. m > p => q[p].next <= m
      BY Zenon, <2>2, <1>2 DEF Chain
    <2>4. QED
      BY SMTT(30), <2>1, <2>2, <2>3, <1>1, <1>2
  <1>7. /\ S \ {s} # {} => g # NIL
        /\ g # NIL => g \in S \ {s} /\ w[g].prev = NIL /\ \A t \in S \ {s} : g <= t
    <2>1. CASE h = s
      <3>1. p = NIL
        BY Zenon, <2>1, <1>5
      <3>2. \A t \in S \ {s} : n # NIL /\ n <= t
        BY <2>1, <1>1, <1>2, <1>5
      <3>3. QED
        BY Zenon, <2>1, <3>1, <3>2, <1>3, <1>4
    <2>2. CASE h # s
      <3>1. h # n
        BY <1>1, <1>2, <1>5
      <3>2. w[h].prev = NIL
        BY Zenon, <3>1, <1>4, <1>5
      <3>3. QED
        BY Zenon, <2>2, <3>2, <1>5
    <2>3. QED
      BY Zenon, <2>1, <2>2
  <1>8. ASSUME NEW k \in S \ {s}
        PROVE  /\ w[k].next # NIL => /\ w[k].next \in S \ {s} /\ w[k].next > k
                                     /\ w[w[k].next].prev = k
               /\ \A t \in S \ {s} : t > k => w[k].next # NIL /\ w[k].next <= t
               /\ w[k].prev = NIL => k = g
               /\ w[k].prev # NIL => /\ w[k].prev \in S \ {s} /\ w[k].prev < k
                                     /\ w[w[k].prev].next = k
    <2>1. /\ q[k].next # NIL => /\ q[k].next \in S /\ q[k].next > k
                                /\ q[q[k].next].prev = k
          /\ \A t \in S : t > k => q[k].next # NIL /\ q[k].next <= t
          /\ q[k].prev = NIL => k = h
          /\ q[k].prev # NIL => /\ q[k].prev \in S /\ q[k].prev < k
                                /\ q[q[k].prev].next = k
      BY Zenon DEF Chain
    <2>2. k = p \/ k < p \/ k >= n
      BY <1>1, <1>2, <1>3, <1>6
    <2>3. /\ w[k].next # NIL => /\ w[k].next \in S \ {s} /\ w[k].next > k
                                /\ w[w[k].next].prev = k
          /\ \A t \in S \ {s} : t > k => w[k].next # NIL /\ w[k].next <= t
      <3>1. CASE k = p
        <4>1. p # NIL /\ w[k].next = n
          BY SMTT(30), <3>1, <1>1, <1>4
        <4>2. \A t \in S \ {s} : t > k => n # NIL /\ n <= t
          BY <3>1, <4>1, <1>1, <1>2, <1>6
        <4>3. n # NIL => n > k
          BY Zenon, <3>1, <4>1, <1>3
        <4>4. QED
          BY Zenon, <3>1, <4>1, <4>2, <4>3, <1>3, <1>4
      <3>2. CASE k # p
        <4>1. w[k].next = q[k].next
          BY Zenon, <1>0, <3>2
        <4>2. q[k].next # NIL => q[k].next # s /\ q[k].next # n
          BY Zenon, <3>2, <2>1, <1>2
        <4>3. q[k].next # NIL => w[q[k].next].prev = k
          BY Zenon, <1>0, <4>2, <2>1
        <4>4. QED
          BY Zenon, <4>1, <4>2, <4>3, <2>1
      <3>3. QED
        BY Zenon, <3>1, <3>2
    <2>4. /\ w[k].prev = NIL => k = g
          /\ w[k].prev # NIL => /\ w[k].prev \in S \ {s} /\ w[k].prev < k
                                /\ w[w[k].prev].next = k
      <3>1. CASE k = n
        <4>1. n # NIL /\ w[k].prev = p
          BY <3>1, <1>1, <1>4
        <4>2. p # NIL => p < k
          BY Zenon, <3>1, <4>1, <1>1, <1>3
        <4>3. p = NIL => k = g
          BY Zenon, <3>1, <1>2
        <4>4. QED
          BY Zenon, <3>1, <4>1, <4>2, <4>3, <1>3, <1>4
      <3>2. CASE k # n
        <4>1. w[k].prev = q[k].prev
          BY Zenon, <1>0, <3>2
        <4>2. q[k].prev # NIL => q[k].prev # s /\ q[k].prev # p
          BY Zenon, <3>2, <2>1, <1>2
        <4>3. q[k].prev # NIL => w[q[k].prev].next = k
          BY Zenon, <1>0, <4>2, <2>1
        <4>4. q[k].prev = NIL => k = g
          BY Zenon, <2>1
        <4>5. QED
          BY Zenon, <4>1, <4>2, <4>3, <4>4, <2>1
      <3>3. QED
        BY Zenon, <3>1, <3>2
    <2>5. QED
      BY Zenon, <2>3, <2>4
  <1>9. Chain(S \ {s}, g, w)
    BY Zenon, <1>7, <1>8 DEF Chain
  <1>10. QED
    BY Zenon, <1>3, <1>4, <1>9

\* irqchip_remove_pending unlinks the slot that the walk has injected, under the lock.
LEMMA RemoveStep ==
  ASSUME PendingAssumption, GicInv, NEW c \in GCpus, irqchip_remove_pending(c)
  PROVE  GicInv'
  <1>a. PICK s, p, n, r : /\ s = job[c].cur /\ p = slot[c][s].prev /\ n = slot[c][s].next
                          /\ r = [job[c] EXCEPT !.pc = "next"]
    BY Zenon
  <1>0. /\ GicTypeOK /\ InsertInv(c) /\ WalkInv(c) /\ ChainInv(c) /\ job[c].pc = "unlink"
        /\ glock[c] = FREE /\ Set(c, r) /\ job[c] \in Jobs
    BY Zenon, <1>a DEF GicInv, GicTypeOK, irqchip_remove_pending
  <1>1. /\ first' = IF first[c] = s THEN [first EXCEPT ![c] = n] ELSE first
        /\ slot' = [slot EXCEPT ![c] =
                      [k \in Slots |-> IF k = p THEN [@[k] EXCEPT !.next = n]
                         ELSE IF k = n THEN [@[k] EXCEPT !.prev = p] ELSE @[k]]]
        /\ UNCHANGED <<glock, owed>>
    BY Zenon, <1>a DEF irqchip_remove_pending
  <1>2. /\ s \in Slots \ owed[c] /\ p \in SlotOrNil /\ n \in SlotOrNil
    BY <1>a, <1>0 DEF WalkInv, GicTypeOK, SlotRecords
  <1>3. r \in Jobs /\ r.pc = "next" /\ r.cpu = "none" /\ r.void = FALSE /\ r.cur = s
    BY Zenon, <1>a, <1>0 DEF Jobs, InsertInv
  <1>4. \A k \in Slots :
          /\ slot'[c][k] \in SlotRecords
          /\ slot'[c][k].next = IF k = p THEN n ELSE slot[c][k].next
          /\ slot'[c][k].prev = IF k # p /\ k = n THEN p ELSE slot[c][k].prev
    <2>1. SUFFICES ASSUME NEW k \in Slots
                   PROVE  /\ slot'[c][k] \in SlotRecords
                          /\ slot'[c][k].next = IF k = p THEN n ELSE slot[c][k].next
                          /\ slot'[c][k].prev = IF k # p /\ k = n THEN p ELSE slot[c][k].prev
      BY Zenon
    <2>2. slot[c][k] \in SlotRecords /\ c \in DOMAIN slot
      BY <1>0 DEF GicTypeOK
    <2>3. slot'[c][k] = IF k = p THEN [slot[c][k] EXCEPT !.next = n]
                        ELSE IF k = n THEN [slot[c][k] EXCEPT !.prev = p] ELSE slot[c][k]
      BY Zenon, <1>1, <2>2
    <2>4. QED
      BY Zenon, <2>2, <2>3, <1>2 DEF SlotRecords
  <1>5. /\ slot' \in [GCpus -> [Slots -> SlotRecords]]
        /\ \A d \in GCpus \ {c} : slot'[d] = slot[d]
    <2>1. slot \in [GCpus -> [Slots -> SlotRecords]]
      BY Zenon, <1>0 DEF GicTypeOK
    <2>2. \A d \in GCpus \ {c} : slot'[d] = slot[d]
      BY Zenon, <1>1, <2>1
    <2>3. slot'[c] \in [Slots -> SlotRecords]
      <3>1. slot'[c] = [k \in Slots |->
                         IF k = p THEN [slot[c][k] EXCEPT !.next = n]
                         ELSE IF k = n THEN [slot[c][k] EXCEPT !.prev = p] ELSE slot[c][k]]
        BY Zenon, <1>1, <2>1
      <3>2. QED
        BY Zenon, <3>1, <1>4
    <2>4. DOMAIN slot' = GCpus /\ slot' = [d \in GCpus |-> slot'[d]]
      BY Zenon, <1>1, <2>1
    <2>5. \A d \in GCpus : slot'[d] \in [Slots -> SlotRecords]
      BY Zenon, <2>1, <2>2, <2>3
    <2>6. QED
      BY Zenon, <2>2, <2>4, <2>5
  <1>6. /\ first' \in [GCpus -> SlotOrNil]
        /\ first'[c] = IF first[c] = s THEN n ELSE first[c]
        /\ \A d \in GCpus \ {c} : first'[d] = first[d]
    BY Zenon, <1>0, <1>1, <1>2 DEF GicTypeOK
  <1>7. /\ \A d \in GCpus \ {c} : ChainInv(d)' /\ WalkInv(d)'
        /\ \A d \in GCpus \ {c} : InsertInv(d)'
        /\ job' \in [GCpus -> Jobs] /\ job'[c] = r
    <2>1. \A d \in GCpus \ {c} : /\ slot'[d] = slot[d] /\ first'[d] = first[d]
                                 /\ owed'[d] = owed[d] /\ glock'[d] = glock[d]
      BY Zenon, <1>1, <1>5, <1>6
    <2>2. \A d \in GCpus \ {c} : job[d].pc \in {"fill", "link"} => job[d].cpu # c
      <3>1. ASSUME NEW d \in GCpus \ {c}, job[d].pc \in {"fill", "link"}, job[d].cpu = c
            PROVE  FALSE
        <4>1. InsertInv(d) /\ d # FREE
          BY Zenon, PendingAssumption DEF GicInv, FREE
        <4>2. QED
          BY Zenon, <3>1, <4>1, <1>0 DEF InsertInv
      <3>2. QED
        BY Zenon, <3>1
    <2>3. QED
      BY Zenon, Apart, <1>0, <1>3, <2>1, <2>2
  <1>8. GicTypeOK'
    BY Zenon, <1>0, <1>1, <1>5, <1>6, <1>7 DEF GicTypeOK
  <1>9. InsertInv(c)'
    BY Zenon, <1>3, <1>7 DEF InsertInv
  <1>10. Members(c) = owed[c] \cup {s} /\ Members(c)' = owed[c] /\ Members(c) \subseteq Slots
    <2>1. Members(c) = owed[c] \cup {s} /\ Members(c)' = owed[c]
      BY Zenon, <1>a, <1>0, <1>1, <1>3, <1>7 DEF Members
    <2>2. QED
      BY Zenon, <2>1, <1>0, WalkFacts
  <1>11. ChainInv(c)' /\ WalkInv(c)'
    <2>1. PICK S, h, q, w, g : /\ S = Members(c) /\ h = first[c] /\ q = slot[c] /\ w = slot'[c]
                               /\ g = IF h = s THEN n ELSE h
      BY Zenon
    <2>2. /\ S \in SUBSET Slots /\ h \in SlotOrNil /\ q \in [Slots -> SlotRecords]
          /\ w \in [Slots -> SlotRecords] /\ Chain(S, h, q) /\ s \in S
          /\ p = q[s].prev /\ n = q[s].next
      BY Zenon, <2>1, <1>a, <1>0, <1>5, <1>10 DEF GicTypeOK, ChainInv
    <2>3. Relinked(q, w, p, n, n, p)
      BY Zenon, <2>1, <1>4 DEF Relinked
    <2>4. Chain(S \ {s}, g, w) /\ w[s].next \in (S \ {s}) \cup {NIL}
      BY ZenonT(40), ChainRemove, <2>1, <2>2, <2>3
    <2>5. S \ {s} = owed[c] /\ g = first'[c] /\ owed' = owed
      BY Zenon, <2>1, <1>1, <1>2, <1>6, <1>10
    <2>6. ChainInv(c)'
      BY Zenon, <2>1, <2>4, <2>5, <1>10 DEF ChainInv
    <2>7. WalkInv(c)'
      BY Zenon, <2>1, <2>4, <2>5, <1>2, <1>3, <1>7 DEF WalkInv
    <2>8. QED
      BY Zenon, <2>6, <2>7
  <1>12. QED
    BY Zenon, <1>7, <1>8, <1>9, <1>11 DEF GicInv

\* irqchip_cpu_reset empties the list; an insertion that is under way must not damage it.
LEMMA ResetStep ==
  ASSUME PendingAssumption, GicInv, NEW c \in GCpus, irqchip_cpu_reset(c)
  PROVE  GicInv'
  <1>0. /\ GicTypeOK /\ InsertInv(c) /\ job[c].pc = "guest" /\ UNCHANGED glock
        /\ slot' = [slot EXCEPT ![c] = [s \in Slots |-> EmptySlot]]
        /\ first' = [first EXCEPT ![c] = NIL] /\ owed' = [owed EXCEPT ![c] = {}]
        /\ job' = [d \in GCpus |-> IF job[d].cpu = c THEN [job[d] EXCEPT !.void = TRUE]
                                   ELSE job[d]]
    BY Zenon DEF irqchip_cpu_reset, GicInv
  <1>1. EmptySlot \in SlotRecords /\ EmptySlot.next = NIL /\ EmptySlot.prev = NIL
    BY Zenon DEF EmptySlot, SlotRecords, SlotOrNil, Ids
  <1>2. /\ slot' \in [GCpus -> [Slots -> SlotRecords]]
        /\ \A s \in Slots : slot'[c][s].next = NIL /\ slot'[c][s].prev = NIL
        /\ \A d \in GCpus \ {c} : slot'[d] = slot[d]
    BY Zenon, <1>0, <1>1 DEF GicTypeOK
  <1>3. /\ first' \in [GCpus -> SlotOrNil] /\ owed' \in [GCpus -> SUBSET Slots]
        /\ first'[c] = NIL /\ owed'[c] = {}
        /\ \A d \in GCpus \ {c} : first'[d] = first[d] /\ owed'[d] = owed[d]
    BY Zenon, <1>0 DEF GicTypeOK, SlotOrNil
  <1>4. ASSUME NEW d \in GCpus
        PROVE  /\ job'[d] \in Jobs /\ job'[d].pc = job[d].pc /\ job'[d].cpu = job[d].cpu
               /\ job'[d].cur = job[d].cur /\ job'[d].prev = job[d].prev
               /\ job[d].cpu = c => job'[d].void = TRUE
               /\ job[d].cpu # c => job'[d].void = job[d].void
    <2>1. job[d] \in Jobs
      BY Zenon, <1>0 DEF GicTypeOK
    <2>2. job'[d] = IF job[d].cpu = c THEN [job[d] EXCEPT !.void = TRUE] ELSE job[d]
      BY Zenon, <1>0
    <2>3. QED
      BY Zenon, <2>1, <2>2 DEF Jobs
  <1>5. GicTypeOK'
    <2>1. job' \in [GCpus -> Jobs]
      BY Zenon, <1>0, <1>4
    <2>2. QED
      BY Zenon, <2>1, <1>0, <1>2, <1>3 DEF GicTypeOK
  <1>6. Members(c)' = {} /\ \A d \in GCpus \ {c} : Members(d)' = Members(d)
    <2>1. job'[c].pc = "guest" /\ job'[c].pc # "unlink"
      BY Zenon, <1>0, <1>4
    <2>2. Members(c)' = {}
      BY Zenon, <2>1, <1>3 DEF Members
    <2>3. ASSUME NEW d \in GCpus \ {c} PROVE Members(d)' = Members(d)
      <3>1. owed'[d] = owed[d] /\ job'[d].pc = job[d].pc /\ job'[d].cur = job[d].cur
        BY Zenon, <1>3, <1>4
      <3>2. QED
        BY Zenon, <3>1 DEF Members
    <2>4. QED
      BY Zenon, <2>2, <2>3
  <1>7. ASSUME NEW d \in GCpus PROVE ChainInv(d)'
    <2>1. CASE d = c
      BY Zenon, <2>1, <1>3, <1>6 DEF ChainInv, Chain
    <2>2. CASE d # c
      <3>1. ChainInv(d) /\ Members(d)' = Members(d) /\ slot'[d] = slot[d] /\ first'[d] = first[d]
        BY Zenon, <2>2, <1>2, <1>3, <1>6 DEF GicInv
      <3>2. QED
        BY Zenon, <3>1 DEF ChainInv
    <2>3. QED
      BY Zenon, <2>1, <2>2
  <1>8. ASSUME NEW d \in GCpus PROVE WalkInv(d)'
    <2>1. CASE d = c
      BY <2>1, <1>0, <1>4 DEF WalkInv
    <2>2. CASE d # c
      <3>1. WalkInv(d)
        BY Zenon DEF GicInv
      <3>2. QED
        BY Zenon, <3>1, <2>2, <1>2, <1>3, <1>4 DEF WalkInv
    <2>3. QED
      BY Zenon, <2>1, <2>2
  <1>9. ASSUME NEW d \in GCpus PROVE InsertInv(d)'
    <2>a. PICK u, s, p : u = job[d].cpu /\ s = job[d].cur /\ p = job[d].prev
      BY Zenon
    <2>1. InsertInv(d) /\ p \in SlotOrNil
      BY Zenon, <2>a, <1>0 DEF GicInv, GicTypeOK, Jobs
    <2>2. job'[d].cpu = u /\ job'[d].cur = s /\ job'[d].prev = p /\ job'[d].pc = job[d].pc
      BY Zenon, <2>a, <1>4
    <2>3. CASE u = c
      <3>1. job[d].pc \in {"fill", "link"} /\ glock[u] = d /\ s \in Slots /\ p # s
        BY Zenon, <2>a, <2>1, <2>3, PendingAssumption DEF InsertInv
      <3>2. job'[d].void /\ glock'[u] = d /\ Members(u)' = {} /\ job'[u].pc = "guest"
        BY ZenonT(40), <2>a, <2>3, <3>1, <1>0, <1>4, <1>6
      <3>3. p # NIL => p \in Slots
        BY Zenon, <2>1 DEF SlotOrNil
      <3>4. slot'[u][s].next = NIL /\ slot'[u][s].prev = NIL /\ (p # NIL => slot'[u][p].next = NIL)
        BY Zenon, <2>3, <3>1, <3>3, <1>2
      <3>5. QED
        BY Zenon, <2>2, <2>3, <3>1, <3>2, <3>4 DEF InsertInv
    <2>4. CASE u # c
      <3>1. job'[d].void = job[d].void
        BY Zenon, <2>a, <2>4, <1>4
      <3>2. job[d].pc \in {"fill", "link"} =>
              /\ slot'[u] = slot[u] /\ first'[u] = first[u] /\ glock'[u] = glock[u]
              /\ Members(u)' = Members(u) /\ job'[u].pc = job[u].pc
        <4>1. job[d].pc \in {"fill", "link"} => u \in GCpus \ {c}
          BY Zenon, <2>a, <2>1, <2>4 DEF InsertInv
        <4>2. QED
          BY Zenon, <4>1, <1>0, <1>2, <1>3, <1>4, <1>6
      <3>3. QED
        BY ZenonT(30), <2>a, <2>1, <2>2, <3>1, <3>2 DEF InsertInv
    <2>5. QED
      BY Zenon, <2>3, <2>4
  <1>10. QED
    BY Zenon, <1>5, <1>7, <1>8, <1>9 DEF GicInv

\* Every list starts empty.
LEMMA GicStart == PendingAssumption /\ GicInit => GicInv
  <1>1. SUFFICES ASSUME PendingAssumption, GicInit PROVE GicInv
    OBVIOUS
  <1>2. EmptySlot \in SlotRecords
    BY Zenon DEF EmptySlot, SlotRecords, SlotOrNil, Ids
  <1>3. GicTypeOK
    BY Zenon, <1>1, <1>2, GuestRecord DEF GicInit, GicTypeOK, SlotOrNil
  <1>4. ASSUME NEW c \in GCpus PROVE ChainInv(c) /\ WalkInv(c) /\ InsertInv(c)
    <2>1. job[c].pc = "guest" /\ job[c].cpu = "none" /\ ~job[c].void
      BY Zenon, <1>1, GuestRecord DEF GicInit
    <2>2. owed[c] = {} /\ first[c] = NIL
      BY Zenon, <1>1 DEF GicInit
    <2>3. Members(c) = {}
      BY Zenon, <2>1, <2>2 DEF Members
    <2>4. ChainInv(c)
      BY Zenon, <2>2, <2>3 DEF ChainInv, Chain
    <2>5. WalkInv(c)
      BY Zenon, <2>1 DEF WalkInv
    <2>6. InsertInv(c)
      BY Zenon, <2>1 DEF InsertInv
    <2>7. QED
      BY Zenon, <2>4, <2>5, <2>6
  <1>5. QED
    BY Zenon, <1>3, <1>4 DEF GicInv

\* Every step keeps the lists chained and the walks and insertions on them in order.
LEMMA GicStep == PendingAssumption /\ GicInv /\ [GicNext]_gicVars => GicInv'
  <1>1. SUFFICES ASSUME PendingAssumption, GicInv, [GicNext]_gicVars PROVE GicInv'
    BY Zenon
  <1>2. ASSUME NEW c \in GCpus, Inserting(c) PROVE GicInv'
    BY Zenon, <1>1, <1>2, LockStep, FillStep, LinkStep, SendSteps DEF Inserting
  <1>3. ASSUME NEW c \in GCpus, Walking(c) PROVE GicInv'
    BY Zenon, <1>1, <1>3, InjectStep, RemoveStep, AdvanceStep DEF Walking
  <1>4. ASSUME NEW c \in GCpus, arch_handle_sgi(c) \/ MaintenanceIrq(c) PROVE GicInv'
    BY Zenon, <1>1, <1>4, WalkStarts DEF arch_handle_sgi, MaintenanceIrq
  <1>5. ASSUME NEW c \in GCpus, arch_handle_phys_irq(c) \/ gic_handle_sgir_write(c)
        PROVE  GicInv'
    BY Zenon, <1>1, <1>5, SendSteps
  <1>6. ASSUME NEW c \in GCpus, irqchip_cpu_reset(c) PROVE GicInv'
    BY Zenon, <1>1, <1>6, ResetStep
  <1>7. ASSUME NEW c \in GCpus, Acknowledge(c) \/ EndOfInterrupt(c) \/ Raise(c) PROVE GicInv'
    BY Zenon, <1>1, <1>7, SameLists DEF Acknowledge, EndOfInterrupt, Raise
  <1>8. CASE UNCHANGED gicVars
    BY Zenon, <1>1, <1>8, SameLists DEF gicVars
  <1>9. QED
    BY Zenon, <1>1, <1>2, <1>3, <1>4, <1>5, <1>6, <1>7, <1>8 DEF GicNext, Taking

\* On chained lists ListExact holds.
LEMMA GicConclusion == PendingAssumption /\ GicInv => ListExact
  <1>1. SUFFICES ASSUME PendingAssumption, GicInv, NEW c \in GCpus
                 PROVE  /\ \A s \in Linked(c) :
                             LET n == slot[c][s].next IN n # NIL => n > s /\ slot[c][n].prev = s
                        /\ first[c] # NIL => slot[c][first[c]].prev = NIL
                        /\ Linked(c) = owed[c] \cup (IF job[c].pc = "unlink" THEN {job[c].cur} ELSE {})
    BY Zenon DEF ListExact
  <1>2. ChainInv(c) /\ Linked(c) = Members(c)
    BY Zenon, <1>1, WalkFacts DEF GicInv
  <1>3. QED
    BY Zenon, <1>2 DEF ChainInv, Chain, Members

\* The pending lists of irqchip_insert_pending, irqchip_inject_pending and
\* irqchip_remove_pending, for any number of CPUs, slots, list registers and resets: whenever
\* its lock is free a list is in ascending order with matching back pointers, and holds
\* exactly the interrupts that still have to be injected.
THEOREM PendingListsAreExact == GicSpec => []ListExact
  <1>1. GicInit => GicInv
    BY Zenon, GicStart, PendingAssumption
  <1>2. GicInv /\ [GicNext]_gicVars => GicInv'
    BY Zenon, GicStep, PendingAssumption
  <1>3. GicInv => ListExact
    BY Zenon, GicConclusion, PendingAssumption
  <1>4. QED
    BY <1>1, <1>2, <1>3, PTL DEF GicSpec

===============================================================================
