--------------------------- MODULE HvEntryProofs ---------------------------
(***************************************************************************)
(* Proofs about entry(): type correctness, the inductive invariant         *)
(* EntryInv, and that entry() implements the one decision of WorldSwitch.  *)
(* Everything is proved for every set of CPUs, configured CPUs and errors. *)
(***************************************************************************)
EXTENDS HvEntry, FiniteSetTheorems, TLAPS

\* Every action keeps the variables in their types.
LEMMA TypeStep == TypeOK /\ [Next]_vars => TypeOK'
  <1>. SUFFICES ASSUME TypeOK, [Next]_vars PROVE TypeOK'
    OBVIOUS
  <1>. USE ConstAssumption DEF TypeOK, Positions, InLock
  <1>1. ASSUME NEW S \in SUBSET CPU, jailhouse_enable(S) PROVE TypeOK'
    BY Zenon, <1>1 DEF jailhouse_enable, driver, image, percpu
  <1>2. ASSUME NEW c \in CPU, EnterFailed(c) PROVE TypeOK'
    BY Zenon, <1>2 DEF EnterFailed, driver, image, percpu
  <1>3. ASSUME NEW c \in CPU, EnterDone(c) PROVE TypeOK'
    BY Zenon, <1>3 DEF EnterDone, driver, image, percpu
  <1>4. CASE EnableReturns
    BY Zenon, <1>4 DEF EnableReturns, driver, image, percpu
  <1>5. ASSUME NEW c \in CPU, spin_lock(c) PROVE TypeOK'
    BY Zenon, <1>5 DEF spin_lock, driver, image, percpu
  <1>6. ASSUME NEW c \in CPU, ElectMaster(c) PROVE TypeOK'
    BY Zenon, <1>6 DEF ElectMaster, driver, image, percpu
  <1>7. ASSUME NEW c \in CPU, Follow(c) PROVE TypeOK'
    BY Zenon, <1>7 DEF Follow, driver, image, percpu
  <1>8. ASSUME NEW c \in CPU, NEW e \in Errors \union {0}, init_early(c, e) PROVE TypeOK'
    BY Zenon, <1>8 DEF init_early, driver, image, percpu
  <1>9. ASSUME NEW c \in CPU, cpu_init(c) PROVE TypeOK'
    BY <1>9 DEF cpu_init, driver, image, percpu
  <1>10. ASSUME NEW c \in CPU, NEW e \in Errors, CpuInitFails(c, e) PROVE TypeOK'
    BY Zenon, <1>10 DEF CpuInitFails, driver, image, percpu
  <1>11. ASSUME NEW c \in CPU, NEW e \in Errors \union {0}, init_late(c, e) PROVE TypeOK'
    BY Zenon, <1>11 DEF init_late, driver, image, percpu
  <1>12. ASSUME NEW c \in CPU, spin_unlock(c) PROVE TypeOK'
    BY Zenon, <1>12 DEF spin_unlock, driver, image, percpu
  <1>13. ASSUME NEW c \in CPU, Barrier(c) PROVE TypeOK'
    BY Zenon, <1>13 DEF Barrier, driver, image, percpu
  <1>14. ASSUME NEW c \in CPU, TestError(c) PROVE TypeOK'
    BY Zenon, <1>14 DEF TestError, driver, image, percpu
  <1>15. ASSUME NEW c \in CPU, arch_shutdown(c) PROVE TypeOK'
    BY Zenon, <1>15 DEF arch_shutdown, driver, image, percpu
  <1>16. ASSUME NEW c \in CPU, arch_cpu_restore(c) PROVE TypeOK'
    BY Zenon, <1>16 DEF arch_cpu_restore, driver, image, percpu
  <1>17. ASSUME NEW c \in CPU, arch_cpu_activate_vmm(c) PROVE TypeOK'
    BY Zenon, <1>17 DEF arch_cpu_activate_vmm, driver, image, percpu
  <1>18. ASSUME NEW c \in CPU, LaunchFails(c) PROVE TypeOK'
    BY Zenon, <1>18 DEF LaunchFails, driver, image, percpu
  <1>19. CASE UNCHANGED vars
    BY Zenon, <1>19 DEF vars
  <1>. QED
    BY Zenon, <1>1, <1>2, <1>3, <1>4, <1>5, <1>6, <1>7, <1>8, <1>9, <1>10, <1>11,
       <1>12, <1>13, <1>14, <1>15, <1>16, <1>17, <1>18, <1>19 DEF Next, Entry

\* The variables always have their types.
THEOREM TypeCorrect == Spec => []TypeOK
  <1>1. ASSUME Init PROVE TypeOK
    <2>1. pc \in [CPU -> Positions]
      BY Zenon, <1>1 DEF Init, Positions
    <2>2. /\ master \in [CPU -> BOOLEAN]
          /\ initialized \in [CPU -> BOOLEAN]
          /\ switched \in [CPU -> BOOLEAN]
          /\ translating \in BOOLEAN
      BY Zenon, <1>1 DEF Init
    <2>. QED
      BY Zenon, <1>1, <2>1, <2>2 DEF Init, TypeOK
  <1>. QED
    BY <1>1, TypeStep, PTL DEF Spec

\* When the count has reached the number of online CPUs, all of them are set
\* up.
LEMMA AllCounted ==
  ASSUME TypeOK, CountInv, error = 0, initialized_cpus >= Cardinality(online)
  PROVE  Counted = online
  <1>1. IsFiniteSet(online) /\ Counted \subseteq online
    BY Zenon, FS_Subset, ConstAssumption DEF TypeOK, CountInv, Counted
  <1>2. Cardinality(Counted) = initialized_cpus
    BY Zenon DEF CountInv
  <1>3. Cardinality(Counted) <= Cardinality(online)
    BY Zenon, <1>1, FS_Subset
  <1>4. Cardinality(online) \in Nat
    BY Zenon, <1>1, FS_CardinalityType
  <1>. QED
    BY <1>1, <1>2, <1>3, <1>4, FS_Subset DEF TypeOK

\* While a CPU may still fail, no CPU has gone past the barrier.
LEMMA NobodyActive ==
  ASSUME TypeOK, EntryInv, NEW c \in CPU, pc[c] \in {"early", "cpu", "late"}
  PROVE  \A d \in CPU : pc[d] \notin Active
  <1>. SUFFICES ASSUME NEW d \in CPU, pc[d] \in Active PROVE FALSE
    OBVIOUS
  <1>1. error = 0 /\ initialized_cpus >= Cardinality(online)
    BY Zenon DEF EntryInv, BarrierInv
  <1>2. c \in Counted
    BY Zenon, <1>1, AllCounted DEF EntryInv, RoundInv
  <1>3. initialized[c] /\ pc[c] = "late"
    BY Zenon, <1>2 DEF EntryInv, CountInv, Counted
  <1>. QED
    BY Zenon, <1>3 DEF EntryInv, MasterInv, Active

\* No step breaks the invariant.
LEMMA EntryInvStep ==
  ASSUME TypeOK, TypeOK', EntryInv, [Next]_vars
  PROVE  EntryInv'

  <1>1. ASSUME NEW S \in SUBSET CPU, jailhouse_enable(S) PROVE EntryInv'
    <2>. USE <1>1, ConstAssumption DEF TypeOK, EntryInv, jailhouse_enable, driver, image, percpu
    <2>1. LockInv'
      BY Zenon DEF LockInv, Done, Active, Failing, InLock
    <2>2. MasterInv'
      BY Zenon DEF MasterInv, Done, Active, Failing, InLock
    <2>3. RoundInv'
      BY Zenon DEF RoundInv, Done, Active, Failing, InLock
    <2>4. CountInv'
      <3>1. Counted' = {}
        BY Zenon DEF Counted
      <3>2. Cardinality(Counted') = 0
        BY Zenon, <3>1, FS_EmptySet
      <3>. QED
        BY Zenon, <3>2 DEF LockInv, MasterInv, RoundInv, CountInv, BarrierInv, RemapInv,
           Counted, Done, Active, Failing, InLock
    <2>5. BarrierInv'
      BY Zenon DEF BarrierInv, Done, Active, Failing, InLock
    <2>6. RemapInv'
      BY Zenon DEF LockInv, MasterInv, RoundInv, CountInv, BarrierInv,
         RemapInv, Done, Active, Failing, InLock
    <2>. QED
      BY Zenon, <2>1, <2>2, <2>3, <2>4, <2>5, <2>6
  <1>2. ASSUME NEW c \in CPU, EnterFailed(c) PROVE EntryInv'
    <2>. USE <1>2, ConstAssumption DEF TypeOK, EntryInv, EnterFailed, driver, image, percpu
    <2>1. LockInv'
      BY Zenon DEF LockInv, Done, Active, Failing, InLock
    <2>2. MasterInv'
      BY DEF MasterInv, Done, Active, Failing, InLock
    <2>3. RoundInv'
      BY DEF LockInv, MasterInv, RoundInv, CountInv, BarrierInv,
         RemapInv, Done, Active, Failing, InLock
    <2>4. CountInv'
      BY Zenon DEF CountInv, Counted, Done, Active, Failing, InLock
    <2>5. BarrierInv'
      BY Zenon DEF BarrierInv, Done, Active, Failing, InLock
    <2>6. RemapInv'
      BY Zenon DEF RemapInv, Done, Active, Failing, InLock
    <2>. QED
      BY Zenon, <2>1, <2>2, <2>3, <2>4, <2>5, <2>6
  <1>3. ASSUME NEW c \in CPU, EnterDone(c) PROVE EntryInv'
    <2>. USE <1>3, ConstAssumption DEF TypeOK, EntryInv, EnterDone, driver, image, percpu
    <2>1. LockInv'
      BY Zenon DEF LockInv, Done, Active, Failing, InLock
    <2>2. MasterInv'
      BY Zenon DEF MasterInv, Done, Active, Failing, InLock
    <2>3. RoundInv'
      BY Zenon DEF RoundInv, BarrierInv, Done, Active, Failing, InLock
    <2>4. CountInv'
      BY DEF CountInv, Counted, Done, Active, Failing, InLock
    <2>5. BarrierInv'
      BY Zenon DEF BarrierInv, Done, Active, Failing, InLock
    <2>6. RemapInv'
      BY Zenon DEF RemapInv, Done, Active, Failing, InLock
    <2>. QED
      BY Zenon, <2>1, <2>2, <2>3, <2>4, <2>5, <2>6
  <1>4. CASE EnableReturns
    <2>. USE <1>4, ConstAssumption DEF TypeOK, EntryInv, EnableReturns, driver, image, percpu
    <2>1. LockInv'
      BY Zenon DEF LockInv, Done, Active, Failing, InLock
    <2>2. MasterInv'
      BY Zenon DEF MasterInv, Done, Active, Failing, InLock
    <2>3. RoundInv'
      <3>1. call_done \subseteq online /\ IsFiniteSet(online)
        BY Zenon, FS_Subset DEF RoundInv
      <3>2. call_done = online
        BY Zenon, <3>1, FS_Subset
      <3>. QED
        BY Zenon, <3>2 DEF RoundInv, BarrierInv, Active
    <2>4. CountInv'
      BY DEF CountInv, Counted, Done, Active, Failing, InLock
    <2>5. BarrierInv'
      BY Zenon DEF BarrierInv, Done, Active, Failing, InLock
    <2>6. RemapInv'
      BY Zenon DEF RemapInv, Done, Active, Failing, InLock
    <2>. QED
      BY Zenon, <2>1, <2>2, <2>3, <2>4, <2>5, <2>6
  <1>5. ASSUME NEW c \in CPU, spin_lock(c) PROVE EntryInv'
    <2>. USE <1>5, ConstAssumption DEF TypeOK, EntryInv, spin_lock, driver, image, percpu
    <2>1. LockInv'
      BY Zenon DEF LockInv, Done, Active, Failing, InLock
    <2>2. MasterInv'
      BY DEF LockInv, MasterInv, BarrierInv, Done, Active, Failing,
         InLock
    <2>3. RoundInv'
      BY DEF RoundInv, Done, Active, Failing, InLock
    <2>4. CountInv'
      BY DEF CountInv, Counted, Done, Active, Failing, InLock
    <2>5. BarrierInv'
      BY Zenon DEF BarrierInv, Done, Active, Failing, InLock
    <2>6. RemapInv'
      BY Zenon DEF RemapInv, Done, Active, Failing, InLock
    <2>. QED
      BY Zenon, <2>1, <2>2, <2>3, <2>4, <2>5, <2>6
  <1>6. ASSUME NEW c \in CPU, ElectMaster(c) PROVE EntryInv'
    <2>. USE <1>6, ConstAssumption DEF TypeOK, EntryInv, ElectMaster, driver, image, percpu
    <2>1. LockInv'
      BY Zenon DEF LockInv, Done, Active, Failing, InLock
    <2>2. MasterInv'
      BY DEF LockInv, MasterInv, RoundInv, CountInv, BarrierInv,
         RemapInv, Done, Active, Failing, InLock
    <2>3. RoundInv'
      BY DEF RoundInv, Done, Active, Failing, InLock
    <2>4. CountInv'
      BY DEF CountInv, Counted, Done, Active, Failing, InLock
    <2>5. BarrierInv'
      BY Zenon DEF BarrierInv, MasterInv, Done, Active, Failing, InLock
    <2>6. RemapInv'
      BY Zenon DEF RemapInv, Done, Active, Failing, InLock
    <2>. QED
      BY Zenon, <2>1, <2>2, <2>3, <2>4, <2>5, <2>6
  <1>7. ASSUME NEW c \in CPU, Follow(c) PROVE EntryInv'
    <2>. USE <1>7, ConstAssumption DEF TypeOK, EntryInv, Follow, driver, image, percpu
    <2>1. LockInv'
      BY Zenon DEF LockInv, Done, Active, Failing, InLock
    <2>2. MasterInv'
      BY DEF MasterInv, Done, Active, Failing, InLock
    <2>3. RoundInv'
      BY DEF RoundInv, Done, Active, Failing, InLock
    <2>4. CountInv'
      BY DEF CountInv, Counted, Done, Active, Failing, InLock
    <2>5. BarrierInv'
      BY Zenon DEF BarrierInv, Done, Active, Failing, InLock
    <2>6. RemapInv'
      BY Zenon DEF RemapInv, Done, Active, Failing, InLock
    <2>. QED
      BY Zenon, <2>1, <2>2, <2>3, <2>4, <2>5, <2>6
  <1>8. ASSUME NEW c \in CPU, NEW e \in Errors \union {0}, init_early(c, e) PROVE EntryInv'
    <2>. USE <1>8, ConstAssumption DEF TypeOK, EntryInv, init_early, driver, image, percpu
    <2>1. LockInv'
      BY Zenon DEF LockInv, Done, Active, Failing, InLock
    <2>2. MasterInv'
      BY DEF MasterInv, Done, Active, Failing, InLock
    <2>3. RoundInv'
      BY DEF LockInv, RoundInv, MasterInv, BarrierInv, Done, Active,
         Failing, InLock
    <2>4. CountInv'
      BY DEF CountInv, RoundInv, BarrierInv, Counted, Done, Active,
         Failing, InLock
    <2>5. BarrierInv'
      BY DEF BarrierInv, MasterInv, Done, Active, Failing, InLock
    <2>6. RemapInv'
      BY Zenon DEF RemapInv, MasterInv, Done, Active, Failing, InLock
    <2>. QED
      BY Zenon, <2>1, <2>2, <2>3, <2>4, <2>5, <2>6
  <1>9. ASSUME NEW c \in CPU, cpu_init(c) PROVE EntryInv'
    <2>. USE <1>9, ConstAssumption DEF TypeOK, EntryInv, cpu_init, driver, image, percpu
    <2>1. LockInv'
      BY Zenon DEF LockInv, Done, Active, Failing, InLock
    <2>2. MasterInv'
      BY DEF MasterInv, Done, Active, Failing, InLock
    <2>3. RoundInv'
      BY DEF RoundInv, Done, Active, Failing, InLock
    <2>4. CountInv'
      <3>1. error = 0 /\ ~initialized[c] /\ c \in online
        BY Zenon DEF BarrierInv, CountInv, RoundInv
      <3>2. Counted' = Counted \union {c} /\ c \notin Counted
        BY Zenon, <3>1 DEF Counted
      <3>3. IsFiniteSet(Counted)
        BY Zenon, FS_Subset DEF Counted
      <3>4. Cardinality(Counted') = Cardinality(Counted) + 1
        BY Zenon, <3>2, <3>3, FS_AddElement
      <3>5. initialized_cpus' = Cardinality(Counted')
        BY Zenon, <3>1, <3>4 DEF CountInv
      <3>. QED
        BY <3>1, <3>5 DEF CountInv, RoundInv, Done, Active, Failing, InLock
    <2>5. BarrierInv'
      <3>1. Cardinality(online) \in Nat
        BY Zenon, FS_Subset, FS_CardinalityType
      <3>. QED
        BY <3>1 DEF BarrierInv, Done, Active, Failing, InLock
    <2>6. RemapInv'
      BY DEF RemapInv, Done, Active, Failing, InLock
    <2>. QED
      BY Zenon, <2>1, <2>2, <2>3, <2>4, <2>5, <2>6
  <1>10. ASSUME NEW c \in CPU, NEW e \in Errors, CpuInitFails(c, e) PROVE EntryInv'
    <2>. USE <1>10, ConstAssumption DEF TypeOK, EntryInv, CpuInitFails, driver, image, percpu
    <2>1. LockInv'
      BY Zenon DEF LockInv, Done, Active, Failing, InLock
    <2>2. MasterInv'
      BY DEF MasterInv, Done, Active, Failing, InLock
    <2>3. RoundInv'
      <3>1. \A d \in CPU : pc[d] \notin Active
        BY Zenon, NobodyActive
      <3>2. error = 0 /\ error' # 0
        BY Zenon DEF BarrierInv
      <3>3. call_done = {} /\ error_code = 0 /\ dpc = "calling"
        BY <3>1, <3>2 DEF RoundInv, Active
      <3>. QED
        BY <3>2, <3>3 DEF RoundInv
    <2>4. CountInv'
      BY DEF CountInv, RoundInv, BarrierInv, Counted, Done, Active,
         Failing, InLock
    <2>5. BarrierInv'
      <3>1. \A d \in CPU : pc[d] \notin Active
        BY Zenon, NobodyActive
      <3>2. \A d \in CPU : pc[d] \in {"early", "cpu", "late"} => d = c
        BY Zenon DEF LockInv, InLock
      <3>3. \A d \in CPU : pc'[d] \notin {"early", "cpu", "late"}
        BY Zenon, <3>2
      <3>4. error' # 0
        BY Zenon DEF BarrierInv
      <3>5. \A d \in CPU : pc'[d] \notin Active
        BY Zenon, <3>1 DEF Active
      <3>. QED
        BY Zenon, <3>3, <3>4, <3>5 DEF BarrierInv
    <2>6. RemapInv'
      BY Zenon DEF RemapInv, Done, Active, Failing, InLock
    <2>. QED
      BY Zenon, <2>1, <2>2, <2>3, <2>4, <2>5, <2>6
  <1>11. ASSUME NEW c \in CPU, NEW e \in Errors \union {0}, init_late(c, e) PROVE EntryInv'
    <2>. USE <1>11, ConstAssumption DEF TypeOK, EntryInv, init_late, driver, image, percpu
    <2>1. LockInv'
      BY DEF LockInv, Done, Active, Failing, InLock
    <2>2. MasterInv'
      BY DEF MasterInv, Done, Active, Failing, InLock
    <2>3. RoundInv'
      BY DEF LockInv, RoundInv, MasterInv, BarrierInv, Done, Active,
         Failing, InLock
    <2>4. CountInv'
      BY DEF CountInv, RoundInv, BarrierInv, Counted, Done, Active,
         Failing, InLock
    <2>5. BarrierInv'
      BY DEF BarrierInv, MasterInv, Done, Active, Failing, InLock
    <2>6. RemapInv'
      BY DEF RemapInv, MasterInv, Done, Active, Failing, InLock
    <2>. QED
      BY Zenon, <2>1, <2>2, <2>3, <2>4, <2>5, <2>6
  <1>12. ASSUME NEW c \in CPU, spin_unlock(c) PROVE EntryInv'
    <2>. USE <1>12, ConstAssumption DEF TypeOK, EntryInv, spin_unlock, driver, image, percpu
    <2>1. LockInv'
      BY Zenon DEF LockInv, Done, Active, Failing, InLock
    <2>2. MasterInv'
      BY DEF MasterInv, Done, Active, Failing, InLock
    <2>3. RoundInv'
      BY DEF RoundInv, Done, Active, Failing, InLock
    <2>4. CountInv'
      BY DEF CountInv, Counted, Done, Active, Failing, InLock
    <2>5. BarrierInv'
      BY Zenon DEF BarrierInv, Done, Active, Failing, InLock
    <2>6. RemapInv'
      BY DEF RemapInv, Done, Active, Failing, InLock
    <2>. QED
      BY Zenon, <2>1, <2>2, <2>3, <2>4, <2>5, <2>6
  <1>13. ASSUME NEW c \in CPU, Barrier(c) PROVE EntryInv'
    <2>. USE <1>13, ConstAssumption DEF TypeOK, EntryInv, Barrier, driver, image, percpu
    <2>1. LockInv'
      BY Zenon DEF LockInv, Done, Active, Failing, InLock
    <2>2. MasterInv'
      BY DEF MasterInv, Done, Active, Failing, InLock
    <2>3. RoundInv'
      BY DEF RoundInv, Done, Active, Failing, InLock
    <2>4. CountInv'
      BY DEF CountInv, Counted, Done, Active, Failing, InLock
    <2>5. BarrierInv'
      BY Zenon DEF BarrierInv, Done, Active, Failing, InLock
    <2>6. RemapInv'
      BY Zenon DEF RemapInv, Done, Active, Failing, InLock
    <2>. QED
      BY Zenon, <2>1, <2>2, <2>3, <2>4, <2>5, <2>6
  <1>14. ASSUME NEW c \in CPU, TestError(c) PROVE EntryInv'
    <2>. USE <1>14, ConstAssumption DEF TypeOK, EntryInv, TestError, driver, image, percpu
    <2>1. LockInv'
      BY Zenon DEF LockInv, Done, Active, Failing, InLock
    <2>2. MasterInv'
      BY DEF MasterInv, Done, Active, Failing, InLock
    <2>3. RoundInv'
      BY DEF RoundInv, Done, Active, Failing, InLock
    <2>4. CountInv'
      BY DEF CountInv, Counted, Done, Active, Failing, InLock
    <2>5. BarrierInv'
      BY Zenon DEF BarrierInv, Done, Active, Failing, InLock
    <2>6. RemapInv'
      BY DEF RemapInv, Done, Active, Failing, InLock
    <2>. QED
      BY Zenon, <2>1, <2>2, <2>3, <2>4, <2>5, <2>6
  <1>15. ASSUME NEW c \in CPU, arch_shutdown(c) PROVE EntryInv'
    <2>. USE <1>15, ConstAssumption DEF TypeOK, EntryInv, arch_shutdown, driver, image, percpu
    <2>1. LockInv'
      BY Zenon DEF LockInv, Done, Active, Failing, InLock
    <2>2. MasterInv'
      BY DEF MasterInv, Done, Active, Failing, InLock
    <2>3. RoundInv'
      BY DEF RoundInv, Done, Active, Failing, InLock
    <2>4. CountInv'
      BY DEF CountInv, Counted, Done, Active, Failing, InLock
    <2>5. BarrierInv'
      BY Zenon DEF BarrierInv, Done, Active, Failing, InLock
    <2>6. RemapInv'
      BY Zenon DEF RemapInv, MasterInv, Done, Active, Failing, InLock
    <2>. QED
      BY Zenon, <2>1, <2>2, <2>3, <2>4, <2>5, <2>6
  <1>16. ASSUME NEW c \in CPU, arch_cpu_restore(c) PROVE EntryInv'
    <2>. USE <1>16, ConstAssumption DEF TypeOK, EntryInv, arch_cpu_restore, driver, image, percpu
    <2>1. LockInv'
      BY Zenon DEF LockInv, Done, Active, Failing, InLock
    <2>2. MasterInv'
      BY DEF MasterInv, Done, Active, Failing, InLock
    <2>3. RoundInv'
      BY DEF RoundInv, Done, Active, Failing, InLock
    <2>4. CountInv'
      BY Zenon DEF CountInv, Counted, Done, Active, Failing, InLock
    <2>5. BarrierInv'
      BY DEF BarrierInv, Done, Active, Failing, InLock
    <2>6. RemapInv'
      BY Zenon DEF RemapInv, Done, Active, Failing, InLock
    <2>. QED
      BY Zenon, <2>1, <2>2, <2>3, <2>4, <2>5, <2>6
  <1>17. ASSUME NEW c \in CPU, arch_cpu_activate_vmm(c) PROVE EntryInv'
    <2>. USE <1>17, ConstAssumption DEF TypeOK, EntryInv, arch_cpu_activate_vmm, driver, image, percpu
    <2>1. LockInv'
      BY Zenon DEF LockInv, Done, Active, Failing, InLock
    <2>2. MasterInv'
      BY DEF MasterInv, Done, Active, Failing, InLock
    <2>3. RoundInv'
      BY DEF RoundInv, Done, Active, Failing, InLock
    <2>4. CountInv'
      BY DEF CountInv, Counted, Done, Active, Failing, InLock
    <2>5. BarrierInv'
      BY Zenon DEF BarrierInv, Done, Active, Failing, InLock
    <2>6. RemapInv'
      BY Zenon DEF RemapInv, Done, Active, Failing, InLock
    <2>. QED
      BY Zenon, <2>1, <2>2, <2>3, <2>4, <2>5, <2>6
  <1>18. ASSUME NEW c \in CPU, LaunchFails(c) PROVE EntryInv'
    <2>. USE <1>18, ConstAssumption DEF TypeOK, EntryInv, LaunchFails, driver, image, percpu
    <2>1. LockInv'
      BY Zenon DEF LockInv, Done, Active, Failing, InLock
    <2>2. MasterInv'
      BY DEF MasterInv, Done, Active, Failing, InLock
    <2>3. RoundInv'
      BY DEF RoundInv, Done, Active, Failing, InLock
    <2>4. CountInv'
      BY DEF CountInv, Counted, Done, Active, Failing, InLock
    <2>5. BarrierInv'
      BY Zenon DEF BarrierInv, Done, Active, Failing, InLock
    <2>6. RemapInv'
      BY SMTT(30) DEF RemapInv, Done, Active, Failing, InLock
    <2>. QED
      BY Zenon, <2>1, <2>2, <2>3, <2>4, <2>5, <2>6
  <1>19. CASE UNCHANGED vars
    BY <1>19 DEF vars, EntryInv, LockInv, MasterInv, RoundInv, CountInv, BarrierInv, RemapInv, Counted, Done, Active, Failing, InLock
  <1>. QED
    BY Zenon, <1>1, <1>2, <1>3, <1>4, <1>5, <1>6, <1>7, <1>8, <1>9, <1>10, <1>11,
       <1>12, <1>13, <1>14, <1>15, <1>16, <1>17, <1>18, <1>19 DEF Next, Entry

\* The invariant holds in every reachable state.
LEMMA EntryInvCorrect == Spec => [](TypeOK /\ EntryInv)
  <1>1. Init => EntryInv
    <2>. SUFFICES ASSUME Init PROVE EntryInv
      OBVIOUS
    <2>1. Counted = {}
      BY Zenon DEF Init, Counted
    <2>2. Cardinality(Counted) = 0
      BY Zenon, <2>1, FS_EmptySet
    <2>. QED
      BY Zenon, <2>2, ConstAssumption DEF Init, EntryInv, LockInv, MasterInv,
         RoundInv, CountInv, BarrierInv, RemapInv, Done, Active, Failing, InLock
  <1>2. TypeOK /\ TypeOK' /\ EntryInv /\ [Next]_vars => EntryInv'
    BY Zenon, EntryInvStep
  <1>. QED
    BY <1>1, <1>2, TypeCorrect, PTL DEF Spec

\* A CPU goes through the point of no return of entry() only when all CPUs of
\* the round are set up and none can fail any more.
THEOREM PointOfNoReturn == Spec => []NoReturnIsSafe
  <1>1. TypeOK /\ EntryInv => NoReturnIsSafe
    <2>. SUFFICES ASSUME TypeOK, EntryInv, NEW c \in CPU, pc[c] \in Active
                  PROVE  NoReturnIsSafe
      BY Zenon DEF NoReturnIsSafe
    <2>1. error = 0 /\ initialized_cpus >= Cardinality(online)
      BY Zenon DEF EntryInv, BarrierInv
    <2>2. Counted = online
      BY Zenon, <2>1, AllCounted DEF EntryInv
    <2>3. \A d \in online : initialized[d]
      BY Zenon, <2>2 DEF Counted
    <2>4. \A d \in CPU : pc[d] # "late"
      BY Zenon, NobodyActive
    <2>5. online \subseteq CPU
      BY Zenon DEF TypeOK
    <2>6. \A d \in online : pc[d] \in Done /\ switched[d] /\ d \in root_cpu_set
      BY Zenon, <2>1, <2>3, <2>4, <2>5 DEF EntryInv, CountInv
    <2>7. master_cpu_id \in CPU
      BY Zenon DEF EntryInv, MasterInv, Active, TypeOK
    <2>8. master[master_cpu_id] /\ master_cpu_id \in online
      <3>1. master[master_cpu_id]
        BY Zenon, <2>7 DEF EntryInv, MasterInv
      <3>2. master_cpu_id \in online
        BY Zenon, <2>7, <3>1 DEF EntryInv, MasterInv
      <3>. QED
        BY Zenon, <3>1, <3>2
    <2>9. translating
      BY Zenon, <2>1, <2>6, <2>7, <2>8 DEF EntryInv, RemapInv
    <2>. QED
      BY Zenon, <2>1, <2>6, <2>9 DEF NoReturnIsSafe, Done
  <1>. QED
    BY <1>1, EntryInvCorrect, PTL

\* A failed jailhouse_enable leaves the CPUs and DMA to Linux.
THEOREM FailureIsUndone == Spec => []FailureRestoresLinux
  <1>1. TypeOK /\ EntryInv => FailureRestoresLinux
    BY Zenon DEF TypeOK, EntryInv, RoundInv, RemapInv, MasterInv, Done, Active,
       FailureRestoresLinux
  <1>. QED
    BY <1>1, EntryInvCorrect, PTL

\* The driver believes what is true of the CPUs.
THEOREM DriverIsRight == Spec => []EnabledMeansGuest
  <1>1. EntryInv => EnabledMeansGuest
    BY Zenon DEF EntryInv, RoundInv, EnabledMeansGuest
  <1>. QED
    BY <1>1, EntryInvCorrect, PTL


\* Nothing is decided while a CPU may still fail.
LEMMA StillOpen ==
  ASSUME TypeOK, EntryInv, NEW c \in CPU, pc[c] \in {"early", "cpu", "late"}
  PROVE  error = 0 /\ Outcome = "open"
  <1>1. error = 0
    BY Zenon DEF EntryInv, BarrierInv
  <1>2. CASE pc[c] = "late"
    BY Zenon, <1>1, <1>2 DEF Outcome
  <1>3. CASE pc[c] # "late"
    <2>1. c \in online /\ c \notin Counted
      BY Zenon, <1>3 DEF EntryInv, RoundInv, CountInv, Counted
    <2>2. ~(initialized_cpus >= Cardinality(online))
      BY Zenon, <1>1, <2>1, AllCounted DEF EntryInv
    <2>. QED
      BY Zenon, <1>1, <2>2 DEF Outcome
  <1>. QED
    BY Zenon, <1>2, <1>3

\* A step that changes neither error, the count nor the CPUs of the round, and
\* neither starts nor ends init_late, decides nothing.
LEMMA OutcomeFrame ==
  ASSUME UNCHANGED <<error, initialized_cpus, online>>,
         \A c \in CPU : pc'[c] = "late" <=> pc[c] = "late"
  PROVE  Outcome' = Outcome
  BY Zenon DEF Outcome

\* Every step of the CPUs and of the driver is a step of WorldSwitch or changes
\* nothing there.
LEMMA SwitchStep ==
  ASSUME TypeOK, TypeOK', EntryInv, [Next]_vars
  PROVE  [Abstract!Next]_<<Outcome, World>>
  <1>. USE DEF TypeOK
  <1>1. ASSUME NEW S \in SUBSET CPU, jailhouse_enable(S)
        PROVE  [Abstract!Next]_<<Outcome, World>>
    <2>1. IsFiniteSet(S) /\ Cardinality(S) # 0 /\ Cardinality(S) \in Nat
      BY Zenon, <1>1, ConstAssumption, FS_Subset, FS_EmptySet, FS_CardinalityType
         DEF jailhouse_enable
    <2>2. Outcome' = "open"
      BY <1>1, <2>1 DEF jailhouse_enable, Outcome
    <2>3. \A c \in CPU : World[c] = "back"
      BY Zenon, <1>1 DEF jailhouse_enable, World, EntryInv, RoundInv
    <2>4. World' = [c \in CPU |-> IF c \in S THEN "in" ELSE "back"]
      BY Zenon, <1>1 DEF jailhouse_enable, World
    <2>5. Abstract!Call(S)
      BY Zenon, <1>1, <2>2, <2>3, <2>4 DEF jailhouse_enable, Abstract!Call
    <2>. QED
      BY Zenon, <2>5 DEF Abstract!Next
  <1>2. ASSUME NEW c \in CPU, EnterFailed(c)
        PROVE  [Abstract!Next]_<<Outcome, World>>
    <2>1. Outcome \in Errors
      BY Zenon, <1>2 DEF EnterFailed, Outcome, EntryInv, CountInv, Failing
    <2>2. Outcome' = Outcome
      BY Zenon, <1>2, OutcomeFrame DEF EnterFailed
    <2>3. World[c] = "in" /\ World' = [World EXCEPT ![c] = "back"]
      BY Zenon, <1>2 DEF EnterFailed, World
    <2>4. Abstract!GiveUp(c)
      BY Zenon, <2>1, <2>2, <2>3 DEF Abstract!GiveUp
    <2>. QED
      BY Zenon, <2>4 DEF Abstract!Next
  <1>3. ASSUME NEW c \in CPU, EnterDone(c)
        PROVE  [Abstract!Next]_<<Outcome, World>>
    <2>1. World' = World
      BY Zenon, <1>3 DEF EnterDone, World, driver, image, percpu
    <2>2. Outcome' = Outcome
      BY Zenon, <1>3, OutcomeFrame DEF EnterDone, driver, image, percpu
    <2>. QED
      BY Zenon, <2>1, <2>2
  <1>4. CASE EnableReturns
    <2>1. World' = World
      BY Zenon, <1>4 DEF EnableReturns, World, driver, image, percpu
    <2>2. Outcome' = Outcome
      BY Zenon, <1>4, OutcomeFrame DEF EnableReturns, driver, image, percpu
    <2>. QED
      BY Zenon, <2>1, <2>2
  <1>5. ASSUME NEW c \in CPU, spin_lock(c)
        PROVE  [Abstract!Next]_<<Outcome, World>>
    <2>1. World' = World
      BY Zenon, <1>5 DEF spin_lock, World, driver, image, percpu
    <2>2. Outcome' = Outcome
      BY Zenon, <1>5, OutcomeFrame DEF spin_lock, driver, image, percpu
    <2>. QED
      BY Zenon, <2>1, <2>2
  <1>6. ASSUME NEW c \in CPU, ElectMaster(c)
        PROVE  [Abstract!Next]_<<Outcome, World>>
    <2>1. World' = World
      BY Zenon, <1>6 DEF ElectMaster, World, driver, image, percpu
    <2>2. Outcome' = Outcome
      BY Zenon, <1>6, OutcomeFrame DEF ElectMaster, driver, image, percpu
    <2>. QED
      BY Zenon, <2>1, <2>2
  <1>7. ASSUME NEW c \in CPU, Follow(c)
        PROVE  [Abstract!Next]_<<Outcome, World>>
    <2>1. World' = World
      BY Zenon, <1>7 DEF Follow, World, driver, image, percpu
    <2>2. Outcome' = Outcome
      BY Zenon, <1>7, OutcomeFrame DEF Follow, driver, image, percpu
    <2>. QED
      BY Zenon, <2>1, <2>2
  <1>8. ASSUME NEW c \in CPU, NEW e \in Errors \union {0}, init_early(c, e)
        PROVE  [Abstract!Next]_<<Outcome, World>>
    <2>1. error = 0 /\ Outcome = "open"
      BY Zenon, <1>8, StillOpen DEF init_early
    <2>2. World' = World
      BY Zenon, <1>8 DEF init_early, World
    <2>3. Outcome' \in Errors \union {"open", "switch"}
      BY Zenon, <1>8, <2>1, ConstAssumption DEF init_early, Outcome
    <2>4. Outcome' = Outcome \/ Abstract!Decide(Outcome')
      BY Zenon, <2>1, <2>2, <2>3 DEF Abstract!Decide
    <2>. QED
      BY Zenon, <2>1, <2>2, <2>3, <2>4 DEF Abstract!Next
  <1>9. ASSUME NEW c \in CPU, cpu_init(c)
        PROVE  [Abstract!Next]_<<Outcome, World>>
    <2>1. error = 0 /\ Outcome = "open"
      BY Zenon, <1>9, StillOpen DEF cpu_init
    <2>2. World' = World
      BY Zenon, <1>9 DEF cpu_init, World
    <2>3. Outcome' \in Errors \union {"open", "switch"}
      BY Zenon, <1>9, <2>1, ConstAssumption DEF cpu_init, Outcome
    <2>4. Outcome' = Outcome \/ Abstract!Decide(Outcome')
      BY Zenon, <2>1, <2>2, <2>3 DEF Abstract!Decide
    <2>. QED
      BY Zenon, <2>1, <2>2, <2>3, <2>4 DEF Abstract!Next
  <1>10. ASSUME NEW c \in CPU, NEW e \in Errors, CpuInitFails(c, e)
        PROVE  [Abstract!Next]_<<Outcome, World>>
    <2>1. error = 0 /\ Outcome = "open"
      BY Zenon, <1>10, StillOpen DEF CpuInitFails
    <2>2. World' = World
      BY Zenon, <1>10 DEF CpuInitFails, World
    <2>3. Outcome' \in Errors \union {"open", "switch"}
      BY Zenon, <1>10, <2>1, ConstAssumption DEF CpuInitFails, Outcome
    <2>4. Outcome' = Outcome \/ Abstract!Decide(Outcome')
      BY Zenon, <2>1, <2>2, <2>3 DEF Abstract!Decide
    <2>. QED
      BY Zenon, <2>1, <2>2, <2>3, <2>4 DEF Abstract!Next
  <1>11. ASSUME NEW c \in CPU, NEW e \in Errors \union {0}, init_late(c, e)
        PROVE  [Abstract!Next]_<<Outcome, World>>
    <2>1. error = 0 /\ Outcome = "open"
      BY Zenon, <1>11, StillOpen DEF init_late
    <2>2. World' = World
      BY Zenon, <1>11 DEF init_late, World
    <2>3. Outcome' \in Errors \union {"open", "switch"}
      BY Zenon, <1>11, <2>1, ConstAssumption DEF init_late, Outcome
    <2>4. Outcome' = Outcome \/ Abstract!Decide(Outcome')
      BY Zenon, <2>1, <2>2, <2>3 DEF Abstract!Decide
    <2>. QED
      BY Zenon, <2>1, <2>2, <2>3, <2>4 DEF Abstract!Next
  <1>12. ASSUME NEW c \in CPU, spin_unlock(c)
        PROVE  [Abstract!Next]_<<Outcome, World>>
    <2>1. World' = World
      BY Zenon, <1>12 DEF spin_unlock, World, driver, image, percpu
    <2>2. Outcome' = Outcome
      BY Zenon, <1>12, OutcomeFrame DEF spin_unlock, driver, image, percpu
    <2>. QED
      BY Zenon, <2>1, <2>2
  <1>13. ASSUME NEW c \in CPU, Barrier(c)
        PROVE  [Abstract!Next]_<<Outcome, World>>
    <2>1. World' = World
      BY Zenon, <1>13 DEF Barrier, World, driver, image, percpu
    <2>2. Outcome' = Outcome
      BY Zenon, <1>13, OutcomeFrame DEF Barrier, driver, image, percpu
    <2>. QED
      BY Zenon, <2>1, <2>2
  <1>14. ASSUME NEW c \in CPU, TestError(c)
        PROVE  [Abstract!Next]_<<Outcome, World>>
    <2>1. World' = World
      BY Zenon, <1>14 DEF TestError, World, driver, image, percpu
    <2>2. Outcome' = Outcome
      BY Zenon, <1>14, OutcomeFrame DEF TestError, driver, image, percpu
    <2>. QED
      BY Zenon, <2>1, <2>2
  <1>15. ASSUME NEW c \in CPU, arch_shutdown(c)
        PROVE  [Abstract!Next]_<<Outcome, World>>
    <2>1. World' = World
      BY Zenon, <1>15 DEF arch_shutdown, World, driver, image, percpu
    <2>2. Outcome' = Outcome
      BY Zenon, <1>15, OutcomeFrame DEF arch_shutdown, driver, image, percpu
    <2>. QED
      BY Zenon, <2>1, <2>2
  <1>16. ASSUME NEW c \in CPU, arch_cpu_restore(c)
        PROVE  [Abstract!Next]_<<Outcome, World>>
    <2>1. World' = World
      BY Zenon, <1>16 DEF arch_cpu_restore, World, driver, image, percpu
    <2>2. Outcome' = Outcome
      BY Zenon, <1>16, OutcomeFrame DEF arch_cpu_restore, driver, image, percpu
    <2>. QED
      BY Zenon, <2>1, <2>2
  <1>17. ASSUME NEW c \in CPU, arch_cpu_activate_vmm(c)
        PROVE  [Abstract!Next]_<<Outcome, World>>
    <2>1. error = 0 /\ initialized_cpus >= Cardinality(online) /\ online # {}
      BY Zenon, <1>17 DEF arch_cpu_activate_vmm, EntryInv, BarrierInv, RoundInv, Active
    <2>2. \A d \in CPU : pc[d] # "late"
      BY Zenon, <1>17, NobodyActive DEF arch_cpu_activate_vmm, Active
    <2>3. Outcome = "switch"
      BY Zenon, <2>1, <2>2 DEF Outcome
    <2>4. Outcome' = Outcome
      BY Zenon, <1>17, OutcomeFrame DEF arch_cpu_activate_vmm, driver, image
    <2>5. World[c] = "in" /\ World' = [World EXCEPT ![c] = "guest"]
      BY Zenon, <1>17 DEF arch_cpu_activate_vmm, World
    <2>6. Abstract!Switch(c)
      BY Zenon, <2>3, <2>4, <2>5 DEF Abstract!Switch
    <2>. QED
      BY Zenon, <2>6 DEF Abstract!Next
  <1>18. ASSUME NEW c \in CPU, LaunchFails(c)
        PROVE  [Abstract!Next]_<<Outcome, World>>
    <2>1. World' = World
      BY Zenon, <1>18 DEF LaunchFails, World, driver, image, percpu
    <2>2. Outcome' = Outcome
      BY Zenon, <1>18, OutcomeFrame DEF LaunchFails, driver, image, percpu
    <2>. QED
      BY Zenon, <2>1, <2>2
  <1>19. CASE UNCHANGED vars
    BY Zenon, <1>19 DEF vars, World, Outcome
  <1>. QED
    BY Zenon, <1>1, <1>2, <1>3, <1>4, <1>5, <1>6, <1>7, <1>8, <1>9, <1>10, <1>11,
       <1>12, <1>13, <1>14, <1>15, <1>16, <1>17, <1>18, <1>19 DEF Next, Entry

\* entry() gives every CPU of a round the same result: it implements the one
\* decision the driver relies on.
THEOREM EntryImplementsSwitch == Spec => SameResult
  <1>1. Init => Abstract!Init
    BY Zenon DEF Init, Abstract!Init, Outcome, World
  <1>2. TypeOK /\ TypeOK' /\ EntryInv /\ [Next]_vars
          => [Abstract!Next]_<<Outcome, World>>
    BY Zenon, SwitchStep
  <1>. QED
    BY <1>1, <1>2, EntryInvCorrect, PTL DEF Spec, SameResult, Abstract!Spec


=============================================================================
