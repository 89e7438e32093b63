--------------------------- MODULE HvShutdownProofs ---------------------------
(*****************************************************************************)
(* What is proved of the way a CPU leaves its guest: disabling the           *)
(* hypervisor (HvShutdown), for every set of CPUs, and apic_clear, for every *)
(* number of vectors, every local vector table and every limit on the        *)
(* interrupts taken in its window.                                           *)
(*****************************************************************************)
EXTENDS HvShutdown, ApicClear, FiniteSetTheorems, TLAPS

-----------------------------------------------------------------------------
(* Disabling the hypervisor.                                               *)

\* on_each_cpu waits until all online CPUs have counted themselves in call_done.
LEMMA AllCounted ==
  ASSUME TypeOK, PlaceInv, DisableReturns PROVE call_done = online
  <1>1. IsFiniteSet(online) /\ call_done \subseteq online
    BY Zenon, ConstAssumption, FS_Subset DEF TypeOK, PlaceInv, DisableReturns
  <1>. QED
    BY Zenon, <1>1, FS_Subset DEF DisableReturns

\* No step of the driver, of Linux or of shutdown() leaves the types.
LEMMA ShutdownTypeStep == TypeOK /\ PlaceInv /\ [Next]_vars => TypeOK'
  <1>. SUFFICES ASSUME TypeOK, PlaceInv, [Next]_vars PROVE TypeOK'
    OBVIOUS
  <1>. USE ConstAssumption DEF TypeOK, hotplug, round, cells, Cells
  <1>1. CASE jailhouse_disable
    BY Zenon, <1>1 DEF jailhouse_disable, Idle
  <1>2. ASSUME NEW c \in CPU, CpuDown(c) PROVE TypeOK'
    BY Zenon, <1>2 DEF CpuDown, Idle
  <1>3. ASSUME NEW c \in CPU, CpuUp(c) PROVE TypeOK'
    BY <1>3 DEF CpuUp, Idle
  <1>4. ASSUME NEW c \in CPU, CellCreate(c) PROVE TypeOK'
    BY <1>4 DEF CellCreate, Idle
  <1>5. ASSUME NEW c \in CPU, NEW up \in BOOLEAN, CellDestroy(c, up) PROVE TypeOK'
    BY <1>5 DEF CellDestroy, Idle
  <1>6. ASSUME NEW k \in CPU, CellStart(k) PROVE TypeOK'
    BY Zenon, <1>6 DEF CellStart, Idle
  <1>7. ASSUME NEW c \in CPU, Lock(c) PROVE TypeOK'
    BY Zenon, <1>7 DEF Lock
  <1>8. ASSUME NEW c \in CPU, FirstCaller(c) PROVE TypeOK'
    BY Zenon, <1>8 DEF FirstCaller
  <1>9. ASSUME NEW c \in CPU, LaterCaller(c) PROVE TypeOK'
    BY Zenon, <1>9 DEF LaterCaller
  <1>10. ASSUME NEW c \in CPU, NEW k \in CPU, AskAgrees(c, k) PROVE TypeOK'
    BY Zenon, <1>10 DEF AskAgrees
  <1>11. ASSUME NEW c \in CPU, NEW k \in CPU, AskDenied(c, k) PROVE TypeOK'
    BY Zenon, <1>11 DEF AskDenied
  <1>12. ASSUME NEW c \in CPU, CloseCells(c) PROVE TypeOK'
    BY Zenon, <1>12 DEF CloseCells
  <1>13. ASSUME NEW c \in CPU, Refused(c) PROVE TypeOK'
    BY Zenon, <1>13 DEF Refused
  <1>14. ASSUME NEW c \in CPU, Decide(c) PROVE TypeOK'
    BY Zenon, <1>14 DEF Decide
  <1>15. ASSUME NEW c \in CPU, Fetch(c) PROVE TypeOK'
    BY Zenon, <1>15 DEF Fetch
  <1>16. ASSUME NEW c \in CPU, vmx_cpu_deactivate_vmm(c) PROVE TypeOK'
    BY Zenon, <1>16 DEF vmx_cpu_deactivate_vmm
  <1>17. ASSUME NEW c \in CPU, leave_hypervisor(c) PROVE TypeOK'
    BY <1>17 DEF leave_hypervisor, PlaceInv
  <1>18. CASE DisableReturns
    BY Zenon, <1>18 DEF DisableReturns
  <1>19. CASE UNCHANGED vars
    BY <1>19 DEF vars
  <1>. HIDE DEF TypeOK
  <1>. QED
    BY Zenon, <1>1, <1>2, <1>3, <1>4, <1>5, <1>6, <1>7, <1>8, <1>9, <1>10, <1>11, <1>12,
       <1>13, <1>14, <1>15, <1>16, <1>17, <1>18, <1>19
     DEF Next, Linux, Shutdown

\* shutdown_lock admits one CPU at a time, and Linux leaves the CPUs alone while a
\* round is in progress.
LEMMA PlaceStep == TypeOK /\ TypeOK' /\ PlaceInv /\ [Next]_vars => PlaceInv'
  <1>. SUFFICES ASSUME TypeOK, TypeOK', PlaceInv, [Next]_vars PROVE PlaceInv'
    OBVIOUS
  <1>. USE ConstAssumption DEF TypeOK, PlaceInv, hotplug, round, cells, Cells
  <1>1. CASE jailhouse_disable
    BY Zenon, <1>1 DEF jailhouse_disable, Idle
  <1>2. ASSUME NEW c \in CPU, CpuDown(c) PROVE PlaceInv'
    BY <1>2 DEF CpuDown, Idle
  <1>3. ASSUME NEW c \in CPU, CpuUp(c) PROVE PlaceInv'
    BY <1>3 DEF CpuUp, Idle
  <1>4. ASSUME NEW c \in CPU, CellCreate(c) PROVE PlaceInv'
    BY <1>4 DEF CellCreate, Idle
  <1>5. ASSUME NEW c \in CPU, NEW up \in BOOLEAN, CellDestroy(c, up) PROVE PlaceInv'
    BY Zenon, <1>5 DEF CellDestroy, Idle
  <1>6. ASSUME NEW k \in CPU, CellStart(k) PROVE PlaceInv'
    BY Zenon, <1>6 DEF CellStart, Idle
  <1>7. ASSUME NEW c \in CPU, Lock(c) PROVE PlaceInv'
    BY <1>7 DEF Lock
  <1>8. ASSUME NEW c \in CPU, FirstCaller(c) PROVE PlaceInv'
    BY <1>8 DEF FirstCaller
  <1>9. ASSUME NEW c \in CPU, LaterCaller(c) PROVE PlaceInv'
    BY <1>9 DEF LaterCaller
  <1>10. ASSUME NEW c \in CPU, NEW k \in CPU, AskAgrees(c, k) PROVE PlaceInv'
    BY <1>10 DEF AskAgrees
  <1>11. ASSUME NEW c \in CPU, NEW k \in CPU, AskDenied(c, k) PROVE PlaceInv'
    BY Zenon, <1>11 DEF AskDenied
  <1>12. ASSUME NEW c \in CPU, CloseCells(c) PROVE PlaceInv'
    BY <1>12 DEF CloseCells
  <1>13. ASSUME NEW c \in CPU, Refused(c) PROVE PlaceInv'
    BY SMTT(30), <1>13 DEF Refused
  <1>14. ASSUME NEW c \in CPU, Decide(c) PROVE PlaceInv'
    BY <1>14 DEF Decide
  <1>15. ASSUME NEW c \in CPU, Fetch(c) PROVE PlaceInv'
    BY <1>15 DEF Fetch
  <1>16. ASSUME NEW c \in CPU, vmx_cpu_deactivate_vmm(c) PROVE PlaceInv'
    BY <1>16 DEF vmx_cpu_deactivate_vmm
  <1>17. ASSUME NEW c \in CPU, leave_hypervisor(c) PROVE PlaceInv'
    BY <1>17 DEF leave_hypervisor
  <1>18. CASE DisableReturns
    BY Zenon, <1>18, AllCounted DEF DisableReturns
  <1>19. CASE UNCHANGED vars
    BY <1>19 DEF vars
  <1>. HIDE DEF TypeOK, PlaceInv
  <1>. QED
    BY Zenon, <1>1, <1>2, <1>3, <1>4, <1>5, <1>6, <1>7, <1>8, <1>9, <1>10, <1>11, <1>12,
       <1>13, <1>14, <1>15, <1>16, <1>17, <1>18, <1>19
     DEF Next, Linux, Shutdown

\* A CPU leaves only with the cells closed.
LEMMA LeaveStep ==
  TypeOK /\ TypeOK' /\ PlaceInv /\ LeaveInv /\ [Next]_vars => LeaveInv'
  <1>. SUFFICES ASSUME TypeOK, TypeOK', PlaceInv, LeaveInv, [Next]_vars PROVE LeaveInv'
    OBVIOUS
  <1>. USE ConstAssumption DEF TypeOK, PlaceInv, LeaveInv, Leaving, hotplug, round,
     cells, Cells
  <1>1. CASE jailhouse_disable
    BY SMTT(30), <1>1 DEF jailhouse_disable, Idle
  <1>2. ASSUME NEW c \in CPU, CpuDown(c) PROVE LeaveInv'
    BY SMTT(30), <1>2 DEF CpuDown, Idle
  <1>3. ASSUME NEW c \in CPU, CpuUp(c) PROVE LeaveInv'
    BY SMTT(30), <1>3 DEF CpuUp, Idle
  <1>4. ASSUME NEW c \in CPU, CellCreate(c) PROVE LeaveInv'
    BY SMTT(30), <1>4 DEF CellCreate, Idle
  <1>5. ASSUME NEW c \in CPU, NEW up \in BOOLEAN, CellDestroy(c, up) PROVE LeaveInv'
    BY SMTT(30), <1>5 DEF CellDestroy, Idle
  <1>6. ASSUME NEW k \in CPU, CellStart(k) PROVE LeaveInv'
    BY SMTT(30), <1>6 DEF CellStart, Idle
  <1>7. ASSUME NEW c \in CPU, Lock(c) PROVE LeaveInv'
    BY SMTT(30), <1>7 DEF Lock
  <1>8. ASSUME NEW c \in CPU, FirstCaller(c) PROVE LeaveInv'
    BY SMTT(30), <1>8 DEF FirstCaller
  <1>9. ASSUME NEW c \in CPU, LaterCaller(c) PROVE LeaveInv'
    BY SMTT(30), <1>9 DEF LaterCaller
  <1>10. ASSUME NEW c \in CPU, NEW k \in CPU, AskAgrees(c, k) PROVE LeaveInv'
    BY SMTT(30), <1>10 DEF AskAgrees
  <1>11. ASSUME NEW c \in CPU, NEW k \in CPU, AskDenied(c, k) PROVE LeaveInv'
    BY SMTT(30), <1>11 DEF AskDenied
  <1>12. ASSUME NEW c \in CPU, CloseCells(c) PROVE LeaveInv'
    BY SMTT(30), <1>12 DEF CloseCells
  <1>13. ASSUME NEW c \in CPU, Refused(c) PROVE LeaveInv'
    BY SMTT(30), <1>13 DEF Refused
  <1>14. ASSUME NEW c \in CPU, Decide(c) PROVE LeaveInv'
    BY SMTT(30), <1>14 DEF Decide
  <1>15. ASSUME NEW c \in CPU, Fetch(c) PROVE LeaveInv'
    BY SMTT(30), <1>15 DEF Fetch
  <1>16. ASSUME NEW c \in CPU, vmx_cpu_deactivate_vmm(c) PROVE LeaveInv'
    BY SMTT(30), <1>16 DEF vmx_cpu_deactivate_vmm
  <1>17. ASSUME NEW c \in CPU, leave_hypervisor(c) PROVE LeaveInv'
    BY SMTT(30), <1>17 DEF leave_hypervisor
  <1>18. CASE DisableReturns
    BY SMTT(30), <1>18 DEF DisableReturns
  <1>19. CASE UNCHANGED vars
    BY <1>19 DEF vars
  <1>. HIDE DEF TypeOK, PlaceInv, LeaveInv
  <1>. QED
    BY Zenon, <1>1, <1>2, <1>3, <1>4, <1>5, <1>6, <1>7, <1>8, <1>9, <1>10, <1>11, <1>12,
       <1>13, <1>14, <1>15, <1>16, <1>17, <1>18, <1>19
     DEF Next, Linux, Shutdown

\* While Linux uses all CPUs of the root cell, the CPUs of a round see one decision.
LEMMA RoundStep ==
  TypeOK /\ TypeOK' /\ PlaceInv /\ LeaveInv /\ RoundInv /\ [Next]_vars => RoundInv'
  <1>. SUFFICES ASSUME TypeOK, TypeOK', PlaceInv, LeaveInv, RoundInv, [Next]_vars PROVE RoundInv'
    OBVIOUS
  <1>. USE ConstAssumption DEF TypeOK, PlaceInv, RoundInv, hotplug, round, cells, Cells
  <1>1. CASE jailhouse_disable
    BY Zenon, <1>1 DEF jailhouse_disable, Idle
  <1>2. ASSUME NEW c \in CPU, CpuDown(c) PROVE RoundInv'
    BY Zenon, <1>2 DEF CpuDown, Idle
  <1>3. ASSUME NEW c \in CPU, CpuUp(c) PROVE RoundInv'
    BY <1>3 DEF CpuUp, Idle
  <1>4. ASSUME NEW c \in CPU, CellCreate(c) PROVE RoundInv'
    BY Zenon, <1>4 DEF CellCreate, Idle
  <1>5. ASSUME NEW c \in CPU, NEW up \in BOOLEAN, CellDestroy(c, up) PROVE RoundInv'
    BY Zenon, <1>5 DEF CellDestroy, Idle
  <1>6. ASSUME NEW k \in CPU, CellStart(k) PROVE RoundInv'
    BY Zenon, <1>6 DEF CellStart, Idle
  <1>7. ASSUME NEW c \in CPU, Lock(c) PROVE RoundInv'
    BY SMTT(30), <1>7 DEF Lock
  <1>8. ASSUME NEW c \in CPU, FirstCaller(c) PROVE RoundInv'
    BY SMTT(30), <1>8 DEF FirstCaller
  <1>9. ASSUME NEW c \in CPU, LaterCaller(c) PROVE RoundInv'
    BY SMTT(30), <1>9 DEF LaterCaller
  <1>10. ASSUME NEW c \in CPU, NEW k \in CPU, AskAgrees(c, k) PROVE RoundInv'
    BY SMTT(30), <1>10 DEF AskAgrees
  <1>11. ASSUME NEW c \in CPU, NEW k \in CPU, AskDenied(c, k) PROVE RoundInv'
    BY SMTT(30), <1>11 DEF AskDenied
  <1>12. ASSUME NEW c \in CPU, CloseCells(c) PROVE RoundInv'
    BY SMTT(30), <1>12 DEF CloseCells
  <1>13. ASSUME NEW c \in CPU, Refused(c) PROVE RoundInv'
    BY SMTT(30), <1>13 DEF Refused
  <1>14. ASSUME NEW c \in CPU, Decide(c) PROVE RoundInv'
    BY SMTT(30), <1>14 DEF Decide, LeaveInv
  <1>15. ASSUME NEW c \in CPU, Fetch(c) PROVE RoundInv'
    BY SMTT(30), <1>15 DEF Fetch
  <1>16. ASSUME NEW c \in CPU, vmx_cpu_deactivate_vmm(c) PROVE RoundInv'
    BY SMTT(30), <1>16 DEF vmx_cpu_deactivate_vmm
  <1>17. ASSUME NEW c \in CPU, leave_hypervisor(c) PROVE RoundInv'
    BY SMTT(30), <1>17 DEF leave_hypervisor
  <1>18. CASE DisableReturns
    BY Zenon, <1>18, AllCounted DEF DisableReturns
  <1>19. CASE UNCHANGED vars
    BY Zenon, <1>19 DEF vars
  <1>. HIDE DEF TypeOK, PlaceInv, RoundInv
  <1>. QED
    BY Zenon, <1>1, <1>2, <1>3, <1>4, <1>5, <1>6, <1>7, <1>8, <1>9, <1>10, <1>11, <1>12,
       <1>13, <1>14, <1>15, <1>16, <1>17, <1>18, <1>19
     DEF Next, Linux, Shutdown

\* The initial state is one of the invariant.
LEMMA ShutdownInit == Init => TypeOK /\ PlaceInv /\ LeaveInv /\ RoundInv
  BY ConstAssumption
    DEF Init, TypeOK, PlaceInv, LeaveInv, Leaving, RoundInv, Cells

\* The invariant of shutdown(): one CPU decides at a time, nobody leaves before the
\* cells are closed, and a round has one decision if Linux uses all its CPUs.
LEMMA ShutdownInv == Spec => [](TypeOK /\ PlaceInv /\ LeaveInv /\ RoundInv)
  <1>1. TypeOK /\ PlaceInv /\ LeaveInv /\ RoundInv /\ [Next]_vars
          => (TypeOK /\ PlaceInv /\ LeaveInv /\ RoundInv)'
    BY Zenon, ShutdownTypeStep, PlaceStep, LeaveStep, RoundStep
  <1>. QED
    BY ShutdownInit, <1>1, PTL DEF Spec

\* A round of disable hypercalls is safe: nobody leaves the hypervisor before all
\* cells agreed and were closed and DMA remapping is off, a refusal changes nothing,
\* and no decision is left for the next round (shutdown, driver's leave_hypervisor).
THEOREM DisableIsSafe == Spec => []DisableSafe
  <1>1. ASSUME TypeOK, PlaceInv, LeaveInv, RoundInv PROVE DisableSafe
    <2>1. LeaveAfterClose
      BY Zenon, <1>1 DEF LeaveAfterClose, LeaveInv, Leaving
    <2>2. RefusalKeepsRunning
      BY Zenon, <1>1 DEF RefusalKeepsRunning, TypeOK, PlaceInv, LeaveInv, Leaving
    <2>3. NoStaleDecision
      BY Zenon, <1>1 DEF NoStaleDecision, TypeOK, RoundInv
    <2>. QED
      BY Zenon, <1>1, <2>1, <2>2, <2>3 DEF DisableSafe
  <1>. QED
    BY ShutdownInv, <1>1, PTL

\* The decision of a round is the one of the CPU that asked the cells.
LEMMA OneDecision ==
  ASSUME TypeOK, PlaceInv, RoundInv, ~unplugs, NEW v \in {"started", EPerm}, Decided(v)
  PROVE  v = state
  BY ConstAssumption DEF TypeOK, PlaceInv, RoundInv, Decided

\* A step that leaves the decisions where they are leaves the outcome alone.
LEMMA OutcomeFrame ==
  ASSUME UNCHANGED <<dpc, online, ret, shutdown_state, unplugs>>
  PROVE  Outcome' = Outcome
  BY Zenon DEF Outcome, Decided

\* Every step of the way out is one of the abstract switch, or invisible in it.
LEMMA AnswerStep ==
  ASSUME TypeOK, TypeOK', PlaceInv, PlaceInv', LeaveInv, RoundInv, RoundInv', ~unplugs,
         [Next]_vars
  PROVE  [Abstract!Next]_<<Outcome, World>>
  <1>. USE ConstAssumption DEF hotplug, round, cells
  <1>1. CASE jailhouse_disable
    <2>1. Outcome' = "open"
      BY <1>1 DEF jailhouse_disable, Idle, TypeOK, RoundInv, Outcome, Decided
    <2>2. \A d \in CPU : World[d] = "back"
      BY Zenon, <1>1 DEF jailhouse_disable, Idle, World
    <2>3. World' = [d \in CPU |-> IF d \in online THEN "in" ELSE "back"]
      BY Zenon, <1>1 DEF jailhouse_disable, World
    <2>4. online \in SUBSET CPU /\ online # {}
      BY Zenon DEF TypeOK, PlaceInv
    <2>5. Abstract!Call(online)
      BY Zenon, <2>1, <2>2, <2>3, <2>4 DEF Abstract!Call
    <2>. QED
      BY Zenon, <2>4, <2>5 DEF Abstract!Next
  <1>2. ASSUME NEW c \in CPU, CpuDown(c) PROVE [Abstract!Next]_<<Outcome, World>>
    <2>1. World' = World
      BY Zenon, <1>2 DEF World, CpuDown
    <2>2. Outcome' = Outcome
      BY Zenon, <1>2 DEF CpuDown, Idle, Outcome, Decided
    <2>. QED
      BY Zenon, <2>1, <2>2
  <1>3. ASSUME NEW c \in CPU, CpuUp(c) PROVE [Abstract!Next]_<<Outcome, World>>
    <2>1. World' = World
      BY Zenon, <1>3 DEF World, CpuUp
    <2>2. Outcome' = Outcome
      BY Zenon, <1>3 DEF CpuUp, Idle, Outcome, Decided
    <2>. QED
      BY Zenon, <2>1, <2>2
  <1>4. ASSUME NEW c \in CPU, CellCreate(c) PROVE [Abstract!Next]_<<Outcome, World>>
    <2>1. World' = World
      BY Zenon, <1>4 DEF World, CellCreate
    <2>2. Outcome' = Outcome
      BY Zenon, <1>4 DEF CellCreate, Idle, Outcome, Decided
    <2>. QED
      BY Zenon, <2>1, <2>2
  <1>5. ASSUME NEW c \in CPU, NEW up \in BOOLEAN, CellDestroy(c, up)
        PROVE  [Abstract!Next]_<<Outcome, World>>
    <2>1. World' = World
      BY Zenon, <1>5 DEF World, CellDestroy
    <2>2. Outcome' = Outcome
      BY Zenon, <1>5 DEF CellDestroy, Idle, Outcome, Decided
    <2>. QED
      BY Zenon, <2>1, <2>2
  <1>6. ASSUME NEW k \in CPU, CellStart(k) PROVE [Abstract!Next]_<<Outcome, World>>
    <2>1. World' = World
      BY Zenon, <1>6 DEF World, CellStart
    <2>2. Outcome' = Outcome
      BY Zenon, <1>6, OutcomeFrame DEF CellStart
    <2>. QED
      BY Zenon, <2>1, <2>2
  <1>7. ASSUME NEW c \in CPU, Lock(c) PROVE [Abstract!Next]_<<Outcome, World>>
    <2>1. World' = World
      BY <1>7 DEF World, Lock
    <2>2. Outcome' = Outcome
      BY Zenon, <1>7, OutcomeFrame DEF Lock
    <2>. QED
      BY Zenon, <2>1, <2>2
  <1>8. ASSUME NEW c \in CPU, FirstCaller(c)
        PROVE  [Abstract!Next]_<<Outcome, World>>
    <2>1. World' = World
      BY <1>8 DEF World, FirstCaller
    <2>2. Outcome' = Outcome
      BY Zenon, <1>8, OutcomeFrame DEF FirstCaller
    <2>. QED
      BY Zenon, <2>1, <2>2
  <1>9. ASSUME NEW c \in CPU, LaterCaller(c)
        PROVE  [Abstract!Next]_<<Outcome, World>>
    <2>1. World' = World
      BY <1>9 DEF World, LaterCaller
    <2>2. Outcome' = Outcome
      BY Zenon, <1>9, OutcomeFrame DEF LaterCaller
    <2>. QED
      BY Zenon, <2>1, <2>2
  <1>10. ASSUME NEW c \in CPU, NEW k \in CPU, AskAgrees(c, k)
         PROVE  [Abstract!Next]_<<Outcome, World>>
    <2>1. World' = World
      BY Zenon, <1>10 DEF World, AskAgrees
    <2>2. Outcome' = Outcome
      BY Zenon, <1>10, OutcomeFrame DEF AskAgrees
    <2>. QED
      BY Zenon, <2>1, <2>2
  <1>11. ASSUME NEW c \in CPU, NEW k \in CPU, AskDenied(c, k)
         PROVE  [Abstract!Next]_<<Outcome, World>>
    <2>1. World' = World
      BY Zenon, <1>11 DEF World, AskDenied
    <2>2. Outcome' = Outcome
      BY Zenon, <1>11, OutcomeFrame DEF AskDenied
    <2>. QED
      BY Zenon, <2>1, <2>2
  <1>12. ASSUME NEW c \in CPU, CloseCells(c)
         PROVE  [Abstract!Next]_<<Outcome, World>>
    <2>1. World' = World
      BY <1>12 DEF World, CloseCells
    <2>2. Outcome' = Outcome
      BY Zenon, <1>12, OutcomeFrame DEF CloseCells
    <2>. QED
      BY Zenon, <2>1, <2>2
  <1>13. ASSUME NEW c \in CPU, Refused(c) PROVE [Abstract!Next]_<<Outcome, World>>
    <2>1. World' = World
      BY <1>13 DEF World, Refused
    <2>2. Outcome' = Outcome
      BY Zenon, <1>13, OutcomeFrame DEF Refused
    <2>. QED
      BY Zenon, <2>1, <2>2
  <1>14. ASSUME NEW c \in CPU, Decide(c) PROVE [Abstract!Next]_<<Outcome, World>>
    <2>1. c \in online /\ c \in root_cpu_set /\ dpc = "calling"
      BY Zenon, <1>14 DEF Decide, PlaceInv
    <2>2. \A d \in CPU : shutdown_state[d] = "none" /\ ret[d] = "none"
      BY Zenon, <1>14, <2>1 DEF Decide, TypeOK, RoundInv
    <2>3. Outcome = "open"
      BY Zenon, <2>2 DEF Outcome, Decided
    <2>4. state \in {"started", EPerm}
      BY Zenon, <1>14 DEF Decide, TypeOK, LeaveInv
    <2>5. \A v \in {"started", EPerm} : Decided(v)' <=> v = state
      BY Zenon, <1>14, <2>1, <2>2, <2>4 DEF Decide, Decided
    <2>6. Outcome' \in {EPerm, "switch"}
      BY Zenon, <1>14, <2>4, <2>5 DEF Decide, Outcome
    <2>7. World' = World
      BY <1>14 DEF Decide, World
    <2>8. Abstract!Decide(Outcome')
      BY Zenon, <2>3, <2>7 DEF Abstract!Decide
    <2>. QED
      BY Zenon, <2>6, <2>8 DEF Abstract!Next
  <1>15. ASSUME NEW c \in CPU, Fetch(c) PROVE [Abstract!Next]_<<Outcome, World>>
    <2>1. World' = World
      BY Zenon, <1>15 DEF Fetch, TypeOK, World
    <2>2. c \in online /\ dpc = "calling"
      BY Zenon, <1>15 DEF Fetch, PlaceInv
    <2>3. ret[c] = "none"
      BY Zenon, <1>15, <2>2 DEF Fetch, TypeOK, RoundInv
    <2>4. ASSUME NEW v \in {"started", EPerm} PROVE Decided(v)' <=> Decided(v)
      BY <1>15, <2>2, <2>3 DEF Fetch, TypeOK, Decided
    <2>5. Outcome' = Outcome
      BY Zenon, <1>15, <2>4 DEF Fetch, Outcome
    <2>. QED
      BY Zenon, <2>1, <2>5
  <1>16. ASSUME NEW c \in CPU, vmx_cpu_deactivate_vmm(c)
         PROVE  [Abstract!Next]_<<Outcome, World>>
    <2>1. Decided("started")
      BY Zenon, <1>16 DEF vmx_cpu_deactivate_vmm, LeaveInv, Decided
    <2>2. ~Decided(EPerm)
      BY Zenon, <2>1, OneDecision
    <2>3. Outcome = "switch"
      BY Zenon, <2>1, <2>2 DEF Outcome
    <2>4. Outcome' = Outcome
      BY Zenon, <1>16, OutcomeFrame DEF vmx_cpu_deactivate_vmm
    <2>5. World[c] = "in" /\ World' = [World EXCEPT ![c] = "guest"]
      BY Zenon, <1>16 DEF vmx_cpu_deactivate_vmm, TypeOK, World
    <2>6. Abstract!Switch(c)
      BY Zenon, <2>3, <2>4, <2>5 DEF Abstract!Switch
    <2>. QED
      BY Zenon, <2>6 DEF Abstract!Next
  <1>17. ASSUME NEW c \in CPU, leave_hypervisor(c)
         PROVE  [Abstract!Next]_<<Outcome, World>>
    <2>1. Outcome' = Outcome
      BY Zenon, <1>17, OutcomeFrame DEF leave_hypervisor
    <2>2. CASE pc[c] = "native"
      BY <1>17, <2>1, <2>2 DEF leave_hypervisor, TypeOK, World
    <2>3. CASE pc[c] = "refused"
      <3>1. c \in online /\ dpc = "calling"
        BY Zenon, <2>3 DEF PlaceInv
      <3>2. ret[c] = EPerm
        BY Zenon, <2>3, <3>1 DEF TypeOK, PlaceInv, RoundInv
      <3>3. Outcome = EPerm
        BY Zenon, <3>2 DEF Outcome, Decided
      <3>4. World[c] = "in" /\ World' = [World EXCEPT ![c] = "back"]
        BY Zenon, <1>17, <2>3 DEF leave_hypervisor, TypeOK, World
      <3>5. Abstract!GiveUp(c)
        BY Zenon, <2>1, <3>3, <3>4 DEF Abstract!GiveUp
      <3>. QED
        BY Zenon, <3>5 DEF Abstract!Next
    <2>. QED
      BY Zenon, <1>17, <2>2, <2>3 DEF leave_hypervisor
  <1>18. CASE DisableReturns
    <2>1. World' = World
      BY Zenon, <1>18 DEF DisableReturns, World
    <2>2. PICK c \in online : pc[c] \in {"guest", "native"}
      BY Zenon, <1>18, AllCounted DEF DisableReturns, TypeOK, PlaceInv
    <2>3. state # "none" /\ \A d \in online : ret[d] = state
      BY ZenonT(30), <1>18, <2>2, AllCounted DEF DisableReturns, TypeOK, PlaceInv, RoundInv
    <2>4. ASSUME NEW v \in {"started", EPerm} PROVE Decided(v)' <=> Decided(v)
      BY Zenon, <1>18, <2>2, <2>3 DEF DisableReturns, TypeOK, Decided
    <2>5. Outcome' = Outcome
      BY Zenon, <1>18, <2>4 DEF DisableReturns, Outcome
    <2>. QED
      BY Zenon, <2>1, <2>5
  <1>19. CASE UNCHANGED vars
    BY Zenon, <1>19, OutcomeFrame DEF vars, World
  <1>. QED
    BY Zenon, <1>1, <1>2, <1>3, <1>4, <1>5, <1>6, <1>7, <1>8, <1>9, <1>10, <1>11, <1>12,
       <1>13, <1>14, <1>15, <1>16, <1>17, <1>18, <1>19
     DEF Next, Linux, Shutdown

\* As long as Linux uses all root cell CPUs, shutdown() gives every CPU of a round the
\* same answer, so that leave_hypervisor may take any of them for the result.
THEOREM ShutdownImplementsSwitch == Spec => SameAnswer
  <1>1. Init => Abstract!Init
    BY Zenon, ConstAssumption DEF Init, Abstract!Init, Outcome, Decided, World
  <1>2. ASSUME TypeOK, unplugs, [Next]_vars PROVE UNCHANGED <<Outcome, World>>
    <2>1. unplugs'
      BY Zenon, <1>2 DEF vars, hotplug, Next, Linux, Shutdown, jailhouse_disable, CpuDown,
         CpuUp, CellCreate, CellDestroy, CellStart, Lock, FirstCaller, LaterCaller,
         AskAgrees, AskDenied, CloseCells, Refused, Decide, Fetch,
         vmx_cpu_deactivate_vmm, leave_hypervisor, DisableReturns
    <2>. QED
      BY Zenon, <1>2, <2>1 DEF Outcome, World
  <1>3. /\ TypeOK /\ PlaceInv /\ LeaveInv /\ RoundInv
        /\ (TypeOK /\ PlaceInv /\ LeaveInv /\ RoundInv)'
        /\ [Next]_vars
        => [Abstract!Next]_<<Outcome, World>>
    BY Zenon, <1>2, AnswerStep
  <1>. QED
    BY <1>1, <1>3, ShutdownInv, PTL DEF Spec, SameAnswer, Abstract!Spec

-----------------------------------------------------------------------------
(* apic_clear leaves no interrupt of the old guest behind.                 *)

\* The states apic_clear goes through.  A local source that is enabled is one that
\* is still to be masked.  In the window nothing is in service, and the priority
\* is raised only when the limit was exceeded.  An interrupt of the old guest that
\* was not taken is still pending.
ClearInv ==
  /\ irr \subseteq Vectors /\ before \subseteq irr
  /\ unmasked \subseteq Lvts
  /\ num_clear_apic_irqs \in Nat
  /\ apc \in {"guest", "mask", "ack", "window"}
  /\ apc = "guest" => before = {}
  /\ apc = "mask" => unmasked \subseteq lvtLeft
  /\ apc \in {"ack", "window"} => unmasked = {}
  /\ apc = "window" => isr = {} /\ (tpr = 0 \/ num_clear_apic_irqs > MAX_IRQS)

\* The CPU starts in its guest, with nothing pending and no local source enabled.
LEMMA ClearInvInit == ClearInit => ClearInv
  BY DEF ClearInit, ClearInv

\* Interrupts that arrive only add to the pending ones.
LEMMA RaiseKeeps ==
  ASSUME ClearInv, NEW v \in Vectors, Raise(v)
  PROVE  ClearInv'
  BY Zenon DEF ClearInv, Raise, Lvts, HasLvt

\* What the guest does to its APIC is of no concern as long as it runs.
LEMMA GuestKeeps ==
  ASSUME ClearInv, GuestStep
  PROVE  ClearInv'
<1>1. apc = "guest" /\ before = {} /\ apc' = "guest" /\ before' = {}
  BY Zenon DEF ClearInv, GuestStep
<1>2. irr' \subseteq Vectors /\ num_clear_apic_irqs' \in Nat
  BY Zenon DEF ClearInv, GuestStep
<1>3. Lvts' = Lvts
  BY Zenon DEF GuestStep, Lvts, HasLvt
<1>4. unmasked' \subseteq Lvts
  BY Zenon DEF ClearInv, GuestStep
<1> QED BY <1>1, <1>2, <1>3, <1>4 DEF ClearInv

\* Each step of apic_clear, one by one.
LEMMA ClearStepKeeps ==
  ASSUME ClearInv, ClearStep
  PROVE  ClearInv'
<1> USE DEF ClearInv
<1>1. ASSUME NEW l \in DOMAIN LvtVector, apic_mask_lvt(l) PROVE ClearInv'
  <2>1. Lvts' = Lvts
    BY Zenon, <1>1 DEF apic_mask_lvt, Lvts, HasLvt
  <2>2. unmasked' \subseteq lvtLeft'
    BY Zenon, <1>1 DEF apic_mask_lvt
  <2> QED BY <1>1, <2>1, <2>2 DEF apic_mask_lvt
<1>2. CASE AckInService
  BY Zenon, <1>2 DEF AckInService, Lvts, HasLvt
<1>3. CASE OpenWindow
  BY Zenon, <1>3 DEF OpenWindow, Lvts, HasLvt
<1>4. CASE apic_irq_handler
  <2>1. num_clear_apic_irqs' \in Nat
        /\ (num_clear_apic_irqs > MAX_IRQS => num_clear_apic_irqs' > MAX_IRQS)
    BY <1>4, ClearAssumption DEF apic_irq_handler
  <2>2. tpr' = 0 \/ num_clear_apic_irqs' > MAX_IRQS
    BY Zenon, <1>4, <2>1 DEF apic_irq_handler
  <2>3. irr' \subseteq Vectors /\ before' \subseteq irr'
    BY Zenon, <1>4 DEF apic_irq_handler
  <2>4. Lvts' = Lvts
    BY Zenon, <1>4 DEF apic_irq_handler, Lvts, HasLvt
  <2> QED BY <1>4, <2>1, <2>2, <2>3, <2>4 DEF apic_irq_handler
<1>5. CASE CloseWindow
  BY Zenon, <1>5 DEF CloseWindow, Lvts, HasLvt
<1> QED BY <1>1, <1>2, <1>3, <1>4, <1>5 DEF ClearStep

\* ClearInv is inductive.
LEMMA ClearInvStep == ClearInv /\ [ClearNext]_clearVars => ClearInv'
<1> SUFFICES ASSUME ClearInv, [ClearNext]_clearVars PROVE ClearInv'
  OBVIOUS
<1>1. ASSUME NEW v \in Vectors, Raise(v) PROVE ClearInv'
  BY Zenon, <1>1, RaiseKeeps
<1>2. ASSUME NEW l \in DOMAIN LvtVector, LvtRaise(l) PROVE ClearInv'
  BY Zenon, <1>2, RaiseKeeps, ClearAssumption DEF LvtRaise
<1>3. CASE GuestStep
  BY Zenon, <1>3, GuestKeeps
<1>4. CASE apic_clear
  BY Zenon, <1>4 DEF ClearInv, apic_clear, Lvts, HasLvt
<1>5. CASE ClearStep
  BY Zenon, <1>5, ClearStepKeeps
<1>6. CASE UNCHANGED clearVars
  BY Zenon, <1>6 DEF ClearInv, clearVars, Lvts, HasLvt
<1> QED BY <1>1, <1>2, <1>3, <1>4, <1>5, <1>6 DEF ClearNext

\* With the priority at 0 and nothing in service every pending vector is delivered.
LEMMA ClearInvSafe == ClearInv => NoOldInterrupt
<1> SUFFICES ASSUME ClearInv, apc = "window", Deliverable = {}
             PROVE  /\ isr = {} /\ unmasked = {}
                    /\ before = {} \/ num_clear_apic_irqs > MAX_IRQS
  BY Zenon DEF NoOldInterrupt
<1>1. isr = {} /\ unmasked = {}
  BY Zenon DEF ClearInv
<1>2. CASE tpr = 0
  <2>1. \A v \in irr : v > tpr
    BY <1>2, ClearAssumption DEF ClearInv, Vectors
  <2>2. irr = {}
    BY Zenon, <1>1, <2>1 DEF Deliverable
  <2> QED BY <1>1, <2>2 DEF ClearInv
<1> QED BY <1>1, <1>2 DEF ClearInv

\* Whatever devices, other CPUs and the old guest did, apic_clear ends with no
\* interrupt in service, no local source enabled and none of the old interrupts
\* pending, unless the limit of apic_irq_handler was exceeded.
THEOREM OldInterruptsGone == ClearSpec => []NoOldInterrupt
<1>1. ClearInit => ClearInv
  BY Zenon, ClearInvInit
<1>2. ClearInv /\ [ClearNext]_clearVars => ClearInv'
  BY Zenon, ClearInvStep
<1>3. ClearInv => NoOldInterrupt
  BY Zenon, ClearInvSafe
<1> QED BY <1>1, <1>2, <1>3, PTL DEF ClearSpec

===============================================================================
