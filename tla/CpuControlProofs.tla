-------------------------- MODULE CpuControlProofs --------------------------
(***************************************************************************)
(* Proofs about CpuControl, for any number of CPUs and cells.  Every       *)
(* invariance proof has one case per action of Next; the strengthenings    *)
(* are defined in CpuControl.  First the handshake of suspended CPUs and   *)
(* the CPUs that failed.  Then that CPU sets and cell pointers agree:      *)
(* PartitionInv describes how far cell_create or cell_destroy_internal has *)
(* got with moving the CPUs of its cell (Pending: those still to be        *)
(* moved).  Then that guests are confined to their cells, that a cell      *)
(* whose CPUs have all failed is reported, and that no guest runs on stale *)
(* translations.                                                           *)
(***************************************************************************)
EXTENDS CpuControl, TLAPS

(***************************************************************************)
(* Type correctness.                                                       *)
(***************************************************************************)
\* The state the hypervisor starts in is well typed.
LEMMA TypeInit == Init => TypeOK
  BY ConstAssumption DEF Init, TypeOK, CpuTypeOK, ProcessorTypeOK,
     CellTypeOK, CallTypeOK, AllCells, PCs, ManagerPCs, Vectors, Ops,
     Phases, States

\* No step of a CPU or of a hypercall leaves the types of the fields.
LEMMA TypeStep == TypeOK /\ [Next]_vars => TypeOK'
  <1>. SUFFICES ASSUME TypeOK, [Next]_vars PROVE TypeOK'
    OBVIOUS
  <1>. USE ConstAssumption DEF TypeOK, CpuTypeOK, ProcessorTypeOK,
     CellTypeOK, CallTypeOK, AllCells, PCs, ManagerPCs, Vectors, Ops,
     Phases, States, local, stop, initsipi, marks, control, kick, tables,
     virt, cells, call, loop, manager
  <1>1. CASE \E c \in CPU : VmExit(c)
    BY <1>1 DEF VmExit
  <1>2. CASE \E c \in CPU : VmEntry(c)
    BY <1>2 DEF VmEntry
  <1>3. CASE \E c \in CPU : SendNmi(c)
    BY <1>3 DEF SendNmi
  <1>4. CASE \E c \in CPU : PanicHalt(c)
    BY <1>4 DEF PanicHalt
  <1>5. CASE \E c \in CPU : PanicPark(c)
    BY <1>5 DEF PanicPark
  <1>6. CASE \E c \in CPU : NmiExit(c)
    BY <1>6 DEF NmiExit
  <1>7. CASE \E c \in CPU : TimerExit(c)
    BY <1>7 DEF TimerExit
  <1>8. CASE \E c \in CPU : NmiInHypervisor(c)
    BY <1>8 DEF NmiInHypervisor
  <1>9. CASE \E c \in CPU : DisableTimer(c)
    BY <1>9 DEF DisableTimer
  <1>10. CASE \E c \in CPU : EventsLock(c)
    BY <1>10 DEF EventsLock
  <1>11. CASE \E c \in CPU : EventsInit(c)
    BY <1>11 DEF EventsInit
  <1>12. CASE \E c \in CPU : EventsStop(c)
    BY <1>12 DEF EventsStop
  <1>13. CASE \E c \in CPU : EventsSpin(c)
    BY <1>13 DEF EventsSpin
  <1>14. CASE \E c \in CPU : EventsWake(c)
    <2>1. PICK c \in CPU : EventsWake(c)
      BY Zenon, <1>14
    <2>2. CASE sipi_vector[c] # "none" /\ ~failed[c]
      BY ZenonT(30), <2>1, <2>2 DEF EventsWake
    <2>3. CASE ~(sipi_vector[c] # "none" /\ ~failed[c])
      BY <2>1, <2>3 DEF EventsWake
    <2>. QED
      BY Zenon, <2>2, <2>3
  <1>15. CASE \E c \in CPU : EventsFlush(c)
    BY <1>15 DEF EventsFlush, vmx_invept
  <1>16. CASE \E c \in CPU : EventsReload(c)
    BY <1>16 DEF EventsReload
  <1>17. CASE \E c \in CPU : EventsReturn(c)
    BY <1>17 DEF EventsReturn
  <1>18. CASE \E c \in CPU : LeaveHypervisor(c)
    BY <1>18 DEF LeaveHypervisor
  <1>19. CASE \E c \in CPU : SuspendLock(c)
    BY <1>19 DEF SuspendLock, Stopped
  <1>20. CASE \E c \in CPU : AssignPark(c)
    BY <1>20 DEF AssignPark, arch_park_cpu, arch_resume_cpu, Loop
  <1>21. CASE \E c \in CPU : UnassignPark(c)
    BY <1>21 DEF UnassignPark, arch_park_cpu, arch_resume_cpu, Loop
  <1>22. CASE \E c \in CPU : ResetCpu(c)
    BY <1>22 DEF ResetCpu, arch_reset_cpu, arch_resume_cpu
  <1>23. CASE \E c \in CPU : ParkCpu(c)
    BY <1>23 DEF ParkCpu, arch_park_cpu, arch_resume_cpu
  <1>24. CASE \E c \in CPU : ResumeCpu(c)
    BY <1>24 DEF ResumeCpu, arch_resume_cpu
  <1>25. CASE \E c \in CPU, t \in IpiTargets : SendInit(c, t)
    BY <1>25 DEF SendInit
  <1>26. CASE \E c \in CPU, t \in IpiTargets : SendSipi(c, t)
    BY <1>26 DEF SendSipi
  <1>27. CASE \E c \in CPU, o \in Ops, k \in AllCells : Hypercall(c, o, k)
    BY <1>27 DEF Hypercall, Loop
  <1>28. CASE SuspendNmi
    BY Zenon, <1>28 DEF SuspendNmi
  <1>29. CASE SuspendWait
    BY <1>29 DEF SuspendWait, Stopped
  <1>30. CASE RefuseRequest
    BY Zenon, <1>30 DEF RefuseRequest, Loop, Others
  <1>31. CASE AcceptCreate
    BY Zenon, <1>31 DEF AcceptCreate, Loop
  <1>32. CASE AcceptManage
    BY Zenon, <1>32 DEF AcceptManage, Loop
  <1>33. CASE AssignCell
    BY Zenon, <1>33 DEF AssignCell
  <1>34. CASE MapCell
    BY Zenon, <1>34 DEF MapCell, Loop, Unmap
  <1>35. CASE CommitCreate
    BY Zenon, <1>35 DEF CommitCreate, Loop, Others, arch_config_commit, vmx_invept
  <1>36. CASE StartDestroy
    BY Zenon, <1>36 DEF StartDestroy, Loop
  <1>37. CASE UnassignCell
    BY <1>37 DEF UnassignCell
  <1>38. CASE UnmapCell
    BY Zenon, <1>38 DEF UnmapCell, Unmap
  <1>39. CASE CommitDestroy
    BY Zenon, <1>39 DEF CommitDestroy, Loop, Others, arch_config_commit, vmx_invept
  <1>40. CASE StartUnmap
    BY <1>40 DEF StartUnmap, Loop, Others, Unmap
  <1>41. CASE CommitStart
    BY Zenon, <1>41 DEF CommitStart, arch_config_commit, vmx_invept
  <1>42. CASE StartRun
    BY Zenon, <1>42 DEF StartRun, Loop
  <1>43. CASE StartDone
    BY Zenon, <1>43 DEF StartDone, Loop, Others
  <1>44. CASE SetLoadable
    BY Zenon, <1>44 DEF SetLoadable, Loop
  <1>45. CASE ParkDone
    <2>1. ParkDone
      BY Zenon, <1>45
    <2>2. CASE loadable[mcell]
      BY <2>1, <2>2 DEF ParkDone, Loop, Others
    <2>3. CASE ~(loadable[mcell])
      BY ZenonT(30), <2>1, <2>3 DEF ParkDone, Loop, Others
    <2>. QED
      BY Zenon, <2>2, <2>3
  <1>46. CASE CommitLoadable
    BY Zenon, <1>46 DEF CommitLoadable, Loop, Others, arch_config_commit, vmx_invept
  <1>47. CASE Return
    BY Zenon, <1>47 DEF Return
  <1>48. CASE CloseCell
    BY Zenon, <1>48 DEF CloseCell, Loop
  <1>49. CASE arch_shutdown_cpu
    BY Zenon, <1>49 DEF arch_shutdown_cpu, arch_resume_cpu
  <1>50. CASE CellClosed
    BY Zenon, <1>50 DEF CellClosed
  <1>51. CASE ShutdownDone
    BY Zenon, <1>51 DEF ShutdownDone
  <1>52. CASE \E k \in Cell : ShutdownCell(k)
    BY SMTT(30), <1>52 DEF ShutdownCell, Loop
  <1>53. CASE UNCHANGED vars
    BY <1>53 DEF vars
  <1>. QED
    BY Zenon, <1>1, <1>2, <1>3, <1>4, <1>5, <1>6, <1>7, <1>8, <1>9, <1>10, <1>11,
       <1>12, <1>13, <1>14, <1>15, <1>16, <1>17, <1>18, <1>19, <1>20, <1>21,
       <1>22, <1>23, <1>24, <1>25, <1>26, <1>27, <1>28, <1>29, <1>30, <1>31,
       <1>32, <1>33, <1>34, <1>35, <1>36, <1>37, <1>38, <1>39, <1>40, <1>41,
       <1>42, <1>43, <1>44, <1>45, <1>46, <1>47, <1>48, <1>49, <1>50, <1>51,
       <1>52, <1>53 DEF Next, GuestStep, HandlerStep, NmiStep, LoopStep,
       ManagerStep

\* All fields of struct per_cpu and struct cell keep their types.
THEOREM TypeCorrect == Spec => []TypeOK
  <1>1. Init => TypeOK
    BY Zenon, TypeInit
  <1>2. TypeOK /\ [Next]_vars => TypeOK'
    BY Zenon, TypeStep
  <1>. QED
    BY <1>1, <1>2, PTL DEF Spec

(***************************************************************************)
(* The stop handshake. Under PromptResume a CPU that acknowledged a stop   *)
(* request is in the stop loop, and the request that keeps it there is     *)
(* only taken back by the hypercall that made it.                          *)
(***************************************************************************)
\* No step breaks the handshake between arch_suspend_cpu and the event loop.
LEMMA HandshakeStep ==
  ASSUME PromptResume, TypeOK, TypeOK', HandshakeInv, [Next]_vars
  PROVE  HandshakeInv'
  <1>. USE DEF TypeOK, CpuTypeOK, CallTypeOK, HandshakeInv, CallerInv,
     local, stop, initsipi, marks, control, kick, tables, virt, cells, call,
     loop, manager
  <1>1. CASE \E c \in CPU : VmExit(c)
    BY <1>1 DEF VmExit
  <1>2. CASE \E c \in CPU : VmEntry(c)
    BY <1>2 DEF VmEntry
  <1>3. CASE \E c \in CPU : SendNmi(c)
    BY <1>3 DEF SendNmi
  <1>4. CASE \E c \in CPU : PanicHalt(c)
    BY <1>4 DEF PanicHalt
  <1>5. CASE \E c \in CPU : PanicPark(c)
    BY <1>5 DEF PanicPark
  <1>6. CASE \E c \in CPU : NmiExit(c)
    BY <1>6 DEF NmiExit
  <1>7. CASE \E c \in CPU : TimerExit(c)
    BY <1>7 DEF TimerExit
  <1>8. CASE \E c \in CPU : NmiInHypervisor(c)
    BY <1>8 DEF NmiInHypervisor
  <1>9. CASE \E c \in CPU : DisableTimer(c)
    BY <1>9 DEF DisableTimer
  <1>10. CASE \E c \in CPU : EventsLock(c)
    BY <1>10 DEF EventsLock
  <1>11. CASE \E c \in CPU : EventsInit(c)
    BY <1>11 DEF EventsInit
  <1>12. CASE \E c \in CPU : EventsStop(c)
    BY <1>12 DEF EventsStop
  <1>13. CASE \E c \in CPU : EventsSpin(c)
    BY <1>13 DEF EventsSpin
  <1>14. CASE \E c \in CPU : EventsWake(c)
    BY <1>14 DEF EventsWake
  <1>15. CASE \E c \in CPU : EventsFlush(c)
    BY <1>15 DEF EventsFlush
  <1>16. CASE \E c \in CPU : EventsReload(c)
    BY <1>16 DEF EventsReload
  <1>17. CASE \E c \in CPU : EventsReturn(c)
    BY <1>17 DEF EventsReturn
  <1>18. CASE \E c \in CPU : LeaveHypervisor(c)
    BY <1>18 DEF LeaveHypervisor
  <1>19. CASE \E c \in CPU : SuspendLock(c)
    BY <1>19 DEF SuspendLock, Stopped
  <1>20. CASE \E c \in CPU : AssignPark(c)
    BY <1>20 DEF AssignPark, arch_park_cpu, arch_resume_cpu, Loop
  <1>21. CASE \E c \in CPU : UnassignPark(c)
    BY <1>21 DEF UnassignPark, arch_park_cpu, arch_resume_cpu, Loop
  <1>22. CASE \E c \in CPU : ResetCpu(c)
    BY <1>22 DEF ResetCpu, arch_reset_cpu, arch_resume_cpu
  <1>23. CASE \E c \in CPU : ParkCpu(c)
    BY <1>23 DEF ParkCpu, arch_park_cpu, arch_resume_cpu
  <1>24. CASE \E c \in CPU : ResumeCpu(c)
    BY SMTT(30), <1>24 DEF ResumeCpu, arch_resume_cpu
  <1>25. CASE \E c \in CPU, t \in IpiTargets : SendInit(c, t)
    BY <1>25 DEF SendInit
  <1>26. CASE \E c \in CPU, t \in IpiTargets : SendSipi(c, t)
    BY <1>26 DEF SendSipi
  <1>27. CASE \E c \in CPU, o \in Ops, k \in AllCells : Hypercall(c, o, k)
    BY <1>27 DEF Hypercall, Loop
  <1>28. CASE SuspendNmi
    BY Zenon, <1>28 DEF SuspendNmi
  <1>29. CASE SuspendWait
    BY <1>29 DEF SuspendWait, Stopped
  <1>30. CASE RefuseRequest
    BY Zenon, <1>30 DEF RefuseRequest, Loop, Others
  <1>31. CASE AcceptCreate
    BY Zenon, <1>31 DEF AcceptCreate, Loop
  <1>32. CASE AcceptManage
    BY Zenon, <1>32 DEF AcceptManage, Loop
  <1>33. CASE AssignCell
    BY Zenon, <1>33 DEF AssignCell
  <1>34. CASE MapCell
    BY Zenon, <1>34 DEF MapCell, Loop, Unmap
  <1>35. CASE CommitCreate
    BY Zenon, <1>35 DEF CommitCreate, Loop, Others, arch_config_commit
  <1>36. CASE StartDestroy
    BY Zenon, <1>36 DEF StartDestroy, Loop
  <1>37. CASE UnassignCell
    BY Zenon, <1>37 DEF UnassignCell
  <1>38. CASE UnmapCell
    BY Zenon, <1>38 DEF UnmapCell, Unmap
  <1>39. CASE CommitDestroy
    BY Zenon, <1>39 DEF CommitDestroy, Loop, Others, arch_config_commit
  <1>40. CASE StartUnmap
    BY Zenon, <1>40 DEF StartUnmap, Loop, Others, Unmap
  <1>41. CASE CommitStart
    BY Zenon, <1>41 DEF CommitStart, arch_config_commit
  <1>42. CASE StartRun
    BY Zenon, <1>42 DEF StartRun, Loop
  <1>43. CASE StartDone
    BY Zenon, <1>43 DEF StartDone, Loop, Others
  <1>44. CASE SetLoadable
    BY Zenon, <1>44 DEF SetLoadable, Loop
  <1>45. CASE ParkDone
    BY Zenon, <1>45 DEF ParkDone, Loop, Others
  <1>46. CASE CommitLoadable
    BY Zenon, <1>46 DEF CommitLoadable, Loop, Others, arch_config_commit
  <1>47. CASE Return
    BY <1>47 DEF Return
  <1>48. CASE CloseCell
    BY Zenon, <1>48 DEF CloseCell, Loop
  <1>49. CASE arch_shutdown_cpu
    BY <1>49 DEF arch_shutdown_cpu, arch_resume_cpu
  <1>50. CASE CellClosed
    BY Zenon, <1>50 DEF CellClosed
  <1>51. CASE ShutdownDone
    BY SMTT(30), <1>51 DEF ShutdownDone
  <1>52. CASE \E k \in Cell : ShutdownCell(k)
    BY SMTT(30), <1>52 DEF ShutdownCell, Loop
  <1>53. CASE UNCHANGED vars
    BY <1>53 DEF vars
  <1>. QED
    BY ZenonT(30), <1>1, <1>2, <1>3, <1>4, <1>5, <1>6, <1>7, <1>8, <1>9, <1>10, <1>11,
       <1>12, <1>13, <1>14, <1>15, <1>16, <1>17, <1>18, <1>19, <1>20, <1>21,
       <1>22, <1>23, <1>24, <1>25, <1>26, <1>27, <1>28, <1>29, <1>30, <1>31,
       <1>32, <1>33, <1>34, <1>35, <1>36, <1>37, <1>38, <1>39, <1>40, <1>41,
       <1>42, <1>43, <1>44, <1>45, <1>46, <1>47, <1>48, <1>49, <1>50, <1>51,
       <1>52, <1>53 DEF Next, GuestStep, HandlerStep, NmiStep, LoopStep,
       ManagerStep

\* Once arch_suspend_cpu has returned, its target stays in the stop loop
\* until the hypercall lets it go.
THEOREM SuspendIsEffective == PromptResume => (Spec => []HeldStopped)
  <1>. SUFFICES ASSUME PromptResume PROVE Spec => []HeldStopped
    OBVIOUS
  <1>1. Init => HandshakeInv
    BY Zenon, ConstAssumption DEF Init, HandshakeInv, CallerInv
  <1>2. TypeOK /\ TypeOK' /\ HandshakeInv /\ [Next]_vars => HandshakeInv'
    BY Zenon, HandshakeStep
  <1>3. TypeOK /\ HandshakeInv => HeldStopped
    BY Zenon DEF TypeOK, CpuTypeOK, CallTypeOK, HandshakeInv, CallerInv, HeldStopped
  <1>. QED
    BY <1>1, <1>2, <1>3, TypeCorrect, PTL DEF Spec

\* A CPU that arch_shutdown_cpu released never runs a guest again.
THEOREM ReleasedStaysOff == PromptResume => (Spec => []ReleasedNeverRuns)
  <1>. SUFFICES ASSUME PromptResume PROVE Spec => []ReleasedNeverRuns
    OBVIOUS
  <1>1. Init => HandshakeInv
    BY Zenon, ConstAssumption DEF Init, HandshakeInv, CallerInv
  <1>2. TypeOK /\ TypeOK' /\ HandshakeInv /\ [Next]_vars => HandshakeInv'
    BY Zenon, HandshakeStep
  <1>3. HandshakeInv => ReleasedNeverRuns
    BY Zenon DEF HandshakeInv, ReleasedNeverRuns
  <1>. QED
    BY <1>1, <1>2, <1>3, TypeCorrect, PTL DEF Spec

(***************************************************************************)
(* Failed CPUs. No timing assumption is needed: the event loop tests       *)
(* failed itself.                                                          *)
(***************************************************************************)
\* No step lets a failed CPU out of wait-for-SIPI.
LEMMA FailedStep ==
  ASSUME TypeOK, TypeOK', FailedInv, [Next]_vars
  PROVE  FailedInv'
  <1>. USE DEF TypeOK, CpuTypeOK, CallTypeOK, FailedInv, CallerInv, local,
     stop, initsipi, marks, control, kick, tables, virt, cells, call, loop,
     manager
  <1>1. CASE \E c \in CPU : VmExit(c)
    BY <1>1 DEF VmExit
  <1>2. CASE \E c \in CPU : VmEntry(c)
    BY <1>2 DEF VmEntry
  <1>3. CASE \E c \in CPU : SendNmi(c)
    BY <1>3 DEF SendNmi
  <1>4. CASE \E c \in CPU : PanicHalt(c)
    BY <1>4 DEF PanicHalt
  <1>5. CASE \E c \in CPU : PanicPark(c)
    BY <1>5 DEF PanicPark
  <1>6. CASE \E c \in CPU : NmiExit(c)
    BY <1>6 DEF NmiExit
  <1>7. CASE \E c \in CPU : TimerExit(c)
    BY SMTT(30), <1>7 DEF TimerExit
  <1>8. CASE \E c \in CPU : NmiInHypervisor(c)
    BY <1>8 DEF NmiInHypervisor
  <1>9. CASE \E c \in CPU : DisableTimer(c)
    BY <1>9 DEF DisableTimer
  <1>10. CASE \E c \in CPU : EventsLock(c)
    BY <1>10 DEF EventsLock
  <1>11. CASE \E c \in CPU : EventsInit(c)
    BY <1>11 DEF EventsInit
  <1>12. CASE \E c \in CPU : EventsStop(c)
    BY <1>12 DEF EventsStop
  <1>13. CASE \E c \in CPU : EventsSpin(c)
    BY SMTT(30), <1>13 DEF EventsSpin
  <1>14. CASE \E c \in CPU : EventsWake(c)
    BY SMTT(30), <1>14 DEF EventsWake
  <1>15. CASE \E c \in CPU : EventsFlush(c)
    BY SMTT(30), <1>15 DEF EventsFlush
  <1>16. CASE \E c \in CPU : EventsReload(c)
    BY SMTT(30), <1>16 DEF EventsReload
  <1>17. CASE \E c \in CPU : EventsReturn(c)
    BY <1>17 DEF EventsReturn
  <1>18. CASE \E c \in CPU : LeaveHypervisor(c)
    BY <1>18 DEF LeaveHypervisor
  <1>19. CASE \E c \in CPU : SuspendLock(c)
    BY Zenon, <1>19 DEF SuspendLock, Stopped
  <1>20. CASE \E c \in CPU : AssignPark(c)
    BY Zenon, <1>20 DEF AssignPark, arch_park_cpu, arch_resume_cpu, Loop
  <1>21. CASE \E c \in CPU : UnassignPark(c)
    BY Zenon, <1>21 DEF UnassignPark, arch_park_cpu, arch_resume_cpu, Loop
  <1>22. CASE \E c \in CPU : ResetCpu(c)
    BY SMTT(30), <1>22 DEF ResetCpu, arch_reset_cpu, arch_resume_cpu
  <1>23. CASE \E c \in CPU : ParkCpu(c)
    BY <1>23 DEF ParkCpu, arch_park_cpu, arch_resume_cpu
  <1>24. CASE \E c \in CPU : ResumeCpu(c)
    BY Zenon, <1>24 DEF ResumeCpu, arch_resume_cpu
  <1>25. CASE \E c \in CPU, t \in IpiTargets : SendInit(c, t)
    BY SMTT(30), <1>25 DEF SendInit
  <1>26. CASE \E c \in CPU, t \in IpiTargets : SendSipi(c, t)
    BY <1>26 DEF SendSipi
  <1>27. CASE \E c \in CPU, o \in Ops, k \in AllCells : Hypercall(c, o, k)
    BY <1>27 DEF Hypercall, Loop
  <1>28. CASE SuspendNmi
    BY Zenon, <1>28 DEF SuspendNmi
  <1>29. CASE SuspendWait
    BY Zenon, <1>29 DEF SuspendWait, Stopped
  <1>30. CASE RefuseRequest
    BY Zenon, <1>30 DEF RefuseRequest, Loop, Others
  <1>31. CASE AcceptCreate
    BY Zenon, <1>31 DEF AcceptCreate, Loop
  <1>32. CASE AcceptManage
    BY Zenon, <1>32 DEF AcceptManage, Loop
  <1>33. CASE AssignCell
    BY Zenon, <1>33 DEF AssignCell
  <1>34. CASE MapCell
    BY Zenon, <1>34 DEF MapCell, Loop, Unmap
  <1>35. CASE CommitCreate
    BY Zenon, <1>35 DEF CommitCreate, Loop, Others, arch_config_commit
  <1>36. CASE StartDestroy
    BY Zenon, <1>36 DEF StartDestroy, Loop
  <1>37. CASE UnassignCell
    BY Zenon, <1>37 DEF UnassignCell
  <1>38. CASE UnmapCell
    BY Zenon, <1>38 DEF UnmapCell, Unmap
  <1>39. CASE CommitDestroy
    BY Zenon, <1>39 DEF CommitDestroy, Loop, Others, arch_config_commit
  <1>40. CASE StartUnmap
    BY Zenon, <1>40 DEF StartUnmap, Loop, Others, Unmap
  <1>41. CASE CommitStart
    BY Zenon, <1>41 DEF CommitStart, arch_config_commit
  <1>42. CASE StartRun
    BY Zenon, <1>42 DEF StartRun, Loop
  <1>43. CASE StartDone
    BY Zenon, <1>43 DEF StartDone, Loop, Others
  <1>44. CASE SetLoadable
    BY Zenon, <1>44 DEF SetLoadable, Loop
  <1>45. CASE ParkDone
    BY Zenon, <1>45 DEF ParkDone, Loop, Others
  <1>46. CASE CommitLoadable
    BY Zenon, <1>46 DEF CommitLoadable, Loop, Others, arch_config_commit
  <1>47. CASE Return
    BY Zenon, <1>47 DEF Return
  <1>48. CASE CloseCell
    BY Zenon, <1>48 DEF CloseCell, Loop
  <1>49. CASE arch_shutdown_cpu
    BY Zenon, <1>49 DEF arch_shutdown_cpu, arch_resume_cpu
  <1>50. CASE CellClosed
    BY Zenon, <1>50 DEF CellClosed
  <1>51. CASE ShutdownDone
    BY Zenon, <1>51 DEF ShutdownDone
  <1>52. CASE \E k \in Cell : ShutdownCell(k)
    BY Zenon, <1>52 DEF ShutdownCell, Loop
  <1>53. CASE UNCHANGED vars
    BY Zenon, <1>53 DEF vars
  <1>. QED
    BY Zenon, <1>1, <1>2, <1>3, <1>4, <1>5, <1>6, <1>7, <1>8, <1>9, <1>10, <1>11,
       <1>12, <1>13, <1>14, <1>15, <1>16, <1>17, <1>18, <1>19, <1>20, <1>21,
       <1>22, <1>23, <1>24, <1>25, <1>26, <1>27, <1>28, <1>29, <1>30, <1>31,
       <1>32, <1>33, <1>34, <1>35, <1>36, <1>37, <1>38, <1>39, <1>40, <1>41,
       <1>42, <1>43, <1>44, <1>45, <1>46, <1>47, <1>48, <1>49, <1>50, <1>51,
       <1>52, <1>53 DEF Next, GuestStep, HandlerStep, NmiStep, LoopStep,
       ManagerStep

\* A CPU that went through panic_halt runs no guest code until a hypercall
\* clears its failure.
THEOREM FailedCpuStaysParked == Spec => []FailedStaysParked
  <1>1. Init => FailedInv
    BY Zenon DEF Init, FailedInv, CallerInv
  <1>2. TypeOK /\ TypeOK' /\ FailedInv /\ [Next]_vars => FailedInv'
    BY Zenon, FailedStep
  <1>3. FailedInv => FailedStaysParked
    BY Zenon DEF FailedInv, FailedStaysParked, Running
  <1>. QED
    BY <1>1, <1>2, <1>3, TypeCorrect, PTL DEF Spec

(***************************************************************************)
(* The CPU sets of the cells.                                              *)
(***************************************************************************)
\* The variables PartitionInv is about.
pvars == <<percell, cpu_set, cell_state, mpc, op, phase, mcell, todo, target>>

\* The CPUs' own steps do not touch them.
LEMMA PartitionFrame ==
  ASSUME PartitionInv, UNCHANGED pvars
  PROVE  PartitionInv'
  BY Zenon DEF pvars, PartitionInv, PositionInv, UnlinkedInv, MovingInv, Pending,
     Moving, Assigning, Unassigning

\* A hypercall that moves no CPU has to respect two of the parts only.
LEMMA PartitionCalm ==
  ASSUME PartitionInv, ~Moving, ~Moving', UNCHANGED <<percell, cpu_set>>,
         PositionInv', UnlinkedInv'
  PROVE  PartitionInv'
  <1>1. MovingInv'
    BY Zenon DEF MovingInv
  <1>2. /\ (\A c \in CPU : c \in cpu_set[Root] <=> percell[c] = Root)'
        /\ (\A k \in Cell : \A c \in CPU : c \in cpu_set[k] <=> percell[c] = k)'
    BY Zenon DEF PartitionInv
  <1>. QED
    BY Zenon, <1>1, <1>2 DEF PartitionInv

\* Nor does the second of them change unless a cell loses its state.
LEMMA UnlinkedCalm ==
  ASSUME UnlinkedInv, ~Moving, ~(mpc = "commit" /\ op = "create"),
         UNCHANGED cpu_set,
         \A k \in Cell : cell_state'[k] = "NONE" => cell_state[k] = "NONE"
  PROVE  UnlinkedInv'
  BY Zenon DEF UnlinkedInv

\* A new cell starts with all its CPUs still pending in the root cell.
LEMMA PartitionAcceptCreate ==
  ASSUME CellTypeOK, CallTypeOK, PartitionInv, AcceptCreate
  PROVE  PartitionInv'
  <1>1. /\ mpc = "suspend" /\ mcell \in Cell /\ cell_state[mcell] = "NONE"
        /\ CellConfig[mcell] \subseteq cpu_set[Root]
        /\ cpu_set' = [cpu_set EXCEPT ![mcell] = CellConfig[mcell]]
        /\ mpc' = "assign" /\ todo' = CellConfig[mcell] /\ op = "create"
        /\ UNCHANGED <<percell, cell_state, op, phase, mcell, target>>
    BY Zenon DEF AcceptCreate, Loop, Linked, call
  <1>2. mcell # Root /\ cpu_set \in [AllCells -> SUBSET CPU] /\ mcell \in AllCells
    BY Zenon, <1>1, ConstAssumption DEF CellTypeOK, AllCells
  <1>3. ~Moving /\ Moving' /\ Assigning' /\ Pending' = CellConfig[mcell]
    BY Zenon, <1>1 DEF Moving, Assigning, Unassigning, Pending
  <1>4. \A k \in Cell : \A c \in CPU : c \in cpu_set[k] <=> percell[c] = k
    BY Zenon, <1>3 DEF PartitionInv
  <1>5. cpu_set[mcell] = {}
    BY Zenon, <1>1, <1>3 DEF PartitionInv, UnlinkedInv
  <1>6. cpu_set'[mcell] = CellConfig[mcell] /\ cpu_set'[Root] = cpu_set[Root]
    BY Zenon, <1>1, <1>2 DEF AllCells
  <1>7. \A c \in CPU : percell[c] # mcell
    BY Zenon, <1>1, <1>4, <1>5
  <1>8. \A c \in CellConfig[mcell] : c \in CPU /\ percell[c] = Root
    BY Zenon, <1>1, <1>2 DEF PartitionInv, AllCells
  <1>9. PositionInv'
    BY Zenon, <1>1, <1>3, <1>6 DEF PartitionInv, PositionInv
  <1>10. UnlinkedInv'
    BY Zenon, <1>1, <1>2, <1>3 DEF PartitionInv, UnlinkedInv, AllCells
  <1>11. MovingInv'
    BY Zenon, <1>1, <1>3, <1>6, <1>7, <1>8 DEF MovingInv
  <1>12. \A k \in Cell : k # mcell => cpu_set'[k] = cpu_set[k]
    BY Zenon, <1>1, <1>2 DEF AllCells
  <1>. QED
    BY Zenon, <1>1, <1>3, <1>4, <1>6, <1>9, <1>10, <1>11, <1>12 DEF PartitionInv

\* cell_create moves one CPU from the root cell's set to the new cell.
LEMMA PartitionAssignCell ==
  ASSUME CellTypeOK, CallTypeOK, PartitionInv, AssignCell
  PROVE  PartitionInv'
  <1>1. /\ mpc = "assigned" /\ mpc' = "assign"
        /\ cpu_set' = [cpu_set EXCEPT ![Root] = @ \ {target}]
        /\ percell' = [percell EXCEPT ![target] = mcell]
        /\ UNCHANGED <<cell_state, op, phase, mcell, todo, target>>
    BY Zenon DEF AssignCell, call
  <1>2. /\ Moving /\ Moving' /\ Assigning /\ Assigning'
        /\ Pending = todo \cup {target} /\ Pending' = todo
    BY Zenon, <1>1 DEF Moving, Assigning, Pending
  <1>3. /\ mcell \in Cell /\ mcell # Root /\ target \in cpu_set[mcell]
        /\ target \in CPU /\ target \notin todo
    BY Zenon, <1>1, <1>2, ConstAssumption DEF PartitionInv, PositionInv, CallTypeOK
  <1>4. /\ \A k \in Cell : cpu_set'[k] = cpu_set[k]
        /\ cpu_set'[Root] = cpu_set[Root] \ {target}
        /\ \A c \in CPU : percell'[c] = IF c = target THEN mcell ELSE percell[c]
    BY Zenon, <1>1, <1>3, ConstAssumption DEF CellTypeOK, AllCells
  <1>5. PositionInv'
    BY Zenon, <1>1, <1>2, <1>3, <1>4 DEF PartitionInv, PositionInv
  <1>6. UnlinkedInv'
    BY Zenon, <1>1, <1>2, <1>4 DEF PartitionInv, UnlinkedInv
  <1>7. MovingInv'
    BY <1>1, <1>2, <1>3, <1>4 DEF PartitionInv, MovingInv
  <1>8. percell[target] = Root
    BY Zenon, <1>2, <1>3 DEF PartitionInv, MovingInv
  <1>9. (\A c \in CPU : c \in cpu_set[Root] <=> percell[c] = Root)'
    BY Zenon, <1>3, <1>4 DEF PartitionInv
  <1>10. (\A k \in Cell : ~(Moving /\ k = mcell) =>
            \A c \in CPU : c \in cpu_set[k] <=> percell[c] = k)'
    BY <1>1, <1>2, <1>3, <1>4, <1>8 DEF PartitionInv
  <1>. QED
    BY Zenon, <1>5, <1>6, <1>7, <1>9, <1>10 DEF PartitionInv

\* cell_destroy_internal gives one CPU back to the root cell.
LEMMA PartitionUnassignCell ==
  ASSUME CellTypeOK, CallTypeOK, PartitionInv, UnassignCell
  PROVE  PartitionInv'
  <1>1. /\ mpc = "unassigned" /\ mpc' = "unassign"
        /\ cpu_set' = [cpu_set EXCEPT ![Root] = @ \cup {target}]
        /\ percell' = [percell EXCEPT ![target] = Root]
        /\ UNCHANGED <<cell_state, op, phase, mcell, todo, target>>
    BY Zenon DEF UnassignCell, call
  <1>2. /\ Moving /\ Moving' /\ ~Assigning /\ ~Assigning'
        /\ Pending = todo \cup {target} /\ Pending' = todo
    BY Zenon, <1>1 DEF Moving, Assigning, Unassigning, Pending
  <1>3. /\ mcell \in Cell /\ mcell # Root /\ target \in cpu_set[mcell]
        /\ target \in CPU /\ target \notin todo
    BY Zenon, <1>1, <1>2, ConstAssumption DEF PartitionInv, PositionInv, CallTypeOK
  <1>4. /\ \A k \in Cell : cpu_set'[k] = cpu_set[k]
        /\ cpu_set'[Root] = cpu_set[Root] \cup {target}
        /\ \A c \in CPU : percell'[c] = IF c = target THEN Root ELSE percell[c]
    BY Zenon, <1>1, <1>3, ConstAssumption DEF CellTypeOK, AllCells
  <1>5. PositionInv'
    BY <1>1, <1>2, <1>3, <1>4 DEF PartitionInv, PositionInv
  <1>6. UnlinkedInv'
    BY Zenon, <1>1, <1>2, <1>4 DEF PartitionInv, UnlinkedInv
  <1>7. cpu_set[mcell] \subseteq CPU
    BY Zenon, <1>3 DEF CellTypeOK, AllCells
  <1>8. MovingInv'
    BY <1>1, <1>2, <1>3, <1>4, <1>7 DEF PartitionInv, MovingInv
  <1>9. percell[target] = mcell
    BY Zenon, <1>2, <1>3 DEF PartitionInv, MovingInv
  <1>10. (\A c \in CPU : c \in cpu_set[Root] <=> percell[c] = Root)'
    BY Zenon, <1>3, <1>4 DEF PartitionInv
  <1>11. \A k \in Cell : k # Root
    BY Zenon, ConstAssumption
  <1>12. (\A k \in Cell : ~(Moving /\ k = mcell) =>
            \A c \in CPU : c \in cpu_set[k] <=> percell[c] = k)'
    BY <1>1, <1>2, <1>3, <1>4, <1>9, <1>11 DEF PartitionInv
  <1>. QED
    BY Zenon, <1>5, <1>6, <1>8, <1>10, <1>12 DEF PartitionInv

\* Steps within the move that leave its progress alone.
LEMMA PartitionSamePending ==
  ASSUME PartitionInv, Moving, Moving', Assigning' <=> Assigning,
         Pending' = Pending, UNCHANGED <<percell, cpu_set, cell_state, mcell>>,
         PositionInv'
  PROVE  PartitionInv'
  <1>1. UnlinkedInv'
    BY Zenon DEF PartitionInv, UnlinkedInv
  <1>2. MovingInv'
    BY Zenon DEF PartitionInv, MovingInv
  <1>. QED
    BY Zenon, <1>1, <1>2 DEF PartitionInv

\* The destruction of a cell starts with all its CPUs still in the cell.
LEMMA PartitionBeginUnassign ==
  ASSUME CellTypeOK, PartitionInv, ~(Unassigning \/ mpc = "reclaim"),
         Moving => Pending = {}, Moving \/ mpc # "commit",
         mcell \in Cell, mpc' = "unassign", todo' = cpu_set[mcell],
         UNCHANGED <<percell, cpu_set, cell_state, mcell, op, phase>>
  PROVE  PartitionInv'
  <1>1. /\ Moving' /\ ~Assigning' /\ Pending' = cpu_set[mcell]
        /\ Moving <=> Assigning
    BY Zenon DEF Moving, Assigning, Unassigning, Pending
  <1>2. cpu_set[mcell] \subseteq CPU
    BY Zenon DEF CellTypeOK, AllCells
  <1>3. \A c \in CPU : c \in cpu_set[mcell] <=> percell[c] = mcell
    <2>1. CASE Moving
      BY Zenon, <1>1, <1>2, <2>1 DEF PartitionInv, MovingInv
    <2>2. CASE ~Moving
      BY Zenon, <2>2 DEF PartitionInv
    <2>. QED
      BY Zenon, <2>1, <2>2
  <1>4. PositionInv'
    BY Zenon, <1>1 DEF PartitionInv, PositionInv
  <1>5. UnlinkedInv'
    BY Zenon, <1>1 DEF PartitionInv, UnlinkedInv
  <1>6. MovingInv'
    BY Zenon, <1>1, <1>2, <1>3 DEF MovingInv
  <1>. QED
    BY Zenon, <1>1, <1>4, <1>5, <1>6 DEF PartitionInv

\* The cell whose CPUs have all been given back is unlinked.
LEMMA PartitionCommitDestroy ==
  ASSUME CellTypeOK, PartitionInv, CommitDestroy
  PROVE  PartitionInv'
  <1>1. /\ mpc = "reclaim" /\ mpc' = "resume"
        /\ cpu_set' = [cpu_set EXCEPT ![mcell] = {}]
        /\ cell_state' = [cell_state EXCEPT ![mcell] = "NONE"]
        /\ UNCHANGED <<percell, op, phase, mcell, target>>
    BY Zenon DEF CommitDestroy, Loop, call
  <1>2. Moving /\ ~Moving' /\ ~Assigning /\ ~Assigning' /\ Pending = todo
    BY Zenon, <1>1 DEF Moving, Assigning, Unassigning, Pending
  <1>3. todo = {} /\ mcell \in Cell /\ mcell # Root
    BY Zenon, <1>1, <1>2, ConstAssumption DEF PartitionInv, PositionInv
  <1>4. \A c \in CPU : percell[c] # mcell
    BY Zenon, <1>2, <1>3 DEF PartitionInv, MovingInv
  <1>5. /\ cpu_set'[mcell] = {} /\ cpu_set'[Root] = cpu_set[Root]
        /\ \A k \in Cell : k # mcell => /\ cpu_set'[k] = cpu_set[k]
                                         /\ cell_state'[k] = cell_state[k]
    BY Zenon, <1>1, <1>3 DEF CellTypeOK, AllCells
  <1>6. PositionInv'
    BY Zenon, <1>1, <1>2, <1>3 DEF PartitionInv, PositionInv
  <1>7. UnlinkedInv'
    BY <1>1, <1>2, <1>5 DEF PartitionInv, UnlinkedInv
  <1>8. MovingInv'
    BY Zenon, <1>2 DEF MovingInv
  <1>9. (\A k \in Cell : \A c \in CPU : c \in cpu_set[k] <=> percell[c] = k)'
    BY Zenon, <1>1, <1>4, <1>5 DEF PartitionInv
  <1>. QED
    BY Zenon, <1>1, <1>5, <1>6, <1>7, <1>8, <1>9 DEF PartitionInv

\* panic_halt may give up a cell at any moment.
LEMMA PartitionPanic ==
  ASSUME CellTypeOK, PartitionInv, NEW c \in CPU, PanicPark(c)
  PROVE  PartitionInv'
  <1>1. /\ UNCHANGED <<percell, cpu_set, mpc, op, phase, mcell, todo, target>>
        /\ \A k \in Cell : cell_state'[k] = "NONE" => cell_state[k] = "NONE"
    BY Zenon DEF PanicPark, CellTypeOK, AllCells, manager
  <1>2. /\ Moving' <=> Moving
        /\ Assigning' <=> Assigning
        /\ Pending' = Pending
    BY Zenon, <1>1 DEF Moving, Assigning, Unassigning, Pending
  <1>3. PositionInv'
    BY Zenon, <1>1, <1>2 DEF PartitionInv, PositionInv
  <1>4. UnlinkedInv'
    BY Zenon, <1>1, <1>2 DEF PartitionInv, UnlinkedInv
  <1>5. MovingInv'
    BY Zenon, <1>1, <1>2 DEF PartitionInv, MovingInv
  <1>. QED
    BY Zenon, <1>1, <1>2, <1>3, <1>4, <1>5 DEF PartitionInv

\* The cell under construction is complete, or is taken apart again.
LEMMA PartitionMapCell ==
  ASSUME CellTypeOK, PartitionInv, MapCell
  PROVE  PartitionInv'
  <1>1. /\ mpc = "assign" /\ todo = {}
        /\ UNCHANGED <<percell, cpu_set, cell_state, mcell, op, phase>>
        /\ \/ mpc' = "commit" /\ todo' = {}
           \/ mpc' = "unassign" /\ todo' = cpu_set[mcell]
    BY Zenon DEF MapCell, Loop, cells, call
  <1>2. Moving /\ Assigning /\ ~Unassigning /\ Pending = {}
    BY Zenon, <1>1 DEF Moving, Assigning, Unassigning, Pending
  <1>3. mcell \in Cell /\ op = "create"
    BY Zenon, <1>2 DEF PartitionInv, PositionInv
  <1>4. CASE mpc' = "unassign" /\ todo' = cpu_set[mcell]
    BY Zenon, <1>1, <1>2, <1>3, <1>4, PartitionBeginUnassign
  <1>5. CASE mpc' = "commit" /\ todo' = {}
    <2>1. ~Moving' /\ ~Assigning'
      BY Zenon, <1>5 DEF Moving, Assigning, Unassigning
    <2>2. PositionInv'
      BY Zenon, <1>1, <1>3, <1>5, <2>1 DEF PartitionInv, PositionInv
    <2>3. UnlinkedInv'
      BY Zenon, <1>1, <1>2, <1>3, <1>5 DEF PartitionInv, UnlinkedInv
    <2>4. MovingInv'
      BY Zenon, <2>1 DEF MovingInv
    <2>5. \A c \in CPU : c \in cpu_set[mcell] <=> percell[c] = mcell
      BY Zenon, <1>2, <1>3 DEF PartitionInv, MovingInv, CellTypeOK, AllCells
    <2>. QED
      BY Zenon, <1>1, <2>2, <2>3, <2>4, <2>5 DEF PartitionInv
  <1>. QED
    BY Zenon, <1>1, <1>4, <1>5

\* No step breaks the correspondence of CPU sets and cell pointers.
LEMMA PartitionStep ==
  ASSUME TypeOK, PartitionInv, [Next]_vars
  PROVE  PartitionInv'
  <1>. USE DEF TypeOK
  <1>1. CASE \E c \in CPU : VmExit(c) \/ VmEntry(c) \/ SendNmi(c) \/ PanicHalt(c) \/
          NmiExit(c) \/ TimerExit(c) \/ NmiInHypervisor(c) \/
          DisableTimer(c)
    BY Zenon, <1>1, PartitionFrame DEF pvars, cells, manager, VmExit, VmEntry,
       SendNmi, PanicHalt, NmiExit, TimerExit, NmiInHypervisor, DisableTimer
  <1>2. CASE \E c \in CPU : EventsLock(c) \/ EventsInit(c) \/ EventsStop(c) \/ EventsSpin(c)
          \/ EventsWake(c) \/ EventsFlush(c) \/ EventsReload(c) \/
          EventsReturn(c) \/ LeaveHypervisor(c)
    BY <1>2, PartitionFrame DEF pvars, cells, manager, EventsLock,
       EventsInit, EventsStop, EventsSpin, EventsWake, EventsFlush,
       EventsReload, EventsReturn, LeaveHypervisor
  <1>3. CASE \E c \in CPU, t \in IpiTargets : SendInit(c, t) \/ SendSipi(c, t)
    BY Zenon, <1>3, PartitionFrame DEF pvars, cells, manager, SendInit, SendSipi
  <1>4. CASE \E c \in CPU : PanicPark(c)
    BY Zenon, <1>4, PartitionPanic
  <1>5. CASE AcceptCreate
    BY Zenon, <1>5, PartitionAcceptCreate
  <1>6. CASE AssignCell
    BY Zenon, <1>6, PartitionAssignCell
  <1>7. CASE MapCell
    BY Zenon, <1>7, PartitionMapCell
  <1>8. CASE UnassignCell
    BY Zenon, <1>8, PartitionUnassignCell
  <1>9. CASE CommitDestroy
    BY Zenon, <1>9, PartitionCommitDestroy
  <1>10. CASE \E c \in CPU : AssignPark(c)
    <2>1. PICK c \in CPU : AssignPark(c)
      BY Zenon, <1>10
    <2>2. /\ mpc = "assign" /\ mpc' = "assigned" /\ c \in todo
          /\ todo' = todo \ {c} /\ target' = c
          /\ UNCHANGED <<percell, cpu_set, cell_state, mcell, op, phase>>
      BY Zenon, <2>1 DEF AssignPark, Loop, cells, call
    <2>3. /\ Moving /\ Moving' /\ (Assigning' <=> Assigning)
          /\ Pending' = Pending
      BY Zenon, <2>2 DEF Moving, Assigning, Unassigning, Pending
    <2>4. PositionInv'
      BY Zenon, <2>2, <2>3 DEF PartitionInv, PositionInv
    <2>. QED
      BY Zenon, <2>2, <2>3, <2>4, PartitionSamePending
  <1>11. CASE \E c \in CPU : UnassignPark(c)
    <2>1. PICK c \in CPU : UnassignPark(c)
      BY Zenon, <1>11
    <2>2. /\ mpc = "unassign" /\ mpc' = "unassigned" /\ c \in todo
          /\ todo' = todo \ {c} /\ target' = c
          /\ UNCHANGED <<percell, cpu_set, cell_state, mcell, op, phase>>
      BY Zenon, <2>1 DEF UnassignPark, Loop, cells, call
    <2>3. /\ Moving /\ Moving' /\ (Assigning' <=> Assigning)
          /\ Pending' = Pending
      BY Zenon, <2>2 DEF Moving, Assigning, Unassigning, Pending
    <2>4. PositionInv'
      BY Zenon, <2>2, <2>3 DEF PartitionInv, PositionInv
    <2>. QED
      BY Zenon, <2>2, <2>3, <2>4, PartitionSamePending
  <1>12. CASE UnmapCell
    <2>1. /\ mpc = "unassign" /\ mpc' = "reclaim" /\ todo = {}
          /\ UNCHANGED <<percell, cpu_set, cell_state, mcell, op, phase, todo>>
      BY Zenon, <1>12 DEF UnmapCell, cells, call
    <2>2. /\ Moving /\ Moving' /\ (Assigning' <=> Assigning)
          /\ Pending' = Pending
      BY Zenon, <2>1 DEF Moving, Assigning, Unassigning, Pending
    <2>3. PositionInv'
      BY Zenon, <2>1, <2>2 DEF PartitionInv, PositionInv
    <2>. QED
      BY Zenon, <2>1, <2>2, <2>3, PartitionSamePending
  <1>13. CASE StartDestroy
    <2>1. /\ mpc = "suspend" /\ phase = "cell"
          /\ mpc' = "unassign" /\ todo' = cpu_set[mcell]
          /\ UNCHANGED <<percell, cpu_set, cell_state, mcell, op, phase>>
      BY Zenon, <1>13 DEF StartDestroy, Loop, cells, call
    <2>2. ~Moving /\ ~Unassigning /\ mcell \in Cell
      BY Zenon, <2>1 DEF Moving, Assigning, Unassigning, PartitionInv, PositionInv
    <2>. QED
      BY Zenon, <2>1, <2>2, PartitionBeginUnassign
  <1>14. CASE \E c \in CPU : SuspendLock(c)
    <2>1. /\ ~Moving /\ ~Moving' /\ ~(mpc = "commit" /\ op = "create")
          /\ UNCHANGED <<percell, cpu_set, cell_state>>
      BY Zenon, <1>14 DEF SuspendLock, Stopped, cells, call, loop, Moving,
         Assigning, Unassigning
    <2>2. PositionInv'
      BY Zenon, <1>14, <2>1 DEF SuspendLock, Stopped, call, loop, manager, Moving,
         Assigning, Unassigning, PartitionInv, PositionInv
    <2>. QED
      BY Zenon, <2>1, <2>2, PartitionCalm, UnlinkedCalm DEF PartitionInv
  <1>15. CASE \E c \in CPU : ResetCpu(c)
    <2>1. /\ ~Moving /\ ~Moving' /\ ~(mpc = "commit" /\ op = "create")
          /\ UNCHANGED <<percell, cpu_set, cell_state>>
      BY Zenon, <1>15 DEF ResetCpu, arch_reset_cpu, arch_resume_cpu, cells, call,
         loop, Moving, Assigning, Unassigning
    <2>2. PositionInv'
      BY Zenon, <1>15, <2>1 DEF ResetCpu, arch_reset_cpu, arch_resume_cpu, call,
         loop, manager, Moving, Assigning, Unassigning, PartitionInv,
         PositionInv
    <2>. QED
      BY Zenon, <2>1, <2>2, PartitionCalm, UnlinkedCalm DEF PartitionInv
  <1>16. CASE \E c \in CPU : ParkCpu(c)
    <2>1. /\ ~Moving /\ ~Moving' /\ ~(mpc = "commit" /\ op = "create")
          /\ UNCHANGED <<percell, cpu_set, cell_state>>
      BY Zenon, <1>16 DEF ParkCpu, arch_park_cpu, arch_resume_cpu, cells, call,
         loop, Moving, Assigning, Unassigning
    <2>2. PositionInv'
      BY Zenon, <1>16, <2>1 DEF ParkCpu, arch_park_cpu, arch_resume_cpu, call,
         loop, manager, Moving, Assigning, Unassigning, PartitionInv,
         PositionInv
    <2>. QED
      BY Zenon, <2>1, <2>2, PartitionCalm, UnlinkedCalm DEF PartitionInv
  <1>17. CASE \E c \in CPU : ResumeCpu(c)
    <2>1. /\ ~Moving /\ ~Moving' /\ ~(mpc = "commit" /\ op = "create")
          /\ UNCHANGED <<percell, cpu_set, cell_state>>
      BY Zenon, <1>17 DEF ResumeCpu, arch_resume_cpu, cells, call, loop, Moving,
         Assigning, Unassigning
    <2>2. PositionInv'
      BY Zenon, <1>17, <2>1 DEF ResumeCpu, arch_resume_cpu, call, loop, manager,
         Moving, Assigning, Unassigning, PartitionInv, PositionInv
    <2>. QED
      BY Zenon, <2>1, <2>2, PartitionCalm, UnlinkedCalm DEF PartitionInv
  <1>18. CASE \E c \in CPU, o \in Ops, k \in AllCells : Hypercall(c, o, k)
    <2>1. /\ ~Moving /\ ~Moving' /\ ~(mpc = "commit" /\ op = "create")
          /\ UNCHANGED <<percell, cpu_set, cell_state>>
      BY Zenon, <1>18 DEF Hypercall, Loop, cells, call, loop, Moving, Assigning,
         Unassigning
    <2>2. PositionInv'
      BY Zenon, <1>18, <2>1 DEF Hypercall, Loop, call, loop, manager, Moving,
         Assigning, Unassigning, PartitionInv, PositionInv
    <2>. QED
      BY Zenon, <2>1, <2>2, PartitionCalm, UnlinkedCalm DEF PartitionInv
  <1>19. CASE \E k \in Cell : ShutdownCell(k)
    <2>1. /\ ~Moving /\ ~Moving' /\ ~(mpc = "commit" /\ op = "create")
          /\ UNCHANGED <<percell, cpu_set, cell_state>>
      BY Zenon, <1>19 DEF ShutdownCell, Loop, cells, call, loop, Moving, Assigning,
         Unassigning
    <2>2. PositionInv'
      BY Zenon, <1>19, <2>1 DEF ShutdownCell, Loop, call, loop, manager, Moving,
         Assigning, Unassigning, PartitionInv, PositionInv
    <2>. QED
      BY Zenon, <2>1, <2>2, PartitionCalm, UnlinkedCalm DEF PartitionInv
  <1>20. CASE SuspendNmi
    <2>1. /\ ~Moving /\ ~Moving' /\ ~(mpc = "commit" /\ op = "create")
          /\ UNCHANGED <<percell, cpu_set, cell_state>>
      BY Zenon, <1>20 DEF SuspendNmi, cells, call, loop, Moving, Assigning,
         Unassigning
    <2>2. PositionInv'
      BY Zenon, <1>20, <2>1 DEF SuspendNmi, call, loop, manager, Moving, Assigning,
         Unassigning, PartitionInv, PositionInv
    <2>. QED
      BY Zenon, <2>1, <2>2, PartitionCalm, UnlinkedCalm DEF PartitionInv
  <1>21. CASE SuspendWait
    <2>1. /\ ~Moving /\ ~Moving' /\ ~(mpc = "commit" /\ op = "create")
          /\ UNCHANGED <<percell, cpu_set, cell_state>>
      BY Zenon, <1>21 DEF SuspendWait, Stopped, cells, call, loop, Moving,
         Assigning, Unassigning
    <2>2. PositionInv'
      BY Zenon, <1>21, <2>1 DEF SuspendWait, Stopped, call, loop, manager, Moving,
         Assigning, Unassigning, PartitionInv, PositionInv
    <2>. QED
      BY Zenon, <2>1, <2>2, PartitionCalm, UnlinkedCalm DEF PartitionInv
  <1>22. CASE RefuseRequest
    <2>1. /\ ~Moving /\ ~Moving' /\ ~(mpc = "commit" /\ op = "create")
          /\ UNCHANGED <<percell, cpu_set, cell_state>>
      BY Zenon, <1>22 DEF RefuseRequest, Loop, Others, cells, call, loop, Moving,
         Assigning, Unassigning
    <2>2. PositionInv'
      BY Zenon, <1>22, <2>1 DEF RefuseRequest, Loop, Others, call, loop, manager,
         Moving, Assigning, Unassigning, PartitionInv, PositionInv
    <2>. QED
      BY Zenon, <2>1, <2>2, PartitionCalm, UnlinkedCalm DEF PartitionInv
  <1>23. CASE AcceptManage
    <2>1. /\ ~Moving /\ ~Moving' /\ ~(mpc = "commit" /\ op = "create")
          /\ UNCHANGED <<percell, cpu_set, cell_state>>
      BY Zenon, <1>23 DEF AcceptManage, Loop, cells, call, loop, Moving, Assigning,
         Unassigning
    <2>2. PositionInv'
      BY Zenon, <1>23, <2>1 DEF AcceptManage, Loop, call, loop, manager, Moving,
         Assigning, Unassigning, PartitionInv, PositionInv
    <2>. QED
      BY Zenon, <2>1, <2>2, PartitionCalm, UnlinkedCalm DEF PartitionInv
  <1>24. CASE CommitStart
    <2>1. /\ ~Moving /\ ~Moving' /\ ~(mpc = "commit" /\ op = "create")
          /\ UNCHANGED <<percell, cpu_set, cell_state>>
      BY Zenon, <1>24 DEF CommitStart, arch_config_commit, cells, call, loop,
         Moving, Assigning, Unassigning
    <2>2. PositionInv'
      BY Zenon, <1>24, <2>1 DEF CommitStart, arch_config_commit, call, loop,
         manager, Moving, Assigning, Unassigning, PartitionInv, PositionInv
    <2>. QED
      BY Zenon, <2>1, <2>2, PartitionCalm, UnlinkedCalm DEF PartitionInv
  <1>25. CASE StartDone
    <2>1. /\ ~Moving /\ ~Moving' /\ ~(mpc = "commit" /\ op = "create")
          /\ UNCHANGED <<percell, cpu_set, cell_state>>
      BY Zenon, <1>25 DEF StartDone, Loop, Others, cells, call, loop, Moving,
         Assigning, Unassigning
    <2>2. PositionInv'
      BY Zenon, <1>25, <2>1 DEF StartDone, Loop, Others, call, loop, manager,
         Moving, Assigning, Unassigning, PartitionInv, PositionInv
    <2>. QED
      BY Zenon, <2>1, <2>2, PartitionCalm, UnlinkedCalm DEF PartitionInv
  <1>26. CASE SetLoadable
    <2>1. /\ ~Moving /\ ~Moving' /\ ~(mpc = "commit" /\ op = "create")
          /\ UNCHANGED <<percell, cpu_set, cell_state>>
      BY Zenon, <1>26 DEF SetLoadable, Loop, cells, call, loop, Moving, Assigning,
         Unassigning
    <2>2. PositionInv'
      BY Zenon, <1>26, <2>1 DEF SetLoadable, Loop, call, loop, manager, Moving,
         Assigning, Unassigning, PartitionInv, PositionInv
    <2>. QED
      BY Zenon, <2>1, <2>2, PartitionCalm, UnlinkedCalm DEF PartitionInv
  <1>27. CASE StartUnmap
    <2>1. /\ ~Moving /\ ~Moving' /\ ~(mpc = "commit" /\ op = "create")
          /\ UNCHANGED <<percell, cpu_set, cell_state>>
      BY Zenon, <1>27 DEF StartUnmap, Loop, Others, Unmap, cells, call, loop,
         Moving, Assigning, Unassigning
    <2>2. PositionInv'
      BY Zenon, <1>27, <2>1 DEF StartUnmap, Loop, Others, Unmap, call, loop,
         manager, Moving, Assigning, Unassigning, PartitionInv, PositionInv
    <2>. QED
      BY Zenon, <2>1, <2>2, PartitionCalm, UnlinkedCalm DEF PartitionInv
  <1>28. CASE CommitLoadable
    <2>1. /\ ~Moving /\ ~Moving' /\ ~(mpc = "commit" /\ op = "create")
          /\ UNCHANGED <<percell, cpu_set, cell_state>>
      BY Zenon, <1>28 DEF CommitLoadable, Loop, Others, arch_config_commit, cells,
         call, loop, Moving, Assigning, Unassigning
    <2>2. PositionInv'
      BY Zenon, <1>28, <2>1 DEF CommitLoadable, Loop, Others, arch_config_commit,
         call, loop, manager, Moving, Assigning, Unassigning, PartitionInv,
         PositionInv
    <2>. QED
      BY Zenon, <2>1, <2>2, PartitionCalm, UnlinkedCalm DEF PartitionInv
  <1>29. CASE Return
    <2>1. /\ ~Moving /\ ~Moving' /\ ~(mpc = "commit" /\ op = "create")
          /\ UNCHANGED <<percell, cpu_set, cell_state>>
      BY Zenon, <1>29 DEF Return, cells, call, loop, Moving, Assigning, Unassigning
    <2>2. PositionInv'
      BY Zenon, <1>29, <2>1 DEF Return, call, loop, manager, Moving, Assigning,
         Unassigning, PartitionInv, PositionInv
    <2>. QED
      BY Zenon, <2>1, <2>2, PartitionCalm, UnlinkedCalm DEF PartitionInv
  <1>30. CASE CloseCell
    <2>1. /\ ~Moving /\ ~Moving' /\ ~(mpc = "commit" /\ op = "create")
          /\ UNCHANGED <<percell, cpu_set, cell_state>>
      BY Zenon, <1>30 DEF CloseCell, Loop, cells, call, loop, Moving, Assigning,
         Unassigning
    <2>2. PositionInv'
      BY Zenon, <1>30, <2>1 DEF CloseCell, Loop, call, loop, manager, Moving,
         Assigning, Unassigning, PartitionInv, PositionInv
    <2>. QED
      BY Zenon, <2>1, <2>2, PartitionCalm, UnlinkedCalm DEF PartitionInv
  <1>31. CASE arch_shutdown_cpu
    <2>1. /\ ~Moving /\ ~Moving' /\ ~(mpc = "commit" /\ op = "create")
          /\ UNCHANGED <<percell, cpu_set, cell_state>>
      BY Zenon, <1>31 DEF arch_shutdown_cpu, arch_resume_cpu, cells, call, loop,
         Moving, Assigning, Unassigning
    <2>2. PositionInv'
      BY Zenon, <1>31, <2>1 DEF arch_shutdown_cpu, arch_resume_cpu, call, loop,
         manager, Moving, Assigning, Unassigning, PartitionInv, PositionInv
    <2>. QED
      BY Zenon, <2>1, <2>2, PartitionCalm, UnlinkedCalm DEF PartitionInv
  <1>32. CASE CellClosed
    <2>1. /\ ~Moving /\ ~Moving' /\ ~(mpc = "commit" /\ op = "create")
          /\ UNCHANGED <<percell, cpu_set, cell_state>>
      BY Zenon, <1>32 DEF CellClosed, cells, call, loop, Moving, Assigning,
         Unassigning
    <2>2. PositionInv'
      BY Zenon, <1>32, <2>1 DEF CellClosed, call, loop, manager, Moving, Assigning,
         Unassigning, PartitionInv, PositionInv
    <2>. QED
      BY Zenon, <2>1, <2>2, PartitionCalm, UnlinkedCalm DEF PartitionInv
  <1>33. CASE ShutdownDone
    <2>1. /\ ~Moving /\ ~Moving' /\ ~(mpc = "commit" /\ op = "create")
          /\ UNCHANGED <<percell, cpu_set, cell_state>>
      BY Zenon, <1>33 DEF ShutdownDone, cells, call, loop, Moving, Assigning,
         Unassigning
    <2>2. PositionInv'
      BY Zenon, <1>33, <2>1 DEF ShutdownDone, call, loop, manager, Moving,
         Assigning, Unassigning, PartitionInv, PositionInv
    <2>. QED
      BY Zenon, <2>1, <2>2, PartitionCalm, UnlinkedCalm DEF PartitionInv
  <1>34. CASE StartRun
    <2>1. /\ ~Moving /\ ~Moving' /\ ~(mpc = "commit" /\ op = "create")
          /\ UNCHANGED <<percell, cpu_set>>
      BY Zenon, <1>34 DEF StartRun, Loop, Moving, Assigning, Unassigning
    <2>2. \A k \in Cell : cell_state'[k] = "NONE" => cell_state[k] = "NONE"
      BY Zenon, <1>34 DEF StartRun, CellTypeOK, AllCells
    <2>3. PositionInv'
      BY Zenon, <1>34, <2>1 DEF StartRun, Loop, call, Moving, Assigning,
         Unassigning, PartitionInv, PositionInv
    <2>. QED
      BY Zenon, <2>1, <2>2, <2>3, PartitionCalm, UnlinkedCalm DEF PartitionInv
  <1>35. CASE ParkDone
    <2>1. /\ ~Moving /\ ~Moving' /\ ~(mpc = "commit" /\ op = "create")
          /\ UNCHANGED <<percell, cpu_set>>
      BY Zenon, <1>35 DEF ParkDone, Loop, Others, Moving, Assigning, Unassigning
    <2>2. \A k \in Cell : cell_state'[k] = "NONE" => cell_state[k] = "NONE"
      BY Zenon, <1>35 DEF ParkDone, CellTypeOK, AllCells
    <2>3. PositionInv'
      BY Zenon, <1>35, <2>1 DEF ParkDone, Loop, Others, call, Moving, Assigning,
         Unassigning, PartitionInv, PositionInv
    <2>. QED
      BY Zenon, <2>1, <2>2, <2>3, PartitionCalm, UnlinkedCalm DEF PartitionInv
  <1>36. CASE CommitCreate
    <2>1. /\ ~Moving /\ ~Moving' /\ mpc' = "resume"
          /\ UNCHANGED <<percell, cpu_set, mcell, phase>>
          /\ cell_state' = [cell_state EXCEPT ![mcell] = "SHUT_DOWN"]
      BY Zenon, <1>36 DEF CommitCreate, Loop, call, Moving, Assigning, Unassigning
    <2>2. \A k \in Cell : cell_state'[k] = "NONE" => k # mcell /\ cell_state[k] = "NONE"
      BY Zenon, <2>1 DEF CellTypeOK, AllCells
    <2>3. UnlinkedInv'
      BY Zenon, <2>1, <2>2 DEF PartitionInv, UnlinkedInv
    <2>4. PositionInv'
      BY Zenon, <2>1 DEF Moving, Assigning, PartitionInv, PositionInv
    <2>. QED
      BY Zenon, <2>1, <2>3, <2>4, PartitionCalm
  <1>37. CASE UNCHANGED vars
    BY Zenon, <1>37, PartitionFrame DEF vars, pvars, cells, manager
  <1>. QED
    BY Zenon, <1>1, <1>2, <1>3, <1>4, <1>5, <1>6, <1>7, <1>8, <1>9, <1>10, <1>11,
       <1>12, <1>13, <1>14, <1>15, <1>16, <1>17, <1>18, <1>19, <1>20, <1>21,
       <1>22, <1>23, <1>24, <1>25, <1>26, <1>27, <1>28, <1>29, <1>30, <1>31,
       <1>32, <1>33, <1>34, <1>35, <1>36, <1>37 DEF Next, GuestStep,
       HandlerStep, NmiStep, LoopStep, ManagerStep

\* Between hypercalls every CPU is in the set of the cell it points to and
\* in no other, even after a cell_create that failed half way.
THEOREM CpuSetsArePartition == Spec => []CpuSetsPartition
  <1>1. Init => PartitionInv
    BY ConstAssumption DEF Init, AllCells, PartitionInv, PositionInv,
       UnlinkedInv, MovingInv, Moving, Assigning, Unassigning
  <1>2. TypeOK /\ PartitionInv /\ [Next]_vars => PartitionInv'
    BY Zenon, PartitionStep
  <1>3. PartitionInv => CpuSetsPartition
    BY Zenon DEF PartitionInv, CpuSetsPartition, AllCells, Moving, Assigning,
       Unassigning
  <1>. QED
    BY <1>1, <1>2, <1>3, TypeCorrect, PTL DEF Spec

-------------------------------------------------------------------------------
(* Who runs while a hypercall is at work.                                  *)

\* The steps of a CPU on its own, for its guest or in x86_handle_events.
OwnStep(c) ==
  \/ VmExit(c) \/ PanicHalt(c) \/ (\E t \in IpiTargets : SendInit(c, t) \/ SendSipi(c, t))
  \/ HandlerStep(c) \/ NmiStep(c)

\* Such a step leaves the cells and the hypercall alone, except that a cell may turn
\* out to have failed.
LEMMA OwnFrame ==
  ASSUME CellTypeOK, NEW c \in CPU, OwnStep(c)
  PROVE  /\ UNCHANGED <<percell, cpu_set, loadable, op, phase, mcpu, mcell, mpc, todo, target, held>>
         /\ \A k \in AllCells : cell_state'[k] = cell_state[k] \/ cell_state'[k] = "FAILED"
  <1>1. CASE VmExit(c) \/ PanicHalt(c) \/ (\E t \in IpiTargets : SendInit(c, t) \/ SendSipi(c, t))
    BY Zenon, <1>1 DEF VmExit, PanicHalt, SendInit, SendSipi, cells, manager
  <1>2. CASE NmiStep(c) \/ VmEntry(c) \/ SendNmi(c) \/ TimerExit(c) \/ DisableTimer(c)
    BY Zenon, <1>2 DEF NmiStep, NmiExit, NmiInHypervisor, VmEntry, SendNmi, TimerExit,
       DisableTimer, cells, manager
  <1>3. CASE \/ EventsLock(c) \/ EventsInit(c) \/ EventsStop(c) \/ EventsSpin(c)
             \/ EventsWake(c) \/ EventsFlush(c) \/ EventsReload(c) \/ EventsReturn(c)
             \/ LeaveHypervisor(c)
    BY Zenon, <1>3 DEF EventsLock, EventsInit, EventsStop, EventsSpin, EventsWake, EventsFlush,
       EventsReload, EventsReturn, LeaveHypervisor, cells, manager
  <1>4. CASE PanicPark(c)
    <2>1. /\ UNCHANGED <<percell, cpu_set, loadable, op, phase, mcpu, mcell, mpc, todo, target, held>>
          /\ \/ cell_state' = cell_state
             \/ cell_state' = [cell_state EXCEPT ![percell[c]] = "FAILED"]
      BY Zenon, <1>4 DEF PanicPark, manager
    <2>2. QED
      BY Zenon, <2>1 DEF CellTypeOK
  <1>5. QED
    BY Zenon, <1>1, <1>2, <1>3, <1>4 DEF OwnStep, HandlerStep

\* A sleeping CPU stays asleep unless it is sent a SIPI.
LEMMA AsleepOwn ==
  ASSUME TypeOK, NEW c \in CPU, NEW d \in CPU, OwnStep(d), Asleep(c),
         sipi_vector[c] = "none" => sipi_vector'[c] = "none"
  PROVE  Asleep(c)'
  <1>. USE DEF TypeOK, CpuTypeOK, Asleep, control, stop, initsipi, marks, local
  <1>1. CASE VmExit(d)
    BY Zenon, <1>1 DEF VmExit
  <1>2. CASE PanicHalt(d)
    BY Zenon, <1>2 DEF PanicHalt
  <1>3. ASSUME NEW t \in IpiTargets, SendInit(d, t) PROVE Asleep(c)'
    BY Zenon, <1>3 DEF SendInit
  <1>4. ASSUME NEW t \in IpiTargets, SendSipi(d, t) PROVE Asleep(c)'
    BY Zenon, <1>4 DEF SendSipi
  <1>5. CASE NmiExit(d)
    BY Zenon, <1>5 DEF NmiExit
  <1>6. CASE NmiInHypervisor(d)
    BY Zenon, <1>6 DEF NmiInHypervisor
  <1>7. CASE VmEntry(d)
    BY Zenon, <1>7 DEF VmEntry
  <1>8. CASE SendNmi(d)
    BY Zenon, <1>8 DEF SendNmi
  <1>9. CASE PanicPark(d)
    BY Zenon, <1>9 DEF PanicPark
  <1>10. CASE TimerExit(d)
    BY Zenon, <1>10 DEF TimerExit
  <1>11. CASE DisableTimer(d)
    BY Zenon, <1>11 DEF DisableTimer
  <1>12. CASE EventsLock(d)
    BY Zenon, <1>12 DEF EventsLock
  <1>13. CASE EventsInit(d)
    BY Zenon, <1>13 DEF EventsInit
  <1>14. CASE EventsStop(d)
    BY Zenon, <1>14 DEF EventsStop
  <1>15. CASE EventsSpin(d)
    BY Zenon, <1>15 DEF EventsSpin
  <1>16. CASE EventsWake(d)
    BY Zenon, <1>16 DEF EventsWake
  <1>17. CASE EventsFlush(d)
    BY Zenon, <1>17 DEF EventsFlush
  <1>18. CASE EventsReload(d)
    BY Zenon, <1>18 DEF EventsReload
  <1>19. CASE EventsReturn(d)
    BY Zenon, <1>19 DEF EventsReturn
  <1>20. CASE LeaveHypervisor(d)
    BY Zenon, <1>20 DEF LeaveHypervisor
  <1>21. QED
    BY Zenon, <1>1, <1>2, <1>3, <1>4, <1>5, <1>6, <1>7, <1>8, <1>9, <1>10, <1>11,
       <1>12, <1>13, <1>14, <1>15, <1>16, <1>17, <1>18, <1>19, <1>20 DEF OwnStep,
       HandlerStep, NmiStep

\* The suspend loops of the hypercalls stop first the CPUs of the root cell, then those
\* of the hypercall's cell (cell_suspend, cell_destroy, cell_management_prologue).
LEMMA StoppedStep ==
  ASSUME TypeOK, HandshakeInv, PartitionInv, StoppedInv, QuietInv, [Next]_vars
  PROVE  StoppedInv'
  <1>. USE ConstAssumption DEF TypeOK, CellTypeOK, CallTypeOK, StoppedInv, Suspending, Others,
           AllCells
  <1>1. ASSUME NEW d \in CPU, OwnStep(d) PROVE StoppedInv'
    BY <1>1, OwnFrame
  <1>2. ASSUME NEW d \in CPU, NEW o \in Ops, NEW k \in AllCells, Hypercall(d, o, k) PROVE StoppedInv'
    BY Zenon, <1>2 DEF Hypercall, Loop, cells, call, loop, manager
  <1>3. ASSUME NEW d \in CPU, SuspendLock(d) PROVE StoppedInv'
    BY <1>3 DEF SuspendLock, Stopped, cells, call, loop, manager
  <1>4. ASSUME NEW d \in CPU, AssignPark(d) PROVE StoppedInv'
    BY Zenon, <1>4 DEF AssignPark, Loop, arch_park_cpu, arch_resume_cpu, cells, call, loop,
       manager
  <1>5. ASSUME NEW d \in CPU, UnassignPark(d) PROVE StoppedInv'
    BY Zenon, <1>5 DEF UnassignPark, Loop, arch_park_cpu, arch_resume_cpu, cells, call, loop,
       manager
  <1>6. ASSUME NEW d \in CPU, ResetCpu(d) PROVE StoppedInv'
    BY Zenon, <1>6 DEF ResetCpu, arch_reset_cpu, arch_resume_cpu, cells, call, loop, manager
  <1>7. ASSUME NEW d \in CPU, ParkCpu(d) PROVE StoppedInv'
    BY Zenon, <1>7 DEF ParkCpu, arch_park_cpu, arch_resume_cpu, cells, call, loop, manager
  <1>8. ASSUME NEW d \in CPU, ResumeCpu(d) PROVE StoppedInv'
    BY Zenon, <1>8 DEF ResumeCpu, arch_resume_cpu, cells, call, loop, manager
  <1>9. CASE SuspendNmi
    BY Zenon, <1>9 DEF SuspendNmi, cells, call, loop, manager
  <1>10. CASE SuspendWait
    BY Zenon, <1>10 DEF SuspendWait, Stopped, cells, call, loop, manager
  <1>11. CASE RefuseRequest
    BY Zenon, <1>11 DEF RefuseRequest, Loop, Others, cells, call, loop, manager
  <1>12. CASE AcceptCreate
    BY Zenon, <1>12 DEF AcceptCreate, Loop, Linked, cells, call, loop, manager
  <1>13. CASE AcceptManage
    BY Zenon, <1>13 DEF AcceptManage, Loop, Linked, cells, call, loop, manager
  <1>14. CASE AssignCell
    <2>1. /\ mpc = "assigned" /\ mpc' = "assign" /\ UNCHANGED <<op, phase, mcpu, mcell>>
          /\ percell' = [percell EXCEPT ![target] = mcell]
      BY Zenon, <1>14 DEF AssignCell, call
    <2>2. Still(target)
      BY Zenon, <2>1 DEF PartitionInv, PositionInv, QuietInv, Closed, Moving, Assigning, Pending
    <2>3. target # mcpu
      BY Zenon, <2>1, <2>2 DEF HandshakeInv, CallerInv, Still, Asleep
    <2>4. QED
      BY Zenon, <2>1, <2>3
  <1>15. CASE MapCell
    BY Zenon, <1>15 DEF MapCell, Loop, cells, call, loop, manager, PartitionInv, PositionInv,
       Assigning
  <1>16. CASE CommitCreate
    BY Zenon, <1>16 DEF CommitCreate, Loop, Others, arch_config_commit, cells, call, loop,
       manager
  <1>17. CASE StartDestroy
    BY Zenon, <1>17 DEF StartDestroy, Loop, cells, call, loop, manager
  <1>18. CASE UnassignCell
    BY Zenon, <1>18 DEF UnassignCell, cells, call, loop, manager
  <1>19. CASE UnmapCell
    BY Zenon, <1>19 DEF UnmapCell, Unmap, cells, call, loop, manager
  <1>20. CASE CommitDestroy
    BY Zenon, <1>20 DEF CommitDestroy, Loop, Others, arch_config_commit, cells, call, loop,
       manager
  <1>21. CASE StartUnmap
    BY Zenon, <1>21 DEF StartUnmap, Loop, Others, Unmap, cells, call, loop, manager
  <1>22. CASE CommitStart
    BY Zenon, <1>22 DEF CommitStart, arch_config_commit, cells, call, loop, manager
  <1>23. CASE StartRun
    BY Zenon, <1>23 DEF StartRun, Loop, cells, call, loop, manager
  <1>24. CASE StartDone
    BY Zenon, <1>24 DEF StartDone, Loop, Others, cells, call, loop, manager
  <1>25. CASE SetLoadable
    BY Zenon, <1>25 DEF SetLoadable, Loop, cells, call, loop, manager
  <1>26. CASE ParkDone
    <2>1. /\ mpc = "park" /\ op = "set_loadable" /\ phase = "cell"
          /\ mpc' = "resume" \/ (mpc' = "commit" /\ todo' = {})
          /\ UNCHANGED <<op, phase, mcpu, mcell, percell>>
      BY Zenon, <1>26 DEF ParkDone, Loop, call, PartitionInv, PositionInv
    <2>2. QED
      BY Zenon, <2>1
  <1>27. CASE CommitLoadable
    BY Zenon, <1>27 DEF CommitLoadable, Loop, Others, arch_config_commit, cells, call, loop,
       manager
  <1>28. CASE Return
    BY Zenon, <1>28 DEF Return, cells, call, loop, manager
  <1>29. CASE CloseCell
    BY Zenon, <1>29 DEF CloseCell, Loop, cells, call, loop, manager
  <1>30. CASE arch_shutdown_cpu
    BY Zenon, <1>30 DEF arch_shutdown_cpu, arch_resume_cpu, cells, call, loop, manager
  <1>31. CASE CellClosed
    BY Zenon, <1>31 DEF CellClosed, cells, call, loop, manager
  <1>32. CASE ShutdownDone
    BY Zenon, <1>32 DEF ShutdownDone, Remaining, cells, call, loop, manager
  <1>33. ASSUME NEW k \in Cell, ShutdownCell(k) PROVE StoppedInv'
    BY Zenon, <1>33 DEF ShutdownCell, Loop, Remaining, cells, call, loop, manager
  <1>34. CASE UNCHANGED vars
    BY Zenon, <1>34 DEF vars, local, cells, call, loop, manager
  <1>35. QED
    BY ZenonT(30), <1>1, <1>2, <1>3, <1>4, <1>5, <1>6, <1>7, <1>8, <1>9, <1>10, <1>11,
       <1>12, <1>13, <1>14, <1>15, <1>16, <1>17, <1>18, <1>19, <1>20, <1>21, <1>22,
       <1>23, <1>24, <1>25, <1>26, <1>27, <1>28, <1>29, <1>30, <1>31, <1>32, <1>33,
       <1>34 DEF Next, GuestStep, OwnStep, LoopStep, ManagerStep

\* A CPU enters its guest only after x86_handle_events has set it up for its cell.
LEMMA SetUpOwn ==
  ASSUME TypeOK, SetUpInv, NEW d \in CPU, OwnStep(d)
  PROVE  SetUpInv'
  <1>. USE DEF TypeOK, CpuTypeOK, ProcessorTypeOK, CellTypeOK, SetUpInv, control, stop,
           initsipi, marks, local, virt, kick, tables, cells
  <1>1. CASE VmExit(d)
    BY Zenon, <1>1 DEF VmExit
  <1>2. CASE PanicHalt(d)
    BY Zenon, <1>2 DEF PanicHalt
  <1>3. ASSUME NEW t \in IpiTargets, SendInit(d, t) PROVE SetUpInv'
    BY Zenon, <1>3 DEF SendInit
  <1>4. ASSUME NEW t \in IpiTargets, SendSipi(d, t) PROVE SetUpInv'
    BY Zenon, <1>4 DEF SendSipi
  <1>5. CASE NmiExit(d)
    BY Zenon, <1>5 DEF NmiExit
  <1>6. CASE NmiInHypervisor(d)
    BY Zenon, <1>6 DEF NmiInHypervisor
  <1>7. CASE VmEntry(d)
    BY Zenon, <1>7 DEF VmEntry
  <1>8. CASE SendNmi(d)
    BY Zenon, <1>8 DEF SendNmi
  <1>9. CASE PanicPark(d)
    BY Zenon, <1>9 DEF PanicPark
  <1>10. CASE TimerExit(d)
    BY Zenon, <1>10 DEF TimerExit
  <1>11. CASE DisableTimer(d)
    BY Zenon, <1>11 DEF DisableTimer
  <1>12. CASE EventsLock(d)
    BY Zenon, <1>12 DEF EventsLock
  <1>13. CASE EventsInit(d)
    BY Zenon, <1>13 DEF EventsInit
  <1>14. CASE EventsStop(d)
    BY Zenon, <1>14 DEF EventsStop
  <1>15. CASE EventsSpin(d)
    BY Zenon, <1>15 DEF EventsSpin
  <1>16. CASE EventsWake(d)
    BY <1>16 DEF EventsWake
  <1>17. CASE EventsFlush(d)
    BY Zenon, <1>17 DEF EventsFlush
  <1>18. CASE EventsReload(d)
    BY Zenon, <1>18 DEF EventsReload
  <1>19. CASE EventsReturn(d)
    BY Zenon, <1>19 DEF EventsReturn
  <1>20. CASE LeaveHypervisor(d)
    BY Zenon, <1>20 DEF LeaveHypervisor
  <1>21. QED
    BY Zenon, <1>1, <1>2, <1>3, <1>4, <1>5, <1>6, <1>7, <1>8, <1>9, <1>10, <1>11,
       <1>12, <1>13, <1>14, <1>15, <1>16, <1>17, <1>18, <1>19, <1>20 DEF OwnStep,
       HandlerStep, NmiStep

\* A hypercall moves a CPU to another cell only while the CPU is stopped or asleep.
LEMMA SetUpStep ==
  ASSUME TypeOK, HandshakeInv, PartitionInv, QuietInv, SetUpInv, [Next]_vars
  PROVE  SetUpInv'
  <1>. USE DEF TypeOK, CpuTypeOK, ProcessorTypeOK, CellTypeOK, CallTypeOK, SetUpInv
  <1>1. ASSUME NEW d \in CPU, OwnStep(d) PROVE SetUpInv'
    BY Zenon, <1>1, SetUpOwn
  <1>2. ASSUME NEW d \in CPU, NEW o \in Ops, NEW k \in AllCells, Hypercall(d, o, k) PROVE SetUpInv'
    BY Zenon, <1>2 DEF Hypercall, Loop, control, stop, initsipi, marks, local, virt, kick,
       tables, cells
  <1>3. ASSUME NEW d \in CPU, SuspendLock(d) PROVE SetUpInv'
    BY Zenon, <1>3 DEF SuspendLock, Stopped, control, stop, initsipi, marks, local, virt,
       kick, tables, cells
  <1>4. ASSUME NEW d \in CPU, AssignPark(d) PROVE SetUpInv'
    BY Zenon, <1>4 DEF AssignPark, Loop, arch_park_cpu, arch_resume_cpu, control, stop,
       initsipi, marks, local, virt, kick, tables, cells
  <1>5. ASSUME NEW d \in CPU, UnassignPark(d) PROVE SetUpInv'
    BY Zenon, <1>5 DEF UnassignPark, Loop, arch_park_cpu, arch_resume_cpu, control, stop,
       initsipi, marks, local, virt, kick, tables, cells
  <1>6. ASSUME NEW d \in CPU, ResetCpu(d) PROVE SetUpInv'
    BY Zenon, <1>6 DEF ResetCpu, arch_reset_cpu, arch_resume_cpu, control, stop, initsipi,
       marks, local, virt, kick, tables, cells
  <1>7. ASSUME NEW d \in CPU, ParkCpu(d) PROVE SetUpInv'
    BY Zenon, <1>7 DEF ParkCpu, arch_park_cpu, arch_resume_cpu, control, stop, initsipi,
       marks, local, virt, kick, tables, cells
  <1>8. ASSUME NEW d \in CPU, ResumeCpu(d) PROVE SetUpInv'
    BY Zenon, <1>8 DEF ResumeCpu, arch_resume_cpu, control, stop, initsipi, marks, local,
       virt, kick, tables, cells
  <1>9. CASE SuspendNmi
    BY Zenon, <1>9 DEF SuspendNmi, control, stop, initsipi, marks, local, virt, kick, tables,
       cells
  <1>10. CASE SuspendWait
    BY Zenon, <1>10 DEF SuspendWait, Stopped, control, stop, initsipi, marks, local, virt,
       kick, tables, cells
  <1>11. CASE RefuseRequest
    BY Zenon, <1>11 DEF RefuseRequest, Loop, Others, control, stop, initsipi, marks, local,
       virt, kick, tables, cells
  <1>12. CASE AcceptCreate
    BY Zenon, <1>12 DEF AcceptCreate, Loop, Linked, control, stop, initsipi, marks, local,
       virt, kick, tables, cells
  <1>13. CASE AcceptManage
    BY Zenon, <1>13 DEF AcceptManage, Loop, Linked, control, stop, initsipi, marks, local,
       virt, kick, tables, cells
  <1>14. CASE AssignCell
    <2>1. /\ mpc = "assigned" /\ percell' = [percell EXCEPT ![target] = mcell]
          /\ UNCHANGED <<pc, vector, init_signaled, wait_for_sipi, config>>
      BY Zenon, <1>14 DEF AssignCell, local, virt, tables, control, initsipi
    <2>2. Asleep(target)
      BY Zenon, <2>1 DEF PartitionInv, PositionInv, QuietInv, Closed, Moving, Assigning,
         Unassigning,
         Pending
    <2>3. QED
      BY <2>1, <2>2 DEF Asleep
  <1>15. CASE MapCell
    BY Zenon, <1>15 DEF MapCell, Loop, Unmap, control, stop, initsipi, marks, local, virt,
       kick, tables, cells
  <1>16. CASE CommitCreate
    BY Zenon, <1>16 DEF CommitCreate, Loop, Others, arch_config_commit, control, stop,
       initsipi, marks, local, virt, kick, tables, cells
  <1>17. CASE StartDestroy
    BY Zenon, <1>17 DEF StartDestroy, Loop, control, stop, initsipi, marks, local, virt,
       kick, tables, cells
  <1>18. CASE UnassignCell
    <2>1. /\ mpc = "unassigned" /\ percell' = [percell EXCEPT ![target] = Root]
          /\ UNCHANGED <<pc, vector, init_signaled, wait_for_sipi, config>>
      BY Zenon, <1>18 DEF UnassignCell, local, virt, tables, control, initsipi
    <2>2. Asleep(target)
      BY Zenon, <2>1 DEF PartitionInv, PositionInv, QuietInv, Closed, Moving, Assigning,
         Unassigning,
         Pending
    <2>3. QED
      BY <2>1, <2>2 DEF Asleep
  <1>19. CASE UnmapCell
    BY Zenon, <1>19 DEF UnmapCell, Unmap, control, stop, initsipi, marks, local, virt, kick,
       tables, cells
  <1>20. CASE CommitDestroy
    BY Zenon, <1>20 DEF CommitDestroy, Loop, Others, arch_config_commit, control, stop,
       initsipi, marks, local, virt, kick, tables, cells
  <1>21. CASE StartUnmap
    BY Zenon, <1>21 DEF StartUnmap, Loop, Others, Unmap, control, stop, initsipi, marks,
       local, virt, kick, tables, cells
  <1>22. CASE CommitStart
    BY Zenon, <1>22 DEF CommitStart, arch_config_commit, control, stop, initsipi, marks,
       local, virt, kick, tables, cells
  <1>23. CASE StartRun
    BY Zenon, <1>23 DEF StartRun, Loop, control, stop, initsipi, marks, local, virt, kick,
       tables, cells
  <1>24. CASE StartDone
    BY Zenon, <1>24 DEF StartDone, Loop, Others, control, stop, initsipi, marks, local, virt,
       kick, tables, cells
  <1>25. CASE SetLoadable
    BY Zenon, <1>25 DEF SetLoadable, Loop, control, stop, initsipi, marks, local, virt, kick,
       tables, cells
  <1>26. CASE ParkDone
    BY Zenon, <1>26 DEF ParkDone, Loop, Others, control, stop, initsipi, marks, local, virt,
       kick, tables, cells
  <1>27. CASE CommitLoadable
    BY Zenon, <1>27 DEF CommitLoadable, Loop, Others, arch_config_commit, control, stop,
       initsipi, marks, local, virt, kick, tables, cells
  <1>28. CASE Return
    BY <1>28 DEF Return, control, stop, initsipi, marks, local, virt, kick, tables, cells,
       HandshakeInv, CallerInv
  <1>29. CASE CloseCell
    BY Zenon, <1>29 DEF CloseCell, Loop, control, stop, initsipi, marks, local, virt, kick,
       tables, cells
  <1>30. CASE arch_shutdown_cpu
    BY Zenon, <1>30 DEF arch_shutdown_cpu, arch_resume_cpu, control, stop, initsipi, marks,
       local, virt, kick, tables, cells
  <1>31. CASE CellClosed
    BY Zenon, <1>31 DEF CellClosed, control, stop, initsipi, marks, local, virt, kick,
       tables, cells
  <1>32. CASE ShutdownDone
    BY Zenon, <1>32 DEF ShutdownDone, Remaining, control, stop, initsipi, marks, local, virt,
       kick, tables, cells
  <1>33. ASSUME NEW k \in Cell, ShutdownCell(k) PROVE SetUpInv'
    BY Zenon, <1>33 DEF ShutdownCell, Loop, Remaining, control, stop, initsipi, marks, local,
       virt, kick, tables, cells
  <1>34. CASE UNCHANGED vars
    BY Zenon, <1>34 DEF vars, local, control, stop, initsipi, marks, local, virt,
       kick, tables, cells
  <1>35. QED
    BY Zenon, <1>1, <1>2, <1>3, <1>4, <1>5, <1>6, <1>7, <1>8, <1>9, <1>10, <1>11,
       <1>12, <1>13, <1>14, <1>15, <1>16, <1>17, <1>18, <1>19, <1>20, <1>21, <1>22,
       <1>23, <1>24, <1>25, <1>26, <1>27, <1>28, <1>29, <1>30, <1>31, <1>32, <1>33,
       <1>34 DEF Next, GuestStep, OwnStep, LoopStep, ManagerStep

\* The steps of a hypercall, except the reset of a CPU by cell_start.
CallStep ==
  \/ \E d \in CPU :
       \/ \E o \in Ops, k \in AllCells : Hypercall(d, o, k)
       \/ SuspendLock(d) \/ AssignPark(d) \/ UnassignPark(d) \/ ParkCpu(d) \/ ResumeCpu(d)
  \/ ManagerStep

\* Every step is a CPU's own, one of a hypercall, or cell_start's reset.
LEMMA StepKinds ==
  ASSUME Next
  PROVE  CallStep \/ \E d \in CPU : OwnStep(d) \/ ResetCpu(d)
  BY Zenon DEF Next, GuestStep, LoopStep, OwnStep, CallStep

\* A hypercall wakes nobody, unless it resets the CPU.
LEMMA AsleepCall ==
  ASSUME TypeOK, HandshakeInv, NEW c \in CPU, Asleep(c), CallStep
  PROVE  Asleep(c)'
  <1>. USE DEF TypeOK, CpuTypeOK, CallTypeOK, Asleep
  <1>1. ASSUME NEW d \in CPU, NEW o \in Ops, NEW k \in AllCells, Hypercall(d, o, k) PROVE Asleep(c)'
    BY Zenon, <1>1 DEF Hypercall, Loop, local, control, initsipi, stop, marks
  <1>2. ASSUME NEW d \in CPU, SuspendLock(d) PROVE Asleep(c)'
    BY Zenon, <1>2 DEF SuspendLock, Stopped, local, control, initsipi, stop, marks
  <1>3. ASSUME NEW d \in CPU, AssignPark(d) PROVE Asleep(c)'
    BY Zenon, <1>3 DEF AssignPark, Loop, arch_park_cpu, arch_resume_cpu, local, control,
       initsipi, stop, marks
  <1>4. ASSUME NEW d \in CPU, UnassignPark(d) PROVE Asleep(c)'
    BY Zenon, <1>4 DEF UnassignPark, Loop, arch_park_cpu, arch_resume_cpu, local, control,
       initsipi, stop, marks
  <1>5. ASSUME NEW d \in CPU, ParkCpu(d) PROVE Asleep(c)'
    BY Zenon, <1>5 DEF ParkCpu, arch_park_cpu, arch_resume_cpu, local, control, initsipi,
       stop, marks
  <1>6. ASSUME NEW d \in CPU, ResumeCpu(d) PROVE Asleep(c)'
    BY Zenon, <1>6 DEF ResumeCpu, arch_resume_cpu, local, control, initsipi, stop, marks
  <1>7. CASE SuspendNmi
    BY Zenon, <1>7 DEF SuspendNmi, local, control, initsipi, stop, marks
  <1>8. CASE SuspendWait
    BY Zenon, <1>8 DEF SuspendWait, Stopped, local, control, initsipi, stop, marks
  <1>9. CASE RefuseRequest
    BY Zenon, <1>9 DEF RefuseRequest, Loop, Others, local, control, initsipi, stop, marks
  <1>10. CASE AcceptCreate
    BY Zenon, <1>10 DEF AcceptCreate, Loop, Linked, local, control, initsipi, stop, marks
  <1>11. CASE AcceptManage
    BY Zenon, <1>11 DEF AcceptManage, Loop, Linked, local, control, initsipi, stop, marks
  <1>12. CASE AssignCell
    BY Zenon, <1>12 DEF AssignCell, local, control, initsipi, stop, marks
  <1>13. CASE MapCell
    BY Zenon, <1>13 DEF MapCell, Loop, Unmap, local, control, initsipi, stop, marks
  <1>14. CASE CommitCreate
    BY Zenon, <1>14 DEF CommitCreate, Loop, Others, arch_config_commit, local, control,
       initsipi, stop, marks
  <1>15. CASE StartDestroy
    BY Zenon, <1>15 DEF StartDestroy, Loop, local, control, initsipi, stop, marks
  <1>16. CASE UnassignCell
    BY Zenon, <1>16 DEF UnassignCell, local, control, initsipi, stop, marks
  <1>17. CASE UnmapCell
    BY Zenon, <1>17 DEF UnmapCell, Unmap, local, control, initsipi, stop, marks
  <1>18. CASE CommitDestroy
    BY Zenon, <1>18 DEF CommitDestroy, Loop, Others, arch_config_commit, local, control,
       initsipi, stop, marks
  <1>19. CASE StartUnmap
    BY Zenon, <1>19 DEF StartUnmap, Loop, Others, Unmap, local, control, initsipi, stop,
       marks
  <1>20. CASE CommitStart
    BY Zenon, <1>20 DEF CommitStart, arch_config_commit, local, control, initsipi, stop,
       marks
  <1>21. CASE StartRun
    BY Zenon, <1>21 DEF StartRun, Loop, local, control, initsipi, stop, marks
  <1>22. CASE StartDone
    BY Zenon, <1>22 DEF StartDone, Loop, Others, local, control, initsipi, stop, marks
  <1>23. CASE SetLoadable
    BY Zenon, <1>23 DEF SetLoadable, Loop, local, control, initsipi, stop, marks
  <1>24. CASE ParkDone
    BY Zenon, <1>24 DEF ParkDone, Loop, Others, local, control, initsipi, stop, marks
  <1>25. CASE CommitLoadable
    BY Zenon, <1>25 DEF CommitLoadable, Loop, Others, arch_config_commit, local, control,
       initsipi, stop, marks
  <1>26. CASE Return
    BY Zenon, <1>26 DEF Return, local, control, initsipi, stop, marks, HandshakeInv, CallerInv
  <1>27. CASE CloseCell
    BY Zenon, <1>27 DEF CloseCell, Loop, local, control, initsipi, stop, marks
  <1>28. CASE arch_shutdown_cpu
    BY Zenon, <1>28 DEF arch_shutdown_cpu, arch_resume_cpu, local, control, initsipi, stop,
       marks
  <1>29. CASE CellClosed
    BY Zenon, <1>29 DEF CellClosed, local, control, initsipi, stop, marks
  <1>30. CASE ShutdownDone
    BY Zenon, <1>30 DEF ShutdownDone, Remaining, local, control, initsipi, stop, marks
  <1>31. ASSUME NEW k \in Cell, ShutdownCell(k) PROVE Asleep(c)'
    BY Zenon, <1>31 DEF ShutdownCell, Loop, Remaining, local, control, initsipi, stop, marks
  <1>32. QED
    BY Zenon, <1>1, <1>2, <1>3, <1>4, <1>5, <1>6, <1>7, <1>8, <1>9, <1>10, <1>11,
       <1>12, <1>13, <1>14, <1>15, <1>16, <1>17, <1>18, <1>19, <1>20, <1>21, <1>22,
       <1>23, <1>24, <1>25, <1>26, <1>27, <1>28, <1>29, <1>30, <1>31 DEF CallStep,
       ManagerStep

\* A guest that runs sends INIT and SIPI to no CPU that a hypercall counts on: its
\* cell is neither being changed nor shut down nor loadable.
LEMMA PeersQuiet ==
  ASSUME TypeOK, HandshakeInv, PartitionInv, StoppedInv, QuietInv, NEW d \in CPU, pc[d] = "trap",
         NEW t \in cpu_set[percell[d]]
  PROVE  /\ Reconfiguring => t \notin Others(Root)
         /\ Closed => t \notin cpu_set[mcell]
         /\ \A k \in Cell : cell_state[k] = "SHUT_DOWN" \/ loadable[k] => t \notin cpu_set[k]
  <1>1. \A c \in CPU : Still(c) => pc[c] # "trap"
    BY Zenon DEF HandshakeInv, Still, Asleep, TypeOK, CallTypeOK
  <1>2. mpc \notin {"idle", "closed"} => d # mcpu
    BY Zenon DEF HandshakeInv, CallerInv
  <1>3. percell[d] \in AllCells /\ d \in CPU /\ t \in CPU
    BY Zenon DEF TypeOK, CellTypeOK
  <1>4. \A c \in CPU, k \in Cell : ~(Moving /\ k = mcell) => (c \in cpu_set[k] <=> percell[c] = k)
    BY Zenon DEF PartitionInv
  <1>5. \A c \in CPU : c \in cpu_set[Root] <=> percell[c] = Root
    BY Zenon DEF PartitionInv
  <1>6. Closed => Reconfiguring /\ mcell \in Cell
    BY Zenon DEF Closed, Reconfiguring, Moving, Assigning, Unassigning, PartitionInv,
       PositionInv,
       StoppedInv
  <1>7. Moving => \A c \in CPU :
          /\ percell[c] = mcell => c \in cpu_set[mcell]
          /\ c \in cpu_set[mcell] => percell[c] \in {Root, mcell}
    BY Zenon DEF PartitionInv, MovingInv
  <1>8. Reconfiguring => percell[d] \in Cell
    <2>1. Reconfiguring => d # mcpu
      BY Zenon, <1>2 DEF Reconfiguring
    <2>2. QED
      BY Zenon, <1>1, <1>3, <1>5, <2>1 DEF QuietInv, Others, AllCells
  <1>9. Closed => t \notin cpu_set[mcell]
    <2>1. SUFFICES ASSUME Closed, t \in cpu_set[mcell] PROVE FALSE
      OBVIOUS
    <2>2. d \notin cpu_set[mcell]
      BY Zenon, <1>1, <2>1 DEF QuietInv
    <2>3. percell[d] \in Cell /\ percell[d] # mcell
      BY Zenon, <1>3, <1>4, <1>6, <1>7, <1>8, <2>1, <2>2
    <2>4. percell[t] = percell[d]
      BY Zenon, <1>3, <1>4, <2>3
    <2>5. percell[t] \in {Root, mcell}
      BY Zenon, <1>3, <1>4, <1>6, <1>7, <2>1
    <2>6. QED
      BY Zenon, <2>3, <2>4, <2>5, ConstAssumption
  <1>10. Moving => Closed
    BY Zenon DEF Closed
  <1>11. Reconfiguring => t \notin Others(Root)
    <2>1. SUFFICES ASSUME Reconfiguring, t \in cpu_set[Root] PROVE FALSE
      BY Zenon DEF Others
    <2>2. percell[t] = Root /\ percell[d] \in Cell
      BY Zenon, <1>3, <1>5, <1>8, <2>1
    <2>3. Moving /\ percell[d] = mcell
      BY Zenon, <1>3, <1>4, <2>2, ConstAssumption
    <2>4. QED
      BY Zenon, <1>9, <1>10, <2>3
  <1>12. ASSUME NEW k \in Cell, cell_state[k] = "SHUT_DOWN" \/ loadable[k], t \in cpu_set[k]
         PROVE  FALSE
    <2>1. ~(Moving /\ k = mcell)
      BY Zenon, <1>9, <1>10, <1>12
    <2>2. percell[t] = k
      BY Zenon, <1>3, <1>4, <1>12, <2>1
    <2>3. percell[d] # k
      <3>1. d \notin cpu_set[k]
        BY Zenon, <1>1, <1>12 DEF QuietInv, Still
      <3>2. QED
        BY Zenon, <1>4, <2>1, <3>1
    <2>4. percell[d] # Root
      BY Zenon, <1>3, <1>5, <1>12, <2>2, ConstAssumption
    <2>5. percell[d] \in Cell /\ percell[d] # percell[t]
      BY Zenon, <1>3, <2>2, <2>3, <2>4 DEF AllCells
    <2>6. Moving /\ percell[d] = mcell
      BY Zenon, <1>3, <1>4, <2>5
    <2>7. QED
      BY Zenon, <1>9, <1>10, <2>6
  <1>13. QED
    BY Zenon, <1>9, <1>11, <1>12

\* Therefore no step of a CPU on its own wakes one that has to be quiet.
LEMMA QuietOwn ==
  ASSUME TypeOK, HandshakeInv, PartitionInv, StoppedInv, QuietInv, NEW d \in CPU, OwnStep(d)
  PROVE  QuietInv'
  <1>1. /\ UNCHANGED <<percell, cpu_set, loadable, op, phase, mcpu, mcell, mpc, todo, target, held>>
        /\ \A k \in AllCells : cell_state'[k] = cell_state[k] \/ cell_state'[k] = "FAILED"
    BY Zenon, OwnFrame DEF TypeOK
  <1>2. CASE \E t \in IpiTargets : SendSipi(d, t)
    <2>1. PICK t \in IpiTargets : SendSipi(d, t)
      BY Zenon, <1>2
    <2>2. /\ pc[d] = "trap" /\ t \in cpu_set[percell[d]]
          /\ sipi_vector' = [sipi_vector EXCEPT ![t] = "sipi"]
      BY Zenon, <2>1 DEF SendSipi
    <2>3. \A c \in CPU \ {t} : Asleep(c) => Asleep(c)'
      <3>1. \A c \in CPU \ {t} : sipi_vector'[c] = sipi_vector[c]
        BY Zenon, <2>2 DEF TypeOK, CpuTypeOK
      <3>2. QED
        BY Zenon, <3>1, AsleepOwn
    <2>4. /\ Reconfiguring => t \notin Others(Root)
          /\ Closed => t \notin cpu_set[mcell]
          /\ \A k \in Cell : cell_state[k] = "SHUT_DOWN" \/ loadable[k] => t \notin cpu_set[k]
      BY Zenon, <2>2, PeersQuiet
    <2>5. QED
      BY Zenon, <1>1, <2>3, <2>4 DEF QuietInv, Reconfiguring, Closed, Moving, Assigning,
         Unassigning,
         Others, Still, TypeOK, CellTypeOK, CallTypeOK, AllCells
  <1>3. CASE ~\E t \in IpiTargets : SendSipi(d, t)
    <2>1. \A c \in CPU : sipi_vector'[c] = sipi_vector[c] \/ sipi_vector'[c] = "none"
      BY Zenon, <1>3 DEF OwnStep, HandlerStep, NmiStep, VmExit, PanicHalt, SendInit, NmiExit,
         NmiInHypervisor, VmEntry, SendNmi, PanicPark, TimerExit, DisableTimer, EventsLock,
         EventsInit, EventsStop, EventsSpin, EventsWake, EventsFlush, EventsReload,
         EventsReturn, LeaveHypervisor, control, initsipi, TypeOK, CpuTypeOK, local
    <2>2. \A c \in CPU : Asleep(c) => Asleep(c)'
      BY Zenon, <2>1, AsleepOwn
    <2>3. QED
      BY Zenon, <1>1, <2>2 DEF QuietInv, Reconfiguring, Closed, Moving, Assigning, Unassigning,
         Others, Still, TypeOK, CellTypeOK, CallTypeOK, AllCells
  <1>4. QED
    BY Zenon, <1>2, <1>3

\* A stopped CPU that is parked goes to sleep.
LEMMA ParkSleeps ==
  ASSUME TypeOK, HandshakeInv, NEW d \in CPU, AssignPark(d) \/ UnassignPark(d) \/ ParkCpu(d),
         Still(d)
  PROVE  Asleep(d)'
  <1>1. UNCHANGED <<pc, sipi_vector, wait_for_sipi>> /\ init_signaled'[d] = TRUE
    BY Zenon DEF AssignPark, UnassignPark, ParkCpu, arch_park_cpu, local, TypeOK, CpuTypeOK
  <1>2. d \in held => pc[d] = "spin"
    BY Zenon DEF HandshakeInv, TypeOK, CallTypeOK
  <1>3. QED
    BY Zenon, <1>1, <1>2 DEF Still, Asleep

\* The hypercall resumes a CPU only when it is done with the CPU's cell.
LEMMA QuietCall ==
  ASSUME TypeOK, HandshakeInv, PartitionInv, StoppedInv, QuietInv, CallStep,
         \A c \in CPU : Asleep(c) => Asleep(c)'
  PROVE  QuietInv'
  <1>. USE ConstAssumption DEF TypeOK, CellTypeOK, CallTypeOK, QuietInv, Reconfiguring,
           Closed, Still,
     Moving, Assigning, Unassigning, Others, AllCells, Suspending
  <1>1. ASSUME NEW d \in CPU, NEW o \in Ops, NEW k \in AllCells, Hypercall(d, o, k) PROVE QuietInv'
    BY Zenon, <1>1 DEF Hypercall, Loop, cells, call, loop, manager, StoppedInv
  <1>2. ASSUME NEW d \in CPU, SuspendLock(d) PROVE QuietInv'
    BY Zenon, <1>2 DEF SuspendLock, Stopped, cells, call, loop, manager, StoppedInv
  <1>3. ASSUME NEW d \in CPU, AssignPark(d) PROVE QuietInv'
    <2>1. /\ UNCHANGED <<cpu_set, loadable, cell_state, mcpu, mcell, op, phase>>
          /\ d \in todo /\ todo' = todo \ {d} /\ held' = held \ {d}
          /\ mpc = "assign" /\ mpc' = "assigned"
      BY Zenon, <1>3 DEF AssignPark, Loop, arch_park_cpu, arch_resume_cpu, cells, call
    <2>2. Still(d) => Asleep(d)'
      BY Zenon, <1>3, ParkSleeps
    <2>3. \A c \in CPU : Still(c) => Still(c)'
      BY Zenon, <2>1, <2>2
    <2>4. QED
      BY Zenon, <2>1, <2>2, <2>3
  <1>4. ASSUME NEW d \in CPU, UnassignPark(d) PROVE QuietInv'
    <2>1. /\ UNCHANGED <<cpu_set, loadable, cell_state, mcpu, mcell, op, phase>>
          /\ d \in todo /\ todo' = todo \ {d} /\ held' = held \ {d}
          /\ mpc = "unassign" /\ mpc' = "unassigned"
      BY Zenon, <1>4 DEF UnassignPark, Loop, arch_park_cpu, arch_resume_cpu, cells, call
    <2>2. Still(d) => Asleep(d)'
      BY Zenon, <1>4, ParkSleeps
    <2>3. \A c \in CPU : Still(c) => Still(c)'
      BY Zenon, <2>1, <2>2
    <2>4. QED
      BY Zenon, <2>1, <2>2, <2>3
  <1>5. ASSUME NEW d \in CPU, ParkCpu(d) PROVE QuietInv'
    <2>1. /\ UNCHANGED <<cpu_set, loadable, cell_state, mcpu, mcell, op, phase>>
          /\ d \in todo /\ todo' = todo \ {d} /\ held' = held \ {d}
          /\ mpc = "park" /\ mpc' = "park"
      BY Zenon, <1>5 DEF ParkCpu, arch_park_cpu, arch_resume_cpu, cells, call
    <2>2. Still(d) => Asleep(d)'
      BY Zenon, <1>5, ParkSleeps
    <2>3. \A c \in CPU : Still(c) => Still(c)'
      BY Zenon, <2>1, <2>2
    <2>4. QED
      BY Zenon, <2>1, <2>2, <2>3
  <1>6. ASSUME NEW d \in CPU, ResumeCpu(d) PROVE QuietInv'
    BY Zenon, <1>6 DEF ResumeCpu, arch_resume_cpu, cells, call, loop, manager, StoppedInv
  <1>7. CASE SuspendNmi
    BY Zenon, <1>7 DEF SuspendNmi, cells, call, loop, manager, StoppedInv
  <1>8. CASE SuspendWait
    BY Zenon, <1>8 DEF SuspendWait, Stopped, cells, call, loop, manager, StoppedInv
  <1>9. CASE RefuseRequest
    BY Zenon, <1>9 DEF RefuseRequest, Loop, Others, cells, call, loop, manager, StoppedInv
  <1>10. CASE AcceptCreate
    BY Zenon, <1>10 DEF AcceptCreate, Loop, Linked, cells, call, loop, manager, StoppedInv
  <1>11. CASE AcceptManage
    BY Zenon, <1>11 DEF AcceptManage, Loop, Linked, cells, call, loop, manager, StoppedInv
  <1>12. CASE AssignCell
    BY Zenon, <1>12 DEF AssignCell, cells, call, loop, manager, StoppedInv
  <1>13. CASE MapCell
    BY Zenon, <1>13 DEF MapCell, Loop, Unmap, cells, call, loop, manager, StoppedInv
  <1>14. CASE CommitCreate
    BY Zenon, <1>14 DEF CommitCreate, Loop, Others, arch_config_commit, cells, call, loop,
       manager, StoppedInv
  <1>15. CASE StartDestroy
    BY Zenon, <1>15 DEF StartDestroy, Loop, cells, call, loop, manager, StoppedInv
  <1>16. CASE UnassignCell
    <2>1. /\ UNCHANGED <<loadable, cell_state, mcpu, mcell, op, phase, todo, held>>
          /\ mpc = "unassigned" /\ mpc' = "unassign"
          /\ cpu_set' = [cpu_set EXCEPT ![Root] = @ \cup {target}]
      BY Zenon, <1>16 DEF UnassignCell, call
    <2>2. Asleep(target) /\ mcell \in Cell
      BY Zenon, <2>1 DEF PartitionInv, PositionInv, Pending
    <2>3. QED
      BY <2>1, <2>2
  <1>17. CASE UnmapCell
    BY Zenon, <1>17 DEF UnmapCell, Unmap, cells, call, loop, manager, StoppedInv
  <1>18. CASE CommitDestroy
    BY Zenon, <1>18 DEF CommitDestroy, Loop, Others, arch_config_commit, cells, call, loop,
       manager, StoppedInv
  <1>19. CASE StartUnmap
    BY Zenon, <1>19 DEF StartUnmap, Loop, Others, Unmap, cells, call, loop, manager,
       StoppedInv
  <1>20. CASE CommitStart
    BY Zenon, <1>20 DEF CommitStart, arch_config_commit, cells, call, loop, manager,
       StoppedInv
  <1>21. CASE StartRun
    BY Zenon, <1>21 DEF StartRun, Loop, cells, call, loop, manager, StoppedInv
  <1>22. CASE StartDone
    BY Zenon, <1>22 DEF StartDone, Loop, Others, cells, call, loop, manager, StoppedInv
  <1>23. CASE SetLoadable
    BY Zenon, <1>23 DEF SetLoadable, Loop, cells, call, loop, manager, StoppedInv
  <1>24. CASE ParkDone
    BY Zenon, <1>24 DEF ParkDone, Loop, Others, cells, call, loop, manager, StoppedInv
  <1>25. CASE CommitLoadable
    BY Zenon, <1>25 DEF CommitLoadable, Loop, Others, arch_config_commit, cells, call, loop,
       manager, StoppedInv
  <1>26. CASE Return
    BY Zenon, <1>26 DEF Return, cells, call, loop, manager, StoppedInv
  <1>27. CASE CloseCell
    BY Zenon, <1>27 DEF CloseCell, Loop, cells, call, loop, manager, StoppedInv
  <1>28. CASE arch_shutdown_cpu
    BY Zenon, <1>28 DEF arch_shutdown_cpu, arch_resume_cpu, cells, call, loop, manager,
       StoppedInv
  <1>29. CASE CellClosed
    BY Zenon, <1>29 DEF CellClosed, cells, call, loop, manager, StoppedInv
  <1>30. CASE ShutdownDone
    BY Zenon, <1>30 DEF ShutdownDone, Remaining, cells, call, loop, manager, StoppedInv
  <1>31. ASSUME NEW k \in Cell, ShutdownCell(k) PROVE QuietInv'
    BY Zenon, <1>31 DEF ShutdownCell, Loop, Remaining, cells, call, loop, manager, StoppedInv
  <1>32. QED
    BY ZenonT(30), <1>1, <1>2, <1>3, <1>4, <1>5, <1>6, <1>7, <1>8, <1>9, <1>10, <1>11,
       <1>12, <1>13, <1>14, <1>15, <1>16, <1>17, <1>18, <1>19, <1>20, <1>21, <1>22,
       <1>23, <1>24, <1>25, <1>26, <1>27, <1>28, <1>29, <1>30, <1>31 DEF CallStep,
       ManagerStep

\* cell_start's reset wakes CPUs of a cell that is neither shut down nor loadable.
LEMMA QuietReset ==
  ASSUME TypeOK, HandshakeInv, PartitionInv, StoppedInv, QuietInv, NEW d \in CPU, ResetCpu(d)
  PROVE  QuietInv'
  <1>1. /\ mpc = "reset" /\ mpc' = "reset" /\ d \in todo /\ held' = held \ {d}
        /\ UNCHANGED <<cpu_set, percell, loadable, cell_state, mcpu, mcell, op, phase>>
    BY Zenon DEF ResetCpu, arch_reset_cpu, arch_resume_cpu, cells, call
  <1>2. \A c \in CPU \ {d} : Asleep(c) => Asleep(c)'
    BY Zenon DEF ResetCpu, arch_reset_cpu, local, Asleep, TypeOK, CpuTypeOK
  <1>3. /\ d \in cpu_set[mcell] /\ mcell \in Cell /\ percell[d] = mcell
        /\ ~loadable[mcell] /\ cell_state[mcell] # "SHUT_DOWN"
    BY Zenon, <1>1 DEF StoppedInv, PartitionInv, PositionInv, Moving, Assigning, Unassigning
  <1>4. d \notin cpu_set[Root] /\ \A k \in Cell : d \in cpu_set[k] => k = mcell
    BY Zenon, <1>1, <1>3, ConstAssumption DEF PartitionInv, Moving, Assigning, Unassigning
  <1>5. QED
    BY Zenon, <1>1, <1>2, <1>3, <1>4 DEF QuietInv, Reconfiguring, Closed, Moving, Assigning,
       Unassigning,
         Others, Still, TypeOK, CellTypeOK, CallTypeOK, AllCells

\* Every step keeps quiet who has to be.
LEMMA QuietStep ==
  ASSUME TypeOK, HandshakeInv, PartitionInv, StoppedInv, QuietInv, [Next]_vars
  PROVE  QuietInv'
  <1>1. CASE CallStep
    <2>1. \A c \in CPU : Asleep(c) => Asleep(c)'
      BY Zenon, <1>1, AsleepCall
    <2>2. QED
      BY Zenon, <1>1, <2>1, QuietCall
  <1>2. CASE UNCHANGED vars
    BY Zenon, <1>2 DEF vars, local, control, cells, manager, QuietInv, Reconfiguring, Closed,
       Moving,
       Assigning, Unassigning, Others, Still, Asleep
  <1>3. QED
    BY Zenon, <1>1, <1>2, QuietOwn, QuietReset, StepKinds

\* A CPU that runs is set up for its cell, and it is not one that should be quiet.
LEMMA ConfinedConclusion ==
  ASSUME TypeOK, HandshakeInv, QuietInv, SetUpInv
  PROVE  GuestsConfined
  <1>1. \A c \in CPU : Still(c) => ~Running(c)
    BY Zenon DEF Still, Asleep, Running, HandshakeInv, TypeOK, CallTypeOK
  <1>2. RunsOwnCell
    BY Zenon DEF RunsOwnCell, Running, SetUpInv
  <1>3. cpu_set \in [AllCells -> SUBSET CPU]
    BY Zenon DEF TypeOK, CellTypeOK
  <1>4. ShutDownCellIdle
    BY Zenon, <1>1, <1>3 DEF ShutDownCellIdle, QuietInv, Still, AllCells
  <1>5. RootStopped
    BY Zenon, <1>1, <1>3 DEF RootStopped, QuietInv, Others, AllCells
  <1>6. QED
    BY Zenon, <1>2, <1>4, <1>5 DEF GuestsConfined

\* All CPUs start in the root cell, set up for it.
LEMMA ConfinedStart == Init => ConfinedInv
  <1>. SUFFICES ASSUME Init PROVE ConfinedInv
    OBVIOUS
  <1>1. HandshakeInv
    BY Zenon, ConstAssumption DEF Init, HandshakeInv, CallerInv
  <1>2. PartitionInv
    BY Zenon, ConstAssumption DEF Init, AllCells, PartitionInv, PositionInv,
       UnlinkedInv, MovingInv, Moving, Assigning, Unassigning
  <1>3. StoppedInv
    BY Zenon DEF Init, StoppedInv
  <1>4. QuietInv
    BY Zenon, ConstAssumption DEF Init, QuietInv, Reconfiguring, Closed, Moving, Assigning,
       Unassigning, AllCells
  <1>5. SetUpInv
    BY Zenon DEF Init, SetUpInv
  <1>6. QED
    BY Zenon, <1>1, <1>2, <1>3, <1>4, <1>5 DEF ConfinedInv

\* Every step keeps the invariant.
LEMMA ConfinedStep ==
  ASSUME PromptResume, TypeOK, TypeOK', ConfinedInv, [Next]_vars
  PROVE  ConfinedInv'
  BY Zenon, HandshakeStep, PartitionStep, StoppedStep, QuietStep, SetUpStep DEF ConfinedInv

\* For any CPUs and cells and every sequence of hypercalls: a CPU runs guest code only
\* for the cell it belongs to, with that cell's tables, never for a cell that is shut
\* down or loadable, and not for the root cell while a hypercall changes the cells;
\* provided that a resumed CPU leaves the stop loop before it is suspended again.
THEOREM GuestsAreConfined == PromptResume => (Spec => []GuestsConfined)
  <1>. SUFFICES ASSUME PromptResume PROVE Spec => []GuestsConfined
    OBVIOUS
  <1>1. TypeOK /\ TypeOK' /\ ConfinedInv /\ [Next]_vars => ConfinedInv'
    BY Zenon, ConfinedStep
  <1>2. TypeOK /\ ConfinedInv => GuestsConfined
    BY Zenon, ConfinedConclusion DEF ConfinedInv
  <1>. QED
    BY <1>1, <1>2, ConfinedStart, TypeCorrect, PTL DEF Spec

\* panic_halt sets the state of a cell to failed when it stops the last of its CPUs.
LEMMA ReportedOwn ==
  ASSUME TypeOK, PartitionInv, QuietInv, HandshakeInv, ReportedInv, NEW d \in CPU, OwnStep(d)
  PROVE  ReportedInv'
  <1>0. /\ UNCHANGED <<percell, cpu_set, op, phase, mcell, mpc, todo>>
        /\ \A k \in AllCells : cell_state'[k] = cell_state[k] \/ cell_state'[k] = "FAILED"
    BY Zenon, OwnFrame DEF TypeOK
  <1>. USE DEF TypeOK, CpuTypeOK, CellTypeOK, ReportedInv, control, marks, local
  <1>1. CASE VmExit(d)
    BY Zenon, <1>1, <1>0 DEF VmExit
  <1>2. CASE PanicHalt(d)
    BY Zenon, <1>2, <1>0 DEF PanicHalt
  <1>3. ASSUME NEW t \in IpiTargets, SendInit(d, t) PROVE ReportedInv'
    BY Zenon, <1>3, <1>0 DEF SendInit
  <1>4. ASSUME NEW t \in IpiTargets, SendSipi(d, t) PROVE ReportedInv'
    BY Zenon, <1>4, <1>0 DEF SendSipi
  <1>5. CASE NmiExit(d)
    BY Zenon, <1>5, <1>0 DEF NmiExit
  <1>6. CASE NmiInHypervisor(d)
    BY Zenon, <1>6, <1>0 DEF NmiInHypervisor
  <1>7. CASE VmEntry(d)
    BY Zenon, <1>7, <1>0 DEF VmEntry
  <1>8. CASE SendNmi(d)
    BY Zenon, <1>8, <1>0 DEF SendNmi
  <1>9. CASE PanicPark(d)
    <2>1. /\ pc[d] = "panic" /\ UNCHANGED failed /\ \A c \in CPU \ {d} : pc'[c] = pc[c]
          /\ (\A c \in cpu_set[percell[d]] : failed[c]) => cell_state'[percell[d]] = "FAILED"
      BY Zenon, <1>9 DEF PanicPark
    <2>2. SUFFICES ASSUME NEW k \in AllCells, cell_state'[k] = "RUNNING", cpu_set[k] # {},
                          \A c \in cpu_set[k] : failed[c] /\ pc'[c] # "panic"
                   PROVE  mpc = "reset" /\ mcell = k /\ todo # {}
      BY Zenon, <1>0, <2>1
    <2>3. CASE d \notin cpu_set[k]
      <3>1. cell_state[k] = "RUNNING"
        BY Zenon, <1>0, <2>2
      <3>2. \A c \in cpu_set[k] : failed[c] /\ pc[c] # "panic"
        BY Zenon, <2>1, <2>2, <2>3
      <3>3. QED
        BY Zenon, <2>2, <3>1, <3>2
    <2>4. CASE d \in cpu_set[k]
      <3>1. percell[d] # k
        BY Zenon, <2>1, <2>2
      <3>2. Moving /\ k = mcell
        BY Zenon, <2>4, <3>1 DEF PartitionInv, AllCells
      <3>3. Still(d)
        BY Zenon, <2>4, <3>2 DEF QuietInv, Closed
      <3>4. QED
        BY Zenon, <2>1, <3>3 DEF Still, Asleep, HandshakeInv
    <2>5. QED
      BY Zenon, <2>3, <2>4
  <1>10. CASE TimerExit(d)
    BY Zenon, <1>10, <1>0 DEF TimerExit
  <1>11. CASE DisableTimer(d)
    BY Zenon, <1>11, <1>0 DEF DisableTimer
  <1>12. CASE EventsLock(d)
    BY Zenon, <1>12, <1>0 DEF EventsLock
  <1>13. CASE EventsInit(d)
    BY Zenon, <1>13, <1>0 DEF EventsInit
  <1>14. CASE EventsStop(d)
    BY Zenon, <1>14, <1>0 DEF EventsStop
  <1>15. CASE EventsSpin(d)
    BY Zenon, <1>15, <1>0 DEF EventsSpin
  <1>16. CASE EventsWake(d)
    BY Zenon, <1>16, <1>0 DEF EventsWake
  <1>17. CASE EventsFlush(d)
    BY Zenon, <1>17, <1>0 DEF EventsFlush
  <1>18. CASE EventsReload(d)
    BY Zenon, <1>18, <1>0 DEF EventsReload
  <1>19. CASE EventsReturn(d)
    BY ZenonT(30), <1>19, <1>0 DEF EventsReturn
  <1>20. CASE LeaveHypervisor(d)
    BY Zenon, <1>20, <1>0 DEF LeaveHypervisor
  <1>21. QED
    BY Zenon, <1>1, <1>2, <1>3, <1>4, <1>5, <1>6, <1>7, <1>8, <1>9, <1>10, <1>11,
       <1>12, <1>13, <1>14, <1>15, <1>16, <1>17, <1>18, <1>19, <1>20 DEF OwnStep,
       HandlerStep, NmiStep

\* A hypercall leaves no running cell without a working CPU, except while cell_start
\* resets the CPUs one by one.
LEMMA ReportedStep ==
  ASSUME TypeOK, FailedInv, HandshakeInv, PartitionInv, StoppedInv,
         QuietInv, SetUpInv, ReportedInv, [Next]_vars
  PROVE  ReportedInv'
  <1>. USE ConstAssumption DEF TypeOK, CpuTypeOK, CellTypeOK, CallTypeOK, ReportedInv, AllCells
  <1>1. ASSUME NEW d \in CPU, OwnStep(d) PROVE ReportedInv'
    BY Zenon, <1>1, ReportedOwn
  <1>2. ASSUME NEW d \in CPU, NEW o \in Ops, NEW k \in AllCells, Hypercall(d, o, k) PROVE ReportedInv'
    BY Zenon, <1>2 DEF Hypercall, Loop, control, marks, local, cells, call, loop, manager
  <1>3. ASSUME NEW d \in CPU, SuspendLock(d) PROVE ReportedInv'
    BY Zenon, <1>3 DEF SuspendLock, Stopped, control, marks, local, cells, call, loop,
       manager
  <1>4. ASSUME NEW d \in CPU, AssignPark(d) PROVE ReportedInv'
    BY Zenon, <1>4 DEF AssignPark, Loop, arch_park_cpu, arch_resume_cpu, control, marks,
       local, cells, call, loop, manager
  <1>5. ASSUME NEW d \in CPU, UnassignPark(d) PROVE ReportedInv'
    BY Zenon, <1>5 DEF UnassignPark, Loop, arch_park_cpu, arch_resume_cpu, control, marks,
       local, cells, call, loop, manager
  <1>6. ASSUME NEW d \in CPU, ResetCpu(d) PROVE ReportedInv'
    <2>1. /\ mpc = "reset" /\ mpc' = "reset" /\ d \in todo /\ failed' = [failed EXCEPT ![d] = FALSE]
          /\ UNCHANGED <<pc, cpu_set, cell_state, mcell>>
      BY Zenon, <1>6 DEF ResetCpu, cells, call, local
    <2>2. d \in cpu_set[mcell]
      BY Zenon, <2>1 DEF StoppedInv
    <2>3. QED
      BY <2>1, <2>2
  <1>7. ASSUME NEW d \in CPU, ParkCpu(d) PROVE ReportedInv'
    BY Zenon, <1>7 DEF ParkCpu, arch_park_cpu, arch_resume_cpu, control, marks, local, cells,
       call, loop, manager
  <1>8. ASSUME NEW d \in CPU, ResumeCpu(d) PROVE ReportedInv'
    BY Zenon, <1>8 DEF ResumeCpu, arch_resume_cpu, control, marks, local, cells, call, loop,
       manager
  <1>9. CASE SuspendNmi
    BY Zenon, <1>9 DEF SuspendNmi, control, marks, local, cells, call, loop, manager
  <1>10. CASE SuspendWait
    BY Zenon, <1>10 DEF SuspendWait, Stopped, control, marks, local, cells, call, loop,
       manager
  <1>11. CASE RefuseRequest
    BY Zenon, <1>11 DEF RefuseRequest, Loop, Others, control, marks, local, cells, call,
       loop, manager
  <1>12. CASE AcceptCreate
    BY Zenon, <1>12 DEF AcceptCreate, Loop, Linked, control, marks, local, cells, call, loop,
       manager
  <1>13. CASE AcceptManage
    BY Zenon, <1>13 DEF AcceptManage, Loop, Linked, control, marks, local, cells, call, loop,
       manager
  <1>14. CASE AssignCell
    <2>1. /\ mpc = "assigned" /\ UNCHANGED <<pc, failed, cell_state, mcell>>
          /\ cpu_set' = [cpu_set EXCEPT ![Root] = @ \ {target}]
      BY Zenon, <1>14 DEF AssignCell, call, local, control
    <2>2. mcpu \in cpu_set[Root] /\ pc[mcpu] = "hc"
      BY Zenon, <2>1 DEF StoppedInv, PartitionInv, HandshakeInv, CallerInv
    <2>3. ~failed[mcpu]
      BY Zenon, <2>2 DEF FailedInv, SetUpInv
    <2>4. target # mcpu
      <3>1. Still(target)
        BY Zenon, <2>1 DEF PartitionInv, PositionInv, QuietInv, Closed, Moving, Assigning,
           Pending
      <3>2. QED
        BY Zenon, <2>2, <3>1 DEF HandshakeInv, Still, Asleep
    <2>5. QED
      BY Zenon, <2>1, <2>2, <2>3, <2>4
  <1>15. CASE MapCell
    BY Zenon, <1>15 DEF MapCell, Loop, Unmap, control, marks, local, cells, call, loop,
       manager
  <1>16. CASE CommitCreate
    BY Zenon, <1>16 DEF CommitCreate, Loop, Others, arch_config_commit, control, marks,
       local, cells, call, loop, manager
  <1>17. CASE StartDestroy
    BY Zenon, <1>17 DEF StartDestroy, Loop, control, marks, local, cells, call, loop, manager
  <1>18. CASE UnassignCell
    BY <1>18 DEF UnassignCell, control, marks, local, cells, call, loop, manager
  <1>19. CASE UnmapCell
    BY Zenon, <1>19 DEF UnmapCell, Unmap, control, marks, local, cells, call, loop, manager
  <1>20. CASE CommitDestroy
    BY Zenon, <1>20 DEF CommitDestroy, Loop, Others, arch_config_commit, control, marks,
       local, cells, call, loop, manager
  <1>21. CASE StartUnmap
    BY Zenon, <1>21 DEF StartUnmap, Loop, Others, Unmap, control, marks, local, cells, call,
       loop, manager
  <1>22. CASE CommitStart
    BY Zenon, <1>22 DEF CommitStart, arch_config_commit, control, marks, local, cells, call,
       loop, manager
  <1>23. CASE StartRun
    BY Zenon, <1>23 DEF StartRun, Loop, control, marks, local, cells, call, loop, manager
  <1>24. CASE StartDone
    BY Zenon, <1>24 DEF StartDone, Loop, Others, control, marks, local, cells, call, loop,
       manager
  <1>25. CASE SetLoadable
    BY Zenon, <1>25 DEF SetLoadable, Loop, control, marks, local, cells, call, loop, manager
  <1>26. CASE ParkDone
    BY <1>26 DEF ParkDone, Loop, Others, control, marks, local, cells, call, loop,
       manager
  <1>27. CASE CommitLoadable
    BY Zenon, <1>27 DEF CommitLoadable, Loop, Others, arch_config_commit, control, marks,
       local, cells, call, loop, manager
  <1>28. CASE Return
    BY Zenon, <1>28 DEF Return, control, marks, local, cells, call, HandshakeInv, CallerInv
  <1>29. CASE CloseCell
    BY Zenon, <1>29 DEF CloseCell, Loop, control, marks, local, cells, call, loop, manager
  <1>30. CASE arch_shutdown_cpu
    BY Zenon, <1>30 DEF arch_shutdown_cpu, arch_resume_cpu, control, marks, local, cells,
       call, loop, manager
  <1>31. CASE CellClosed
    BY Zenon, <1>31 DEF CellClosed, control, marks, local, cells, call, loop, manager
  <1>32. CASE ShutdownDone
    BY Zenon, <1>32 DEF ShutdownDone, control, marks, local, cells, call, HandshakeInv,
       CallerInv
  <1>33. ASSUME NEW k \in Cell, ShutdownCell(k) PROVE ReportedInv'
    BY Zenon, <1>33 DEF ShutdownCell, Loop, Remaining, control, marks, local, cells, call,
       loop, manager
  <1>34. CASE UNCHANGED vars
    BY Zenon, <1>34 DEF vars, local, control, marks, local, cells, call, loop, manager
  <1>35. QED
    BY Zenon, <1>1, <1>2, <1>3, <1>4, <1>5, <1>6, <1>7, <1>8, <1>9, <1>10, <1>11,
       <1>12, <1>13, <1>14, <1>15, <1>16, <1>17, <1>18, <1>19, <1>20, <1>21, <1>22,
       <1>23, <1>24, <1>25, <1>26, <1>27, <1>28, <1>29, <1>30, <1>31, <1>32, <1>33,
       <1>34 DEF Next, GuestStep, OwnStep, LoopStep, ManagerStep

\* A CPU's own steps make no translation stale, and pass the flush of
\* x86_handle_events before the guest.
LEMMA StaleOwn ==
  ASSUME GlobalInvept, TypeOK, StaleInv, NEW d \in CPU, OwnStep(d)
  PROVE  StaleInv'
  <1>0. /\ UNCHANGED <<percell, cpu_set, loadable, op, phase, mcell, mpc, todo>>
        /\ \A k \in AllCells : cell_state'[k] = cell_state[k] \/ cell_state'[k] = "FAILED"
    BY Zenon, OwnFrame DEF TypeOK
  <1>. USE DEF TypeOK, CpuTypeOK, ProcessorTypeOK, CellTypeOK, StaleInv, Gate, Moving,
           Assigning, Unassigning, Linked, AllCells, control, stop, initsipi, marks, local,
           virt, tables, kick, vmx_invept
  <1>1. CASE VmExit(d)
    BY Zenon, <1>1, <1>0 DEF VmExit
  <1>2. CASE PanicHalt(d)
    BY Zenon, <1>2, <1>0 DEF PanicHalt
  <1>3. ASSUME NEW t \in IpiTargets, SendInit(d, t) PROVE StaleInv'
    BY Zenon, <1>3, <1>0 DEF SendInit
  <1>4. ASSUME NEW t \in IpiTargets, SendSipi(d, t) PROVE StaleInv'
    BY ZenonT(30), <1>4, <1>0 DEF SendSipi
  <1>5. CASE NmiExit(d)
    BY Zenon, <1>5, <1>0 DEF NmiExit
  <1>6. CASE NmiInHypervisor(d)
    BY Zenon, <1>6, <1>0 DEF NmiInHypervisor
  <1>7. CASE VmEntry(d)
    BY Zenon, <1>7, <1>0 DEF VmEntry
  <1>8. CASE SendNmi(d)
    BY Zenon, <1>8, <1>0 DEF SendNmi
  <1>9. CASE PanicPark(d)
    BY <1>9, <1>0 DEF PanicPark
  <1>10. CASE TimerExit(d)
    BY Zenon, <1>10, <1>0 DEF TimerExit
  <1>11. CASE DisableTimer(d)
    BY Zenon, <1>11, <1>0 DEF DisableTimer
  <1>12. CASE EventsLock(d)
    BY Zenon, <1>12, <1>0 DEF EventsLock
  <1>13. CASE EventsInit(d)
    BY Zenon, <1>13, <1>0 DEF EventsInit
  <1>14. CASE EventsStop(d)
    BY Zenon, <1>14, <1>0 DEF EventsStop
  <1>15. CASE EventsSpin(d)
    BY Zenon, <1>15, <1>0 DEF EventsSpin
  <1>16. CASE EventsWake(d)
    <2>1. /\ pc[d] = "window" /\ pc'[d] \in {"top", "flush"}
          /\ \A c \in CPU \ {d} : pc'[c] = pc[c]
      BY Zenon, <1>16 DEF EventsWake
    <2>2. \A c \in CPU \ {d} : wait_for_sipi'[c] = wait_for_sipi[c]
      <3>1. CASE sipi_vector[d] # "none" /\ ~failed[d]
        BY Zenon, <1>16, <3>1 DEF EventsWake
      <3>2. CASE ~(sipi_vector[d] # "none" /\ ~failed[d])
        BY Zenon, <1>16, <3>2 DEF EventsWake
      <3>3. QED
        BY Zenon, <3>1, <3>2
    <2>3. \A c \in CPU : Gate(c) => Gate(c)'
      BY Zenon, <2>1, <2>2
    <2>4. UNCHANGED <<stale, flush_virt_caches, cell_state>>
      BY Zenon, <1>16 DEF EventsWake, cells
    <2>5. \A c \in CPU : flush_virt_caches'[c] = flush_virt_caches[c]
      BY Zenon, <2>4
    <2>6. QED
      BY Zenon, <1>0, <2>3, <2>4, <2>5
  <1>17. CASE EventsFlush(d)
    BY SMTT(30), <1>17, <1>0 DEF EventsFlush
  <1>18. CASE EventsReload(d)
    BY Zenon, <1>18, <1>0 DEF EventsReload
  <1>19. CASE EventsReturn(d)
    BY Zenon, <1>19, <1>0 DEF EventsReturn
  <1>20. CASE LeaveHypervisor(d)
    BY SMTT(30), <1>20, <1>0 DEF LeaveHypervisor
  <1>21. QED
    BY Zenon, <1>1, <1>2, <1>3, <1>4, <1>5, <1>6, <1>7, <1>8, <1>9, <1>10, <1>11,
       <1>12, <1>13, <1>14, <1>15, <1>16, <1>17, <1>18, <1>19, <1>20 DEF OwnStep,
       HandlerStep, NmiStep

\* A stopped CPU flushes before it runs.
LEMMA StillGate ==
  ASSUME TypeOK, HandshakeInv, NEW c \in CPU, Still(c)
  PROVE  Gate(c)
  BY Zenon DEF TypeOK, CpuTypeOK, CallTypeOK, HandshakeInv, Still, Asleep, Gate, PCs

\* A commit reaches every CPU that may have stale translations of its cell.
LEMMA CommitFlushes ==
  ASSUME GlobalInvept, TypeOK, HandshakeInv, PartitionInv, StoppedInv, QuietInv, StaleInv,
         NEW c \in CPU, CommitCreate \/ CommitDestroy \/ CommitStart \/ CommitLoadable,
         percell[c] \in stale'[c]
  PROVE  flush_virt_caches'[c] /\ Gate(c)
  <1>1. PICK S : /\ arch_config_commit(S) /\ mpc \in {"commit", "reclaim"}
                 /\ mpc = "reclaim" \/ op = "create" => S = cpu_set[mcell]
    <2>1. CASE CommitCreate
      BY Zenon, <2>1 DEF CommitCreate
    <2>2. CASE CommitDestroy
      BY Zenon, <2>2 DEF CommitDestroy
    <2>3. CASE CommitStart
      BY Zenon, <2>3 DEF CommitStart
    <2>4. CASE CommitLoadable
      BY Zenon, <2>4 DEF CommitLoadable
    <2>5. QED
      BY Zenon, <2>1, <2>2, <2>3, <2>4
  <1>2. c # mcpu /\ percell[c] \in stale[c]
    BY Zenon, <1>1 DEF arch_config_commit, vmx_invept, TypeOK, ProcessorTypeOK, CallTypeOK
  <1>3. flush_virt_caches[c] \/ c \in cpu_set[Root] \cup S => flush_virt_caches'[c]
    BY Zenon, <1>1, <1>2 DEF arch_config_commit, TypeOK, CpuTypeOK
  <1>4. CASE percell[c] = Root
    <2>1. c \in Others(Root) /\ c \in cpu_set[Root]
      BY Zenon, <1>2, <1>4 DEF PartitionInv, Others
    <2>2. Still(c)
      BY Zenon, <1>1, <2>1 DEF QuietInv, Reconfiguring
    <2>3. QED
      BY Zenon, <1>3, <2>1, <2>2, StillGate
  <1>5. CASE (Moving \/ (mpc = "commit" /\ op = "create")) /\ percell[c] = mcell
    <2>1. c \in cpu_set[mcell]
      <3>1. CASE Moving
        BY Zenon, <1>5, <3>1 DEF PartitionInv, MovingInv
      <3>2. CASE ~Moving
        BY Zenon, <1>5, <3>2 DEF PartitionInv, PositionInv
      <3>3. QED
        BY Zenon, <3>1, <3>2
    <2>2. Still(c)
      BY Zenon, <1>5, <2>1 DEF QuietInv, Closed
    <2>3. S = cpu_set[mcell]
      BY Zenon, <1>1, <1>5 DEF Moving, Assigning, Unassigning
    <2>4. QED
      BY Zenon, <1>3, <2>1, <2>2, <2>3, StillGate
  <1>6. QED
    BY Zenon, <1>2, <1>3, <1>4, <1>5 DEF StaleInv

\* Unmapping is followed by arch_config_commit before the hypercall resumes the CPUs.
LEMMA StaleStep ==
  ASSUME GlobalInvept, TypeOK, HandshakeInv, PartitionInv, StoppedInv, QuietInv, StaleInv, [Next]_vars
  PROVE  StaleInv'
  <1>. USE ConstAssumption DEF TypeOK, CpuTypeOK, ProcessorTypeOK, CellTypeOK, CallTypeOK,
           StaleInv, Moving, Assigning, Unassigning, Linked, AllCells
  <1>1. ASSUME NEW d \in CPU, OwnStep(d) PROVE StaleInv'
    BY Zenon, <1>1, StaleOwn
  <1>2. ASSUME NEW d \in CPU, NEW o \in Ops, NEW k \in AllCells, Hypercall(d, o, k) PROVE StaleInv'
    BY <1>2 DEF Hypercall, Loop, control, marks, initsipi, local, virt, tables, Gate,
       cells, call, loop, manager
  <1>3. ASSUME NEW d \in CPU, SuspendLock(d) PROVE StaleInv'
    BY Zenon, <1>3 DEF SuspendLock, Stopped, control, marks, initsipi, local, virt, tables,
       Gate, cells, call, loop, manager
  <1>4. ASSUME NEW d \in CPU, AssignPark(d) PROVE StaleInv'
    BY Zenon, <1>4 DEF AssignPark, Loop, arch_park_cpu, arch_resume_cpu, control, marks,
       initsipi, local, virt, tables, Gate, cells, call, loop, manager
  <1>5. ASSUME NEW d \in CPU, UnassignPark(d) PROVE StaleInv'
    BY Zenon, <1>5 DEF UnassignPark, Loop, arch_park_cpu, arch_resume_cpu, control, marks,
       initsipi, local, virt, tables, Gate, cells, call, loop, manager
  <1>6. ASSUME NEW d \in CPU, ResetCpu(d) PROVE StaleInv'
    BY Zenon, <1>6 DEF ResetCpu, arch_reset_cpu, arch_resume_cpu, control, marks, initsipi,
       local, virt, tables, Gate, cells, call, loop, manager
  <1>7. ASSUME NEW d \in CPU, ParkCpu(d) PROVE StaleInv'
    BY Zenon, <1>7 DEF ParkCpu, arch_park_cpu, arch_resume_cpu, control, marks, initsipi,
       local, virt, tables, Gate, cells, call, loop, manager
  <1>8. ASSUME NEW d \in CPU, ResumeCpu(d) PROVE StaleInv'
    BY Zenon, <1>8 DEF ResumeCpu, arch_resume_cpu, control, marks, initsipi, local, virt,
       tables, Gate, cells, call, loop, manager
  <1>9. CASE SuspendNmi
    BY Zenon, <1>9 DEF SuspendNmi, control, marks, initsipi, local, virt, tables, Gate,
       cells, call, loop, manager
  <1>10. CASE SuspendWait
    BY Zenon, <1>10 DEF SuspendWait, Stopped, control, marks, initsipi, local, virt, tables,
       Gate, cells, call, loop, manager
  <1>11. CASE RefuseRequest
    BY Zenon, <1>11 DEF RefuseRequest, Loop, Others, control, marks, initsipi, local, virt,
       tables, Gate, cells, call, loop, manager
  <1>12. CASE AcceptCreate
    BY Zenon, <1>12 DEF AcceptCreate, Loop, Linked, control, marks, initsipi, local, virt,
       tables, Gate, cells, call, loop, manager
  <1>13. CASE AcceptManage
    BY Zenon, <1>13 DEF AcceptManage, Loop, Linked, control, marks, initsipi, local, virt,
       tables, Gate, cells, call, loop, manager
  <1>14. CASE AssignCell
    BY ZenonT(40), <1>14 DEF AssignCell, control, marks, initsipi, local, virt, tables, Gate,
       cells, call, loop, manager
  <1>15. CASE MapCell
    <2>1. /\ mpc = "assign" /\ mpc' \in {"commit", "unassign"} /\ op = "create"
          /\ \A c \in CPU : stale'[c] = stale[c] \cup {Root}
          /\ UNCHANGED <<pc, wait_for_sipi, flush_virt_caches, percell, loadable, cell_state, op, mcell>>
      BY Zenon, <1>15 DEF MapCell, Loop, Unmap, local, control, cells, call, PartitionInv,
         PositionInv
    <2>2. \A c \in CPU : Gate(c)' <=> Gate(c)
      BY Zenon, <2>1 DEF Gate
    <2>3. Moving' \/ (mpc' = "commit" /\ op' = "create")
      BY Zenon, <2>1
    <2>4. \A c \in CPU : percell[c] = Root \/ (percell[c] \in stale'[c] <=> percell[c] \in stale[c])
      <3>1. ASSUME NEW c \in CPU
            PROVE  percell[c] = Root \/ (percell[c] \in stale'[c] <=> percell[c] \in stale[c])
        <4>1. PICK x, T, U : x = percell[c] /\ T = stale[c] /\ U = stale'[c] /\ U = T \cup {Root}
          BY Zenon, <2>1
        <4>2. x = Root \/ (x \in U <=> x \in T)
          BY <4>1
        <4>3. QED
          BY Zenon, <4>1, <4>2
      <3>2. QED
        BY Zenon, <3>1
    <2>5. \A c \in CPU : percell[c] \in stale[c] =>
            (flush_virt_caches[c] /\ Gate(c)) \/ percell[c] = Root \/ percell[c] = mcell
      BY Zenon
    <2>6. \A c \in CPU : percell'[c] \in stale'[c] =>
            \/ (flush_virt_caches[c] /\ Gate(c))'
            \/ ((Moving \/ mpc = "commit") /\ percell[c] = Root)'
            \/ ((Moving \/ (mpc = "commit" /\ op = "create")) /\ percell[c] = mcell)'
      BY Zenon, <2>1, <2>2, <2>3, <2>4, <2>5
    <2>7. \A k \in Cell : loadable'[k] => Linked(k)'
      BY Zenon, <2>1
    <2>8. QED
      BY Zenon, <2>6, <2>7
  <1>16. CASE CommitCreate
    <2>1. \A c \in CPU : percell[c] \in stale'[c] => flush_virt_caches'[c] /\ Gate(c)
      BY Zenon, <1>16, CommitFlushes
    <2>2. UNCHANGED <<pc, wait_for_sipi, percell>>
      BY Zenon, <1>16 DEF CommitCreate, local, initsipi, cells
    <2>3. \A c \in CPU : percell'[c] \in stale'[c] => (flush_virt_caches[c] /\ Gate(c))'
      BY Zenon, <2>1, <2>2 DEF Gate
    <2>4. \A k \in Cell : loadable'[k] => cell_state'[k] # "NONE"
      BY Zenon, <1>16 DEF CommitCreate, cells, PartitionInv, PositionInv
    <2>5. QED
      BY Zenon, <2>3, <2>4
  <1>17. CASE StartDestroy
    BY Zenon, <1>17 DEF StartDestroy, Loop, control, marks, initsipi, local, virt, tables,
       Gate, cells, call, loop, manager
  <1>18. CASE UnassignCell
    BY Zenon, <1>18 DEF UnassignCell, control, marks, initsipi, local, virt, tables, Gate,
       cells, call, loop, manager
  <1>19. CASE UnmapCell
    BY Zenon, <1>19 DEF UnmapCell, Unmap, control, marks, initsipi, local, virt, tables,
       Gate, cells, call, loop, manager
  <1>20. CASE CommitDestroy
    <2>1. \A c \in CPU : percell[c] \in stale'[c] => flush_virt_caches'[c] /\ Gate(c)
      BY Zenon, <1>20, CommitFlushes
    <2>2. UNCHANGED <<pc, wait_for_sipi, percell>>
      BY Zenon, <1>20 DEF CommitDestroy, local, initsipi, cells
    <2>3. \A c \in CPU : percell'[c] \in stale'[c] => (flush_virt_caches[c] /\ Gate(c))'
      BY Zenon, <2>1, <2>2 DEF Gate
    <2>4. \A k \in Cell : loadable'[k] => cell_state'[k] # "NONE"
      BY Zenon, <1>20 DEF CommitDestroy, cells, PartitionInv, PositionInv
    <2>5. QED
      BY Zenon, <2>3, <2>4
  <1>21. CASE StartUnmap
    <2>1. /\ mpc = "suspend" /\ loadable[mcell] /\ phase = "cell"
          /\ \A c \in CPU : stale'[c] \subseteq stale[c] \cup {Root}
          /\ UNCHANGED <<pc, wait_for_sipi, flush_virt_caches, percell, loadable, cell_state, op, mcell>>
      BY <1>21 DEF StartUnmap, Unmap, local, control, cells, call
    <2>2. mcell \in Cell /\ Linked(mcell)
      BY Zenon, <2>1 DEF PartitionInv, PositionInv
    <2>3. \A c \in CPU : Gate(c)' <=> Gate(c)
      BY Zenon, <2>1 DEF Gate
    <2>4. QED
      BY Zenon, <2>1, <2>2, <2>3
  <1>22. CASE CommitStart
    <2>1. \A c \in CPU : percell[c] \in stale'[c] => flush_virt_caches'[c] /\ Gate(c)
      BY Zenon, <1>22, CommitFlushes
    <2>2. UNCHANGED <<pc, wait_for_sipi, percell>>
      BY Zenon, <1>22 DEF CommitStart, local, initsipi, cells
    <2>3. \A c \in CPU : percell'[c] \in stale'[c] => (flush_virt_caches[c] /\ Gate(c))'
      BY Zenon, <2>1, <2>2 DEF Gate
    <2>4. \A k \in Cell : loadable'[k] => cell_state'[k] # "NONE"
      BY Zenon, <1>22 DEF CommitStart, cells, PartitionInv, PositionInv
    <2>5. QED
      BY Zenon, <2>3, <2>4
  <1>23. CASE StartRun
    BY Zenon, <1>23 DEF StartRun, Loop, control, marks, initsipi, local, virt, tables, Gate,
       cells, call, loop, manager
  <1>24. CASE StartDone
    BY Zenon, <1>24 DEF StartDone, Loop, Others, control, marks, initsipi, local, virt,
       tables, Gate, cells, call, loop, manager
  <1>25. CASE SetLoadable
    BY Zenon, <1>25 DEF SetLoadable, Loop, control, marks, initsipi, local, virt, tables,
       Gate, cells, call, loop, manager
  <1>26. CASE ParkDone
    <2>1. CASE loadable[mcell]
      <3>1. /\ UNCHANGED <<pc, wait_for_sipi, stale, flush_virt_caches, percell, cpu_set>>
            /\ UNCHANGED <<cell_state, loadable>> /\ mpc = "park"
        BY Zenon, <1>26, <2>1 DEF ParkDone, control, marks, initsipi, local, virt, tables
      <3>2. \A c \in CPU : Gate(c)' = Gate(c)
        BY Zenon, <3>1 DEF Gate
      <3>3. \A c \in CPU : percell[c] \in stale[c] =>
              \/ flush_virt_caches[c] /\ Gate(c)
              \/ percell[c] = Root /\ \E k \in Cell : Linked(k) /\ loadable[k]
        BY Zenon, <3>1
      <3>4. QED
        BY Zenon, <3>1, <3>2, <3>3
    <2>2. CASE ~loadable[mcell]
      <3>1. /\ UNCHANGED <<pc, wait_for_sipi, stale, flush_virt_caches, percell, cpu_set>>
            /\ cell_state' = [cell_state EXCEPT ![mcell] = "SHUT_DOWN"]
            /\ loadable' = [loadable EXCEPT ![mcell] = TRUE]
            /\ mpc = "park" /\ mpc' \in {"commit", "resume"} /\ op' = op /\ mcell' = mcell
        BY Zenon, <1>26, <2>2 DEF ParkDone, Loop, control, marks, initsipi, local, virt,
           tables, call
      <3>2. \A c \in CPU : Gate(c)' = Gate(c)
        BY Zenon, <3>1 DEF Gate
      <3>3. \A k \in Cell : /\ Linked(k) => Linked(k)'
                            /\ loadable[k] => loadable'[k]
                            /\ loadable'[k] => Linked(k)'
        BY Zenon, <3>1
      <3>4. \A c \in CPU : percell[c] \in stale[c] =>
              \/ flush_virt_caches[c] /\ Gate(c)
              \/ percell[c] = Root /\ \E k \in Cell : Linked(k) /\ loadable[k]
        BY Zenon, <3>1
      <3>5. QED
        BY Zenon, <3>1, <3>2, <3>3, <3>4
    <2>3. QED
      BY Zenon, <2>1, <2>2
  <1>27. CASE CommitLoadable
    <2>1. \A c \in CPU : percell[c] \in stale'[c] => flush_virt_caches'[c] /\ Gate(c)
      BY Zenon, <1>27, CommitFlushes
    <2>2. UNCHANGED <<pc, wait_for_sipi, percell>>
      BY Zenon, <1>27 DEF CommitLoadable, local, initsipi, cells
    <2>3. \A c \in CPU : percell'[c] \in stale'[c] => (flush_virt_caches[c] /\ Gate(c))'
      BY Zenon, <2>1, <2>2 DEF Gate
    <2>4. \A k \in Cell : loadable'[k] => cell_state'[k] # "NONE"
      BY Zenon, <1>27 DEF CommitLoadable, cells, PartitionInv, PositionInv
    <2>5. QED
      BY Zenon, <2>3, <2>4
  <1>28. CASE Return
    BY <1>28 DEF Return, control, virt, cells, Gate, HandshakeInv, CallerInv
  <1>29. CASE CloseCell
    BY Zenon, <1>29 DEF CloseCell, Loop, control, marks, initsipi, local, virt, tables, Gate,
       cells, call, loop, manager
  <1>30. CASE arch_shutdown_cpu
    BY Zenon, <1>30 DEF arch_shutdown_cpu, arch_resume_cpu, control, marks, initsipi, local,
       virt, tables, Gate, cells, call, loop, manager
  <1>31. CASE CellClosed
    BY ZenonT(40), <1>31 DEF CellClosed, control, marks, initsipi, local, virt, tables, Gate,
       cells, call, loop, manager
  <1>32. CASE ShutdownDone
    BY <1>32 DEF ShutdownDone, Remaining, control, marks, initsipi, local, virt,
       tables, Gate, cells, call, loop, manager
  <1>33. ASSUME NEW k \in Cell, ShutdownCell(k) PROVE StaleInv'
    BY Zenon, <1>33 DEF ShutdownCell, Loop, Remaining, control, marks, initsipi, local, virt,
       tables, Gate, cells, call, loop, manager
  <1>34. CASE UNCHANGED vars
    BY Zenon, <1>34 DEF vars, local, control, marks, initsipi, local, virt, tables,
       Gate, cells, call, loop, manager
  <1>35. QED
    BY ZenonT(30), <1>1, <1>2, <1>3, <1>4, <1>5, <1>6, <1>7, <1>8, <1>9, <1>10, <1>11,
       <1>12, <1>13, <1>14, <1>15, <1>16, <1>17, <1>18, <1>19, <1>20, <1>21, <1>22,
       <1>23, <1>24, <1>25, <1>26, <1>27, <1>28, <1>29, <1>30, <1>31, <1>32, <1>33,
       <1>34 DEF Next, GuestStep, OwnStep, LoopStep, ManagerStep

\* For any CPUs and cells: once all CPUs of a cell have failed, its state says so
\* (panic_halt), unless cell_start is resetting them.
THEOREM FailuresAreReported == PromptResume => (Spec => []AllFailedReported)
  <1>. SUFFICES ASSUME PromptResume PROVE Spec => []AllFailedReported
    OBVIOUS
  <1>1. TypeOK /\ TypeOK' /\ ConfinedInv /\ [Next]_vars => ConfinedInv'
    BY Zenon, ConfinedStep
  <1>2. Init => FailedInv /\ ReportedInv
    BY ConstAssumption DEF Init, FailedInv, CallerInv, ReportedInv
  <1>3. TypeOK /\ TypeOK' /\ FailedInv /\ [Next]_vars => FailedInv'
    BY Zenon, FailedStep
  <1>4. TypeOK /\ ConfinedInv /\ FailedInv /\ ReportedInv /\ [Next]_vars => ReportedInv'
    BY Zenon, ReportedStep DEF ConfinedInv
  <1>5. ReportedInv => AllFailedReported
    BY Zenon DEF ReportedInv, AllFailedReported
  <1>. QED
    BY <1>1, <1>2, <1>3, <1>4, <1>5, ConfinedStart, TypeCorrect, PTL DEF Spec

\* A CPU that runs its guest has passed the flush, unless a failed start left its
\* memory unmapped from the root cell without a commit.
LEMMA StaleConclusion ==
  ASSUME TypeOK, ConfinedInv, StaleInv
  PROVE  NoStaleTranslation
  <1>1. SUFFICES ASSUME NEW c \in CPU, Running(c), config[c] \in stale[c]
                 PROVE  config[c] = Root /\ \E k \in Cell : Linked(k) /\ loadable[k]
    BY Zenon DEF NoStaleTranslation
  <1>2. GuestsConfined
    BY Zenon, ConfinedConclusion DEF ConfinedInv
  <1>3. config[c] = percell[c] /\ percell[c] \in stale[c]
    BY Zenon, <1>1, <1>2 DEF GuestsConfined, RunsOwnCell
  <1>4. ~Gate(c) /\ pc[c] # "hc"
    BY Zenon, <1>1 DEF Gate, Running
  <1>5. ~Still(c)
    BY Zenon, <1>4, StillGate DEF ConfinedInv
  <1>6. mpc = "commit" \/ Moving => Reconfiguring /\ mpc \notin {"idle", "closed"}
    BY Zenon DEF Reconfiguring, Moving, Assigning, Unassigning
  <1>7. ~((mpc = "commit" \/ Moving) /\ percell[c] = Root)
    <2>1. SUFFICES ASSUME mpc = "commit" \/ Moving, percell[c] = Root PROVE FALSE
      OBVIOUS
    <2>2. c \in Others(Root)
      BY Zenon, <1>4, <1>6, <2>1 DEF ConfinedInv, HandshakeInv, CallerInv, PartitionInv, Others
    <2>3. QED
      BY Zenon, <1>5, <1>6, <2>1, <2>2 DEF ConfinedInv, QuietInv
  <1>8. ~((Moving \/ (mpc = "commit" /\ op = "create")) /\ percell[c] = mcell)
    <2>1. SUFFICES ASSUME Moving \/ (mpc = "commit" /\ op = "create"), percell[c] = mcell PROVE FALSE
      OBVIOUS
    <2>2. c \in cpu_set[mcell]
      <3>1. CASE Moving
        BY Zenon, <2>1, <3>1 DEF ConfinedInv, PartitionInv, MovingInv
      <3>2. CASE ~Moving
        BY Zenon, <2>1, <3>2 DEF ConfinedInv, PartitionInv, PositionInv
      <3>3. QED
        BY Zenon, <3>1, <3>2
    <2>3. QED
      BY Zenon, <1>5, <2>1, <2>2 DEF ConfinedInv, QuietInv, Closed
  <1>9. QED
    BY Zenon, <1>3, <1>4, <1>7, <1>8 DEF StaleInv

\* For any CPUs and cells: no CPU runs its guest on translations that a finished
\* hypercall has removed, provided that resumed CPUs leave the stop loop and that one
\* flush drops the translations of all page tables (arch_config_commit,
\* arch_flush_cell_vcpu_caches, x86_handle_events).
THEOREM NoStaleTranslations ==
  PromptResume /\ GlobalInvept => (Spec => []NoStaleTranslation)
  <1>. SUFFICES ASSUME PromptResume, GlobalInvept PROVE Spec => []NoStaleTranslation
    OBVIOUS
  <1>1. TypeOK /\ TypeOK' /\ ConfinedInv /\ [Next]_vars => ConfinedInv'
    BY Zenon, ConfinedStep
  <1>2. Init => StaleInv
    BY Zenon, ConstAssumption DEF Init, StaleInv, AllCells
  <1>3. TypeOK /\ ConfinedInv /\ StaleInv /\ [Next]_vars => StaleInv'
    BY Zenon, StaleStep DEF ConfinedInv
  <1>4. TypeOK /\ ConfinedInv /\ StaleInv => NoStaleTranslation
    BY Zenon, StaleConclusion
  <1>. QED
    BY <1>1, <1>2, <1>3, <1>4, ConfinedStart, TypeCorrect, PTL DEF Spec

=============================================================================
