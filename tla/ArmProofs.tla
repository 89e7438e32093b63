------------------------------ MODULE ArmProofs -------------------------------
(*****************************************************************************)
(* What is proved of the ARM port, for any number of CPUs and SPIs: the PSCI *)
(* mailboxes (ArmCpu), the SPIs in the distributor (GicDist), and the switch *)
(* to the hypervisor and back (ArmSetup).                                    *)
(*****************************************************************************)
EXTENDS ArmCpu, GicDist, ArmSetup, TLAPS

-------------------------------------------------------------------------------
(* The mailboxes.                                                          *)

\* Every step keeps the types of the mailboxes and of the hypercall's progress.
LEMMA ArmCpuTypes ==
  ASSUME ArmCpuTypeOK, ShutInv, ArmCpuNext
  PROVE  ArmCpuTypeOK'
  <1>1. ASSUME NEW c \in ArmCpus, arch_suspend_self(c) PROVE ArmCpuTypeOK'
    BY Zenon, <1>1, ArmCpuAssumption DEF arch_suspend_self, psci_cpu_off, cpuSide,
       ArmCpuTypeOK
  <1>2. ASSUME NEW c \in ArmCpus, WakeUp(c) PROVE ArmCpuTypeOK'
    BY Zenon, <1>2, ArmCpuAssumption DEF WakeUp, psci_cpu_stopped, At2, cpuSide, ArmCpuTypeOK
  <1>3. ASSUME NEW c \in ArmCpus, arch_reset_self(c) PROVE ArmCpuTypeOK'
    BY Zenon, <1>3, ArmCpuAssumption DEF arch_reset_self, At2, cpuSide, ArmCpuTypeOK
  <1>4. ASSUME NEW c \in ArmCpus, psci_emulate_spin(c) PROVE ArmCpuTypeOK'
    BY Zenon, <1>4, ArmCpuAssumption DEF psci_emulate_spin, psci_cpu_off, At2, cpuSide,
       ArmCpuTypeOK
  <1>5. ASSUME NEW c \in ArmCpus, PsciCpuOff(c) PROVE ArmCpuTypeOK'
    BY Zenon, <1>5, ArmCpuAssumption DEF PsciCpuOff, At2, cpuSide, ArmCpuTypeOK
  <1>6. ASSUME NEW c \in ArmCpus, psci_emulate_cpu_on(c) PROVE ArmCpuTypeOK'
    BY Zenon, <1>6, ArmCpuAssumption DEF psci_emulate_cpu_on, At2, cpuSide, ArmCpuTypeOK
  <1>7. ASSUME NEW c \in ArmCpus, arch_panic_halt(c) PROVE ArmCpuTypeOK'
    BY Zenon, <1>7, ArmCpuAssumption DEF arch_panic_halt, psci_cpu_off, cpuSide, ArmCpuTypeOK
  <1>8. ASSUME NEW c \in ArmCpus, arch_generic_smp_mmio(c) PROVE ArmCpuTypeOK'
    BY Zenon, <1>8, ArmCpuAssumption DEF arch_generic_smp_mmio, At2, cpuSide, ArmCpuTypeOK
  <1>9. ASSUME NEW c \in ArmCpus, psci_try_resume(c) PROVE ArmCpuTypeOK'
    BY Zenon, <1>9, ArmCpuAssumption DEF psci_try_resume, At2, cpuSide, ArmCpuTypeOK
  <1>10. ASSUME NEW c \in ArmCpus, psci_wait_cpu_stopped(c) PROVE ArmCpuTypeOK'
    BY Zenon, <1>10, ArmCpuAssumption DEF psci_wait_cpu_stopped, At2, cpuSide, ArmCpuTypeOK
  <1>11. ASSUME NEW c \in ArmCpus, psci_resume(c) PROVE ArmCpuTypeOK'
    BY Zenon, <1>11, ArmCpuAssumption DEF psci_resume, psci_cpu_on, psci_cpu_stopped, At2,
       cpuSide, ArmCpuTypeOK
  <1>12. ASSUME NEW c \in ArmCpus, ExitShutdown(c) PROVE ArmCpuTypeOK'
    BY Zenon, <1>12, ArmCpuAssumption DEF ExitShutdown, At2, cpuSide, ArmCpuTypeOK
  <1>13. ASSUME NEW c \in ArmCpus, arch_suspend_cpu(c) PROVE ArmCpuTypeOK'
    BY Zenon, <1>13, ArmCpuAssumption DEF arch_suspend_cpu, Pop, cpuSide, ArmCpuTypeOK
  <1>14. ASSUME NEW c \in ArmCpus, arch_park_cpu(c) PROVE ArmCpuTypeOK'
    BY Zenon, <1>14, ArmCpuAssumption DEF arch_park_cpu, Pop, Doing2, cpuSide, ArmCpuTypeOK
  <1>15. ASSUME NEW c \in ArmCpus, arch_reset_cpu(c) PROVE ArmCpuTypeOK'
    BY Zenon, <1>15, ArmCpuAssumption DEF arch_reset_cpu, Pop, Doing2, psci_cpu_on,
       psci_cpu_stopped, cpuSide, ArmCpuTypeOK
  <1>16. ASSUME NEW c \in ArmCpus, arch_resume_cpu(c) PROVE ArmCpuTypeOK'
    BY Zenon, <1>16, ArmCpuAssumption DEF arch_resume_cpu, Pop, Doing2, At2, cpuSide,
       ArmCpuTypeOK
  <1>17. ASSUME NEW c \in ArmCpus, MarkShutdown(c) PROVE ArmCpuTypeOK'
    BY Zenon, <1>17, ArmCpuAssumption DEF MarkShutdown, Doing2, cpuSide, ArmCpuTypeOK
  <1>18. ASSUME NEW c \in ArmCpus, AwaitShutdown(c) PROVE ArmCpuTypeOK'
    BY Zenon, <1>18, ArmCpuAssumption DEF AwaitShutdown, Doing2, Step, cpuSide, ArmCpuTypeOK
  <1>19. ASSUME NEW c \in ArmCpus, arch_shutdown_cpu(c) PROVE ArmCpuTypeOK'
    BY Zenon, <1>19, ArmCpuAssumption DEF arch_shutdown_cpu, Doing2, Step, psci_cpu_on,
       psci_cpu_stopped, cpuSide, ArmCpuTypeOK
  <1>20. ASSUME NEW o \in {"create", "start", "load", "destroy", "shutdown"}, Hypercall2(o)
        PROVE  ArmCpuTypeOK'
    BY Zenon, <1>20, ArmCpuAssumption DEF Hypercall2, Calm, Others, cpuSide, ArmCpuTypeOK
  <1>21. ASSUME Decide PROVE ArmCpuTypeOK'
    BY ZenonT(30), <1>21, ArmCpuAssumption DEF Decide, DoneWith, Doing2, Step, Others, cpuSide,
       ArmCpuTypeOK
  <1>22. ASSUME Suspended2 PROVE ArmCpuTypeOK'
    BY Zenon, <1>22, ArmCpuAssumption DEF Suspended2, DoneWith, Doing2, Step, cpuSide,
       ArmCpuTypeOK
  <1>23. ASSUME Parked2 PROVE ArmCpuTypeOK'
    BY Zenon, <1>23, ArmCpuAssumption DEF Parked2, DoneWith, Doing2, Step, cpuSide,
       ArmCpuTypeOK
  <1>24. ASSUME arch_config_commit PROVE ArmCpuTypeOK'
    <2>1. UNCHANGED <<mbox, cpuSide, inCell, shut, due>>
      BY Zenon, <1>24 DEF arch_config_commit
    <2>2. \E z \in {"reset", "resume"}, T \in SUBSET ArmCpus : Step(z, T)
      BY Zenon, <1>24 DEF arch_config_commit, Others, ArmCpuTypeOK
    <2>3. QED
      BY Zenon, <2>1, <2>2 DEF Step, cpuSide, ArmCpuTypeOK
  <1>25. ASSUME RemapFails PROVE ArmCpuTypeOK'
    <2>1. UNCHANGED <<mbox, cpuSide, inCell, shut, due>>
      BY Zenon, <1>25 DEF RemapFails
    <2>2. \/ master' = [master EXCEPT !.op = "destroy", !.step = "park", !.todo = CellSet]
          \/ \E T \in SUBSET ArmCpus : Step("resume", T)
      BY Zenon, <1>25 DEF RemapFails, Others
    <2>3. QED
      BY Zenon, <2>1, <2>2, ArmCpuAssumption DEF Step, cpuSide, ArmCpuTypeOK
  <1>26. ASSUME ResetAll PROVE ArmCpuTypeOK'
    BY ZenonT(30), <1>26, ArmCpuAssumption DEF ResetAll, DoneWith, Doing2, Step, Others, cpuSide,
       ArmCpuTypeOK
  <1>27. ASSUME Return2 PROVE ArmCpuTypeOK'
    BY Zenon, <1>27, ArmCpuAssumption DEF Return2, DoneWith, Doing2, Calm, cpuSide,
       ArmCpuTypeOK
  <1>28. ASSUME arch_shutdown PROVE ArmCpuTypeOK'
    BY Zenon, <1>28, ArmCpuAssumption DEF arch_shutdown, DoneWith, Doing2, Calm, cpuSide,
       ArmCpuTypeOK
  <1>29. QED
    BY Zenon, <1>1, <1>2, <1>3, <1>4, <1>5, <1>6, <1>7, <1>8, <1>9, <1>10, <1>11,
       <1>12, <1>13, <1>14, <1>15, <1>16, <1>17, <1>18, <1>19, <1>20, <1>21, <1>22,
       <1>23, <1>24, <1>25, <1>26, <1>27, <1>28 DEF ArmCpuNext, CpuStep

\* psci_suspend, psci_resume and psci_cpu_off do not overwrite a mailbox that stands
\* for a stopped CPU or for an accepted reset.
LEMMA MailboxKeeps ==
  ASSUME ArmCpuTypeOK, MailboxInv, ArmCpuNext
  PROVE  MailboxInv'
  <1>1. ASSUME NEW c \in ArmCpus, arch_suspend_self(c) PROVE MailboxInv'
    BY Zenon, <1>1, ArmCpuAssumption DEF arch_suspend_self, psci_cpu_off, cpuSide,
       ArmCpuTypeOK, MailboxInv, psci_cpu_stopped
  <1>2. ASSUME NEW c \in ArmCpus, WakeUp(c) PROVE MailboxInv'
    BY <1>2, ArmCpuAssumption DEF WakeUp, psci_cpu_stopped, At2, cpuSide,
       ArmCpuTypeOK, MailboxInv, psci_cpu_stopped
  <1>3. ASSUME NEW c \in ArmCpus, arch_reset_self(c) PROVE MailboxInv'
    BY <1>3, ArmCpuAssumption DEF arch_reset_self, At2, cpuSide, ArmCpuTypeOK,
       MailboxInv, psci_cpu_stopped
  <1>4. ASSUME NEW c \in ArmCpus, psci_emulate_spin(c) PROVE MailboxInv'
    BY <1>4, ArmCpuAssumption DEF psci_emulate_spin, psci_cpu_off, At2, cpuSide,
       ArmCpuTypeOK, MailboxInv, psci_cpu_stopped
  <1>5. ASSUME NEW c \in ArmCpus, PsciCpuOff(c) PROVE MailboxInv'
    BY Zenon, <1>5, ArmCpuAssumption DEF PsciCpuOff, At2, cpuSide, ArmCpuTypeOK, MailboxInv,
       psci_cpu_stopped
  <1>6. ASSUME NEW c \in ArmCpus, psci_emulate_cpu_on(c) PROVE MailboxInv'
    BY Zenon, <1>6, ArmCpuAssumption DEF psci_emulate_cpu_on, At2, cpuSide, ArmCpuTypeOK,
       MailboxInv, psci_cpu_stopped
  <1>7. ASSUME NEW c \in ArmCpus, arch_panic_halt(c) PROVE MailboxInv'
    BY Zenon, <1>7, ArmCpuAssumption DEF arch_panic_halt, psci_cpu_off, cpuSide,
       ArmCpuTypeOK, MailboxInv, psci_cpu_stopped
  <1>8. ASSUME NEW c \in ArmCpus, arch_generic_smp_mmio(c) PROVE MailboxInv'
    BY Zenon, <1>8, ArmCpuAssumption DEF arch_generic_smp_mmio, At2, cpuSide, ArmCpuTypeOK,
       MailboxInv, psci_cpu_stopped
  <1>9. ASSUME NEW c \in ArmCpus, psci_try_resume(c) PROVE MailboxInv'
    BY <1>9, ArmCpuAssumption DEF psci_try_resume, At2, cpuSide, ArmCpuTypeOK,
       MailboxInv, psci_cpu_stopped
  <1>10. ASSUME NEW c \in ArmCpus, psci_wait_cpu_stopped(c) PROVE MailboxInv'
    BY <1>10, ArmCpuAssumption DEF psci_wait_cpu_stopped, At2, cpuSide, ArmCpuTypeOK,
       MailboxInv, psci_cpu_stopped
  <1>11. ASSUME NEW c \in ArmCpus, psci_resume(c) PROVE MailboxInv'
    BY <1>11, ArmCpuAssumption DEF psci_resume, psci_cpu_on, psci_cpu_stopped, At2,
       cpuSide, ArmCpuTypeOK, MailboxInv, psci_cpu_stopped
  <1>12. ASSUME NEW c \in ArmCpus, ExitShutdown(c) PROVE MailboxInv'
    BY Zenon, <1>12, ArmCpuAssumption DEF ExitShutdown, At2, cpuSide, ArmCpuTypeOK,
       MailboxInv, psci_cpu_stopped
  <1>13. ASSUME NEW c \in ArmCpus, arch_suspend_cpu(c) PROVE MailboxInv'
    BY Zenon, <1>13, ArmCpuAssumption DEF arch_suspend_cpu, Pop, cpuSide, ArmCpuTypeOK,
       MailboxInv, psci_cpu_stopped
  <1>14. ASSUME NEW c \in ArmCpus, arch_park_cpu(c) PROVE MailboxInv'
    BY Zenon, <1>14, ArmCpuAssumption DEF arch_park_cpu, Pop, Doing2, cpuSide, ArmCpuTypeOK,
       MailboxInv, psci_cpu_stopped
  <1>15. ASSUME NEW c \in ArmCpus, arch_reset_cpu(c) PROVE MailboxInv'
    BY <1>15, ArmCpuAssumption DEF arch_reset_cpu, Pop, Doing2, psci_cpu_on,
       psci_cpu_stopped, cpuSide, ArmCpuTypeOK, MailboxInv, psci_cpu_stopped
  <1>16. ASSUME NEW c \in ArmCpus, arch_resume_cpu(c) PROVE MailboxInv'
    BY Zenon, <1>16, ArmCpuAssumption DEF arch_resume_cpu, Pop, Doing2, At2, cpuSide,
       ArmCpuTypeOK, MailboxInv, psci_cpu_stopped
  <1>17. ASSUME NEW c \in ArmCpus, MarkShutdown(c) PROVE MailboxInv'
    BY Zenon, <1>17, ArmCpuAssumption DEF MarkShutdown, Doing2, cpuSide, ArmCpuTypeOK,
       MailboxInv, psci_cpu_stopped
  <1>18. ASSUME NEW c \in ArmCpus, AwaitShutdown(c) PROVE MailboxInv'
    BY Zenon, <1>18, ArmCpuAssumption DEF AwaitShutdown, Doing2, Step, cpuSide, ArmCpuTypeOK,
       MailboxInv, psci_cpu_stopped
  <1>19. ASSUME NEW c \in ArmCpus, arch_shutdown_cpu(c) PROVE MailboxInv'
    BY <1>19, ArmCpuAssumption DEF arch_shutdown_cpu, Doing2, Step, psci_cpu_on,
       psci_cpu_stopped, cpuSide, ArmCpuTypeOK, MailboxInv, psci_cpu_stopped
  <1>20. ASSUME NEW o \in {"create", "start", "load", "destroy", "shutdown"}, Hypercall2(o)
        PROVE  MailboxInv'
    BY Zenon, <1>20, ArmCpuAssumption DEF Hypercall2, Calm, Others, cpuSide, ArmCpuTypeOK,
       MailboxInv, psci_cpu_stopped
  <1>21. ASSUME Decide PROVE MailboxInv'
    BY Zenon, <1>21, ArmCpuAssumption DEF Decide, DoneWith, Doing2, Step, Others, cpuSide,
       ArmCpuTypeOK, MailboxInv, psci_cpu_stopped
  <1>22. ASSUME Suspended2 PROVE MailboxInv'
    BY Zenon, <1>22, ArmCpuAssumption DEF Suspended2, DoneWith, Doing2, Step, cpuSide,
       ArmCpuTypeOK, MailboxInv, psci_cpu_stopped
  <1>23. ASSUME Parked2 PROVE MailboxInv'
    BY Zenon, <1>23, ArmCpuAssumption DEF Parked2, DoneWith, Doing2, Step, cpuSide,
       ArmCpuTypeOK, MailboxInv, psci_cpu_stopped
  <1>24. ASSUME arch_config_commit PROVE MailboxInv'
    BY Zenon, <1>24, ArmCpuAssumption DEF arch_config_commit, Doing2, Step, Others, cpuSide,
       ArmCpuTypeOK, MailboxInv, psci_cpu_stopped
  <1>25. ASSUME RemapFails PROVE MailboxInv'
    BY Zenon, <1>25, ArmCpuAssumption DEF RemapFails, Doing2, Step, Others, cpuSide,
       ArmCpuTypeOK, MailboxInv, psci_cpu_stopped
  <1>26. ASSUME ResetAll PROVE MailboxInv'
    BY Zenon, <1>26, ArmCpuAssumption DEF ResetAll, DoneWith, Doing2, Step, Others, cpuSide,
       ArmCpuTypeOK, MailboxInv, psci_cpu_stopped
  <1>27. ASSUME Return2 PROVE MailboxInv'
    BY Zenon, <1>27, ArmCpuAssumption DEF Return2, DoneWith, Doing2, Calm, cpuSide,
       ArmCpuTypeOK, MailboxInv, psci_cpu_stopped
  <1>28. ASSUME arch_shutdown PROVE MailboxInv'
    BY Zenon, <1>28, ArmCpuAssumption DEF arch_shutdown, DoneWith, Doing2, Calm, cpuSide,
       ArmCpuTypeOK, MailboxInv, psci_cpu_stopped
  <1>29. QED
    BY Zenon, <1>1, <1>2, <1>3, <1>4, <1>5, <1>6, <1>7, <1>8, <1>9, <1>10, <1>11,
       <1>12, <1>13, <1>14, <1>15, <1>16, <1>17, <1>18, <1>19, <1>20, <1>21, <1>22,
       <1>23, <1>24, <1>25, <1>26, <1>27, <1>28 DEF ArmCpuNext, CpuStep

\* Only arch_shutdown_self makes a CPU leave, and the shutdown takes the CPUs of the
\* cell before those of the root cell.
LEMMA ShutKeeps ==
  ASSUME ArmCpuTypeOK, ShutInv, ArmCpuNext
  PROVE  ShutInv'
  <1>1. ASSUME NEW c \in ArmCpus, arch_suspend_self(c) PROVE ShutInv'
    BY <1>1, ArmCpuAssumption DEF arch_suspend_self, psci_cpu_off, cpuSide,
       ArmCpuTypeOK, ShutInv
  <1>2. ASSUME NEW c \in ArmCpus, WakeUp(c) PROVE ShutInv'
    BY <1>2, ArmCpuAssumption DEF WakeUp, psci_cpu_stopped, At2, cpuSide,
       ArmCpuTypeOK, ShutInv
  <1>3. ASSUME NEW c \in ArmCpus, arch_reset_self(c) PROVE ShutInv'
    BY <1>3, ArmCpuAssumption DEF arch_reset_self, At2, cpuSide, ArmCpuTypeOK, ShutInv
  <1>4. ASSUME NEW c \in ArmCpus, psci_emulate_spin(c) PROVE ShutInv'
    BY <1>4, ArmCpuAssumption DEF psci_emulate_spin, psci_cpu_off, At2, cpuSide,
       ArmCpuTypeOK, ShutInv
  <1>5. ASSUME NEW c \in ArmCpus, PsciCpuOff(c) PROVE ShutInv'
    BY <1>5, ArmCpuAssumption DEF PsciCpuOff, At2, cpuSide, ArmCpuTypeOK, ShutInv
  <1>6. ASSUME NEW c \in ArmCpus, psci_emulate_cpu_on(c) PROVE ShutInv'
    BY <1>6, ArmCpuAssumption DEF psci_emulate_cpu_on, At2, cpuSide, ArmCpuTypeOK,
       ShutInv
  <1>7. ASSUME NEW c \in ArmCpus, arch_panic_halt(c) PROVE ShutInv'
    BY <1>7, ArmCpuAssumption DEF arch_panic_halt, psci_cpu_off, cpuSide,
       ArmCpuTypeOK, ShutInv
  <1>8. ASSUME NEW c \in ArmCpus, arch_generic_smp_mmio(c) PROVE ShutInv'
    BY <1>8, ArmCpuAssumption DEF arch_generic_smp_mmio, At2, cpuSide, ArmCpuTypeOK,
       ShutInv
  <1>9. ASSUME NEW c \in ArmCpus, psci_try_resume(c) PROVE ShutInv'
    BY <1>9, ArmCpuAssumption DEF psci_try_resume, At2, cpuSide, ArmCpuTypeOK, ShutInv
  <1>10. ASSUME NEW c \in ArmCpus, psci_wait_cpu_stopped(c) PROVE ShutInv'
    BY <1>10, ArmCpuAssumption DEF psci_wait_cpu_stopped, At2, cpuSide, ArmCpuTypeOK,
       ShutInv
  <1>11. ASSUME NEW c \in ArmCpus, psci_resume(c) PROVE ShutInv'
    BY <1>11, ArmCpuAssumption DEF psci_resume, psci_cpu_on, psci_cpu_stopped, At2,
       cpuSide, ArmCpuTypeOK, ShutInv
  <1>12. ASSUME NEW c \in ArmCpus, ExitShutdown(c) PROVE ShutInv'
    BY Zenon, <1>12, ArmCpuAssumption DEF ExitShutdown, At2, cpuSide, ArmCpuTypeOK, ShutInv
  <1>13. ASSUME NEW c \in ArmCpus, arch_suspend_cpu(c) PROVE ShutInv'
    BY Zenon, <1>13, ArmCpuAssumption DEF arch_suspend_cpu, Pop, cpuSide, ArmCpuTypeOK,
       ShutInv
  <1>14. ASSUME NEW c \in ArmCpus, arch_park_cpu(c) PROVE ShutInv'
    BY Zenon, <1>14, ArmCpuAssumption DEF arch_park_cpu, Pop, Doing2, cpuSide, ArmCpuTypeOK,
       ShutInv
  <1>15. ASSUME NEW c \in ArmCpus, arch_reset_cpu(c) PROVE ShutInv'
    BY Zenon, <1>15, ArmCpuAssumption DEF arch_reset_cpu, Pop, Doing2, psci_cpu_on,
       psci_cpu_stopped, cpuSide, ArmCpuTypeOK, ShutInv
  <1>16. ASSUME NEW c \in ArmCpus, arch_resume_cpu(c) PROVE ShutInv'
    BY <1>16, ArmCpuAssumption DEF arch_resume_cpu, Pop, Doing2, At2, cpuSide,
       ArmCpuTypeOK, ShutInv
  <1>17. ASSUME NEW c \in ArmCpus, MarkShutdown(c) PROVE ShutInv'
    BY <1>17, ArmCpuAssumption DEF MarkShutdown, Doing2, cpuSide, ArmCpuTypeOK, ShutInv
  <1>18. ASSUME NEW c \in ArmCpus, AwaitShutdown(c) PROVE ShutInv'
    BY Zenon, <1>18, ArmCpuAssumption DEF AwaitShutdown, Doing2, Step, cpuSide, ArmCpuTypeOK,
       ShutInv
  <1>19. ASSUME NEW c \in ArmCpus, arch_shutdown_cpu(c) PROVE ShutInv'
    BY Zenon, <1>19, ArmCpuAssumption DEF arch_shutdown_cpu, Doing2, Step, psci_cpu_on,
       psci_cpu_stopped, cpuSide, ArmCpuTypeOK, ShutInv
  <1>20. ASSUME NEW o \in {"create", "start", "load", "destroy", "shutdown"}, Hypercall2(o)
        PROVE  ShutInv'
    BY Zenon, <1>20, ArmCpuAssumption DEF Hypercall2, Calm, Others, cpuSide, ArmCpuTypeOK,
       ShutInv
  <1>21. ASSUME Decide PROVE ShutInv'
    BY ZenonT(30), <1>21, ArmCpuAssumption DEF Decide, DoneWith, Doing2, Step, Others, cpuSide,
       ArmCpuTypeOK, ShutInv
  <1>22. ASSUME Suspended2 PROVE ShutInv'
    BY Zenon, <1>22, ArmCpuAssumption DEF Suspended2, DoneWith, Doing2, Step, cpuSide,
       ArmCpuTypeOK, ShutInv
  <1>23. ASSUME Parked2 PROVE ShutInv'
    BY Zenon, <1>23, ArmCpuAssumption DEF Parked2, DoneWith, Doing2, Step, cpuSide,
       ArmCpuTypeOK, ShutInv
  <1>24. ASSUME arch_config_commit PROVE ShutInv'
    <2>1. /\ master.step = "commit" /\ UNCHANGED <<where, inCell, shut>>
          /\ \/ master.op = "start" /\ master' = [master EXCEPT !.step = "reset", !.todo = inCell]
             \/ master' = [master EXCEPT !.step = "resume", !.todo = Others]
      BY Zenon, <1>24 DEF arch_config_commit, Doing2, Step, cpuSide
    <2>2. QED
      BY ZenonT(30), <2>1 DEF ArmCpuTypeOK, ShutInv
  <1>25. ASSUME RemapFails PROVE ShutInv'
    BY Zenon, <1>25, ArmCpuAssumption DEF RemapFails, Doing2, Step, Others, cpuSide,
       ArmCpuTypeOK, ShutInv
  <1>26. ASSUME ResetAll PROVE ShutInv'
    <2>1. /\ master.step = "reset" /\ UNCHANGED <<where, inCell, shut>>
          /\ \/ master' = [master EXCEPT !.step = "commit", !.todo = {}]
             \/ master' = [master EXCEPT !.step = "resume", !.todo = Others]
      BY Zenon, <1>26 DEF ResetAll, DoneWith, Doing2, Step, cpuSide
    <2>2. QED
      BY Zenon, <2>1 DEF ArmCpuTypeOK, ShutInv
  <1>27. ASSUME Return2 PROVE ShutInv'
    BY Zenon, <1>27, ArmCpuAssumption DEF Return2, DoneWith, Doing2, Calm, cpuSide,
       ArmCpuTypeOK, ShutInv
  <1>28. ASSUME arch_shutdown PROVE ShutInv'
    BY Zenon, <1>28, ArmCpuAssumption DEF arch_shutdown, DoneWith, Doing2, Calm, cpuSide,
       ArmCpuTypeOK, ShutInv
  <1>29. QED
    BY Zenon, <1>1, <1>2, <1>3, <1>4, <1>5, <1>6, <1>7, <1>8, <1>9, <1>10, <1>11,
       <1>12, <1>13, <1>14, <1>15, <1>16, <1>17, <1>18, <1>19, <1>20, <1>21, <1>22,
       <1>23, <1>24, <1>25, <1>26, <1>27, <1>28 DEF ArmCpuNext, CpuStep

\* All CPUs run the root cell.
LEMMA ArmCpuStart == ArmCpuInit => ArmCpuInv
  <1> SUFFICES ASSUME ArmCpuInit PROVE ArmCpuInv
    OBVIOUS
  <1>1. ArmCpuTypeOK
    BY Zenon DEF ArmCpuInit, ArmCpuTypeOK, Calm
  <1>2. MailboxInv
    BY Zenon DEF ArmCpuInit, MailboxInv, psci_cpu_stopped
  <1>3. ShutInv
    BY Zenon DEF ArmCpuInit, ShutInv, Calm
  <1>4. QED
    BY Zenon, <1>1, <1>2, <1>3 DEF ArmCpuInv

\* The mailboxes of any number of CPUs carry suspension, reset and shutdown safely.
THEOREM MailboxesAreSafe == ArmCpuSpec => []MailboxSafe
  <1>1. ArmCpuInv /\ [ArmCpuNext]_armCpuVars => ArmCpuInv'
    <2> SUFFICES ASSUME ArmCpuInv, [ArmCpuNext]_armCpuVars PROVE ArmCpuInv'
      OBVIOUS
    <2>1. CASE ArmCpuNext
      BY Zenon, <2>1, ArmCpuTypes, MailboxKeeps, ShutKeeps DEF ArmCpuInv
    <2>2. CASE UNCHANGED armCpuVars
      BY Zenon, <2>2 DEF armCpuVars, ArmCpuInv, ArmCpuTypeOK, MailboxInv, ShutInv,
         psci_cpu_stopped, Calm, books2
    <2>3. QED
      BY Zenon, <2>1, <2>2
  <1>2. ArmCpuInv => MailboxSafe
    BY Zenon DEF ArmCpuInv, ArmCpuTypeOK, MailboxInv, ShutInv, MailboxSafe, StoppedWaits,
       ResetSticks, CellsToldFirst
  <1>3. QED
    BY <1>1, <1>2, ArmCpuStart, PTL DEF ArmCpuSpec

-------------------------------------------------------------------------------
(* The distributor.                                                        *)

\* Every SPI has its field in one word of a register array.
LEMMA FieldFacts ==
  /\ NoFields \in AnyFields
  /\ \A w : Word(w) \subseteq Spis
  /\ \A w : \A f \in [Word(w) -> SUBSET Marks] : f \in AnyFields
  /\ \A s \in Spis : \E w \in Words : s \in Word(w)
  /\ \A s \in Spis : \A w, x : s \in Word(w) /\ s \in Word(x) => w = x
  <1>1. NoFields \in [{} -> SUBSET Marks]
    BY Zenon DEF NoFields
  <1>2. \A w : Word(w) \subseteq Spis
    BY Zenon DEF Word
  <1>3. NoFields \in AnyFields
    BY Zenon, <1>1 DEF AnyFields
  <1>4. \A w : \A f \in [Word(w) -> SUBSET Marks] : f \in AnyFields
    BY Zenon, <1>2 DEF AnyFields
  <1>5. \A s \in Spis : \E w \in Words : s \in Word(w)
    BY Zenon DEF Word, Words
  <1>6. \A s \in Spis : \A w, x : s \in Word(w) /\ s \in Word(x) => w = x
    BY Zenon DEF Word
  <1>7. QED
    BY Zenon, <1>2, <1>3, <1>4, <1>5, <1>6

\* A CPU without an access and an idle hypercall have the types of the others.
LEMMA RestFacts ==
  /\ None \in Accesses /\ None.at = "guest"
  /\ Quiet \in Calls /\ Quiet.at = "idle" /\ Routed \subseteq Words
  <1>1. None \in Accesses /\ None.at = "guest"
    BY Zenon, FieldFacts DEF None, Accesses
  <1>2. Quiet \in Calls /\ Quiet.at = "idle"
    BY Zenon, FieldFacts DEF Quiet, Calls
  <1>3. QED
    BY Zenon, <1>1, <1>2 DEF Routed

\* What a guest writes.
LEMMA FieldsTyped == \A c : Fields(c) \subseteq SUBSET Marks
  BY SMTT(30) DEF Fields, Marks, DistCpus

\* The first step of an access: its mask and its value.
LEMMA BeginEffect ==
  ASSUME DistTypeOK, NEW c \in DistCpus, NEW w \in Words, NEW v \in [Word(w) -> Fields(c)],
         gic_handle_dist_access(c, w, v)
  PROVE  /\ dist' \in [DistCpus -> Accesses] /\ v \in [Word(w) -> SUBSET Marks]
         /\ \A d \in DistCpus \ {c} : dist'[d] = dist[d]
         /\ dist'[c].at = kind /\ dist'[c].w = w /\ dist'[c].val = v
         /\ dist'[c].mask = {s \in Word(w) : spi_in_cell(CellName(c), s)}
  <1> DEFINE m == {s \in Word(w) : spi_in_cell(CellName(c), s)}
             a == [at |-> kind, w |-> w, val |-> v, mask |-> m, old |-> NoFields,
                   crossed |-> FALSE]
  <1>1. v \in [Word(w) -> SUBSET Marks]
    BY Zenon, FieldsTyped
  <1>2. m \subseteq Spis /\ v \in AnyFields /\ NoFields \in AnyFields
    BY Zenon, <1>1, FieldFacts
  <1>3. a \in Accesses
    BY Zenon, <1>2 DEF Accesses, DistTypeOK
  <1>4. dist' = [dist EXCEPT ![c] = a]
    BY Zenon DEF gic_handle_dist_access
  <1>5. dist' \in [DistCpus -> Accesses] /\ dist'[c] = a
    BY Zenon, <1>3, <1>4 DEF DistTypeOK
  <1>6. \A d \in DistCpus \ {c} : dist'[d] = dist[d]
    BY Zenon, <1>4 DEF DistTypeOK
  <1>7. QED
    BY <1>1, <1>5, <1>6

\* The read of a read-modify-write.
LEMMA LockEffect ==
  ASSUME DistTypeOK, NEW c \in DistCpus, LockAndRead(c)
  PROVE  /\ dist' \in [DistCpus -> Accesses]
         /\ \A d \in DistCpus \ {c} : dist'[d] = dist[d]
         /\ dist'[c].at = "write" /\ dist'[c].w = dist[c].w /\ dist'[c].val = dist[c].val
         /\ dist'[c].mask = dist[c].mask
         /\ dist'[c].old \in [Word(dist[c].w) -> SUBSET Marks]
         /\ \A s \in Word(dist[c].w) : dist'[c].old[s] = reg[s]
  <1> DEFINE f == [s \in Word(dist[c].w) |-> reg[s]]
  <1>1. f \in [Word(dist[c].w) -> SUBSET Marks]
    BY Zenon, FieldFacts DEF DistTypeOK
  <1>2. f \in AnyFields
    BY Zenon, <1>1, FieldFacts
  <1>3. dist' = [dist EXCEPT ![c].at = "write", ![c].old = f]
    BY Zenon DEF LockAndRead
  <1>4. \A s \in Word(dist[c].w) : f[s] = reg[s]
    OBVIOUS
  <1> HIDE DEF f
  <1>5. QED
    BY ZenonT(30), <1>1, <1>2, <1>3, <1>4 DEF Accesses, DistTypeOK

\* The write: which fields it changes, and which SPIs it leaves routed late.
LEMMA PutEffect ==
  ASSUME DistTypeOK, NEW c \in DistCpus, NEW f \in [Word(dist[c].w) -> SUBSET Marks],
         Put(c, f)
  PROVE  /\ dist' \in [DistCpus -> Accesses] /\ dist'[c] = None
         /\ \A d \in DistCpus \ {c} : dist'[d] = dist[d]
         /\ reg' \in [Spis -> SUBSET Marks] /\ late' \subseteq Spis
         /\ \A s \in Spis : reg'[s] = IF s \in Word(dist[c].w) THEN f[s] ELSE reg[s]
         /\ \A s \in Spis \ late' :
              /\ s \in dist[c].mask => hc = Quiet /\ spi_in_cell(CellName(c), s)
              /\ s \notin dist[c].mask => s \notin late
              /\ s \in Word(dist[c].w) => ~dist[c].crossed
         /\ UNCHANGED <<kind, spis, member, hc>>
  <1>1. dist' = [dist EXCEPT ![c] = None] /\ UNCHANGED <<kind, spis, member, hc>>
    BY Zenon DEF Put
  <1>2. /\ dist' \in [DistCpus -> Accesses] /\ dist'[c] = None
        /\ \A d \in DistCpus \ {c} : dist'[d] = dist[d]
    BY Zenon, <1>1, RestFacts DEF DistTypeOK
  <1>3. reg' = [s \in Spis |-> IF s \in Word(dist[c].w) THEN f[s] ELSE reg[s]]
    BY Zenon DEF Put
  <1>4. /\ reg' \in [Spis -> SUBSET Marks]
        /\ \A s \in Spis : reg'[s] = IF s \in Word(dist[c].w) THEN f[s] ELSE reg[s]
    BY Zenon, <1>3 DEF DistTypeOK
  <1>5. dist[c].mask \subseteq Spis
    BY Zenon DEF DistTypeOK, Accesses
  <1>6. late' = (late \ dist[c].mask) \cup
           {s \in dist[c].mask : hc # Quiet \/ ~spi_in_cell(CellName(c), s)} \cup
           (IF dist[c].crossed THEN Word(dist[c].w) ELSE {})
    BY Zenon DEF Put
  <1>7. late' \subseteq Spis
    BY Zenon, <1>5, <1>6, FieldFacts DEF DistTypeOK
  <1>8. \A s \in Spis \ late' :
              /\ s \in dist[c].mask => hc = Quiet /\ spi_in_cell(CellName(c), s)
              /\ s \notin dist[c].mask => s \notin late
              /\ s \in Word(dist[c].w) => ~dist[c].crossed
    BY Zenon, <1>6
  <1>9. QED
    BY Zenon, <1>1, <1>2, <1>4, <1>7, <1>8

\* What the three kinds of writes put into the register.
LEMMA PutFields ==
  ASSUME DistTypeOK, NEW c \in DistCpus, AccessInv(c),
         handle_irq_target(c) \/ restrict_bitmask_access(c) \/ Poke(c)
  PROVE  \E f \in [Word(dist[c].w) -> SUBSET Marks] :
           /\ Put(c, f) /\ (dist[c].at = "write" \/ kind = "poke") /\ dist[c].at # "guest"
           /\ kind = "target" => \A s \in Word(dist[c].w) :
                f[s] = IF s \in dist[c].mask THEN dist[c].val[s] ELSE dist[c].old[s]
           /\ kind = "config" => \A s \in Word(dist[c].w) \ dist[c].mask :
                dist[c].old[s] \subseteq f[s]
           /\ kind = "poke" => \A s \in Word(dist[c].w) \ dist[c].mask : f[s] = reg[s]
  <1> DEFINE W == Word(dist[c].w)
  <1>1. W \subseteq Spis /\ reg \in [Spis -> SUBSET Marks]
    BY Zenon, FieldFacts DEF DistTypeOK
  <1>2. CASE handle_irq_target(c)
    <2> DEFINE f == [s \in W |-> IF s \in dist[c].mask THEN dist[c].val[s] ELSE dist[c].old[s]]
    <2>1. dist[c].at = "write" /\ kind = "target" /\ Put(c, f)
      BY Zenon, <1>2 DEF handle_irq_target
    <2>2. dist[c].val \in [W -> SUBSET Marks] /\ dist[c].old \in [W -> SUBSET Marks]
      BY Zenon, <2>1 DEF AccessInv
    <2>3. f \in [W -> SUBSET Marks]
      BY Zenon, <2>2
    <2>4. \A s \in W : f[s] = IF s \in dist[c].mask THEN dist[c].val[s] ELSE dist[c].old[s]
      OBVIOUS
    <2> HIDE DEF f
    <2>5. QED
      BY Zenon, <2>1, <2>3, <2>4
  <1>3. CASE restrict_bitmask_access(c)
    <2> DEFINE f == [s \in W |-> (IF s \in dist[c].mask THEN {} ELSE dist[c].old[s])
                                 \cup dist[c].val[s]]
    <2>1. dist[c].at = "write" /\ kind = "config" /\ Put(c, f)
      BY Zenon, <1>3 DEF restrict_bitmask_access
    <2>2. dist[c].val \in [W -> SUBSET Marks] /\ dist[c].old \in [W -> SUBSET Marks]
      BY Zenon, <2>1 DEF AccessInv
    <2>3. f \in [W -> SUBSET Marks]
      BY Zenon, <2>2
    <2>4. \A s \in W \ dist[c].mask : dist[c].old[s] \subseteq f[s]
      OBVIOUS
    <2> HIDE DEF f
    <2>5. QED
      BY Zenon, <2>1, <2>3, <2>4
  <1>4. CASE Poke(c)
    <2> DEFINE bits == [s \in W |-> IF s \in dist[c].mask THEN dist[c].val[s] ELSE {}]
               f == [s \in W |-> reg[s] \cup bits[s]]
               g == [s \in W |-> reg[s] \ bits[s]]
    <2>1. dist[c].at = "poke" /\ (Put(c, f) \/ Put(c, g))
      BY Zenon, <1>4 DEF Poke
    <2>2. kind = "poke" /\ dist[c].val \in [W -> SUBSET Marks]
      BY Zenon, <2>1 DEF AccessInv, DistTypeOK
    <2>3. \A s \in W : bits[s] \subseteq Marks /\ (s \notin dist[c].mask => bits[s] = {})
      BY Zenon, <2>2
    <2> HIDE DEF bits
    <2>4. f \in [W -> SUBSET Marks] /\ g \in [W -> SUBSET Marks]
      BY Zenon, <1>1, <2>3
    <2>5. \A s \in W \ dist[c].mask : f[s] = reg[s] /\ g[s] = reg[s]
      BY Zenon, <2>3
    <2> HIDE DEF f, g
    <2>6. QED
      BY Zenon, <2>1, <2>2, <2>4, <2>5
  <1>5. QED
    BY Zenon, <1>2, <1>3, <1>4

\* The first step of an access: the mask holds SPIs of the guest's cell, and their
\* fields name CPUs of that cell only.
LEMMA BeginKeeps ==
  ASSUME DistInv, NEW c \in DistCpus, NEW w \in Words, NEW v \in [Word(w) -> Fields(c)],
         gic_handle_dist_access(c, w, v)
  PROVE  DistInv'
  <1>1. UNCHANGED <<kind, reg, spis, member, dlock, hc, late>>
    BY Zenon DEF gic_handle_dist_access
  <1>2. /\ dist' \in [DistCpus -> Accesses] /\ v \in [Word(w) -> SUBSET Marks]
        /\ \A d \in DistCpus \ {c} : dist'[d] = dist[d]
        /\ dist'[c].at = kind /\ dist'[c].w = w /\ dist'[c].val = v
        /\ dist'[c].mask = {s \in Word(w) : spi_in_cell(CellName(c), s)}
    BY Zenon, BeginEffect DEF DistInv
  <1>3. DistTypeOK' /\ HandOverInv' /\ RouteInv'
    BY Zenon, <1>1, <1>2 DEF DistInv, DistTypeOK, HandOverInv, RouteInv, Rerouted
  <1>4. ASSUME NEW d \in DistCpus \ {c} PROVE AccessInv(d)'
    BY <1>1, <1>2, <1>4 DEF DistInv, DistTypeOK, AccessInv
  <1>5. AccessInv(c)'
    <2>1. dist[c].at = "guest" /\ (c = CellCpu => member)
      BY Zenon DEF gic_handle_dist_access
    <2>2. kind = "target" => \A s \in dist'[c].mask : v[s] \subseteq CpusOf(CellName(c))
      BY Zenon, <1>2 DEF gic_handle_dist_access
    <2>3. c = CellCpu => /\ member /\ CellName(c) = "cell" /\ spis["cell"] = CellPins
                         /\ CpusOf(CellName(c)) = {CellCpu}
      BY Zenon, <2>1 DEF CellName, CpusOf, DistInv, DistTypeOK, HandOverInv, Calls
    <2>4. c # CellCpu /\ kind = "target" => \A s \in Word(w) : v[s] \subseteq RootCpus
      BY DEF Fields
    <2>5. dist'[c].mask \subseteq Word(w) /\ (c = CellCpu => dist'[c].mask \subseteq CellPins)
      BY Zenon, <1>2, <2>3 DEF spi_in_cell
    <2>6. QED
      BY Zenon, <1>1, <1>2, <2>2, <2>3, <2>4, <2>5 DEF AccessInv, DistInv, DistTypeOK
  <1>6. QED
    BY Zenon, <1>3, <1>4, <1>5 DEF DistInv

\* The lock: a second CPU cannot read a register before the first has written it.
LEMMA LockKeeps ==
  ASSUME DistInv, NEW c \in DistCpus, LockAndRead(c)
  PROVE  DistInv'
  <1>1. /\ UNCHANGED <<kind, reg, spis, member, hc, late>>
        /\ dlock' = TRUE /\ ~dlock /\ dist[c].at \in {"target", "config"}
    BY Zenon DEF LockAndRead
  <1>2. /\ dist' \in [DistCpus -> Accesses]
        /\ \A d \in DistCpus \ {c} : dist'[d] = dist[d]
        /\ dist'[c].at = "write" /\ dist'[c].w = dist[c].w /\ dist'[c].val = dist[c].val
        /\ dist'[c].mask = dist[c].mask
        /\ dist'[c].old \in [Word(dist[c].w) -> SUBSET Marks]
        /\ \A s \in Word(dist[c].w) : dist'[c].old[s] = reg[s]
    BY Zenon, LockEffect DEF DistInv
  <1>3. DistTypeOK' /\ HandOverInv' /\ RouteInv'
    BY Zenon, <1>1, <1>2 DEF DistInv, DistTypeOK, HandOverInv, RouteInv, Rerouted
  <1>4. \A d \in DistCpus : dist[d].at # "write"
    BY Zenon, <1>1 DEF DistInv, AccessInv
  <1>5. ASSUME NEW d \in DistCpus \ {c} PROVE AccessInv(d)'
    BY Zenon, <1>1, <1>2, <1>4, <1>5 DEF DistInv, DistTypeOK, AccessInv
  <1>6. AccessInv(c)'
    BY Zenon, <1>1, <1>2, <1>4 DEF DistInv, DistTypeOK, AccessInv
  <1>7. QED
    BY Zenon, <1>3, <1>5, <1>6 DEF DistInv

\* The write of an access: inside the mask it routes to the guest's own CPUs,
\* outside of it an SPI keeps its route unless a hand-over crossed the access.
LEMMA PutKeeps ==
  ASSUME DistInv, NEW c \in DistCpus,
         handle_irq_target(c) \/ restrict_bitmask_access(c) \/ Poke(c)
  PROVE  DistInv'
  <1>1. PICK f \in [Word(dist[c].w) -> SUBSET Marks] :
           /\ Put(c, f) /\ (dist[c].at = "write" \/ kind = "poke") /\ dist[c].at # "guest"
           /\ kind = "target" => \A s \in Word(dist[c].w) :
                f[s] = IF s \in dist[c].mask THEN dist[c].val[s] ELSE dist[c].old[s]
    BY Zenon, PutFields DEF DistInv
  <1>2. /\ dist' \in [DistCpus -> Accesses] /\ dist'[c] = None
        /\ \A d \in DistCpus \ {c} : dist'[d] = dist[d]
        /\ reg' \in [Spis -> SUBSET Marks] /\ late' \subseteq Spis
        /\ \A s \in Spis : reg'[s] = IF s \in Word(dist[c].w) THEN f[s] ELSE reg[s]
        /\ \A s \in Spis \ late' :
             /\ s \in dist[c].mask => hc = Quiet /\ spi_in_cell(CellName(c), s)
             /\ s \notin dist[c].mask => s \notin late
             /\ s \in Word(dist[c].w) => ~dist[c].crossed
        /\ UNCHANGED <<kind, spis, member, hc>>
    BY Zenon, <1>1, PutEffect DEF DistInv
  <1>3. DistTypeOK' /\ HandOverInv'
    BY Zenon, <1>2 DEF DistInv, DistTypeOK, HandOverInv
  <1>4. ASSUME NEW d \in DistCpus PROVE AccessInv(d)'
    <2>1. CASE d = c
      BY Zenon, <1>2, <2>1, RestFacts DEF AccessInv
    <2>2. CASE d # c
      <3>1. dist[d].at # "write"
        BY Zenon, <1>1, <2>2 DEF DistInv, AccessInv
      <3>2. QED
        BY Zenon, <1>2, <2>2, <3>1 DEF DistInv, DistTypeOK, AccessInv
    <2>3. QED
      BY Zenon, <2>1, <2>2
  <1>5. RouteInv'
    <2>1. SUFFICES ASSUME kind = "target", NEW s \in Spis \ late'
                   PROVE  \/ s \notin late /\ reg'[s] = reg[s]
                          \/ /\ hc.at = "idle"
                             /\ s \in CellPins /\ s \in RootPins => member \/ reg'[s] \subseteq RootCpus
                             /\ s \in RootPins \ CellPins => reg'[s] \subseteq RootCpus
                             /\ s \in CellPins /\ member => reg'[s] \subseteq {CellCpu}
      BY Zenon, <1>2 DEF RouteInv, Rerouted, DistInv
    <2>2. /\ dist[c].val \in [Word(dist[c].w) -> SUBSET Marks]
          /\ dist[c].mask \subseteq Word(dist[c].w) /\ (c = CellCpu => member)
          /\ \A t \in dist[c].mask : dist[c].val[t] \subseteq IF c = CellCpu THEN {CellCpu} ELSE RootCpus
          /\ dist[c].at = "write"
          /\ dist[c].crossed \/ \A t \in Word(dist[c].w) : dist[c].old[t] = reg[t]
      BY Zenon, <1>1, <2>1 DEF DistInv, AccessInv
    <2>3. CASE s \in dist[c].mask
      <3>1. hc.at = "idle" /\ s \in spis[CellName(c)] /\ reg'[s] = dist[c].val[s]
        <4>1. hc = Quiet /\ spi_in_cell(CellName(c), s)
          BY Zenon, <1>2, <2>1, <2>3
        <4>2. s \in Word(dist[c].w)
          BY Zenon, <2>2, <2>3
        <4>3. reg'[s] = f[s] /\ f[s] = dist[c].val[s]
          BY Zenon, <1>1, <1>2, <2>1, <2>3, <4>2
        <4>4. QED
          BY Zenon, <4>1, <4>3, RestFacts DEF spi_in_cell
      <3>2. /\ spis["cell"] = IF member THEN CellPins ELSE {}
            /\ spis["root"] = RootPins \ spis["cell"]
        BY Zenon, <3>1 DEF DistInv, HandOverInv
      <3>3. QED
        <4>1. CASE c = CellCpu
          BY Zenon, <2>2, <2>3, <3>1, <3>2, <4>1 DEF CellName
        <4>2. CASE c # CellCpu
          BY Zenon, <2>2, <2>3, <3>1, <3>2, <4>2 DEF CellName
        <4>3. QED
          BY Zenon, <4>1, <4>2
    <2>4. CASE s \notin dist[c].mask
      BY Zenon, <1>1, <1>2, <2>1, <2>2, <2>4
    <2>5. QED
      BY Zenon, <2>3, <2>4
  <1>6. QED
    BY Zenon, <1>3, <1>4, <1>5 DEF DistInv

\* An access sees nothing of a step of the hypercall that leaves the registers and
\* the CPU's cell alone.
LEMMA AccessApart ==
  ASSUME DistInv, UNCHANGED <<kind, reg, dlock, dist>>,
         member' = member \/ dist[CellCpu].at = "guest"
  PROVE  \A d \in DistCpus : AccessInv(d)'
  BY DEF DistInv, AccessInv

\* The steps of the hypercall that change cells and CPUs but no register.
LEMMA CallKeeps ==
  ASSUME DistInv, \/ irqchip_cell_init \/ irqchip_root_cell_shrink \/ MoveCpu \/ Destroy2
                  \/ irqchip_cell_exit \/ FreeCell2
  PROVE  DistInv'
  <1>1. /\ UNCHANGED <<kind, reg, dlock, dist, late>>
        /\ member' = member \/ dist[CellCpu].at = "guest"
    BY Zenon DEF irqchip_cell_init, irqchip_root_cell_shrink, MoveCpu, Destroy2,
       irqchip_cell_exit,
           FreeCell2
  <1>2. \A d \in DistCpus : AccessInv(d)'
    BY Zenon, <1>1, AccessApart
  <1>3. NoFields \in AnyFields /\ Routed \subseteq Words
    BY Zenon, FieldFacts, RestFacts
  <1>4. /\ hc \in Calls /\ spis \in [{"root", "cell"} -> SUBSET Spis] /\ member \in BOOLEAN
        /\ CellPins \subseteq Spis /\ RootPins \subseteq Spis
    BY Zenon, DistAssumption DEF DistInv, DistTypeOK
  <1>5. /\ hc' \in Calls /\ spis' \in [{"root", "cell"} -> SUBSET Spis] /\ member' \in BOOLEAN
        /\ HandOverInv'
    <2>1. CASE irqchip_cell_init
      BY ZenonT(30), <1>3, <1>4, <2>1 DEF irqchip_cell_init, Quiet, Calls, DistInv, HandOverInv
    <2>2. CASE irqchip_root_cell_shrink
      BY Zenon, <1>3, <1>4, <2>2 DEF irqchip_root_cell_shrink, Then, Calls, DistInv, HandOverInv
    <2>3. CASE MoveCpu
      <3>1. spis' = spis /\ hc.at = "move" /\ hc.op \in {"create", "destroy"}
        BY Zenon, <2>3 DEF MoveCpu, DistInv, HandOverInv
      <3>2. CASE hc.op = "create"
        <4>1. member' = TRUE /\ hc' = Quiet
          BY Zenon, <2>3, <3>2 DEF MoveCpu
        <4>2. QED
          BY Zenon, <1>4, <3>1, <3>2, <4>1, RestFacts DEF DistInv, HandOverInv
      <3>3. CASE hc.op = "destroy"
        <4>1. member' = FALSE /\ Then("exit", {})
          BY Zenon, <2>3, <3>3 DEF MoveCpu
        <4>2. QED
          BY Zenon, <1>3, <1>4, <3>1, <3>3, <4>1 DEF Then, Calls, DistInv, HandOverInv
      <3>4. QED
        BY Zenon, <3>1, <3>2, <3>3
    <2>4. CASE Destroy2
      BY Zenon, <1>3, <1>4, <2>4 DEF Destroy2, Quiet, Calls, DistInv, HandOverInv
    <2>5. CASE irqchip_cell_exit
      BY Zenon, <1>3, <1>4, <2>5 DEF irqchip_cell_exit, Then, Calls, DistInv, HandOverInv
    <2>6. CASE FreeCell2
      BY Zenon, <1>3, <1>4, <2>6 DEF FreeCell2, Quiet, Calls, DistInv, HandOverInv
    <2>7. QED
      BY Zenon, <2>1, <2>2, <2>3, <2>4, <2>5, <2>6
  <1>6. RouteInv'
    <2>1. SUFFICES ASSUME kind = "target" PROVE RouteInv'
      BY Zenon, <1>1 DEF RouteInv
    <2>2. Routed = Words /\ \A s \in Spis : \E w \in Words : s \in Word(w)
      BY Zenon, <2>1, FieldFacts DEF Routed
    <2>3. CASE irqchip_cell_init
      BY Zenon, <1>1, <2>1, <2>2, <2>3 DEF irqchip_cell_init, Quiet, DistInv, RouteInv, Rerouted
    <2>4. CASE irqchip_root_cell_shrink
      BY Zenon, <1>1, <1>4, <2>1, <2>4 DEF irqchip_root_cell_shrink, Then, Calls, DistInv,
         RouteInv,
           Rerouted, HandOverInv
    <2>5. CASE MoveCpu
      <3>1. /\ hc.at = "move"
            /\ (member' = TRUE /\ hc'.at = "idle") \/ (member' = FALSE /\ hc'.at = "exit")
        <4>1. CASE hc.op = "create"
          <5>1. hc.at = "move" /\ member' = TRUE /\ hc' = Quiet
            BY Zenon, <2>5, <4>1 DEF MoveCpu
          <5>2. QED
            BY Zenon, <5>1, RestFacts
        <4>2. CASE hc.op # "create"
          BY Zenon, <1>4, <2>5, <4>2 DEF MoveCpu, Then, Calls
        <4>3. QED
          BY Zenon, <4>1, <4>2
      <3>2. \A s \in Spis \ late :
              /\ s \in RootPins \ CellPins => reg[s] \subseteq RootCpus
              /\ s \in CellPins => reg[s] \subseteq {CellCpu}
        BY Zenon, <2>1, <3>1 DEF DistInv, RouteInv
      <3>3. QED
        BY Zenon, <1>1, <3>1, <3>2 DEF RouteInv
    <2>6. CASE Destroy2
      BY Zenon, <1>1, <2>1, <2>6 DEF Destroy2, Quiet, DistInv, RouteInv
    <2>7. CASE irqchip_cell_exit
      BY Zenon, <1>1, <1>4, <2>1, <2>2, <2>7 DEF irqchip_cell_exit, Then, Calls, DistInv,
         RouteInv,
           Rerouted, HandOverInv
    <2>8. CASE FreeCell2
      BY Zenon, <1>1, <1>4, <2>1, <2>8 DEF FreeCell2, Quiet, Calls, DistInv, RouteInv, Rerouted,
           HandOverInv
    <2>9. QED
      BY Zenon, <2>3, <2>4, <2>5, <2>6, <2>7, <2>8
  <1>7. QED
    BY Zenon, <1>1, <1>2, <1>5, <1>6 DEF DistInv, DistTypeOK

\* gic_target_spis reads a register, whose value is current until it is written back.
LEMMA RouteReadKeeps ==
  ASSUME DistInv, NEW w \in Words, hc.at = "route", w \in hc.left,
         hc' = [hc EXCEPT !.at = "written", !.left = @ \ {w},
                          !.old = [s \in Word(w) |-> reg[s]]],
         UNCHANGED <<kind, reg, spis, member, dlock, dist, late>>
  PROVE  DistInv'
  <1> DEFINE f == [s \in Word(w) |-> reg[s]]
  <1>1. f \in AnyFields /\ DOMAIN f = Word(w) /\ \A s \in Word(w) : f[s] = reg[s]
    <2>1. f \in [Word(w) -> SUBSET Marks]
      BY Zenon, FieldFacts DEF DistInv, DistTypeOK
    <2>2. QED
      BY Zenon, <2>1, FieldFacts
  <1>2. hc' = [hc EXCEPT !.at = "written", !.left = @ \ {w}, !.old = f]
    OBVIOUS
  <1> HIDE DEF f
  <1>3. /\ hc' \in Calls /\ hc'.at = "written" /\ hc'.left = hc.left \ {w} /\ hc'.op = hc.op
        /\ hc'.old = f
    BY ZenonT(30), <1>1, <1>2 DEF DistInv, DistTypeOK, Calls
  <1>4. \A d \in DistCpus : AccessInv(d)'
    BY Zenon, AccessApart
  <1>5. DistTypeOK' /\ HandOverInv'
    BY Zenon, <1>3 DEF DistInv, DistTypeOK, HandOverInv
  <1>6. \A s \in Spis : Rerouted(s)' => Rerouted(s)
    BY Zenon, <1>1, <1>3 DEF Rerouted
  <1>7. RouteInv'
    BY Zenon, <1>1, <1>3, <1>6 DEF DistInv, RouteInv
  <1>8. QED
    BY Zenon, <1>4, <1>5, <1>7 DEF DistInv

\* gic_target_spis writes the register back: the cell's SPIs in it go to the first
\* CPU of their new owner, and the others get the route back that they had.
LEMMA RouteWriteKeeps ==
  ASSUME DistInv, NEW w \in Words, gic_target_spis(w), hc.at = "written"
  PROVE  DistInv'
  <1> DEFINE dest == IF hc.op = "create" THEN {CellCpu} ELSE {HyperCpu}
  <1>1. /\ DOMAIN hc.old = Word(w) /\ UNCHANGED <<kind, spis, member, dlock>>
        /\ reg' = [s \in Spis |-> IF s \notin Word(w) THEN reg[s]
                                  ELSE IF spi_in_cell("cell", s) THEN dest ELSE hc.old[s]]
        /\ late' = late \ (Word(w) \cap spis["cell"])
        /\ dist' = [c \in DistCpus |->
              IF dist[c].at = "write" /\ dist[c].w = w
              THEN [dist[c] EXCEPT !.crossed = TRUE] ELSE dist[c]]
        /\ hc' = [hc EXCEPT !.at = "route", !.left = hc.left, !.old = NoFields]
    BY Zenon DEF gic_target_spis, Then
  <1>2. /\ hc' \in Calls /\ hc'.at = "route" /\ hc'.left = hc.left /\ hc'.op = hc.op
        /\ hc \in Calls
    BY Zenon, <1>1, FieldFacts DEF DistInv, DistTypeOK, Calls
  <1>3. spis["cell"] = CellPins /\ hc.op \in {"create", "destroy"} /\ ~member
    BY Zenon DEF DistInv, HandOverInv
  <1>4. dest \subseteq Marks /\ dest \subseteq (IF hc.op = "create" THEN {CellCpu} ELSE RootCpus)
    BY Zenon, DistAssumption DEF Marks
  <1> HIDE DEF dest
  <1>5. /\ \A s \in Spis : reg'[s] = IF s \notin Word(w) THEN reg[s]
                                     ELSE IF s \in CellPins THEN dest ELSE hc.old[s]
        /\ \A s \in Word(w) : hc.old[s] \subseteq Marks
    <2>1. \A s \in Word(w) : hc.old[s] \subseteq Marks
      BY <1>1, <1>2 DEF Calls, AnyFields
    <2>2. QED
      BY Zenon, <1>1, <1>3, <2>1 DEF spi_in_cell
  <1>6. reg' \in [Spis -> SUBSET Marks] /\ late' \subseteq Spis
    BY Zenon, <1>1, <1>4, <1>5 DEF DistInv, DistTypeOK
  <1>7. /\ dist' \in [DistCpus -> Accesses]
        /\ \A d \in DistCpus : /\ dist'[d].at = dist[d].at /\ dist'[d].w = dist[d].w
                               /\ dist'[d].val = dist[d].val /\ dist'[d].mask = dist[d].mask
                               /\ dist'[d].old = dist[d].old
                               /\ dist[d].at = "write" /\ dist[d].w = w => dist'[d].crossed
                               /\ dist[d].w # w => dist'[d] = dist[d]
    BY ZenonT(30), <1>1 DEF DistInv, DistTypeOK, Accesses
  <1>8. DistTypeOK' /\ HandOverInv'
    BY Zenon, <1>1, <1>2, <1>3, <1>6, <1>7 DEF DistInv, DistTypeOK, HandOverInv
  <1>9. ASSUME NEW d \in DistCpus PROVE AccessInv(d)'
    <2>1. AccessInv(d) /\ kind' = kind /\ member' = member /\ dlock' = dlock
      BY Zenon, <1>1 DEF DistInv
    <2>2. CASE dist[d].at # "write"
      BY Zenon, <1>7, <2>1, <2>2 DEF AccessInv
    <2>3. CASE dist[d].at = "write"
      <3>1. dist'[d].crossed \/ \A s \in Word(dist[d].w) : dist[d].old[s] = reg'[s]
        <4>1. CASE dist[d].w = w
          BY Zenon, <1>7, <2>3, <4>1
        <4>2. CASE dist[d].w # w
          <5>1. \A s \in Word(dist[d].w) : s \in Spis /\ s \notin Word(w)
            BY Zenon, <4>2, FieldFacts
          <5>2. QED
            BY Zenon, <1>5, <1>7, <2>1, <2>3, <4>2, <5>1 DEF AccessInv
        <4>3. QED
          BY Zenon, <4>1, <4>2
      <3>2. QED
        BY <1>7, <2>1, <2>3, <3>1 DEF AccessInv
    <2>4. QED
      BY Zenon, <2>2, <2>3
  <1>10. RouteInv'
    <2>1. SUFFICES ASSUME kind = "target", NEW s \in Spis \ late'
                   PROVE  /\ s \in RootPins \ CellPins => reg'[s] \subseteq RootCpus
                          /\ s \in CellPins /\ Rerouted(s)' =>
                               reg'[s] \subseteq IF hc.op = "create" THEN {CellCpu} ELSE RootCpus
      BY <1>1, <1>2 DEF RouteInv
    <2>2. CASE s \in Word(w) /\ s \in CellPins
      BY Zenon, <1>4, <1>5, <2>2
    <2>3. CASE s \in Word(w) /\ s \notin CellPins
      <3>1. s \notin late
        BY Zenon, <1>1, <1>3, <2>3
      <3>2. hc.old[s] = reg[s] /\ (s \in RootPins => reg[s] \subseteq RootCpus)
        BY Zenon, <1>1, <2>1, <2>3, <3>1 DEF DistInv, RouteInv
      <3>3. QED
        BY Zenon, <1>5, <2>3, <3>2
    <2>4. CASE s \notin Word(w)
      <3>1. s \notin late /\ reg'[s] = reg[s]
        BY Zenon, <1>1, <1>5, <2>4
      <3>2. Rerouted(s)' => Rerouted(s)
        BY Zenon, <1>1, <1>2, <2>4 DEF Rerouted
      <3>3. QED
        BY Zenon, <2>1, <3>1, <3>2 DEF DistInv, RouteInv
    <2>5. QED
      BY Zenon, <2>2, <2>3, <2>4
  <1>11. QED
    BY Zenon, <1>8, <1>9, <1>10 DEF DistInv

\* The invariant holds at first: nothing is being accessed, and every SPI is routed
\* to the root cell's first CPU.
LEMMA DistStart == DistInit => DistInv
  <1> SUFFICES ASSUME DistInit PROVE DistInv
    OBVIOUS
  <1>1. DistTypeOK
    <2>1. reg \in [Spis -> SUBSET Marks] /\ late \subseteq Spis
      BY Zenon, DistAssumption DEF DistInit, Marks
    <2>2. spis \in [{"root", "cell"} -> SUBSET Spis]
      BY DistAssumption DEF DistInit
    <2>3. dist \in [DistCpus -> Accesses] /\ hc \in Calls
      BY Zenon, RestFacts DEF DistInit
    <2>4. QED
      BY Zenon, <2>1, <2>2, <2>3 DEF DistInit, DistTypeOK
  <1>2. HandOverInv
    BY Zenon, RestFacts DEF DistInit, HandOverInv
  <1>3. RouteInv
    BY Zenon, RestFacts, DistAssumption DEF DistInit, RouteInv
  <1>4. \A c \in DistCpus : AccessInv(c)
    BY Zenon, RestFacts DEF DistInit, AccessInv
  <1>5. QED
    BY Zenon, <1>1, <1>2, <1>3, <1>4 DEF DistInv

\* Every step of the distributor keeps the invariant.
LEMMA DistStep == DistInv /\ [DistNext]_distVars => DistInv'
  <1> SUFFICES ASSUME DistInv, [DistNext]_distVars PROVE DistInv'
    OBVIOUS
  <1>1. ASSUME NEW c \in DistCpus, GuestAccess2(c) PROVE DistInv'
    BY Zenon, <1>1, BeginKeeps, LockKeeps, PutKeeps DEF GuestAccess2
  <1>2. ASSUME NEW w \in Words, gic_target_spis(w) PROVE DistInv'
    <2>1. CASE hc.at = "written"
      BY Zenon, <1>2, <2>1, RouteWriteKeeps
    <2>2. CASE hc.at # "written"
      <3>1. /\ hc.at = "route" /\ w \in hc.left
            /\ hc' = [hc EXCEPT !.at = "written", !.left = @ \ {w},
                                !.old = [s \in Word(w) |-> reg[s]]]
            /\ UNCHANGED <<kind, reg, spis, member, dlock, dist, late>>
        BY Zenon, <1>2, <2>2 DEF gic_target_spis
      <3>2. QED
        BY Zenon, <3>1, RouteReadKeeps
    <2>3. QED
      BY Zenon, <2>1, <2>2
  <1>3. CASE UNCHANGED distVars
    BY Zenon, <1>3 DEF distVars, DistInv, DistTypeOK, HandOverInv, RouteInv, Rerouted, AccessInv
  <1>4. QED
    BY Zenon, <1>1, <1>2, <1>3, CallKeeps DEF DistNext

\* What the invariant says between two hypercalls.
LEMMA DistConclusion == DistInv => SpisOwned
  <1> SUFFICES ASSUME DistInv, hc = Quiet PROVE SpisOwned
    BY Zenon DEF SpisOwned, SpisPartitioned, TargetsOwned
  <1>1. /\ hc.at = "idle" /\ spis["cell"] = IF member THEN CellPins ELSE {}
        /\ spis["root"] = RootPins \ spis["cell"]
    BY Zenon, RestFacts DEF DistInv, HandOverInv
  <1>2. SpisPartitioned
    BY Zenon, <1>1 DEF SpisPartitioned
  <1>3. ASSUME kind = "target", NEW s \in spis["cell"] \ late PROVE reg[s] \subseteq CpusOf("cell")
    BY Zenon, <1>1, <1>3, DistAssumption DEF DistInv, RouteInv, CpusOf
  <1>4. ASSUME kind = "target", NEW s \in spis["root"] \ late PROVE reg[s] \subseteq CpusOf("root")
    BY Zenon, <1>1, <1>4, DistAssumption DEF DistInv, RouteInv, CpusOf
  <1>5. QED
    BY Zenon, <1>2, <1>3, <1>4 DEF SpisOwned, TargetsOwned

\* Each SPI belongs to one cell and interrupts only CPUs of that cell, however the
\* handlers of the guests' accesses interleave with a creation or a destruction;
\* except for what a handler wrote that ran into one (irqchip_cell_init,
\* irqchip_cell_exit, gic_target_spis, gic_handle_dist_access).
THEOREM SpisAreOwned == DistSpec => []SpisOwned
  <1>1. QED
    BY DistStart, DistStep, DistConclusion, PTL DEF DistSpec

\* One step of an access that ends it changes no field of another cell's SPI.
LEMMA EndsWell ==
  ASSUME DistInv, DistNext, NEW c \in DistCpus, dist[c].at \in {"write", "poke"},
         dist'[c] = None, NEW s \in Spis \ dist[c].mask
  PROVE  \/ reg'[s] = reg[s] \/ dist[c].crossed
         \/ kind = "config" /\ reg[s] \subseteq reg'[s]
  <1>1. ASSUME NEW w \in Words, gic_target_spis(w), hc.at = "written" PROVE FALSE
    BY <1>1, RestFacts DEF gic_target_spis, DistInv, DistTypeOK, Accesses
  <1>2. SUFFICES ASSUME NEW d \in DistCpus, GuestAccess2(d)
                 PROVE  \/ reg'[s] = reg[s] \/ dist[c].crossed
                        \/ kind = "config" /\ reg[s] \subseteq reg'[s]
    BY Zenon, <1>1 DEF DistNext, irqchip_cell_init, irqchip_root_cell_shrink, MoveCpu, Destroy2,
         irqchip_cell_exit, FreeCell2, gic_target_spis
  <1>3. CASE handle_irq_target(d) \/ restrict_bitmask_access(d) \/ Poke(d)
    <2>1. PICK f \in [Word(dist[d].w) -> SUBSET Marks] :
             /\ Put(d, f) /\ (dist[d].at = "write" \/ kind = "poke") /\ dist[d].at # "guest"
             /\ kind = "target" => \A t \in Word(dist[d].w) :
                  f[t] = IF t \in dist[d].mask THEN dist[d].val[t] ELSE dist[d].old[t]
             /\ kind = "config" => \A t \in Word(dist[d].w) \ dist[d].mask :
                  dist[d].old[t] \subseteq f[t]
             /\ kind = "poke" => \A t \in Word(dist[d].w) \ dist[d].mask : f[t] = reg[t]
      BY Zenon, <1>3, PutFields DEF DistInv
    <2>2. /\ \A e \in DistCpus \ {d} : dist'[e] = dist[e]
          /\ \A t \in Spis : reg'[t] = IF t \in Word(dist[d].w) THEN f[t] ELSE reg[t]
      BY Zenon, <2>1, PutEffect DEF DistInv
    <2>3. c = d
      BY Zenon, <2>2, RestFacts
    <2>4. AccessInv(c) /\ kind \in {"target", "config", "poke"}
      BY Zenon DEF DistInv, DistTypeOK
    <2>5. QED
      BY Zenon, <2>1, <2>2, <2>3, <2>4 DEF AccessInv
  <1>4. CASE ~(handle_irq_target(d) \/ restrict_bitmask_access(d) \/ Poke(d))
    BY Zenon, <1>2, <1>4 DEF GuestAccess2, gic_handle_dist_access, LockAndRead
  <1>5. QED
    BY Zenon, <1>3, <1>4

\* A guest's write to a register that it shares with other cells leaves their SPIs
\* alone, unless gic_target_spis wrote the register between its read and its write;
\* in registers that are written back it clears no bit of theirs.
THEOREM OthersAreUntouched == DistSpec => OthersUntouched
  <1>1. DistInv /\ [DistNext]_distVars =>
          [\A c \in DistCpus : dist[c].at \in {"write", "poke"} /\ dist'[c] = None =>
             \A s \in Spis \ dist[c].mask :
               \/ reg'[s] = reg[s]
               \/ dist[c].crossed
               \/ kind = "config" /\ reg[s] \subseteq reg'[s]]_distVars
    BY Zenon, EndsWell
  <1>2. QED
    BY <1>1, DistStart, DistStep, PTL DEF DistSpec, OthersUntouched

-------------------------------------------------------------------------------
(* The switch to the hypervisor and back.                                  *)

\* entry(), arch_shutdown_self and their steps keep the types of the fields.
LEMMA SetupTypes ==
  ASSUME SetupTypeOK, \A d \in SCpus : SwitchInv(d), NEW c \in SCpus, SetupStep(c)
  PROVE  SetupTypeOK'
  <1>1. CASE entry(c)
    BY <1>1 DEF entry, To, core, maps, hyp, virt, gic, SetupTypeOK, SwitchInv, Inside,
       Outside, BeforeSwitch, Switching
  <1>2. CASE arch_init_early(c)
    BY Zenon, <1>2 DEF arch_init_early, To, Give, core, maps, hyp, virt, gic, SetupTypeOK,
       SwitchInv, Inside, Outside, BeforeSwitch, Switching
  <1>3. CASE set_id_map(c)
    BY Zenon, <1>3 DEF set_id_map, To, Give, create_id_maps, core, maps, hyp, virt, gic,
       SetupTypeOK, SwitchInv, Inside, Outside, BeforeSwitch, Switching
  <1>4. CASE cpu_switch_el2(c)
    BY Zenon, <1>4 DEF cpu_switch_el2, To, core, maps, hyp, virt, gic, SetupTypeOK, SwitchInv,
       Inside, Outside, BeforeSwitch, Switching
  <1>5. CASE setup_mmu_el2(c)
    BY Zenon, <1>5 DEF setup_mmu_el2, To, core, maps, hyp, virt, gic, SetupTypeOK, SwitchInv,
       Inside, Outside, BeforeSwitch, Switching
  <1>6. CASE switch_exception_level(c)
    BY Zenon, <1>6 DEF switch_exception_level, To, destroy_id_maps, core, maps, hyp, virt,
       gic, SetupTypeOK, SwitchInv, Inside, Outside, BeforeSwitch, Switching
  <1>7. CASE arch_cpu_init(c)
    BY Zenon, <1>7 DEF arch_cpu_init, To, core, maps, hyp, virt, gic, SetupTypeOK, SwitchInv,
       Inside, Outside, BeforeSwitch, Switching
  <1>8. CASE irqchip_init(c)
    <2>1. [ops |-> TRUE, is_init |-> TRUE] \in [ops : BOOLEAN, is_init : BOOLEAN]
      BY Zenon
    <2>2. irqchip' \in [ops : BOOLEAN, is_init : BOOLEAN]
      BY Zenon, <1>8, <2>1 DEF irqchip_init, SetupTypeOK
    <2>3. QED
      BY Zenon, <1>8, <2>2 DEF irqchip_init, To, Give, hyp, SetupTypeOK, Inside, Outside,
         BeforeSwitch, Switching
  <1>9. CASE irqchip_cpu_init(c)
    <2>1. [on |-> TRUE, eoi |-> "hyp"] \in [on : BOOLEAN, eoi : {"linux", "hyp"}]
      BY Zenon
    <2>2. cpuif' \in [SCpus -> [on : BOOLEAN, eoi : {"linux", "hyp"}]]
      BY Zenon, <1>9, <2>1 DEF irqchip_cpu_init, gic_cpu_init, SetupTypeOK
    <2>3. QED
      BY Zenon, <1>9, <2>2 DEF irqchip_cpu_init, To, Give, hyp, SetupTypeOK, Inside, Outside,
         BeforeSwitch, Switching
  <1>10. CASE arch_init_late(c)
    BY Zenon, <1>10 DEF arch_init_late, To, Give, core, maps, hyp, virt, gic, SetupTypeOK,
       SwitchInv, Inside, Outside, BeforeSwitch, Switching
  <1>11. CASE Unlock2(c)
    BY Zenon, <1>11 DEF Unlock2, To, core, maps, hyp, virt, gic, SetupTypeOK, SwitchInv,
       Inside, Outside, BeforeSwitch, Switching
  <1>12. CASE arch_cpu_restore(c)
    BY Zenon, <1>12 DEF arch_cpu_restore, To, core, maps, hyp, virt, gic, SetupTypeOK,
       SwitchInv, Inside, Outside, BeforeSwitch, Switching
  <1>13. CASE Disable(c)
    BY Zenon, <1>13 DEF Disable, To, core, maps, hyp, virt, gic, SetupTypeOK, SwitchInv,
       Inside, Outside, BeforeSwitch, Switching
  <1>14. CASE arch_shutdown_self(c)
    <2>1. cpuif[c].eoi \in {"linux", "hyp"}
      BY Zenon DEF SetupTypeOK
    <2>2. (IF c \in vmcr \/ GicVersion = 2 THEN "linux" ELSE cpuif[c].eoi) \in {"linux", "hyp"}
      BY Zenon, <2>1
    <2>3. [on |-> c \in vmcr \/ GicVersion = 3,
           eoi |-> IF c \in vmcr \/ GicVersion = 2 THEN "linux" ELSE cpuif[c].eoi]
             \in [on : BOOLEAN, eoi : {"linux", "hyp"}]
      BY Zenon, <2>2
    <2>4. \/ UNCHANGED cpuif
          \/ cpuif' = [cpuif EXCEPT ![c] =
                        [on |-> c \in vmcr \/ GicVersion = 3,
                         eoi |-> IF c \in vmcr \/ GicVersion = 2 THEN "linux" ELSE cpuif[c].eoi]]
      BY Zenon, <1>14 DEF arch_shutdown_self, gic_cpu_reset
    <2>5. cpuif' \in [SCpus -> [on : BOOLEAN, eoi : {"linux", "hyp"}]]
      BY Zenon, <2>3, <2>4 DEF SetupTypeOK
    <2>6. QED
      BY Zenon, <1>14, <2>5 DEF arch_shutdown_self, To, core, hyp, SetupTypeOK, Inside, Outside,
         BeforeSwitch, Switching
  <1>15. CASE arch_shutdown_mmu(c)
    BY Zenon, <1>15 DEF arch_shutdown_mmu, To, core, maps, hyp, virt, gic, SetupTypeOK,
       SwitchInv, Inside, Outside, BeforeSwitch, Switching
  <1>16. CASE shutdown_el2(c)
    BY Zenon, <1>16 DEF shutdown_el2, To, core, maps, hyp, virt, gic, SetupTypeOK, SwitchInv,
       Inside, Outside, BeforeSwitch, Switching
  <1>17. QED
    BY Zenon, <1>1, <1>2, <1>3, <1>4, <1>5, <1>6, <1>7, <1>8, <1>9, <1>10, <1>11, <1>12,
       <1>13, <1>14, <1>15, <1>16 DEF SetupStep

\* init_lock orders the set-up: one CPU at a time is inside, nobody starts after an
\* error, and nobody is a guest or leaves before all CPUs are set up or one failed.
LEMMA SetupOrder ==
  ASSUME SetupTypeOK, OrderInv, NEW c \in SCpus, SetupStep(c)
  PROVE  OrderInv'
  <1>1. CASE entry(c)
    BY <1>1, SetupAssumption DEF entry, To, core, maps, hyp, virt, gic, SetupTypeOK, OrderInv,
       Inside, Outside, BeforeSwitch, Switching
  <1>2. CASE arch_init_early(c)
    BY SMTT(30), <1>2, SetupAssumption DEF arch_init_early, To, Give, core, maps, hyp, virt, gic,
       SetupTypeOK, OrderInv, Inside, Outside, BeforeSwitch, Switching
  <1>3. CASE set_id_map(c)
    BY <1>3, SetupAssumption DEF set_id_map, To, Give, create_id_maps, core, maps, hyp, virt,
       gic, SetupTypeOK, OrderInv, Inside, Outside, BeforeSwitch, Switching
  <1>4. CASE cpu_switch_el2(c)
    BY <1>4, SetupAssumption DEF cpu_switch_el2, To, core, maps, hyp, virt, gic, SetupTypeOK,
       OrderInv, Inside, Outside, BeforeSwitch, Switching
  <1>5. CASE setup_mmu_el2(c)
    BY SMTT(30), <1>5, SetupAssumption DEF setup_mmu_el2, To, core, maps, hyp, virt, gic, SetupTypeOK,
       OrderInv, Inside, Outside, BeforeSwitch, Switching
  <1>6. CASE switch_exception_level(c)
    BY SMTT(30), <1>6, SetupAssumption DEF switch_exception_level, To, destroy_id_maps, core, maps, hyp,
       virt, gic, SetupTypeOK, OrderInv, Inside, Outside, BeforeSwitch, Switching
  <1>7. CASE arch_cpu_init(c)
    BY SMTT(30), <1>7, SetupAssumption DEF arch_cpu_init, To, core, maps, hyp, virt, gic, SetupTypeOK,
       OrderInv, Inside, Outside, BeforeSwitch, Switching
  <1>8. CASE irqchip_init(c)
    BY SMTT(30), <1>8, SetupAssumption DEF irqchip_init, To, Give, core, maps, hyp, virt, gic,
       SetupTypeOK, OrderInv, Inside, Outside, BeforeSwitch, Switching
  <1>9. CASE irqchip_cpu_init(c)
    BY SMTT(30), <1>9, SetupAssumption DEF irqchip_cpu_init, To, Give, gic_cpu_init, core, maps, hyp,
       virt, gic, SetupTypeOK, OrderInv, Inside, Outside, BeforeSwitch, Switching
  <1>10. CASE arch_init_late(c)
    BY SMTT(30), <1>10, SetupAssumption DEF arch_init_late, To, Give, core, maps, hyp, virt, gic,
       SetupTypeOK, OrderInv, Inside, Outside, BeforeSwitch, Switching
  <1>11. CASE Unlock2(c)
    BY SMTT(30), <1>11, SetupAssumption DEF Unlock2, To, core, maps, hyp, virt, gic, SetupTypeOK,
       OrderInv, Inside, Outside, BeforeSwitch, Switching
  <1>12. CASE arch_cpu_restore(c)
    BY <1>12, SetupAssumption DEF arch_cpu_restore, To, core, maps, hyp, virt, gic,
       SetupTypeOK, OrderInv, Inside, Outside, BeforeSwitch, Switching
  <1>13. CASE Disable(c)
    BY Zenon, <1>13, SetupAssumption DEF Disable, To, core, maps, hyp, virt, gic, SetupTypeOK,
       OrderInv, Inside, Outside, BeforeSwitch, Switching
  <1>14. CASE arch_shutdown_self(c)
    BY <1>14, SetupAssumption DEF arch_shutdown_self, To, gic_cpu_reset, core, maps, hyp,
       virt, gic, SetupTypeOK, OrderInv, Inside, Outside, BeforeSwitch, Switching
  <1>15. CASE arch_shutdown_mmu(c)
    BY Zenon, <1>15, SetupAssumption DEF arch_shutdown_mmu, To, core, maps, hyp, virt, gic,
       SetupTypeOK, OrderInv, Inside, Outside, BeforeSwitch, Switching
  <1>16. CASE shutdown_el2(c)
    BY Zenon, <1>16, SetupAssumption DEF shutdown_el2, To, core, maps, hyp, virt, gic,
       SetupTypeOK, OrderInv, Inside, Outside, BeforeSwitch, Switching
  <1>17. QED
    BY Zenon, <1>1, <1>2, <1>3, <1>4, <1>5, <1>6, <1>7, <1>8, <1>9, <1>10, <1>11, <1>12,
       <1>13, <1>14, <1>15, <1>16 DEF SetupStep

\* An identity map that a CPU makes for its way into EL2 is the only one there is, and
\* it is remembered whether it was mapped before.
LEMMA SetupMaps ==
  ASSUME SetupTypeOK, OrderInv, MapsInv, NEW c \in SCpus, SetupStep(c)
  PROVE  MapsInv'
  <1>1. CASE entry(c)
    BY <1>1, SetupAssumption DEF entry, To, core, maps, hyp, virt, gic, SetupTypeOK, OrderInv,
       MapsInv, Inside, Outside, BeforeSwitch, Switching
  <1>2. CASE arch_init_early(c)
    BY <1>2, SetupAssumption DEF arch_init_early, To, Give, core, maps, hyp, virt, gic,
       SetupTypeOK, OrderInv, MapsInv, Inside, Outside, BeforeSwitch, Switching
  <1>3. CASE set_id_map(c)
    BY SMTT(30), <1>3, SetupAssumption DEF set_id_map, To, Give, create_id_maps, core, maps, hyp, virt,
       gic, SetupTypeOK, OrderInv, MapsInv, Inside, Outside, BeforeSwitch, Switching
  <1>4. CASE cpu_switch_el2(c)
    BY SMTT(30), <1>4, SetupAssumption DEF cpu_switch_el2, To, core, maps, hyp, virt, gic, SetupTypeOK,
       OrderInv, MapsInv, Inside, Outside, BeforeSwitch, Switching
  <1>5. CASE setup_mmu_el2(c)
    BY SMTT(30), <1>5, SetupAssumption DEF setup_mmu_el2, To, core, maps, hyp, virt, gic, SetupTypeOK,
       OrderInv, MapsInv, Inside, Outside, BeforeSwitch, Switching
  <1>6. CASE switch_exception_level(c)
    BY SMTT(30), <1>6, SetupAssumption DEF switch_exception_level, To, destroy_id_maps, core, maps, hyp,
       virt, gic, SetupTypeOK, OrderInv, MapsInv, Inside, Outside, BeforeSwitch, Switching
  <1>7. CASE arch_cpu_init(c)
    BY SMTT(30), <1>7, SetupAssumption DEF arch_cpu_init, To, core, maps, hyp, virt, gic, SetupTypeOK,
       OrderInv, MapsInv, Inside, Outside, BeforeSwitch, Switching
  <1>8. CASE irqchip_init(c)
    BY SMTT(30), <1>8, SetupAssumption DEF irqchip_init, To, Give, core, maps, hyp, virt, gic,
       SetupTypeOK, OrderInv, MapsInv, Inside, Outside, BeforeSwitch, Switching
  <1>9. CASE irqchip_cpu_init(c)
    BY SMTT(30), <1>9, SetupAssumption DEF irqchip_cpu_init, To, Give, gic_cpu_init, core, maps, hyp,
       virt, gic, SetupTypeOK, OrderInv, MapsInv, Inside, Outside, BeforeSwitch, Switching
  <1>10. CASE arch_init_late(c)
    BY SMTT(30), <1>10, SetupAssumption DEF arch_init_late, To, Give, core, maps, hyp, virt, gic,
       SetupTypeOK, OrderInv, MapsInv, Inside, Outside, BeforeSwitch, Switching
  <1>11. CASE Unlock2(c)
    BY SMTT(30), <1>11, SetupAssumption DEF Unlock2, To, core, maps, hyp, virt, gic, SetupTypeOK,
       OrderInv, MapsInv, Inside, Outside, BeforeSwitch, Switching
  <1>12. CASE arch_cpu_restore(c)
    BY SMTT(30), <1>12, SetupAssumption DEF arch_cpu_restore, To, core, maps, hyp, virt, gic,
       SetupTypeOK, OrderInv, MapsInv, Inside, Outside, BeforeSwitch, Switching
  <1>13. CASE Disable(c)
    BY SMTT(30), <1>13, SetupAssumption DEF Disable, To, core, maps, hyp, virt, gic, SetupTypeOK,
       OrderInv, MapsInv, Inside, Outside, BeforeSwitch, Switching
  <1>14. CASE arch_shutdown_self(c)
    BY SMTT(30), <1>14, SetupAssumption DEF arch_shutdown_self, To, gic_cpu_reset, core, maps, hyp,
       virt, gic, SetupTypeOK, OrderInv, MapsInv, Inside, Outside, BeforeSwitch, Switching
  <1>15. CASE arch_shutdown_mmu(c)
    BY SMTT(30), <1>15, SetupAssumption DEF arch_shutdown_mmu, To, core, maps, hyp, virt, gic,
       SetupTypeOK, OrderInv, MapsInv, Inside, Outside, BeforeSwitch, Switching
  <1>16. CASE shutdown_el2(c)
    BY <1>16, SetupAssumption DEF shutdown_el2, To, core, maps, hyp, virt, gic, SetupTypeOK,
       OrderInv, MapsInv, Inside, Outside, BeforeSwitch, Switching
  <1>17. QED
    BY Zenon, <1>1, <1>2, <1>3, <1>4, <1>5, <1>6, <1>7, <1>8, <1>9, <1>10, <1>11, <1>12,
       <1>13, <1>14, <1>15, <1>16 DEF SetupStep

\* What the step that a CPU has reached says about its vectors, traps and stage 2.
LEMMA SetupSwitch ==
  ASSUME SetupTypeOK, OrderInv, \A d \in SCpus : SwitchInv(d), NEW c \in SCpus, SetupStep(c)
  PROVE  \A d \in SCpus : SwitchInv(d)'
  <1>1. CASE entry(c)
    BY SMTT(30), <1>1, SetupAssumption DEF entry, To, core, maps, hyp, virt, gic, SetupTypeOK, OrderInv,
       SwitchInv, Inside, Outside, BeforeSwitch, Switching
  <1>2. CASE arch_init_early(c)
    BY SMTT(30), <1>2, SetupAssumption DEF arch_init_early, To, Give, core, maps, hyp, virt, gic,
       SetupTypeOK, OrderInv, SwitchInv, Inside, Outside, BeforeSwitch, Switching
  <1>3. CASE set_id_map(c)
    BY SMTT(30), <1>3, SetupAssumption DEF set_id_map, To, Give, create_id_maps, core, maps, hyp, virt,
       gic, SetupTypeOK, OrderInv, SwitchInv, Inside, Outside, BeforeSwitch, Switching
  <1>4. CASE cpu_switch_el2(c)
    BY SMTT(30), <1>4, SetupAssumption DEF cpu_switch_el2, To, core, maps, hyp, virt, gic, SetupTypeOK,
       OrderInv, SwitchInv, Inside, Outside, BeforeSwitch, Switching
  <1>5. CASE setup_mmu_el2(c)
    BY SMTT(30), <1>5, SetupAssumption DEF setup_mmu_el2, To, core, maps, hyp, virt, gic, SetupTypeOK,
       OrderInv, SwitchInv, Inside, Outside, BeforeSwitch, Switching
  <1>6. CASE switch_exception_level(c)
    BY SMTT(30), <1>6, SetupAssumption DEF switch_exception_level, To, destroy_id_maps, core, maps, hyp,
       virt, gic, SetupTypeOK, OrderInv, SwitchInv, Inside, Outside, BeforeSwitch, Switching
  <1>7. CASE arch_cpu_init(c)
    BY SMTT(30), <1>7, SetupAssumption DEF arch_cpu_init, To, core, maps, hyp, virt, gic, SetupTypeOK,
       OrderInv, SwitchInv, Inside, Outside, BeforeSwitch, Switching
  <1>8. CASE irqchip_init(c)
    BY SMTT(30), <1>8, SetupAssumption DEF irqchip_init, To, Give, core, maps, hyp, virt, gic,
       SetupTypeOK, OrderInv, SwitchInv, Inside, Outside, BeforeSwitch, Switching
  <1>9. CASE irqchip_cpu_init(c)
    BY SMTT(30), <1>9, SetupAssumption DEF irqchip_cpu_init, To, Give, gic_cpu_init, core, maps, hyp,
       virt, gic, SetupTypeOK, OrderInv, SwitchInv, Inside, Outside, BeforeSwitch, Switching
  <1>10. CASE arch_init_late(c)
    BY SMTT(30), <1>10, SetupAssumption DEF arch_init_late, To, Give, core, maps, hyp, virt, gic,
       SetupTypeOK, OrderInv, SwitchInv, Inside, Outside, BeforeSwitch, Switching
  <1>11. CASE Unlock2(c)
    BY SMTT(30), <1>11, SetupAssumption DEF Unlock2, To, core, maps, hyp, virt, gic, SetupTypeOK,
       OrderInv, SwitchInv, Inside, Outside, BeforeSwitch, Switching
  <1>12. CASE arch_cpu_restore(c)
    BY SMTT(30), <1>12, SetupAssumption DEF arch_cpu_restore, To, core, maps, hyp, virt, gic,
       SetupTypeOK, OrderInv, SwitchInv, Inside, Outside, BeforeSwitch, Switching
  <1>13. CASE Disable(c)
    BY SMTT(30), <1>13, SetupAssumption DEF Disable, To, core, maps, hyp, virt, gic, SetupTypeOK,
       OrderInv, SwitchInv, Inside, Outside, BeforeSwitch, Switching
  <1>14. CASE arch_shutdown_self(c)
    BY SMTT(30), <1>14, SetupAssumption DEF arch_shutdown_self, To, gic_cpu_reset, core, maps, hyp,
       virt, gic, SetupTypeOK, OrderInv, SwitchInv, Inside, Outside, BeforeSwitch, Switching
  <1>15. CASE arch_shutdown_mmu(c)
    BY SMTT(30), <1>15, SetupAssumption DEF arch_shutdown_mmu, To, core, maps, hyp, virt, gic,
       SetupTypeOK, OrderInv, SwitchInv, Inside, Outside, BeforeSwitch, Switching
  <1>16. CASE shutdown_el2(c)
    BY <1>16, SetupAssumption DEF shutdown_el2, To, core, maps, hyp, virt, gic, SetupTypeOK,
       OrderInv, SwitchInv, Inside, Outside, BeforeSwitch, Switching
  <1>17. QED
    BY Zenon, <1>1, <1>2, <1>3, <1>4, <1>5, <1>6, <1>7, <1>8, <1>9, <1>10, <1>11, <1>12,
       <1>13, <1>14, <1>15, <1>16 DEF SetupStep

\* What it says about the CPU interface of GICv3 and its shared state irqchip.
LEMMA SetupInterface ==
  ASSUME GicVersion = 3, SetupTypeOK, OrderInv, \A d \in SCpus : SwitchInv(d),
         \A d \in SCpus : InterfaceInv(d), NEW c \in SCpus, SetupStep(c)
  PROVE  \A d \in SCpus : InterfaceInv(d)'
  <1>1. CASE entry(c)
    BY SMTT(30), <1>1, SetupAssumption DEF entry, To, core, maps, hyp, virt, gic, SetupTypeOK, OrderInv,
       SwitchInv, InterfaceInv, LinuxMode, Inside, Outside, BeforeSwitch, Switching
  <1>2. CASE arch_init_early(c)
    BY SMTT(30), <1>2, SetupAssumption DEF arch_init_early, To, Give, core, maps, hyp, virt, gic,
       SetupTypeOK, OrderInv, SwitchInv, InterfaceInv, LinuxMode, Inside, Outside,
       BeforeSwitch, Switching
  <1>3. CASE set_id_map(c)
    BY SMTT(30), <1>3, SetupAssumption DEF set_id_map, To, Give, create_id_maps, core, maps, hyp, virt,
       gic, SetupTypeOK, OrderInv, SwitchInv, InterfaceInv, LinuxMode, Inside, Outside,
       BeforeSwitch, Switching
  <1>4. CASE cpu_switch_el2(c)
    BY SMTT(30), <1>4, SetupAssumption DEF cpu_switch_el2, To, core, maps, hyp, virt, gic, SetupTypeOK,
       OrderInv, SwitchInv, InterfaceInv, LinuxMode, Inside, Outside, BeforeSwitch, Switching
  <1>5. CASE setup_mmu_el2(c)
    BY SMTT(30), <1>5, SetupAssumption DEF setup_mmu_el2, To, core, maps, hyp, virt, gic, SetupTypeOK,
       OrderInv, SwitchInv, InterfaceInv, LinuxMode, Inside, Outside, BeforeSwitch, Switching
  <1>6. CASE switch_exception_level(c)
    BY SMTT(30), <1>6, SetupAssumption DEF switch_exception_level, To, destroy_id_maps, core, maps, hyp,
       virt, gic, SetupTypeOK, OrderInv, SwitchInv, InterfaceInv, LinuxMode, Inside, Outside,
       BeforeSwitch, Switching
  <1>7. CASE arch_cpu_init(c)
    BY SMTT(60), <1>7, SetupAssumption DEF arch_cpu_init, To, core, maps, hyp, virt, gic, SetupTypeOK,
       OrderInv, SwitchInv, InterfaceInv, LinuxMode, Inside, Outside, BeforeSwitch, Switching
  <1>8. CASE irqchip_init(c)
    BY SMTT(60), <1>8, SetupAssumption DEF irqchip_init, To, Give, core, maps, hyp, virt, gic,
       SetupTypeOK, OrderInv, SwitchInv, InterfaceInv, LinuxMode, Inside, Outside,
       BeforeSwitch, Switching
  <1>9. CASE irqchip_cpu_init(c)
    <2>1. \A d \in SCpus \ {c} : cpuif'[d] = cpuif[d] /\ (d \in gicr' <=> d \in gicr)
                                  /\ (d \in vmcr' <=> d \in vmcr) /\ pc2'[d] = pc2[d]
      BY Zenon, <1>9 DEF irqchip_cpu_init, To, Give, gic_cpu_init, SetupTypeOK
    <2>2. UNCHANGED <<el2, irqchip>> /\ pc2[c] = "irqcpu" /\ c \in el2 /\ irqchip.ops
      BY Zenon, <1>9 DEF irqchip_cpu_init, hyp, SwitchInv, Switching, InterfaceInv
    <2>3. \/ pc2'[c] = "unlock" /\ UNCHANGED <<gicr, vmcr, cpuif>>
          \/ pc2'[c] \in {"late", "unlock"} /\ c \in gicr' /\ c \in vmcr'
      BY Zenon, <1>9 DEF irqchip_cpu_init, To, Give, gic_cpu_init, SetupTypeOK
    <2>4. InterfaceInv(c)'
      BY Zenon, <2>2, <2>3 DEF InterfaceInv, BeforeSwitch, Switching
    <2>5. \A d \in SCpus \ {c} : InterfaceInv(d)'
      BY Zenon, <2>1, <2>2 DEF InterfaceInv
    <2>6. QED
      BY Zenon, <2>4, <2>5
  <1>10. CASE arch_init_late(c)
    BY SMTT(30), <1>10, SetupAssumption DEF arch_init_late, To, Give, core, maps, hyp, virt, gic,
       SetupTypeOK, OrderInv, SwitchInv, InterfaceInv, LinuxMode, Inside, Outside,
       BeforeSwitch, Switching
  <1>11. CASE Unlock2(c)
    BY SMTT(30), <1>11, SetupAssumption DEF Unlock2, To, core, maps, hyp, virt, gic, SetupTypeOK,
       OrderInv, SwitchInv, InterfaceInv, LinuxMode, Inside, Outside, BeforeSwitch, Switching
  <1>12. CASE arch_cpu_restore(c)
    BY SMTT(30), <1>12, SetupAssumption DEF arch_cpu_restore, To, core, maps, hyp, virt, gic,
       SetupTypeOK, OrderInv, SwitchInv, InterfaceInv, LinuxMode, Inside, Outside,
       BeforeSwitch, Switching
  <1>13. CASE Disable(c)
    BY <1>13, SetupAssumption DEF Disable, To, core, maps, hyp, virt, gic, SetupTypeOK,
       OrderInv, SwitchInv, InterfaceInv, LinuxMode, Inside, Outside, BeforeSwitch, Switching
  <1>14. CASE arch_shutdown_self(c)
    <2>1. UNCHANGED <<el2, gicr, irqchip>> /\ pc2[c] = "leave" /\ pc2' = [pc2 EXCEPT ![c] = "unmap"]
      BY SMTT(30), <1>14 DEF arch_shutdown_self, To, hyp
    <2>2. CASE irqchip.ops /\ c \in gicr
      <3>1. c \in vmcr
        BY Zenon, <2>1, <2>2 DEF InterfaceInv
      <3>2. (c \in vmcr \/ GicVersion = 3) = TRUE
            /\ (IF c \in vmcr \/ GicVersion = 2 THEN "linux" ELSE cpuif[c].eoi) = "linux"
        BY Zenon, <3>1
      <3>3. vmcr' = vmcr \ {c} /\ cpuif' = [cpuif EXCEPT ![c] =
                [on |-> c \in vmcr \/ GicVersion = 3,
                 eoi |-> IF c \in vmcr \/ GicVersion = 2 THEN "linux" ELSE cpuif[c].eoi]]
        BY SMTT(60), <1>14, <2>2 DEF arch_shutdown_self, gic_cpu_reset
      <3>4. cpuif' = [cpuif EXCEPT ![c] = LinuxMode]
        BY Zenon, <3>2, <3>3 DEF LinuxMode
      <3>5. QED
        BY <2>1, <3>3, <3>4 DEF InterfaceInv, SetupTypeOK, BeforeSwitch, Switching
    <2>3. CASE ~(irqchip.ops /\ c \in gicr)
      <3>1. UNCHANGED <<cpuif, vmcr>>
        BY Zenon, <1>14, <2>3 DEF arch_shutdown_self, gic_cpu_reset
      <3>2. cpuif[c] = LinuxMode
        BY Zenon, <2>3 DEF InterfaceInv
      <3>3. QED
        BY Zenon, <2>1, <2>3, <3>1, <3>2 DEF InterfaceInv, SetupTypeOK, BeforeSwitch, Switching
    <2>4. QED
      BY Zenon, <2>2, <2>3
  <1>15. CASE arch_shutdown_mmu(c)
    BY ZenonT(30), <1>15, SetupAssumption DEF arch_shutdown_mmu, To, core, maps, hyp, virt, gic,
       SetupTypeOK, OrderInv, SwitchInv, InterfaceInv, LinuxMode, Inside, Outside,
       BeforeSwitch, Switching
  <1>16. CASE shutdown_el2(c)
    BY <1>16, SetupAssumption DEF shutdown_el2, To, core, maps, hyp, virt, gic, SetupTypeOK,
       OrderInv, SwitchInv, InterfaceInv, LinuxMode, Inside, Outside, BeforeSwitch, Switching
  <1>17. QED
    BY Zenon, <1>1, <1>2, <1>3, <1>4, <1>5, <1>6, <1>7, <1>8, <1>9, <1>10, <1>11, <1>12,
       <1>13, <1>14, <1>15, <1>16 DEF SetupStep

\* Linux before the switch.
LEMMA SetupStart == SetupInit => GicV3Inv
  <1> SUFFICES ASSUME SetupInit PROVE GicV3Inv
    OBVIOUS
  <1>1. SetupTypeOK
    <2>1. /\ [ops |-> FALSE, is_init |-> FALSE] \in [ops : BOOLEAN, is_init : BOOLEAN]
          /\ [on |-> TRUE, eoi |-> "linux"] \in [on : BOOLEAN, eoi : {"linux", "hyp"}]
      BY Zenon
    <2>2. QED
      BY Zenon, <2>1 DEF SetupInit, SetupTypeOK
  <1>2. OrderInv
    BY Zenon DEF SetupInit, OrderInv, Inside, Outside, BeforeSwitch, Switching
  <1>3. MapsInv
    BY Zenon DEF SetupInit, MapsInv
  <1>4. \A c \in SCpus : SwitchInv(c)
    BY Zenon DEF SetupInit, SwitchInv, BeforeSwitch, Switching
  <1>5. \A c \in SCpus : InterfaceInv(c)
    BY Zenon DEF SetupInit, InterfaceInv, LinuxMode
  <1>6. QED
    BY Zenon, <1>1, <1>2, <1>3, <1>4, <1>5 DEF GicV3Inv, SetupInv

\* Each step keeps the invariant of both backends ...
LEMMA SetupKeeps == SetupInv /\ [SetupNext]_setupVars => SetupInv'
  <1> SUFFICES ASSUME SetupInv, [SetupNext]_setupVars PROVE SetupInv'
    OBVIOUS
  <1>1. CASE SetupNext
    BY Zenon, <1>1, SetupTypes, SetupOrder, SetupMaps, SetupSwitch DEF SetupInv, SetupNext
  <1>2. CASE UNCHANGED setupVars
    BY Zenon, <1>2 DEF setupVars, SetupInv, SetupTypeOK, OrderInv, MapsInv, SwitchInv
  <1>3. QED
    BY Zenon, <1>1, <1>2

\* ... and of GICv3.
LEMMA GicV3Keeps ==
  ASSUME GicVersion = 3, GicV3Inv, [SetupNext]_setupVars
  PROVE  GicV3Inv'
  <1>1. SetupInv'
    BY Zenon, SetupKeeps DEF GicV3Inv
  <1>2. CASE SetupNext
    BY Zenon, <1>1, <1>2, SetupInterface DEF SetupInv, SetupNext, GicV3Inv
  <1>3. CASE UNCHANGED setupVars
    BY Zenon, <1>1, <1>3 DEF setupVars, GicV3Inv, InterfaceInv
  <1>4. QED
    BY Zenon, <1>2, <1>3

\* With either backend: no CPU loses its trampoline, the identity maps leave no
\* trace, and Linux gets its CPU back without EL2, traps and stage 2, whichever
\* step failed.
THEOREM SetupIsUndone ==
  SetupSpec => [](TrampolineMapped /\ IdMapsUndone /\ LinuxRestored)
  <1>1. SetupInit => SetupInv
    BY Zenon, SetupStart DEF GicV3Inv
  <1>2. SetupInv => TrampolineMapped /\ IdMapsUndone /\ LinuxRestored
    BY Zenon DEF SetupInv, OrderInv, MapsInv, SwitchInv, TrampolineMapped, IdMapsUndone,
       LinuxRestored, BeforeSwitch
  <1>3. QED
    BY <1>1, <1>2, SetupKeeps, PTL DEF SetupSpec

\* With GICv3 also its interrupts (see the run ArmSetup_gicv2 for GICv2).
THEOREM GicV3SetupUndone == GicVersion = 3 => (SetupSpec => []SetupUndone)
  <1> SUFFICES ASSUME GicVersion = 3 PROVE SetupSpec => []SetupUndone
    OBVIOUS
  <1>1. SetupInit => GicV3Inv
    BY Zenon, SetupStart
  <1>2. GicV3Inv /\ [SetupNext]_setupVars => GicV3Inv'
    BY Zenon, GicV3Keeps
  <1>3. GicV3Inv => InterfaceRestored
    BY Zenon DEF GicV3Inv, SetupInv, InterfaceInv, SwitchInv, InterfaceRestored, LinuxMode,
       BeforeSwitch
  <1>4. QED
    BY <1>1, <1>2, <1>3, SetupIsUndone, PTL DEF SetupSpec, SetupUndone

===============================================================================
