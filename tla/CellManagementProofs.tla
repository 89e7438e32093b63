------------------------ MODULE CellManagementProofs ------------------------
(***************************************************************************)
(* What is proved of the management of cells.  First CellManagement, for   *)
(* any number of cells and regions; the strengthenings CallInv, MemInv,    *)
(* MsgInv and ConsentInv are defined there, and each invariance proof has  *)
(* one case per action of Next.  Then the Linux driver, which enables and  *)
(* disables the hypervisor and keeps its own list of the cells (Driver),   *)
(* for any number of processes, cells and CPUs.                            *)
(***************************************************************************)
EXTENDS CellManagement, Driver, TLAPS

(***************************************************************************)
(* Types, and what each position of a hypercall knows of its cell.         *)
(***************************************************************************)
\* Before the first hypercall there is only the root cell.
LEMMA CallInit == Init => TypeOK /\ CallInv
  <1>. SUFFICES ASSUME Init PROVE TypeOK /\ CallInv
    OBVIOUS
  <1>1. mapped \in [AllCells -> SUBSET Region]
    BY Zenon, ConstAssumption DEF Init
  <1>2. CallInv
    BY Zenon DEF Init, CallInv
  <1>3. mpc \in Positions /\ op \in Ops /\ mcell \in AllCells
    BY Zenon DEF Init, Positions, Ops, AllCells
  <1>. QED
    BY Zenon, <1>1, <1>2, <1>3 DEF Init, TypeOK, States, Messages, Replies

\* No step of a hypercall or of a cell leaves the types.
LEMMA TypeStep == TypeOK /\ CallInv /\ [Next]_vars => TypeOK'
  <1>. SUFFICES ASSUME TypeOK, CallInv, [Next]_vars PROVE TypeOK'
    OBVIOUS
  <1>. USE ConstAssumption DEF TypeOK, CallInv, AllCells, States, Messages, Replies,
     Ops, Positions, comm, guest, memory, call, loops
  <1>1. CASE \E o \in Ops \ {"none"}, k \in AllCells : Hypercall(o, k)
    <2>1. PICK o \in Ops \ {"none"}, k \in AllCells : Hypercall(o, k)
      BY Zenon, <1>1
    <2>2. op' \in Ops /\ mcell' \in AllCells /\ mpc' \in Positions
      BY Zenon, <2>1 DEF Hypercall
    <2>3. rest' \in SUBSET Cell /\ denied' \in BOOLEAN
      BY Zenon, <2>1 DEF Hypercall
    <2>4. UNCHANGED <<linked, passive, loadable, comm, memory, guest, todo, ret>>
      BY Zenon, <2>1 DEF Hypercall
    <2>. QED
      BY Zenon, <2>2, <2>3, <2>4
  <1>2. CASE Refuse
    BY Zenon, <1>2 DEF Refuse
  <1>3. CASE StartCreate
    BY Zenon, <1>3 DEF StartCreate
  <1>4. CASE StartManage
    BY Zenon, <1>4 DEF StartManage
  <1>5. CASE StartDisable
    BY Zenon, <1>5 DEF StartDisable
  <1>6. ASSUME NEW k \in Cell, Ask(k) PROVE TypeOK'
    BY Zenon, <1>6 DEF Ask, jailhouse_send_msg_to_cell
  <1>7. ASSUME NEW k \in Cell, AskPassive(k) PROVE TypeOK'
    BY Zenon, <1>7 DEF AskPassive
  <1>8. CASE WaitAgreed
    BY Zenon, <1>8 DEF WaitAgreed
  <1>9. CASE WaitDenied
    BY Zenon, <1>9 DEF WaitDenied
  <1>10. CASE AskRefused
    BY Zenon, <1>10 DEF AskRefused
  <1>11. CASE AskApproved
    BY Zenon, <1>11 DEF AskApproved, SuspendCells
  <1>12. CASE DisableApproved
    BY Zenon, <1>12 DEF DisableApproved, SuspendCells
  <1>13. ASSUME NEW r \in Region, MapRegion(r) PROVE TypeOK'
    BY <1>13 DEF MapRegion
  <1>14. ASSUME NEW r \in Region, NEW unmapped \in BOOLEAN, MapFails(r, unmapped)
         PROVE  TypeOK'
    BY <1>14 DEF MapFails, UnmapFromRoot
  <1>15. CASE CommitCreate
    BY <1>15 DEF CommitCreate
  <1>16. CASE cell_destroy_internal
    BY <1>16 DEF cell_destroy_internal, GiveBack
  <1>17. CASE Unlink
    BY Zenon, <1>17 DEF Unlink, FreeCell
  <1>18. ASSUME NEW r \in Region, UnmapLoadable(r) PROVE TypeOK'
    BY Zenon, <1>18 DEF UnmapLoadable, UnmapFromRoot
  <1>19. ASSUME NEW r \in Region, UnmapFails(r) PROVE TypeOK'
    BY Zenon, <1>19 DEF UnmapFails
  <1>20. CASE CommitStart
    BY Zenon, <1>20 DEF CommitStart
  <1>21. CASE Run
    BY Zenon, <1>21 DEF Run
  <1>22. CASE Park
    BY Zenon, <1>22 DEF Park
  <1>23. CASE MakeLoadable
    BY Zenon, <1>23 DEF MakeLoadable
  <1>24. ASSUME NEW r \in Region, RemapLoadable(r) PROVE TypeOK'
    BY Zenon, <1>24 DEF RemapLoadable
  <1>25. ASSUME NEW r \in Region, RemapFails(r) PROVE TypeOK'
    BY Zenon, <1>25 DEF RemapFails
  <1>26. CASE CommitLoadable
    BY Zenon, <1>26 DEF CommitLoadable
  <1>27. ASSUME NEW k \in Cell, Notify(k) PROVE TypeOK'
    BY Zenon, <1>27 DEF Notify, jailhouse_send_msg_to_cell
  <1>28. ASSUME NEW k \in Cell, NotifyPassive(k) PROVE TypeOK'
    BY Zenon, <1>28 DEF NotifyPassive
  <1>29. CASE Informed
    BY Zenon, <1>29 DEF Informed
  <1>30. CASE NotifyDone
    BY Zenon, <1>30 DEF NotifyDone
  <1>31. CASE Resume
    BY Zenon, <1>31 DEF Resume
  <1>32. ASSUME NEW k \in Cell, ReadMessage(k) PROVE TypeOK'
    BY <1>32 DEF ReadMessage
  <1>33. ASSUME NEW k \in Cell, ClearMessage(k) PROVE TypeOK'
    BY <1>33 DEF ClearMessage
  <1>34. ASSUME NEW k \in Cell, NEW reply \in Replies, WriteReply(k, reply)
         PROVE  TypeOK'
    BY <1>34 DEF WriteReply, Answers
  <1>35. ASSUME NEW k \in Cell, NEW s \in States, SetState(k, s) PROVE TypeOK'
    BY <1>35 DEF SetState, SuspendCells
  <1>36. CASE UNCHANGED vars
    BY <1>36 DEF vars
  <1>. HIDE DEF TypeOK, CallInv
  <1>. QED
    BY Zenon, <1>1, <1>2, <1>3, <1>4, <1>5, <1>6, <1>7, <1>8, <1>9, <1>10, <1>11, <1>12,
       <1>13, <1>14, <1>15, <1>16, <1>17, <1>18, <1>19, <1>20, <1>21, <1>22, <1>23, <1>24,
       <1>25, <1>26, <1>27, <1>28, <1>29, <1>30, <1>31, <1>32, <1>33, <1>34, <1>35, <1>36
      DEF Next, Manage, Answer

\* The prologue of a hypercall has found its cell linked and has stopped it, or is
\* about to create it, and nobody changes that before the hypercall is done.
LEMMA CallStep == TypeOK /\ TypeOK' /\ CallInv /\ [Next]_vars => CallInv'
  <1>. SUFFICES ASSUME TypeOK, TypeOK', CallInv, [Next]_vars PROVE CallInv'
    OBVIOUS
  <1>. USE ConstAssumption DEF TypeOK, CallInv, AllCells, comm, guest, memory, call, loops
  <1>1. ASSUME NEW o \in Ops \ {"none"}, NEW k \in AllCells, Hypercall(o, k)
        PROVE  CallInv'
    BY Zenon, <1>1 DEF Hypercall
  <1>2. CASE Refuse
    BY Zenon, <1>2 DEF Refuse
  <1>3. CASE StartCreate
    BY Zenon, <1>3 DEF StartCreate
  <1>4. CASE StartManage
    BY Zenon, <1>4 DEF StartManage
  <1>5. CASE StartDisable
    BY Zenon, <1>5 DEF StartDisable
  <1>6. ASSUME NEW k \in Cell, Ask(k) PROVE CallInv'
    BY Zenon, <1>6 DEF Ask, jailhouse_send_msg_to_cell
  <1>7. ASSUME NEW k \in Cell, AskPassive(k) PROVE CallInv'
    BY Zenon, <1>7 DEF AskPassive
  <1>8. CASE WaitAgreed
    BY Zenon, <1>8 DEF WaitAgreed
  <1>9. CASE WaitDenied
    BY Zenon, <1>9 DEF WaitDenied
  <1>10. CASE AskRefused
    BY Zenon, <1>10 DEF AskRefused
  <1>11. CASE AskApproved
    BY Zenon, <1>11 DEF AskApproved, SuspendCells
  <1>12. CASE DisableApproved
    BY Zenon, <1>12 DEF DisableApproved, SuspendCells
  <1>13. ASSUME NEW r \in Region, MapRegion(r) PROVE CallInv'
    BY Zenon, <1>13 DEF MapRegion
  <1>14. ASSUME NEW r \in Region, NEW unmapped \in BOOLEAN, MapFails(r, unmapped)
         PROVE  CallInv'
    BY Zenon, <1>14 DEF MapFails, UnmapFromRoot
  <1>15. CASE CommitCreate
    BY <1>15 DEF CommitCreate
  <1>16. CASE cell_destroy_internal
    BY Zenon, <1>16 DEF cell_destroy_internal, GiveBack
  <1>17. CASE Unlink
    BY <1>17 DEF Unlink, FreeCell
  <1>18. ASSUME NEW r \in Region, UnmapLoadable(r) PROVE CallInv'
    BY Zenon, <1>18 DEF UnmapLoadable, UnmapFromRoot
  <1>19. ASSUME NEW r \in Region, UnmapFails(r) PROVE CallInv'
    BY Zenon, <1>19 DEF UnmapFails
  <1>20. CASE CommitStart
    BY Zenon, <1>20 DEF CommitStart
  <1>21. CASE Run
    BY <1>21 DEF Run
  <1>22. CASE Park
    BY Zenon, <1>22 DEF Park
  <1>23. CASE MakeLoadable
    BY Zenon, <1>23 DEF MakeLoadable
  <1>24. ASSUME NEW r \in Region, RemapLoadable(r) PROVE CallInv'
    BY Zenon, <1>24 DEF RemapLoadable
  <1>25. ASSUME NEW r \in Region, RemapFails(r) PROVE CallInv'
    BY Zenon, <1>25 DEF RemapFails
  <1>26. CASE CommitLoadable
    BY Zenon, <1>26 DEF CommitLoadable
  <1>27. ASSUME NEW k \in Cell, Notify(k) PROVE CallInv'
    BY Zenon, <1>27 DEF Notify, jailhouse_send_msg_to_cell
  <1>28. ASSUME NEW k \in Cell, NotifyPassive(k) PROVE CallInv'
    BY Zenon, <1>28 DEF NotifyPassive
  <1>29. CASE Informed
    BY Zenon, <1>29 DEF Informed
  <1>30. CASE NotifyDone
    BY Zenon, <1>30 DEF NotifyDone
  <1>31. CASE Resume
    BY Zenon, <1>31 DEF Resume
  <1>32. ASSUME NEW k \in Cell, ReadMessage(k) PROVE CallInv'
    BY Zenon, <1>32 DEF ReadMessage
  <1>33. ASSUME NEW k \in Cell, ClearMessage(k) PROVE CallInv'
    BY Zenon, <1>33 DEF ClearMessage
  <1>34. ASSUME NEW k \in Cell, NEW reply \in Replies, WriteReply(k, reply)
         PROVE  CallInv'
    BY Zenon, <1>34 DEF WriteReply
  <1>35. ASSUME NEW k \in Cell, NEW s \in States, SetState(k, s) PROVE CallInv'
    BY Zenon, <1>35 DEF SetState, SuspendCells
  <1>36. CASE UNCHANGED vars
    BY Zenon, <1>36 DEF vars
  <1>. HIDE DEF TypeOK, CallInv
  <1>. QED
    BY Zenon, <1>1, <1>2, <1>3, <1>4, <1>5, <1>6, <1>7, <1>8, <1>9, <1>10, <1>11, <1>12,
       <1>13, <1>14, <1>15, <1>16, <1>17, <1>18, <1>19, <1>20, <1>21, <1>22, <1>23, <1>24,
       <1>25, <1>26, <1>27, <1>28, <1>29, <1>30, <1>31, <1>32, <1>33, <1>34, <1>35, <1>36
      DEF Next, Manage, Answer

\* The hypercalls as the driver issues them never leave the types or CallInv.
LEMMA CallAlways == Spec => [](TypeOK /\ CallInv)
  <1>1. TypeOK /\ CallInv /\ [Next]_vars => (TypeOK /\ CallInv)'
    BY Zenon, TypeStep, CallStep
  <1>. QED
    BY <1>1, CallInit, PTL DEF Spec

(***************************************************************************)
(* Memory.                                                                 *)
(***************************************************************************)
\* No step of a hypercall, not one that fails half-way either, takes a region
\* from a cell it does not deal with, leaves one with the root cell that a cell
\* may run on, or loses one.
LEMMA MemStep ==
  DisjointMem /\ TypeOK /\ TypeOK' /\ CallInv /\ MemInv /\ [Next]_vars => MemInv'
  <1>. SUFFICES ASSUME DisjointMem, TypeOK, TypeOK', CallInv, MemInv, [Next]_vars
                PROVE  MemInv'
    OBVIOUS
  <1>. USE ConstAssumption DEF TypeOK, CallInv, MemInv, DisjointMem, Gone, Shared,
     AllCells, comm, guest, memory, call, loops
  <1>1. ASSUME NEW o \in Ops \ {"none"}, NEW k \in AllCells, Hypercall(o, k)
        PROVE  MemInv'
    BY Zenon, <1>1 DEF Hypercall
  <1>2. CASE Refuse
    BY Zenon, <1>2 DEF Refuse
  <1>3. CASE StartCreate
    BY <1>3, SMTT(20) DEF StartCreate
  <1>4. CASE StartManage
    BY Zenon, <1>4 DEF StartManage
  <1>5. CASE StartDisable
    BY Zenon, <1>5 DEF StartDisable
  <1>6. ASSUME NEW k \in Cell, Ask(k) PROVE MemInv'
    BY Zenon, <1>6 DEF Ask, jailhouse_send_msg_to_cell
  <1>7. ASSUME NEW k \in Cell, AskPassive(k) PROVE MemInv'
    BY Zenon, <1>7 DEF AskPassive
  <1>8. CASE WaitAgreed
    BY Zenon, <1>8 DEF WaitAgreed
  <1>9. CASE WaitDenied
    BY Zenon, <1>9 DEF WaitDenied
  <1>10. CASE AskRefused
    BY Zenon, <1>10 DEF AskRefused
  <1>11. CASE AskApproved
    BY Zenon, <1>11 DEF AskApproved, SuspendCells
  <1>12. CASE DisableApproved
    BY Zenon, <1>12 DEF DisableApproved, SuspendCells
  <1>13. ASSUME NEW r \in Region, MapRegion(r) PROVE MemInv'
    BY <1>13, SMTT(20) DEF MapRegion
  <1>14. ASSUME NEW r \in Region, NEW unmapped \in BOOLEAN, MapFails(r, unmapped)
         PROVE  MemInv'
    BY SMTT(30), <1>14 DEF MapFails, UnmapFromRoot
  <1>15. CASE CommitCreate
    BY <1>15, SMTT(20) DEF CommitCreate
  <1>16. CASE cell_destroy_internal
    BY <1>16, SMTT(20) DEF cell_destroy_internal, GiveBack
  <1>17. CASE Unlink
    BY <1>17, SMTT(20) DEF Unlink, FreeCell
  <1>18. ASSUME NEW r \in Region, UnmapLoadable(r) PROVE MemInv'
    BY <1>18, SMTT(20) DEF UnmapLoadable, UnmapFromRoot
  <1>19. ASSUME NEW r \in Region, UnmapFails(r) PROVE MemInv'
    BY Zenon, <1>19 DEF UnmapFails
  <1>20. CASE CommitStart
    BY <1>20, SMTT(20) DEF CommitStart
  <1>21. CASE Run
    BY Zenon, <1>21 DEF Run
  <1>22. CASE Park
    BY Zenon, <1>22 DEF Park
  <1>23. CASE MakeLoadable
    BY <1>23, SMTT(20) DEF MakeLoadable
  <1>24. ASSUME NEW r \in Region, RemapLoadable(r) PROVE MemInv'
    BY <1>24, SMTT(20) DEF RemapLoadable
  <1>25. ASSUME NEW r \in Region, RemapFails(r) PROVE MemInv'
    BY Zenon, <1>25 DEF RemapFails
  <1>26. CASE CommitLoadable
    BY SMTT(30), <1>26 DEF CommitLoadable
  <1>27. ASSUME NEW k \in Cell, Notify(k) PROVE MemInv'
    BY Zenon, <1>27 DEF Notify, jailhouse_send_msg_to_cell
  <1>28. ASSUME NEW k \in Cell, NotifyPassive(k) PROVE MemInv'
    BY Zenon, <1>28 DEF NotifyPassive
  <1>29. CASE Informed
    BY Zenon, <1>29 DEF Informed
  <1>30. CASE NotifyDone
    BY Zenon, <1>30 DEF NotifyDone
  <1>31. CASE Resume
    BY Zenon, <1>31 DEF Resume
  <1>32. ASSUME NEW k \in Cell, ReadMessage(k) PROVE MemInv'
    BY Zenon, <1>32 DEF ReadMessage
  <1>33. ASSUME NEW k \in Cell, ClearMessage(k) PROVE MemInv'
    BY Zenon, <1>33 DEF ClearMessage
  <1>34. ASSUME NEW k \in Cell, NEW reply \in Replies, WriteReply(k, reply)
         PROVE  MemInv'
    BY Zenon, <1>34 DEF WriteReply
  <1>35. ASSUME NEW k \in Cell, NEW s \in States, SetState(k, s) PROVE MemInv'
    BY Zenon, <1>35 DEF SetState, SuspendCells
  <1>36. CASE UNCHANGED vars
    BY Zenon, <1>36 DEF vars
  <1>. HIDE DEF TypeOK, CallInv, MemInv
  <1>. QED
    BY SMTT(30), <1>1, <1>2, <1>3, <1>4, <1>5, <1>6, <1>7, <1>8, <1>9, <1>10, <1>11, <1>12,
       <1>13, <1>14, <1>15, <1>16, <1>17, <1>18, <1>19, <1>20, <1>21, <1>22, <1>23, <1>24,
       <1>25, <1>26, <1>27, <1>28, <1>29, <1>30, <1>31, <1>32, <1>33, <1>34, <1>35, <1>36
      DEF Next, Manage, Answer

\* The memory of cells with disjoint configurations is always where the
\* progress of the hypercall says it is.
LEMMA MemAlways == DisjointMem => (Spec => [](TypeOK /\ MemInv))
  <1>. SUFFICES ASSUME DisjointMem PROVE Spec => [](TypeOK /\ MemInv)
    OBVIOUS
  <1>1. Init => MemInv
    BY ConstAssumption DEF Init, MemInv, Gone, Shared, AllCells
  <1>2. TypeOK /\ CallInv /\ MemInv /\ [Next]_vars => (TypeOK /\ CallInv /\ MemInv)'
    BY Zenon, TypeStep, CallStep, MemStep
  <1>. QED
    BY <1>1, <1>2, CallInit, PTL DEF Spec

\* Cells with disjoint configurations have their memory to themselves while they
\* run, and between hypercalls the root cell shares only the loadable regions of
\* loadable cells (cell_create, cell_start, cell_set_loadable, cell_destroy).
THEOREM CellMemoryExclusive == DisjointMem => (Spec => []MemoryExclusive)
  <1>. SUFFICES ASSUME DisjointMem PROVE Spec => []MemoryExclusive
    OBVIOUS
  <1>1. Spec => [](TypeOK /\ MemInv)
    BY Zenon, MemAlways
  <1>2. TypeOK /\ CallInv /\ MemInv => MemoryExclusive
    <2>. SUFFICES ASSUME TypeOK, CallInv, MemInv PROVE MemoryExclusive
      OBVIOUS
    <2>1. ASSUME NEW k \in Cell, running[k]
          PROVE  Mem[k] \subseteq mapped[k] /\ Mem[k] \intersect RootView = {}
      BY Zenon, <2>1 DEF TypeOK, CallInv, MemInv, Gone, Shared, RootView
    <2>2. SharedOnlyLoadable
      BY Zenon DEF TypeOK, MemInv, Gone, Shared, SharedOnlyLoadable
    <2>. QED
      BY Zenon, <2>1, <2>2 DEF MemoryExclusive, RunningIsExclusive
  <1>. QED
    BY <1>1, <1>2, CallAlways, PTL

\* Once a hypercall has returned, a cell that is not linked holds no memory, and
\* what it had from the root cell is back, but for the regions that
\* cell_destroy_internal failed to map and warned about.
THEOREM CellMemoryReturned == DisjointMem => (Spec => []MemoryReturned)
  <1>. SUFFICES ASSUME DisjointMem PROVE Spec => []MemoryReturned
    OBVIOUS
  <1>1. Spec => [](TypeOK /\ MemInv)
    BY Zenon, MemAlways
  <1>2. TypeOK /\ MemInv => MemoryReturned
    BY Zenon DEF MemInv, Gone, MemoryReturned
  <1>. QED
    BY <1>1, <1>2, PTL

(***************************************************************************)
(* The messages to the cells, and their consent.                           *)
(***************************************************************************)
\* A message stays with a running cell only as long as the hypercall waits for
\* the answer, and the wait ends with the answer or with the cell.
LEMMA MsgStep == TypeOK /\ TypeOK' /\ CallInv /\ MsgInv /\ [Next]_vars => MsgInv'
  <1>. SUFFICES ASSUME TypeOK, TypeOK', CallInv, MsgInv, [Next]_vars PROVE MsgInv'
    OBVIOUS
  <1>. USE ConstAssumption DEF TypeOK, MsgInv, Terminal, Agreed, Answered,
     AllCells, comm, guest, memory, call, loops
  <1>1. ASSUME NEW o \in Ops \ {"none"}, NEW k \in AllCells, Hypercall(o, k)
        PROVE  MsgInv'
    BY Zenon, <1>1 DEF Hypercall
  <1>2. CASE Refuse
    BY Zenon, <1>2 DEF Refuse
  <1>3. CASE StartCreate
    BY Zenon, <1>3 DEF StartCreate
  <1>4. CASE StartManage
    BY Zenon, <1>4 DEF StartManage
  <1>5. CASE StartDisable
    BY Zenon, <1>5 DEF StartDisable
  <1>6. ASSUME NEW k \in Cell, Ask(k) PROVE MsgInv'
    BY <1>6 DEF Ask, jailhouse_send_msg_to_cell
  <1>7. ASSUME NEW k \in Cell, AskPassive(k) PROVE MsgInv'
    BY Zenon, <1>7 DEF AskPassive
  <1>8. CASE WaitAgreed
    BY Zenon, <1>8 DEF WaitAgreed
  <1>9. CASE WaitDenied
    BY Zenon, <1>9 DEF WaitDenied
  <1>10. CASE AskRefused
    BY Zenon, <1>10 DEF AskRefused
  <1>11. CASE AskApproved
    BY Zenon, <1>11 DEF AskApproved, SuspendCells
  <1>12. CASE DisableApproved
    BY Zenon, <1>12 DEF DisableApproved, SuspendCells
  <1>13. ASSUME NEW r \in Region, MapRegion(r) PROVE MsgInv'
    BY Zenon, <1>13 DEF MapRegion
  <1>14. ASSUME NEW r \in Region, NEW unmapped \in BOOLEAN, MapFails(r, unmapped)
         PROVE  MsgInv'
    BY Zenon, <1>14 DEF MapFails, UnmapFromRoot
  <1>15. CASE CommitCreate
    BY <1>15 DEF CommitCreate, CallInv
  <1>16. CASE cell_destroy_internal
    BY Zenon, <1>16 DEF cell_destroy_internal, GiveBack
  <1>17. CASE Unlink
    BY <1>17 DEF Unlink, FreeCell
  <1>18. ASSUME NEW r \in Region, UnmapLoadable(r) PROVE MsgInv'
    BY Zenon, <1>18 DEF UnmapLoadable, UnmapFromRoot
  <1>19. ASSUME NEW r \in Region, UnmapFails(r) PROVE MsgInv'
    BY Zenon, <1>19 DEF UnmapFails
  <1>20. CASE CommitStart
    BY Zenon, <1>20 DEF CommitStart
  <1>21. CASE Run
    BY <1>21 DEF Run
  <1>22. CASE Park
    BY Zenon, <1>22 DEF Park
  <1>23. CASE MakeLoadable
    BY SMTT(30), <1>23 DEF MakeLoadable, CallInv
  <1>24. ASSUME NEW r \in Region, RemapLoadable(r) PROVE MsgInv'
    BY Zenon, <1>24 DEF RemapLoadable
  <1>25. ASSUME NEW r \in Region, RemapFails(r) PROVE MsgInv'
    BY Zenon, <1>25 DEF RemapFails
  <1>26. CASE CommitLoadable
    BY Zenon, <1>26 DEF CommitLoadable
  <1>27. ASSUME NEW k \in Cell, Notify(k) PROVE MsgInv'
    BY Zenon, <1>27 DEF Notify, jailhouse_send_msg_to_cell
  <1>28. ASSUME NEW k \in Cell, NotifyPassive(k) PROVE MsgInv'
    BY Zenon, <1>28 DEF NotifyPassive
  <1>29. CASE Informed
    BY Zenon, <1>29 DEF Informed
  <1>30. CASE NotifyDone
    BY Zenon, <1>30 DEF NotifyDone
  <1>31. CASE Resume
    BY Zenon, <1>31 DEF Resume
  <1>32. ASSUME NEW k \in Cell, ReadMessage(k) PROVE MsgInv'
    BY SMTT(30), <1>32 DEF ReadMessage
  <1>33. ASSUME NEW k \in Cell, ClearMessage(k) PROVE MsgInv'
    BY SMTT(30), <1>33 DEF ClearMessage
  <1>34. ASSUME NEW k \in Cell, NEW reply \in Replies, WriteReply(k, reply)
         PROVE  MsgInv'
    BY SMTT(30), <1>34 DEF WriteReply, Answers
  <1>35. ASSUME NEW k \in Cell, NEW s \in States, SetState(k, s) PROVE MsgInv'
    BY Zenon, <1>35 DEF SetState, SuspendCells
  <1>36. CASE UNCHANGED vars
    BY Zenon, <1>36 DEF vars
  <1>. HIDE DEF TypeOK, MsgInv
  <1>. QED
    BY Zenon, <1>1, <1>2, <1>3, <1>4, <1>5, <1>6, <1>7, <1>8, <1>9, <1>10, <1>11, <1>12,
       <1>13, <1>14, <1>15, <1>16, <1>17, <1>18, <1>19, <1>20, <1>21, <1>22, <1>23, <1>24,
       <1>25, <1>26, <1>27, <1>28, <1>29, <1>30, <1>31, <1>32, <1>33, <1>34, <1>35, <1>36
      DEF Next, Manage, Answer

\* A cell counts as asked only with the reply to the request of this hypercall.
LEMMA ConsentStep ==
  TypeOK /\ TypeOK' /\ CallInv /\ MsgInv /\ ConsentInv /\ [Next]_vars => ConsentInv'
  <1>. SUFFICES ASSUME TypeOK, TypeOK', CallInv, MsgInv, ConsentInv, [Next]_vars
                PROVE  ConsentInv'
    OBVIOUS
  <1>. USE ConstAssumption DEF TypeOK, ConsentInv, Agreed, Answered,
     AllCells, comm, guest, memory, call, loops
  <1>1. ASSUME NEW o \in Ops \ {"none"}, NEW k \in AllCells, Hypercall(o, k)
        PROVE  ConsentInv'
    BY Zenon, <1>1 DEF Hypercall
  <1>2. CASE Refuse
    BY Zenon, <1>2 DEF Refuse
  <1>3. CASE StartCreate
    BY Zenon, <1>3 DEF StartCreate
  <1>4. CASE StartManage
    BY Zenon, <1>4 DEF StartManage
  <1>5. CASE StartDisable
    BY Zenon, <1>5 DEF StartDisable, CallInv
  <1>6. ASSUME NEW k \in Cell, Ask(k) PROVE ConsentInv'
    BY SMTT(30), <1>6 DEF Ask, jailhouse_send_msg_to_cell
  <1>7. ASSUME NEW k \in Cell, AskPassive(k) PROVE ConsentInv'
    BY SMTT(30), <1>7 DEF AskPassive
  <1>8. CASE WaitAgreed
    BY SMTT(30), <1>8 DEF WaitAgreed, CallInv, MsgInv, Terminal
  <1>9. CASE WaitDenied
    BY Zenon, <1>9 DEF WaitDenied
  <1>10. CASE AskRefused
    BY Zenon, <1>10 DEF AskRefused
  <1>11. CASE AskApproved
    BY Zenon, <1>11 DEF AskApproved, SuspendCells
  <1>12. CASE DisableApproved
    BY Zenon, <1>12 DEF DisableApproved, SuspendCells
  <1>13. ASSUME NEW r \in Region, MapRegion(r) PROVE ConsentInv'
    BY Zenon, <1>13 DEF MapRegion
  <1>14. ASSUME NEW r \in Region, NEW unmapped \in BOOLEAN, MapFails(r, unmapped)
         PROVE  ConsentInv'
    BY Zenon, <1>14 DEF MapFails, UnmapFromRoot
  <1>15. CASE CommitCreate
    BY Zenon, <1>15 DEF CommitCreate
  <1>16. CASE cell_destroy_internal
    BY Zenon, <1>16 DEF cell_destroy_internal, GiveBack
  <1>17. CASE Unlink
    BY Zenon, <1>17 DEF Unlink, FreeCell
  <1>18. ASSUME NEW r \in Region, UnmapLoadable(r) PROVE ConsentInv'
    BY Zenon, <1>18 DEF UnmapLoadable, UnmapFromRoot
  <1>19. ASSUME NEW r \in Region, UnmapFails(r) PROVE ConsentInv'
    BY Zenon, <1>19 DEF UnmapFails
  <1>20. CASE CommitStart
    BY Zenon, <1>20 DEF CommitStart
  <1>21. CASE Run
    BY Zenon, <1>21 DEF Run
  <1>22. CASE Park
    BY Zenon, <1>22 DEF Park
  <1>23. CASE MakeLoadable
    BY Zenon, <1>23 DEF MakeLoadable
  <1>24. ASSUME NEW r \in Region, RemapLoadable(r) PROVE ConsentInv'
    BY Zenon, <1>24 DEF RemapLoadable
  <1>25. ASSUME NEW r \in Region, RemapFails(r) PROVE ConsentInv'
    BY Zenon, <1>25 DEF RemapFails
  <1>26. CASE CommitLoadable
    BY Zenon, <1>26 DEF CommitLoadable
  <1>27. ASSUME NEW k \in Cell, Notify(k) PROVE ConsentInv'
    BY Zenon, <1>27 DEF Notify, jailhouse_send_msg_to_cell
  <1>28. ASSUME NEW k \in Cell, NotifyPassive(k) PROVE ConsentInv'
    BY Zenon, <1>28 DEF NotifyPassive
  <1>29. CASE Informed
    BY Zenon, <1>29 DEF Informed
  <1>30. CASE NotifyDone
    BY Zenon, <1>30 DEF NotifyDone
  <1>31. CASE Resume
    BY Zenon, <1>31 DEF Resume
  <1>32. ASSUME NEW k \in Cell, ReadMessage(k) PROVE ConsentInv'
    BY Zenon, <1>32 DEF ReadMessage
  <1>33. ASSUME NEW k \in Cell, ClearMessage(k) PROVE ConsentInv'
    BY Zenon, <1>33 DEF ClearMessage
  <1>34. ASSUME NEW k \in Cell, NEW reply \in Replies, WriteReply(k, reply)
         PROVE  ConsentInv'
    BY <1>34, SMTT(20) DEF WriteReply, Answers, CallInv, MsgInv
  <1>35. ASSUME NEW k \in Cell, NEW s \in States, SetState(k, s) PROVE ConsentInv'
    BY SMTT(30), <1>35 DEF SetState, SuspendCells, CallInv
  <1>36. CASE UNCHANGED vars
    BY Zenon, <1>36 DEF vars
  <1>. HIDE DEF TypeOK, ConsentInv
  <1>. QED
    BY Zenon, <1>1, <1>2, <1>3, <1>4, <1>5, <1>6, <1>7, <1>8, <1>9, <1>10, <1>11, <1>12,
       <1>13, <1>14, <1>15, <1>16, <1>17, <1>18, <1>19, <1>20, <1>21, <1>22, <1>23, <1>24,
       <1>25, <1>26, <1>27, <1>28, <1>29, <1>30, <1>31, <1>32, <1>33, <1>34, <1>35, <1>36
      DEF Next, Manage, Answer

\* The messages and the consent of the cells, together.
LEMMA MsgAlways == Spec => [](TypeOK /\ CallInv /\ MsgInv /\ ConsentInv)
  <1>1. Init => MsgInv /\ ConsentInv
    BY Zenon, ConstAssumption DEF Init, MsgInv, ConsentInv, AllCells
  <1>2. TypeOK /\ CallInv /\ MsgInv /\ ConsentInv /\ [Next]_vars
          => (TypeOK /\ CallInv /\ MsgInv /\ ConsentInv)'
    BY Zenon, TypeStep, CallStep, MsgStep, ConsentStep
  <1>. QED
    BY <1>1, <1>2, CallInit, PTL DEF Spec

\* A message that a running cell finds in its Communication Region is one that
\* the hypervisor waits for an answer to (cell_start resets the region).
THEOREM MessagesAreCurrent == Spec => []NoStaleMessage
  <1>1. MsgInv => NoStaleMessage
    BY Zenon DEF MsgInv, NoStaleMessage
  <1>. QED
    BY <1>1, MsgAlways, PTL

\* No step stops a running cell that is neither passive nor has approved this
\* very hypercall, unless the cell itself says that it has shut down or failed
\* (cell_shutdown_ok, cell_suspend).
THEOREM StopsNeedConsent == Spec => StopNeedsConsent
  <1>. DEFINE Step == \A k \in Cell :
                        running[k] /\ ~running'[k] =>
                          \/ k \in passive
                          \/ consent[k]
                          \/ cell_state'[k] \in {"SHUT_DOWN", "FAILED"}
  <1>1. TypeOK /\ TypeOK' /\ CallInv /\ MsgInv /\ ConsentInv /\ [Next]_vars => [Step]_vars
    <2>. SUFFICES ASSUME TypeOK, TypeOK', CallInv, MsgInv, ConsentInv, [Next]_vars
                  PROVE  Step
      OBVIOUS
    <2>. USE DEF TypeOK, comm, guest, memory, call, loops
    <2>1. ASSUME NEW o \in Ops \ {"none"}, NEW k \in AllCells, Hypercall(o, k)
          PROVE  Step
      BY Zenon, <2>1 DEF Hypercall
    <2>2. CASE Refuse
      BY Zenon, <2>2 DEF Refuse
    <2>3. CASE StartCreate
      BY Zenon, <2>3 DEF StartCreate
    <2>4. CASE StartManage
      BY Zenon, <2>4 DEF StartManage
    <2>5. CASE StartDisable
      BY Zenon, <2>5 DEF StartDisable
    <2>6. ASSUME NEW k \in Cell, Ask(k) PROVE Step
      BY Zenon, <2>6 DEF Ask, jailhouse_send_msg_to_cell
    <2>7. ASSUME NEW k \in Cell, AskPassive(k) PROVE Step
      BY Zenon, <2>7 DEF AskPassive
    <2>8. CASE WaitAgreed
      BY Zenon, <2>8 DEF WaitAgreed
    <2>9. CASE WaitDenied
      BY Zenon, <2>9 DEF WaitDenied
    <2>10. CASE AskRefused
      BY Zenon, <2>10 DEF AskRefused
    <2>11. CASE AskApproved
      BY Zenon, <2>11 DEF AskApproved, SuspendCells, CallInv, ConsentInv
    <2>12. CASE DisableApproved
      BY Zenon, <2>12 DEF DisableApproved, SuspendCells, CallInv, ConsentInv
    <2>13. ASSUME NEW r \in Region, MapRegion(r) PROVE Step
      BY Zenon, <2>13 DEF MapRegion
    <2>14. ASSUME NEW r \in Region, NEW unmapped \in BOOLEAN, MapFails(r, unmapped)
           PROVE  Step
      BY Zenon, <2>14 DEF MapFails, UnmapFromRoot
    <2>15. CASE CommitCreate
      BY Zenon, <2>15 DEF CommitCreate
    <2>16. CASE cell_destroy_internal
      BY Zenon, <2>16 DEF cell_destroy_internal, GiveBack
    <2>17. CASE Unlink
      BY Zenon, <2>17 DEF Unlink, FreeCell
    <2>18. ASSUME NEW r \in Region, UnmapLoadable(r) PROVE Step
      BY Zenon, <2>18 DEF UnmapLoadable, UnmapFromRoot
    <2>19. ASSUME NEW r \in Region, UnmapFails(r) PROVE Step
      BY Zenon, <2>19 DEF UnmapFails
    <2>20. CASE CommitStart
      BY Zenon, <2>20 DEF CommitStart
    <2>21. CASE Run
      BY Zenon, <2>21 DEF Run
    <2>22. CASE Park
      BY Zenon, <2>22 DEF Park
    <2>23. CASE MakeLoadable
      BY Zenon, <2>23 DEF MakeLoadable
    <2>24. ASSUME NEW r \in Region, RemapLoadable(r) PROVE Step
      BY Zenon, <2>24 DEF RemapLoadable
    <2>25. ASSUME NEW r \in Region, RemapFails(r) PROVE Step
      BY Zenon, <2>25 DEF RemapFails
    <2>26. CASE CommitLoadable
      BY Zenon, <2>26 DEF CommitLoadable
    <2>27. ASSUME NEW k \in Cell, Notify(k) PROVE Step
      BY Zenon, <2>27 DEF Notify, jailhouse_send_msg_to_cell
    <2>28. ASSUME NEW k \in Cell, NotifyPassive(k) PROVE Step
      BY Zenon, <2>28 DEF NotifyPassive
    <2>29. CASE Informed
      BY Zenon, <2>29 DEF Informed
    <2>30. CASE NotifyDone
      BY Zenon, <2>30 DEF NotifyDone
    <2>31. CASE Resume
      BY Zenon, <2>31 DEF Resume
    <2>32. ASSUME NEW k \in Cell, ReadMessage(k) PROVE Step
      BY Zenon, <2>32 DEF ReadMessage
    <2>33. ASSUME NEW k \in Cell, ClearMessage(k) PROVE Step
      BY Zenon, <2>33 DEF ClearMessage
    <2>34. ASSUME NEW k \in Cell, NEW reply \in Replies, WriteReply(k, reply)
           PROVE  Step
      BY Zenon, <2>34 DEF WriteReply, Answers
    <2>35. ASSUME NEW k \in Cell, NEW s \in States, SetState(k, s) PROVE Step
      BY Zenon, <2>35 DEF SetState, SuspendCells
    <2>36. CASE UNCHANGED vars
      BY Zenon, <2>36 DEF vars
    <2>. QED
      BY Zenon, <2>1, <2>2, <2>3, <2>4, <2>5, <2>6, <2>7, <2>8, <2>9, <2>10, <2>11, <2>12,
         <2>13, <2>14, <2>15, <2>16, <2>17, <2>18, <2>19, <2>20, <2>21, <2>22, <2>23, <2>24,
         <2>25, <2>26, <2>27, <2>28, <2>29, <2>30, <2>31, <2>32, <2>33, <2>34, <2>35, <2>36
      DEF Next, Manage, Answer
  <1>. QED
    BY <1>1, MsgAlways, PTL DEF Spec, StopNeedsConsent

-------------------------------------------------------------------------------
(* The ioctls of the Linux driver.                                         *)

\* What a change of one process' record leaves of the others.
LEMMA GoEffect ==
  ASSUME DriverTypeOK, NEW p \in Procs, NEW s \in DriverPositions, NEW t \in SUBSET Cpus,
         Go2(p, s, t)
  PROVE  /\ proc' \in [Procs -> [pc : DriverPositions, op : DriverPositions,
                                 name : Names \cup {NoName}, todo : SUBSET Cpus]]
         /\ proc'[p].pc = s /\ proc'[p].todo = t
         /\ proc'[p].name = proc[p].name /\ proc'[p].op = proc[p].op
         /\ \A q \in Procs \ {p} : proc'[q] = proc[q]
  BY Zenon DEF DriverTypeOK, Go2

\* Giving the mutex back leaves the other processes where they are.
LEMMA UnlockEffect ==
  ASSUME DriverTypeOK, NEW p \in Procs, Unlock(p)
  PROVE  /\ proc' \in [Procs -> [pc : DriverPositions, op : DriverPositions,
                                 name : Names \cup {NoName}, todo : SUBSET Cpus]]
         /\ proc'[p].pc = "none" /\ mutex' = NoProc
         /\ \A q \in Procs \ {p} : proc'[q] = proc[q]
  BY Zenon DEF DriverTypeOK, Unlock, Resting, DriverPositions

\* A process at work is alone.
LEMMA Alone ==
  ASSUME OwnerInv, NEW p \in Procs, proc[p].pc # "none"
  PROVE  \A q \in Procs \ {p} : proc[q].pc = "none"
  BY DEF OwnerInv

\* So only its own progress has to be looked at: when it is done ...
LEMMA DoneKeeps ==
  ASSUME DriverInv, NEW p \in Procs, proc[p].pc # "none", Unlock(p), DriverTypeOK',
         refs' => loaded', UNCHANGED loaded, (~enabled => offlined = {})',
         (listed = hvCells /\ objects = hvCells /\ (HvAbsent \/ (HvRuns /\ Split(hvCells, {}))))'
  PROVE  DriverInv'
  <1>1. \A q \in Procs : proc'[q].pc = "none"
    BY UnlockEffect, Alone DEF DriverInv
  <1>2. OwnerInv'
    BY Zenon, <1>1 DEF OwnerInv
  <1>3. \A q \in Procs : ProgressInv(q)'
    BY Zenon, <1>1 DEF ProgressInv, Doing
  <1>4. QED
    BY Zenon, <1>2, <1>3 DEF DriverInv

\* ... and when it goes on.
LEMMA GoKeeps ==
  ASSUME DriverInv, NEW p \in Procs, proc[p].pc # "none",
         NEW s \in {"enter", "up", "down", "undo", "back"}, NEW t \in SUBSET Cpus,
         Go2(p, s, t), UNCHANGED <<mutex, loaded>>, DriverTypeOK',
         s \in {"down", "undo", "back"} => proc[p].name \in Names,
         refs' => loaded', (~enabled => offlined = {})', ProgressInv(p)'
  PROVE  DriverInv'
  <1>1. /\ proc'[p].pc = s /\ proc'[p].name = proc[p].name
        /\ \A q \in Procs \ {p} : proc'[q].pc = "none"
    BY GoEffect, Alone DEF DriverInv, DriverPositions
  <1>2. OwnerInv'
    BY Zenon, <1>1 DEF OwnerInv, DriverInv
  <1>3. \A q \in Procs : ProgressInv(q)'
    BY Zenon, <1>1 DEF ProgressInv, Doing
  <1>4. Midway'
    BY Zenon, <1>1 DEF Midway
  <1>5. QED
    BY Zenon, <1>2, <1>3, <1>4 DEF DriverInv

\* At the start of an ioctl, and at the hypercalls that move no CPU, no process is in
\* the middle of a change of the books.
LEMMA NotMidway ==
  ASSUME DriverInv, NEW p \in Procs,
         proc[p].pc \in {"enable", "disable", "info", "create", "load", "start", "destroy", "call"}
  PROVE  ~Midway
  BY Zenon, Alone DEF DriverInv, Midway

\* An ioctl that only takes the mutex, or refuses, or moves on to its hypercall,
\* leaves the books alone.
LEMMA CalmKeeps ==
  ASSUME DriverInv, ~Midway, UNCHANGED <<loaded, refs, enabled, hv, books, cpuVars>>,
         DriverTypeOK', OwnerInv', \A q \in Procs : ProgressInv(q)'
  PROVE  DriverInv'
  <1>1. UNCHANGED <<loaded, refs, enabled, hvOn, hvMapped, hvCells, rootListed, listed,
                    objects, cpuOnline, offlined, rootCpus, snap>>
    BY Zenon DEF hv, books, cpuVars
  <1>2. (HvAbsent \/ (HvRuns /\ Split(hvCells, {})))'
    BY <1>1 DEF DriverInv, HvAbsent, HvRuns, Split
  <1>3. (~enabled => offlined = {})' /\ listed' = hvCells' /\ objects' = hvCells'
    BY <1>1 DEF DriverInv
  <1>4. QED
    BY Zenon, <1>2, <1>3 DEF DriverInv

\* Taking the mutex.
LEMMA IoctlStep ==
  ASSUME DriverInv, NEW p \in Procs,
         NEW o \in {"enable", "disable", "info", "create", "load", "start", "destroy"},
         NEW n \in Names \cup {NoName}, jailhouse_ioctl(p, o, n)
  PROVE  DriverInv'
  <1>1. /\ loaded /\ mutex = NoProc /\ mutex' = p
        /\ proc' = [proc EXCEPT ![p] = [pc |-> o, op |-> o, name |-> n, todo |-> {}]]
        /\ UNCHANGED <<loaded, refs, enabled, hv, books, cpuVars>>
        /\ (n = NoName) <=> o \in {"enable", "disable", "info"}
    BY Zenon DEF jailhouse_ioctl
  <1>2. DriverTypeOK /\ OwnerInv
    BY Zenon DEF DriverInv
  <1>3. \A q \in Procs : proc[q].pc = "none"
    BY Zenon, <1>1, <1>2, DriverAssumption DEF OwnerInv
  <1>4. /\ proc' \in [Procs -> [pc : DriverPositions, op : DriverPositions,
                                name : Names \cup {NoName}, todo : SUBSET Cpus]]
        /\ proc'[p].pc = o /\ proc'[p].op = o /\ proc'[p].name = n
        /\ \A q \in Procs \ {p} : proc'[q].pc = "none"
    BY Zenon, <1>1, <1>2, <1>3 DEF DriverTypeOK, DriverPositions
  <1>5. DriverTypeOK'
    BY Zenon, <1>1, <1>2, <1>4 DEF DriverTypeOK, hv, books, cpuVars
  <1>6. OwnerInv'
    BY Zenon, <1>1, <1>2, <1>4, DriverAssumption DEF OwnerInv
  <1>7. \A q \in Procs : ~(proc'[q].pc \in {"enter", "up", "down", "undo", "call", "back"})
    BY Zenon, <1>4
  <1>8. \A q \in Procs : ProgressInv(q)'
    BY Zenon, <1>7 DEF ProgressInv, Doing
  <1>9. ~Midway
    BY Zenon, <1>3 DEF Midway
  <1>10. QED
    BY Zenon, <1>1, <1>5, <1>6, <1>8, <1>9, CalmKeeps

\* Giving it back with nothing changed.
LEMMA QuietUnlock ==
  ASSUME DriverInv, NEW p \in Procs, proc[p].pc # "none", ~Midway, Unlock(p),
         UNCHANGED <<loaded, refs, enabled, hv, books, cpuVars>>
  PROVE  DriverInv'
  <1>1. DriverTypeOK /\ OwnerInv
    BY Zenon DEF DriverInv
  <1>2. DriverTypeOK'
    BY Zenon, <1>1, UnlockEffect DEF DriverTypeOK, hv, books, cpuVars
  <1>3. \A q \in Procs : proc'[q].pc = "none"
    BY <1>1, UnlockEffect, Alone
  <1>4. OwnerInv'
    BY Zenon, <1>1, <1>3 DEF OwnerInv
  <1>5. \A q \in Procs : ProgressInv(q)'
    BY Zenon, <1>3 DEF ProgressInv, Doing
  <1>6. QED
    BY Zenon, <1>2, <1>4, <1>5, CalmKeeps

\* Refusals, and hypercalls that do not concern the books.
LEMMA GiveUpStep ==
  ASSUME DriverInv, NEW p \in Procs, GiveUp(p) \/ CallDone(p)
  PROVE  DriverInv'
  <1>1. /\ proc[p].pc \in {"enable", "create", "disable", "info", "load", "start",
                           "destroy", "call"}
        /\ Unlock(p) /\ UNCHANGED <<loaded, refs, enabled, hv, books, cpuVars>>
    BY Zenon DEF GiveUp, CallDone, Doing
  <1>2. ~Midway
    BY Zenon, <1>1, NotMidway
  <1>3. QED
    BY Zenon, <1>1, <1>2, QuietUnlock

\* cell_management_prologue.
LEMMA PrologueStep ==
  ASSUME DriverInv, NEW p \in Procs, cell_management_prologue(p)
  PROVE  DriverInv'
  <1>1. /\ proc[p].pc \in {"load", "start", "destroy", "info"} /\ enabled
        /\ proc[p].pc = "info" \/ proc[p].name \in listed
        /\ Go2(p, "call", {})
        /\ UNCHANGED <<loaded, refs, enabled, hv, books, cpuVars, mutex>>
    BY Zenon DEF cell_management_prologue, Doing
  <1>2. DriverTypeOK /\ OwnerInv /\ proc[p].op = proc[p].pc
    BY Zenon, <1>1 DEF DriverInv, OwnerInv
  <1>3. "call" \in DriverPositions /\ {} \in SUBSET Cpus
    BY Zenon DEF DriverPositions
  <1>4. /\ proc' \in [Procs -> [pc : DriverPositions, op : DriverPositions,
                                name : Names \cup {NoName}, todo : SUBSET Cpus]]
        /\ proc'[p].pc = "call" /\ proc'[p].name = proc[p].name
        /\ proc'[p].op = proc[p].pc
        /\ \A q \in Procs \ {p} : proc'[q].pc = "none"
    BY <1>1, <1>2, <1>3, GoEffect, Alone
  <1>5. DriverTypeOK'
    BY Zenon, <1>1, <1>2, <1>4 DEF DriverTypeOK, hv, books, cpuVars
  <1>6. OwnerInv'
    BY Zenon, <1>1, <1>2, <1>4 DEF OwnerInv
  <1>7. ProgressInv(p)'
    BY Zenon, <1>1, <1>4 DEF ProgressInv, Doing, books
  <1>8. \A q \in Procs : ProgressInv(q)'
    BY Zenon, <1>4, <1>7 DEF ProgressInv, Doing
  <1>9. ~Midway
    BY Zenon, <1>1, NotMidway
  <1>10. QED
    BY Zenon, <1>1, <1>5, <1>6, <1>8, <1>9, CalmKeeps

\* The mapping and the reference come before the hypervisor ...
LEMMA EnablePrepareStep ==
  ASSUME DriverInv, NEW p \in Procs, EnablePrepare(p)
  PROVE  DriverInv'
  <1>1. /\ proc[p].pc = "enable" /\ ~enabled
        /\ refs' = TRUE /\ hvMapped' = TRUE /\ rootCpus' = cpuOnline
        /\ Go2(p, "enter", {})
        /\ UNCHANGED <<loaded, enabled, hvOn, hvCells, rootListed, listed, objects,
                       cpuOnline, offlined, snap, mutex>>
    BY Zenon DEF EnablePrepare, Doing, books
  <1>2. DriverTypeOK /\ OwnerInv /\ loaded /\ ~Midway /\ offlined = {}
    BY Zenon, <1>1, NotMidway DEF DriverInv, OwnerInv
  <1>3. HvAbsent /\ listed = hvCells /\ objects = hvCells
    BY Zenon, <1>1, <1>2 DEF DriverInv, HvRuns
  <1>4. "enter" \in DriverPositions /\ {} \in SUBSET Cpus
    BY Zenon DEF DriverPositions
  <1>5. /\ proc' \in [Procs -> [pc : DriverPositions, op : DriverPositions,
                                name : Names \cup {NoName}, todo : SUBSET Cpus]]
        /\ proc'[p].pc = "enter"
    BY Zenon, <1>1, <1>2, <1>4, GoEffect
  <1>6. DriverTypeOK'
    BY Zenon, <1>1, <1>2, <1>5 DEF DriverTypeOK
  <1>7. ProgressInv(p)'
    BY Zenon, <1>1, <1>3, <1>5 DEF ProgressInv, Doing, HvAbsent
  <1>8. QED
    BY Zenon, <1>1, <1>2, <1>4, <1>6, <1>7, GoKeeps

\* ... and go if it does not start.
LEMMA EnableDoneStep ==
  ASSUME DriverInv, NEW p \in Procs, EnableDone(p)
  PROVE  DriverInv'
  <1>1. /\ proc[p].pc = "enter" /\ Unlock(p)
        /\ UNCHANGED <<loaded, hvCells, listed, objects, cpuOnline, offlined>>
    BY Zenon DEF EnableDone, Doing
  <1>2. \/ /\ hvOn' = TRUE /\ enabled' = TRUE /\ rootListed' = TRUE
           /\ snap' = rootCpus
           /\ UNCHANGED <<refs, hvMapped, rootCpus>>
        \/ /\ hvMapped' = FALSE /\ refs' = FALSE /\ rootCpus' = {}
           /\ UNCHANGED <<hvOn, enabled, rootListed, snap>>
    BY Zenon DEF EnableDone
  <1>3. /\ refs /\ hvMapped /\ ~enabled /\ ~hvOn /\ ~rootListed
        /\ hvCells = {} /\ listed = {} /\ objects = {} /\ offlined = {}
        /\ DriverTypeOK /\ loaded
    BY Zenon, <1>1 DEF DriverInv, ProgressInv, Doing, OwnerInv
  <1>4. DriverTypeOK'
    BY Zenon, <1>1, <1>2, <1>3, UnlockEffect DEF DriverTypeOK
  <1>5. (HvAbsent \/ (HvRuns /\ Split(hvCells, {})))'
    BY Zenon, <1>1, <1>2, <1>3 DEF HvAbsent, HvRuns, Split, DriverTypeOK
  <1>6. QED
    BY Zenon, <1>1, <1>3, <1>4, <1>5, DoneKeeps

\* Disabling: the hypervisor and its cells go first ...
LEMMA DisableLeaveStep ==
  ASSUME DriverInv, NEW p \in Procs, DisableLeave(p)
  PROVE  DriverInv'
  <1>1. /\ proc[p].pc = "disable" /\ enabled
        /\ UNCHANGED <<loaded, refs, enabled, rootListed, listed, objects, cpuOnline,
                       offlined, rootCpus, snap>>
        /\ UNCHANGED <<loaded, refs, enabled, books, cpuVars>>
    BY Zenon DEF DisableLeave, Doing, books, cpuVars
  <1>2. DriverTypeOK /\ OwnerInv /\ loaded /\ ~Midway
    BY Zenon, <1>1, NotMidway DEF DriverInv, OwnerInv
  <1>3. refs
    BY Zenon, <1>1, <1>2 DEF DriverInv, HvAbsent, HvRuns
  <1>4. CASE Unlock(p) /\ UNCHANGED hv
    BY Zenon, <1>1, <1>2, <1>4, QuietUnlock
  <1>5. CASE /\ hvOn' = FALSE /\ hvMapped' = FALSE /\ hvCells' = {}
             /\ Go2(p, "up", offlined) /\ UNCHANGED mutex
    <2>1. "up" \in DriverPositions /\ offlined \in SUBSET Cpus
      BY Zenon, <1>2 DEF DriverPositions, DriverTypeOK
    <2>2. /\ proc' \in [Procs -> [pc : DriverPositions, op : DriverPositions,
                                  name : Names \cup {NoName}, todo : SUBSET Cpus]]
          /\ proc'[p].pc = "up" /\ proc'[p].todo = offlined
      BY Zenon, <1>2, <1>5, <2>1, GoEffect
    <2>3. DriverTypeOK'
      BY Zenon, <1>1, <1>2, <1>5, <2>2 DEF DriverTypeOK
    <2>4. ProgressInv(p)'
      BY SMTT(30), <1>1, <1>3, <1>5, <2>2 DEF ProgressInv, Doing
    <2>5. QED
      BY <1>1, <1>2, <1>5, <2>1, <2>3, <2>4, GoKeeps
  <1>6. QED
    BY Zenon, <1>4, <1>5 DEF DisableLeave

\* ... then every CPU that the driver took offline is brought up, or tried to ...
LEMMA DisableCpuUpStep ==
  ASSUME DriverInv, NEW p \in Procs, NEW c \in Cpus, DisableCpuUp(p, c)
  PROVE  DriverInv'
  <1>1. /\ proc[p].pc = "up" /\ c \in proc[p].todo
        /\ cpuOnline' \in {cpuOnline, cpuOnline \cup {c}} /\ offlined' = offlined \ {c}
        /\ Go2(p, "up", proc[p].todo \ {c})
        /\ UNCHANGED <<loaded, refs, enabled, hvOn, hvMapped, hvCells, rootListed, listed,
                       objects, rootCpus, snap, mutex>>
    BY Zenon DEF DisableCpuUp, Doing, hv, books
  <1>2. /\ DriverTypeOK /\ OwnerInv /\ loaded /\ enabled /\ refs /\ ~hvOn /\ ~hvMapped
        /\ hvCells = {} /\ offlined = proc[p].todo
    BY Zenon, <1>1 DEF DriverInv, OwnerInv, ProgressInv, Doing
  <1>3. "up" \in DriverPositions /\ proc[p].todo \ {c} \in SUBSET Cpus
    BY Zenon, <1>2 DEF DriverPositions, DriverTypeOK
  <1>4. /\ proc' \in [Procs -> [pc : DriverPositions, op : DriverPositions,
                                name : Names \cup {NoName}, todo : SUBSET Cpus]]
        /\ proc'[p].pc = "up" /\ proc'[p].todo = proc[p].todo \ {c}
    BY <1>1, <1>2, <1>3, GoEffect
  <1>5. DriverTypeOK'
    BY Zenon, <1>1, <1>2, <1>4 DEF DriverTypeOK
  <1>6. ProgressInv(p)'
    BY Zenon, <1>1, <1>2, <1>4 DEF ProgressInv, Doing
  <1>7. QED
    BY <1>1, <1>2, <1>3, <1>5, <1>6, GoKeeps

\* ... and all books are closed.
LEMMA DisableDoneStep ==
  ASSUME DriverInv, NEW p \in Procs, DisableDone(p)
  PROVE  DriverInv'
  <1>1. /\ proc[p].pc = "up" /\ proc[p].todo = {} /\ Unlock(p)
        /\ rootListed' = FALSE /\ listed' = {} /\ objects' = {}
        /\ enabled' = FALSE /\ refs' = FALSE /\ rootCpus' = {} /\ snap' = {}
        /\ UNCHANGED <<loaded, hvOn, hvMapped, hvCells, cpuOnline, offlined>>
    BY Zenon DEF DisableDone, Doing, hv
  <1>2. /\ DriverTypeOK /\ ~hvOn /\ ~hvMapped /\ hvCells = {} /\ offlined = proc[p].todo
    BY Zenon, <1>1 DEF DriverInv, ProgressInv, Doing
  <1>3. DriverTypeOK'
    BY Zenon, <1>1, <1>2, UnlockEffect DEF DriverTypeOK
  <1>4. HvAbsent'
    BY Zenon, <1>1, <1>2 DEF HvAbsent
  <1>5. QED
    BY Zenon, <1>1, <1>2, <1>3, <1>4, DoneKeeps

\* create_cell: the CPUs of the new cell are the root cell's.
LEMMA CreateObjectStep ==
  ASSUME DriverInv, NEW p \in Procs, CreateObject(p)
  PROVE  DriverInv'
  <1> DEFINE n == proc[p].name
  <1>1. /\ proc[p].pc = "create" /\ enabled /\ n \notin objects
        /\ CellCpus[n] \subseteq rootCpus
        /\ objects' = objects \cup {n}
        /\ Go2(p, "down", CellCpus[n])
        /\ UNCHANGED <<loaded, refs, enabled, hvOn, hvMapped, hvCells, rootListed, listed,
                       cpuOnline, offlined, rootCpus, snap, mutex>>
    BY Zenon DEF CreateObject, Doing, hv, cpuVars
  <1>2. DriverTypeOK /\ OwnerInv /\ loaded /\ ~Midway /\ n \in Names
    BY Zenon, <1>1, NotMidway DEF DriverInv, OwnerInv
  <1>3. HvRuns /\ Split(hvCells, {}) /\ listed = hvCells /\ objects = hvCells
    BY Zenon, <1>1, <1>2 DEF DriverInv, HvAbsent
  <1>4. "down" \in DriverPositions /\ CellCpus[n] \in SUBSET Cpus
    BY Zenon, <1>2, DriverAssumption DEF DriverPositions
  <1>5. /\ proc' \in [Procs -> [pc : DriverPositions, op : DriverPositions,
                                name : Names \cup {NoName}, todo : SUBSET Cpus]]
        /\ proc'[p].pc = "down" /\ proc'[p].todo = CellCpus[n] /\ proc'[p].name = n
    BY <1>1, <1>2, <1>4, GoEffect
  <1>6. DriverTypeOK'
    BY Zenon, <1>1, <1>2, <1>5 DEF DriverTypeOK
  <1>7. Split(hvCells, CellCpus[n])'
    BY <1>1, <1>3, <1>5 DEF Split
  <1>8. ProgressInv(p)'
    BY Zenon, <1>1, <1>3, <1>5, <1>7 DEF ProgressInv, Doing, HvRuns
  <1>9. QED
    BY Zenon, <1>1, <1>2, <1>3, <1>4, <1>6, <1>8, GoKeeps DEF HvRuns

\* What the loops over the CPUs of a cell know.
LEMMA WorkingFacts ==
  ASSUME DriverInv, NEW p \in Procs, proc[p].pc \in {"down", "undo", "back"}
  PROVE  /\ DriverTypeOK /\ OwnerInv /\ loaded /\ HvRuns
         /\ proc[p].name \in Names /\ proc[p].name \notin hvCells
         /\ CellCpus[proc[p].name] \in SUBSET Cpus /\ proc[p].todo \in SUBSET Cpus
  <1>1. DriverTypeOK /\ OwnerInv /\ loaded /\ proc[p].name \in Names
    BY Zenon DEF DriverInv, OwnerInv
  <1>2. HvRuns /\ proc[p].name \notin hvCells
    BY Zenon DEF DriverInv, ProgressInv, Doing
  <1>3. CellCpus[proc[p].name] \in SUBSET Cpus /\ proc[p].todo \in SUBSET Cpus
    BY Zenon, <1>1, DriverAssumption DEF DriverTypeOK
  <1>4. QED
    BY Zenon, <1>1, <1>2, <1>3

\* A loop step that changes no more than CPUs.
LEMMA LoopKeeps ==
  ASSUME DriverInv, NEW p \in Procs, NEW s \in {"down", "undo", "back"},
         NEW t \in SUBSET Cpus, proc[p].pc \in {"down", "undo", "back"}, Go2(p, s, t),
         UNCHANGED <<loaded, refs, enabled, hv, books, snap, mutex>>,
         cpuOnline' \subseteq Cpus, offlined' \subseteq Cpus, rootCpus' \subseteq Cpus,
         ProgressInv(p)'
  PROVE  DriverInv'
  <1>1. /\ DriverTypeOK /\ OwnerInv /\ loaded /\ HvRuns /\ proc[p].name \in Names
    BY Zenon, WorkingFacts
  <1>2. s \in DriverPositions
    BY Zenon DEF DriverPositions
  <1>3. proc' \in [Procs -> [pc : DriverPositions, op : DriverPositions,
                             name : Names \cup {NoName}, todo : SUBSET Cpus]]
    BY Zenon, <1>1, <1>2, GoEffect
  <1>4. DriverTypeOK'
    BY Zenon, <1>1, <1>3 DEF DriverTypeOK, hv, books
  <1>5. UNCHANGED <<mutex, loaded>> /\ (refs' => loaded') /\ (~enabled => offlined = {})'
    BY Zenon, <1>1 DEF HvRuns
  <1>6. QED
    BY Zenon, <1>1, <1>4, <1>5, GoKeeps

\* The hypervisor runs until a step changes it.
LEMMA HvStays ==
  ASSUME HvRuns, UNCHANGED <<refs, enabled, hvOn, hvMapped, rootListed>>
  PROVE  HvRuns'
  BY DEF HvRuns

\* The CPUs of the new cell leave Linux and the root cell one by one.
LEMMA CreateCpuDownStep ==
  ASSUME DriverInv, NEW p \in Procs, NEW c \in Cpus, CreateCpuDown(p, c)
  PROVE  DriverInv'
  <1> DEFINE n == proc[p].name
  <1>1. /\ proc[p].pc = "down" /\ c \in proc[p].todo
        /\ UNCHANGED <<loaded, refs, enabled, hv, books, snap, mutex>>
        /\ UNCHANGED <<refs, enabled, hvOn, hvMapped, hvCells, rootListed, listed, objects, snap>>
    BY Zenon DEF CreateCpuDown, Doing, hv, books
  <1>2. /\ DriverTypeOK /\ HvRuns /\ n \in Names /\ n \notin hvCells
        /\ CellCpus[n] \in SUBSET Cpus /\ proc[p].todo \in SUBSET Cpus
    BY Zenon, <1>1, WorkingFacts
  <1>3. /\ listed = hvCells /\ objects = hvCells \cup {n} /\ Split(hvCells, CellCpus[n])
        /\ proc[p].todo = rootCpus \cap CellCpus[n]
    BY Zenon, <1>1 DEF DriverInv, ProgressInv, Doing
  <1>4. "down" \in DriverPositions /\ "undo" \in DriverPositions
    BY Zenon DEF DriverPositions
  <1>5. CASE /\ cpuOnline' = cpuOnline \ {c} /\ rootCpus' = rootCpus \ {c}
             /\ offlined' = IF c \in cpuOnline THEN offlined \cup {c} ELSE offlined
             /\ Go2(p, "down", proc[p].todo \ {c})
    <2>1. proc'[p].pc = "down" /\ proc'[p].todo = proc[p].todo \ {c} /\ proc'[p].name = n
      BY <1>2, <1>4, <1>5, GoEffect
    <2>2. Split(hvCells, CellCpus[n])'
      BY Zenon, <1>1, <1>3, <1>5, <2>1 DEF Split
    <2>3. ProgressInv(p)'
      <3>0. HvRuns'
        BY Zenon, <1>1, <1>2, HvStays
      <3>1. /\ listed' = hvCells' /\ n \notin hvCells'
            /\ objects' = hvCells' \cup {n}
        BY Zenon, <1>1, <1>2, <1>3
      <3>2. proc'[p].todo = rootCpus' \cap CellCpus[n]
        BY Zenon, <1>3, <1>5, <2>1
      <3>3. QED
        BY Zenon, <2>1, <2>2, <3>0, <3>1, <3>2 DEF ProgressInv, Doing
    <2>4. cpuOnline' \subseteq Cpus /\ offlined' \subseteq Cpus /\ rootCpus' \subseteq Cpus
      BY Zenon, <1>2, <1>5 DEF DriverTypeOK
    <2>5. QED
      BY SMTT(30), <1>1, <1>2, <1>5, <2>3, <2>4, LoopKeeps
  <1>6. CASE /\ c \in cpuOnline /\ Go2(p, "undo", CellCpus[n])
             /\ UNCHANGED <<cpuOnline, offlined, rootCpus>>
    <2>1. proc'[p].pc = "undo" /\ proc'[p].todo = CellCpus[n] /\ proc'[p].name = n
      BY SMTT(60), <1>2, <1>4, <1>6, GoEffect
    <2>2. Split(hvCells, CellCpus[n])'
      BY Zenon, <1>1, <1>3, <1>6, <2>1 DEF Split
    <2>3. ProgressInv(p)'
      <3>0. HvRuns'
        BY Zenon, <1>1, <1>2, HvStays
      <3>1. /\ listed' = hvCells' /\ n \notin hvCells'
            /\ objects' = hvCells' \cup {n}
        BY Zenon, <1>1, <1>2, <1>3
      <3>3. QED
        BY Zenon, <2>1, <2>2, <3>0, <3>1 DEF ProgressInv, Doing
    <2>4. cpuOnline' \subseteq Cpus /\ offlined' \subseteq Cpus /\ rootCpus' \subseteq Cpus
      BY Zenon, <1>2, <1>6 DEF DriverTypeOK
    <2>5. QED
      BY Zenon, <1>1, <1>2, <1>6, <2>3, <2>4, LoopKeeps
  <1>7. QED
    BY Zenon, <1>5, <1>6 DEF CreateCpuDown

\* The hypercall succeeds or fails as a whole.
LEMMA CreateCallStep ==
  ASSUME DriverInv, NEW p \in Procs, CreateCall(p)
  PROVE  DriverInv'
  <1> DEFINE n == proc[p].name
  <1>1. /\ proc[p].pc = "down" /\ proc[p].todo = {}
        /\ UNCHANGED <<loaded, refs, enabled, hvOn, hvMapped, rootListed, objects,
                       cpuOnline, offlined, rootCpus, snap>>
    BY Zenon DEF CreateCall, Doing, cpuVars
  <1>2. /\ DriverTypeOK /\ OwnerInv /\ loaded /\ HvRuns /\ n \in Names /\ n \notin hvCells
        /\ CellCpus[n] \in SUBSET Cpus
    BY Zenon, <1>1, WorkingFacts
  <1>3. /\ listed = hvCells /\ objects = hvCells \cup {n} /\ Split(hvCells, CellCpus[n])
        /\ rootCpus \cap CellCpus[n] = {}
    BY Zenon, <1>1 DEF DriverInv, ProgressInv, Doing
  <1>4. CASE hvCells' = hvCells \cup {n} /\ listed' = listed \cup {n} /\ Unlock(p)
    <2>1. DriverTypeOK'
      BY Zenon, <1>1, <1>2, <1>4, UnlockEffect DEF DriverTypeOK
    <2>2. Split(hvCells, {})'
      BY Zenon, <1>1, <1>3, <1>4 DEF Split
    <2>3. HvRuns' /\ refs' /\ enabled' /\ loaded'
      BY Zenon, <1>1, <1>2 DEF HvRuns
    <2>4. QED
      BY Zenon, <1>1, <1>3, <1>4, <2>1, <2>2, <2>3, DoneKeeps
  <1>5. CASE Go2(p, "undo", CellCpus[n]) /\ UNCHANGED <<hvCells, listed, mutex>>
    <2>1. "undo" \in DriverPositions
      BY Zenon DEF DriverPositions
    <2>2. proc'[p].pc = "undo" /\ proc'[p].todo = CellCpus[n] /\ proc'[p].name = n
      BY SMTT(60), <1>2, <1>5, <2>1, GoEffect
    <2>3. Split(hvCells, CellCpus[n])'
      BY Zenon, <1>1, <1>3, <1>5, <2>2 DEF Split
    <2>4. ProgressInv(p)'
      BY Zenon, <1>1, <1>2, <1>3, <1>5, <2>2, <2>3 DEF ProgressInv, Doing, HvRuns
    <2>5. cpuOnline' \subseteq Cpus /\ offlined' \subseteq Cpus /\ rootCpus' \subseteq Cpus
      BY Zenon, <1>1, <1>2 DEF DriverTypeOK
    <2>6. QED
      BY Zenon, <1>1, <1>2, <1>5, <2>4, <2>5, LoopKeeps DEF hv, books
  <1>6. QED
    BY Zenon, <1>4, <1>5 DEF CreateCall

\* A failed creation gives the CPUs back to the root cell, online or not ...
LEMMA CreateUndoStep ==
  ASSUME DriverInv, NEW p \in Procs, NEW c \in Cpus, CreateUndo(p, c)
  PROVE  DriverInv'
  <1> DEFINE n == proc[p].name
  <1>1. /\ proc[p].pc = "undo" /\ c \in proc[p].todo /\ rootCpus' = rootCpus \cup {c}
        /\ Go2(p, "undo", proc[p].todo \ {c})
        /\ UNCHANGED <<loaded, refs, enabled, hv, books, snap, mutex>>
        /\ UNCHANGED <<refs, enabled, hvOn, hvMapped, hvCells, rootListed, listed, objects, snap>>
    BY Zenon DEF CreateUndo, Doing, hv, books
  <1>2. /\ DriverTypeOK /\ HvRuns /\ n \in Names /\ n \notin hvCells
        /\ proc[p].todo \in SUBSET Cpus
    BY Zenon, <1>1, WorkingFacts
  <1>3. /\ listed = hvCells /\ objects = hvCells \cup {n} /\ Split(hvCells, proc[p].todo)
    BY Zenon, <1>1 DEF DriverInv, ProgressInv, Doing
  <1>4. "undo" \in DriverPositions
    BY Zenon DEF DriverPositions
  <1>5. proc'[p].pc = "undo" /\ proc'[p].todo = proc[p].todo \ {c} /\ proc'[p].name = n
    BY SMTT(30), <1>1, <1>2, <1>4, GoEffect
  <1>6. Split(hvCells, proc[p].todo)'
    BY SMTT(30), <1>1, <1>3, <1>5 DEF Split
  <1>7. ProgressInv(p)'
    <2>0. HvRuns'
      BY Zenon, <1>1, <1>2, HvStays
    <2>1. listed' = hvCells' /\ n \notin hvCells' /\ objects' = hvCells' \cup {n}
      BY Zenon, <1>1, <1>2, <1>3
    <2>2. QED
      BY Zenon, <1>5, <1>6, <2>0, <2>1 DEF ProgressInv, Doing
  <1>8. cpuOnline' \subseteq Cpus /\ offlined' \subseteq Cpus /\ rootCpus' \subseteq Cpus
    BY Zenon, <1>1, <1>2 DEF DriverTypeOK, CreateUndo
  <1>9. QED
    BY Zenon, <1>1, <1>2, <1>7, <1>8, LoopKeeps

\* ... and deletes the object.
LEMMA CreateFailedStep ==
  ASSUME DriverInv, NEW p \in Procs, CreateFailed(p)
  PROVE  DriverInv'
  <1> DEFINE n == proc[p].name
  <1>1. /\ proc[p].pc = "undo" /\ proc[p].todo = {} /\ objects' = objects \ {n} /\ Unlock(p)
        /\ UNCHANGED <<loaded, refs, enabled, hvOn, hvMapped, hvCells, rootListed, listed,
                       cpuOnline, offlined, rootCpus, snap>>
    BY Zenon DEF CreateFailed, Doing, hv, cpuVars
  <1>2. DriverTypeOK /\ loaded /\ HvRuns /\ n \notin hvCells
    BY Zenon, <1>1, WorkingFacts
  <1>3. listed = hvCells /\ objects = hvCells \cup {n} /\ Split(hvCells, {})
    BY Zenon, <1>1 DEF DriverInv, ProgressInv, Doing
  <1>4. DriverTypeOK'
    BY Zenon, <1>1, <1>2, UnlockEffect DEF DriverTypeOK
  <1>5. Split(hvCells, {})' /\ HvRuns' /\ enabled' /\ loaded' /\ objects' = hvCells'
    BY Zenon, <1>1, <1>2, <1>3 DEF Split, HvRuns
  <1>6. QED
    BY Zenon, <1>1, <1>3, <1>4, <1>5, DoneKeeps

\* Destroying: the cell is gone, its CPUs are under way to the root cell ...
LEMMA DestroyCallStep ==
  ASSUME DriverInv, NEW p \in Procs, DestroyCall(p)
  PROVE  DriverInv'
  <1> DEFINE n == proc[p].name
  <1>1. /\ proc[p].pc = "call" /\ proc[p].op = "destroy" /\ hvCells' = hvCells \ {n}
        /\ Go2(p, "back", CellCpus[n])
        /\ UNCHANGED <<loaded, refs, enabled, hvOn, hvMapped, rootListed, listed, objects,
                       cpuOnline, offlined, rootCpus, snap, mutex>>
    BY Zenon DEF DestroyCall, Doing, books, cpuVars
  <1>2. DriverTypeOK /\ OwnerInv /\ loaded /\ ~Midway /\ enabled /\ n \in listed
    BY Zenon, <1>1, NotMidway DEF DriverInv, OwnerInv, ProgressInv, Doing
  <1>3. HvRuns /\ Split(hvCells, {}) /\ listed = hvCells /\ objects = hvCells
    BY Zenon, <1>2 DEF DriverInv, HvAbsent
  <1>4. "back" \in DriverPositions /\ n \in Names /\ CellCpus[n] \in SUBSET Cpus
    BY Zenon, <1>2, DriverAssumption DEF DriverPositions, DriverTypeOK
  <1>5. /\ proc' \in [Procs -> [pc : DriverPositions, op : DriverPositions,
                                name : Names \cup {NoName}, todo : SUBSET Cpus]]
        /\ proc'[p].pc = "back" /\ proc'[p].todo = CellCpus[n] /\ proc'[p].name = n
    BY <1>1, <1>2, <1>4, GoEffect
  <1>6. DriverTypeOK'
    BY Zenon, <1>1, <1>2, <1>5 DEF DriverTypeOK
  <1>7. Split(hvCells, CellCpus[n])'
    BY Zenon, <1>1, <1>2, <1>3, <1>5 DEF Split
  <1>8. ProgressInv(p)'
    BY Zenon, <1>1, <1>2, <1>3, <1>5, <1>7 DEF ProgressInv, Doing, HvRuns
  <1>9. QED
    BY Zenon, <1>1, <1>2, <1>4, <1>6, <1>8, GoKeeps DEF HvRuns

\* ... one by one ...
LEMMA DestroyCpuUpStep ==
  ASSUME DriverInv, NEW p \in Procs, NEW c \in Cpus, DestroyCpuUp(p, c)
  PROVE  DriverInv'
  <1> DEFINE n == proc[p].name
  <1>1. /\ proc[p].pc = "back" /\ c \in proc[p].todo /\ rootCpus' = rootCpus \cup {c}
        /\ Go2(p, "back", proc[p].todo \ {c})
        /\ UNCHANGED <<loaded, refs, enabled, hv, books, snap, mutex>>
        /\ UNCHANGED <<refs, enabled, hvOn, hvMapped, hvCells, rootListed, listed, objects, snap>>
    BY Zenon DEF DestroyCpuUp, Doing, hv, books
  <1>2. /\ DriverTypeOK /\ HvRuns /\ n \in Names /\ n \notin hvCells
        /\ proc[p].todo \in SUBSET Cpus
    BY Zenon, <1>1, WorkingFacts
  <1>3. /\ listed = hvCells \cup {n} /\ objects = listed /\ Split(hvCells, proc[p].todo)
    BY Zenon, <1>1 DEF DriverInv, ProgressInv, Doing
  <1>4. "back" \in DriverPositions
    BY Zenon DEF DriverPositions
  <1>5. proc'[p].pc = "back" /\ proc'[p].todo = proc[p].todo \ {c} /\ proc'[p].name = n
    BY SMTT(30), <1>1, <1>2, <1>4, GoEffect
  <1>6. Split(hvCells, proc[p].todo)'
    BY SMTT(30), <1>1, <1>3, <1>5 DEF Split
  <1>7. ProgressInv(p)'
    <2>0. HvRuns'
      BY Zenon, <1>1, <1>2, HvStays
    <2>1. listed' = hvCells' \cup {n} /\ n \notin hvCells' /\ objects' = listed'
      BY Zenon, <1>1, <1>2, <1>3
    <2>2. QED
      BY Zenon, <1>5, <1>6, <2>0, <2>1 DEF ProgressInv, Doing
  <1>8. cpuOnline' \subseteq Cpus /\ offlined' \subseteq Cpus /\ rootCpus' \subseteq Cpus
    BY Zenon, <1>1, <1>2 DEF DriverTypeOK, DestroyCpuUp
  <1>9. QED
    BY Zenon, <1>1, <1>2, <1>7, <1>8, LoopKeeps

\* ... and the cell leaves the list.
LEMMA DestroyDoneStep ==
  ASSUME DriverInv, NEW p \in Procs, DestroyDone(p)
  PROVE  DriverInv'
  <1> DEFINE n == proc[p].name
  <1>1. /\ proc[p].pc = "back" /\ proc[p].todo = {} /\ Unlock(p)
        /\ listed' = listed \ {n} /\ objects' = objects \ {n}
        /\ UNCHANGED <<loaded, refs, enabled, hvOn, hvMapped, hvCells, rootListed,
                       cpuOnline, offlined, rootCpus, snap>>
    BY Zenon DEF DestroyDone, Doing, hv, cpuVars
  <1>2. DriverTypeOK /\ loaded /\ HvRuns /\ n \notin hvCells
    BY Zenon, <1>1, WorkingFacts
  <1>3. listed = hvCells \cup {n} /\ objects = listed /\ Split(hvCells, {})
    BY Zenon, <1>1 DEF DriverInv, ProgressInv, Doing
  <1>4. DriverTypeOK'
    BY Zenon, <1>1, <1>2, UnlockEffect DEF DriverTypeOK
  <1>5. Split(hvCells, {})' /\ HvRuns' /\ enabled' /\ loaded' /\ objects' = hvCells'
        /\ listed' = hvCells'
    BY Zenon, <1>1, <1>2, <1>3 DEF Split, HvRuns
  <1>6. QED
    BY Zenon, <1>1, <1>3, <1>4, <1>5, DoneKeeps

\* The administrator and the module loader do not touch the books.
LEMMA OutsideStep ==
  ASSUME DriverInv, (\E c \in Cpus : Hotplug(c)) \/ jailhouse_exit \/ jailhouse_init
  PROVE  DriverInv'
  <1>1. /\ UNCHANGED <<refs, enabled, hvOn, hvMapped, hvCells, rootListed, listed, objects>>
        /\ UNCHANGED <<offlined, rootCpus, snap, mutex, proc>>
    BY Zenon DEF Hotplug, jailhouse_exit, jailhouse_init, hv, books, cpuVars
  <1>2. DriverTypeOK /\ OwnerInv
    BY Zenon DEF DriverInv
  <1>3. cpuOnline' \subseteq Cpus
    BY Zenon, <1>2 DEF DriverTypeOK, Hotplug, jailhouse_exit, jailhouse_init, cpuVars
  <1>4. DriverTypeOK'
    BY Zenon, <1>1, <1>2, <1>3 DEF DriverTypeOK
  <1>5. /\ loaded /\ ~loaded' => ~refs /\ \A p \in Procs : proc[p].pc = "none"
        /\ loaded' \/ ~loaded \/ (~refs /\ \A p \in Procs : proc[p].pc = "none")
    <2>1. CASE \E c \in Cpus : Hotplug(c)
      <3>1. loaded' = loaded
        BY Zenon, <2>1 DEF Hotplug
      <3>2. QED
        BY <3>1
    <2>2. CASE jailhouse_exit
      BY Zenon, <2>2 DEF jailhouse_exit, Doing
    <2>3. CASE jailhouse_init
      BY Zenon, <2>3 DEF jailhouse_init
    <2>4. QED
      BY Zenon, <2>1, <2>2, <2>3
  <1>6. OwnerInv'
    BY Zenon, <1>1, <1>2, <1>5 DEF OwnerInv
  <1>7. \A p \in Procs : ProgressInv(p)'
    BY ZenonT(40), <1>1 DEF DriverInv, ProgressInv, Doing, HvRuns, Split
  <1>8. (~enabled => offlined = {})' /\ Midway' = Midway
    BY Zenon, <1>1 DEF DriverInv, Midway
  <1>9. (HvAbsent \/ (HvRuns /\ Split(hvCells, {})))' = (HvAbsent \/ (HvRuns /\ Split(hvCells, {})))
    BY Zenon, <1>1 DEF HvAbsent, HvRuns, Split
  <1>10. QED
    BY Zenon, <1>1, <1>4, <1>6, <1>7, <1>8, <1>9 DEF DriverInv

\* Before the first ioctl.
LEMMA DriverStart == DriverInit => DriverInv
  <1> SUFFICES ASSUME DriverInit PROVE DriverInv
    OBVIOUS
  <1>1. \A p \in Procs : proc[p].pc = "none"
    BY Zenon DEF DriverInit, Resting
  <1>2. DriverTypeOK
    BY Zenon DEF DriverInit, Resting, DriverTypeOK, DriverPositions
  <1>3. OwnerInv
    BY Zenon, <1>1 DEF OwnerInv, DriverInit
  <1>4. HvAbsent /\ listed = hvCells /\ objects = hvCells /\ offlined = {}
    BY Zenon DEF HvAbsent, DriverInit
  <1>5. \A p \in Procs : ProgressInv(p)
    BY Zenon, <1>1 DEF ProgressInv, Doing
  <1>6. QED
    BY Zenon, <1>2, <1>3, <1>4, <1>5 DEF DriverInv

\* Every step keeps what each position owes to the books.
LEMMA DriverStep == DriverInv /\ [DriverNext]_driverVars => DriverInv'
  <1> SUFFICES ASSUME DriverInv, [DriverNext]_driverVars PROVE DriverInv'
    OBVIOUS
  <1>1. ASSUME NEW p \in Procs, Ioctl(p) \/ jailhouse_shutdown_notify(p)
        PROVE  DriverInv'
    <2>1. CASE \E o \in {"enable", "disable", "info", "create", "load", "start", "destroy"} :
                 \E n \in Names \cup {NoName} : jailhouse_ioctl(p, o, n)
      BY Zenon, <2>1, IoctlStep
    <2>2. CASE jailhouse_shutdown_notify(p)
      BY Zenon, <2>2, IoctlStep DEF jailhouse_shutdown_notify
    <2>3. CASE \E c \in Cpus : DisableCpuUp(p, c) \/ CreateCpuDown(p, c)
                               \/ CreateUndo(p, c) \/ DestroyCpuUp(p, c)
      BY Zenon, <2>3, DisableCpuUpStep, CreateCpuDownStep, CreateUndoStep, DestroyCpuUpStep
    <2>4. CASE GiveUp(p) \/ CallDone(p) \/ cell_management_prologue(p)
      BY Zenon, <2>4, GiveUpStep, PrologueStep
    <2>5. CASE EnablePrepare(p) \/ EnableDone(p) \/ DisableLeave(p) \/ DisableDone(p)
      BY Zenon, <2>5, EnablePrepareStep, EnableDoneStep, DisableLeaveStep, DisableDoneStep
    <2>6. CASE CreateObject(p) \/ CreateCall(p) \/ CreateFailed(p)
      BY Zenon, <2>6, CreateObjectStep, CreateCallStep, CreateFailedStep
    <2>7. CASE DestroyCall(p) \/ DestroyDone(p)
      BY Zenon, <2>7, DestroyCallStep, DestroyDoneStep
    <2>8. QED
      BY Zenon, <1>1, <2>1, <2>2, <2>3, <2>4, <2>5, <2>6, <2>7 DEF Ioctl
  <1>2. CASE UNCHANGED driverVars
    <2>1. /\ UNCHANGED <<loaded, refs, enabled, hvOn, hvMapped, hvCells, rootListed, listed>>
          /\ UNCHANGED <<objects, cpuOnline, offlined, rootCpus, snap, mutex, proc>>
      BY Zenon, <1>2 DEF driverVars, hv, books, cpuVars
    <2>2. DriverTypeOK' /\ OwnerInv'
      BY Zenon, <2>1 DEF DriverInv, DriverTypeOK, OwnerInv
    <2>3. (\A p \in Procs : ProgressInv(p))'
      BY ZenonT(40), <2>1 DEF DriverInv, ProgressInv, Doing, HvRuns, Split
    <2>4. (~Midway => listed = hvCells /\ objects = hvCells
                      /\ (HvAbsent \/ (HvRuns /\ Split(hvCells, {}))))'
      BY Zenon, <2>1 DEF DriverInv, Midway, HvAbsent, HvRuns, Split
    <2>5. QED
      BY Zenon, <2>1, <2>2, <2>3, <2>4 DEF DriverInv
  <1>3. QED
    BY Zenon, <1>1, <1>2, OutsideStep DEF DriverNext

\* The invariant says that the driver is consistent.
LEMMA DriverConclusion == DriverInv => DriverConsistent
  <1> SUFFICES ASSUME DriverInv PROVE DriverConsistent
    OBVIOUS
  <1>1. DriverTypeOK /\ OwnerInv
    BY Zenon DEF DriverInv
  <1>2. mutex = NoProc => ~Midway
    BY Zenon, <1>1, DriverAssumption DEF OwnerInv, Midway
  <1>3. BooksAgree
    BY SMTT(30), <1>1, <1>2 DEF BooksAgree, DriverInv, HvAbsent, HvRuns, DriverTypeOK, OwnerInv
  <1>4. mutex = NoProc /\ enabled => Split(listed, {}) /\ listed \subseteq Names
    BY ZenonT(40), <1>1, <1>2 DEF DriverInv, HvAbsent, DriverTypeOK
  <1>5. CpusPartitioned
    <2> SUFFICES ASSUME mutex = NoProc, enabled
                 PROVE  /\ rootCpus \cup UNION {CellCpus[n] : n \in listed} = snap
                        /\ \A n \in listed : CellCpus[n] \cap rootCpus = {}
                        /\ \A n \in listed : \A k \in listed \ {n} :
                              CellCpus[n] \cap CellCpus[k] = {}
      BY Zenon DEF CpusPartitioned
    <2>1. rootCpus \subseteq Cpus /\ snap \subseteq Cpus /\ \A n \in listed : CellCpus[n] \subseteq Cpus
      BY Zenon, <1>1, <1>4, DriverAssumption DEF DriverTypeOK
    <2>2. \A c \in Cpus : c \in snap <=> c \in rootCpus \/ \E n \in listed : c \in CellCpus[n]
      BY Zenon, <1>4 DEF Split
    <2>3. QED
      BY <1>4, <2>1, <2>2 DEF Split
  <1>6. OfflinedReturned
    BY Zenon DEF OfflinedReturned, DriverInv
  <1>7. HypercallInHypervisor
    <2> SUFFICES ASSUME NEW p \in Procs, proc[p].pc \in {"call", "down"} PROVE hvOn
      BY Zenon DEF HypercallInHypervisor
    <2>1. CASE proc[p].pc = "down"
      BY Zenon, <2>1, WorkingFacts DEF HvRuns
    <2>2. CASE proc[p].pc = "call"
      <3>1. ~Midway /\ enabled
        BY Zenon, <2>2, NotMidway DEF DriverInv, ProgressInv, Doing
      <3>2. QED
        BY Zenon, <3>1 DEF DriverInv, HvAbsent, HvRuns
    <2>3. QED
      BY Zenon, <2>1, <2>2
  <1>8. QED
    BY Zenon, <1>3, <1>5, <1>6, <1>7 DEF DriverConsistent

\* Between any two ioctls of any number of processes the driver's books agree
\* with the hypervisor and with Linux, whichever steps failed, and no hypercall
\* misses its hypervisor.
THEOREM DriverIsConsistent == DriverSpec => []DriverConsistent
  <1>1. DriverInit => DriverInv
    BY Zenon, DriverStart
  <1>2. DriverInv /\ [DriverNext]_driverVars => DriverInv'
    BY Zenon, DriverStep
  <1>3. DriverInv => DriverConsistent
    BY Zenon, DriverConclusion
  <1>4. QED
    BY <1>1, <1>2, <1>3, PTL DEF DriverSpec

=============================================================================
