--------------------------- MODULE CellManagement ---------------------------
(***************************************************************************)
(* The management hypercalls: which cells exist, which memory they own, and*)
(* what they are told through their communication regions. One hypercall   *)
(* runs at a time (the driver's mutex), with the root cell suspended; the  *)
(* other cells keep running beside it, and read and write the fields of    *)
(* their communication region whenever they like. CpuControl models how    *)
(* CPUs are suspended and reset; here a cell simply runs or does not.      *)
(***************************************************************************)
EXTENDS FiniteSets

CONSTANTS
  Cell,          \* the non-root cells there are configurations for
  Root,          \* the root cell
  Region,        \* memory regions
  Mem,           \* the regions of each cell's configuration
  Loadable,      \* those of them with JAILHOUSE_MEM_LOADABLE
  RootMem,       \* the regions that are part of the root cell's configuration
  MayBePassive   \* cells that may have a configuration with
                 \* JAILHOUSE_CELL_PASSIVE_COMMREG

ASSUME ConstAssumption ==
  /\ IsFiniteSet(Cell)
  /\ Root \notin Cell
  /\ IsFiniteSet(Region)
  /\ Mem \in [Cell -> SUBSET Region]
  /\ Loadable \in [Cell -> SUBSET Region]
  /\ \A k \in Cell : Loadable[k] \subseteq Mem[k]
  /\ RootMem \subseteq Region
  /\ MayBePassive \subseteq Cell

AllCells == Cell \union {Root}
States == {"RUNNING", "RUNNING_LOCKED", "SHUT_DOWN", "FAILED"}
Messages == {"NONE", "SHUTDOWN_REQUEST", "RECONFIG_COMPLETED"}
Replies == {"NONE", "UNKNOWN", "REQUEST_DENIED", "REQUEST_APPROVED", "RECEIVED"}
Ops == {"create", "start", "set_loadable", "destroy", "disable", "none"}
Positions == {"idle", "check", "ask", "wait", "map", "undo", "unmap", "run",
              "park", "remap", "commit", "unlink", "notify", "inform", "resume",
              "off"}

VARIABLES
  linked,           \* the cells in root_cell's list
  passive,          \* the cells created with JAILHOUSE_CELL_PASSIVE_COMMREG
  loadable,         \* cell->loadable
  cell_state,       \* comm_region.cell_state
  msg_to_cell,      \* comm_region.msg_to_cell
  reply_from_cell,  \* comm_region.reply_from_cell
  mapped,           \* the regions in each cell's paging structures
  stale,            \* regions unmapped from the root cell but not committed
  lost,             \* history: regions the root cell did not get back because
                    \* mapping them failed
  running,          \* the cell's CPUs execute the cell
  saw,              \* the message the cell is about to answer
  cleared,          \* it has cleared msg_to_cell already
  consent,          \* history: the cell approved the request of this hypercall
  mpc,              \* position of the hypercall
  op,               \* which one it is
  mcell,            \* its cell
  todo,             \* regions it still has to treat
  rest,             \* cells it still has to send a message to
  denied,           \* disable: a cell did not agree
  ret               \* its result, "ok" or "error"

comm == <<cell_state, msg_to_cell, reply_from_cell>>
guest == <<running, saw, cleared, consent>>
memory == <<mapped, stale, lost>>
call == <<op, mcell>>
loops == <<todo, rest, denied>>
vars == <<linked, passive, loadable, cell_state, msg_to_cell, reply_from_cell,
          mapped, stale, lost, running, saw, cleared, consent, mpc, op, mcell,
          todo, rest, denied, ret>>

\* Every field has a value of its type. In particular the hypervisor sends its
\* messages to non-root cells only: the root cell has no communication region.
TypeOK ==
  /\ linked \in SUBSET Cell
  /\ passive \in SUBSET Cell
  /\ loadable \in [Cell -> BOOLEAN]
  /\ cell_state \in [Cell -> States]
  /\ msg_to_cell \in [Cell -> Messages]
  /\ reply_from_cell \in [Cell -> Replies]
  /\ mapped \in [AllCells -> SUBSET Region]
  /\ stale \in SUBSET Region
  /\ lost \in SUBSET Region
  /\ running \in [Cell -> BOOLEAN]
  /\ saw \in [Cell -> Messages]
  /\ cleared \in [Cell -> BOOLEAN]
  /\ consent \in [Cell -> BOOLEAN]
  /\ mpc \in Positions
  /\ op \in Ops
  /\ mcell \in AllCells
  /\ todo \in SUBSET Region
  /\ rest \in SUBSET Cell
  /\ denied \in BOOLEAN
  /\ ret \in {"ok", "error"}

Init ==
  /\ linked = {}
  /\ passive = {}
  /\ loadable = [k \in Cell |-> FALSE]
  /\ cell_state = [k \in Cell |-> "RUNNING"]
  /\ msg_to_cell = [k \in Cell |-> "NONE"]
  /\ reply_from_cell = [k \in Cell |-> "NONE"]
  /\ mapped = [k \in AllCells |-> IF k = Root THEN RootMem ELSE {}]
  /\ stale = {}
  /\ lost = {}
  /\ running = [k \in Cell |-> FALSE]
  /\ saw = [k \in Cell |-> "NONE"]
  /\ cleared = [k \in Cell |-> FALSE]
  /\ consent = [k \in Cell |-> FALSE]
  /\ mpc = "idle"
  /\ op = "none"
  /\ mcell = Root
  /\ todo = {}
  /\ rest = {}
  /\ denied = FALSE
  /\ ret = "ok"

-----------------------------------------------------------------------------
(***************************************************************************)
(* Shared pieces of the hypercalls.                                        *)
(***************************************************************************)
Terminal(k) == cell_state[k] \in {"SHUT_DOWN", "FAILED"}

\* cell_reconfig_ok: no cell but the excluded ones holds the lock.
cell_reconfig_ok(excluded) ==
  \A k \in linked \ excluded : cell_state[k] # "RUNNING_LOCKED"

\* jailhouse_send_msg_to_cell.
jailhouse_send_msg_to_cell(k, message) ==
  /\ reply_from_cell' = [reply_from_cell EXCEPT ![k] = "NONE"]
  /\ msg_to_cell' = [msg_to_cell EXCEPT ![k] = message]
  /\ UNCHANGED cell_state

\* The exits of the loop in cell_send_message. The reply is read before the
\* state, but only the state of a cell that is gone ends the wait early.
Agreed(k) == Terminal(k) \/ reply_from_cell[k] = "REQUEST_APPROVED"

\* Mutant: a wait for any reply does not notice that the cell is gone.
AnsweredReplyOnly(k) == reply_from_cell[k] # "NONE"

Answered(k) == Terminal(k) \/ reply_from_cell[k] # "NONE"

\* arch_unmap_memory_region on the root cell: until the next commit its CPUs
\* may still use the translation.
UnmapFromRoot(r) ==
  /\ mapped' = [mapped EXCEPT ![Root] = @ \ {r}]
  /\ stale' = IF r \in mapped[Root] THEN stale \union {r} ELSE stale
  /\ UNCHANGED lost

\* What cell_destroy_internal leaves in the paging structures: every region of
\* the cell goes back to the root cell if it came from there, except those
\* whose mapping fails (a warning only). The commit is part of it.
GiveBack(k, failing) ==
  /\ mapped' = [mapped EXCEPT ![k] = {},
                              ![Root] = @ \union
                                 ((Mem[k] \intersect RootMem) \ failing)]
  /\ stale' = {}
  /\ lost' = (lost \ Mem[k]) \union failing

-----------------------------------------------------------------------------
(***************************************************************************)
(* The hypercall starts on a root cell CPU and suspends the root cell.     *)
(***************************************************************************)
Hypercall(o, k) ==
  /\ mpc = "idle"
  /\ (o = "disable") <=> (k = Root)
  /\ op' = o
  /\ mcell' = k
  /\ mpc' = "check"
  /\ rest' = IF o = "disable" THEN linked ELSE {}
  /\ denied' = FALSE
  /\ UNCHANGED <<linked, passive, loadable, comm, memory, guest, todo, ret>>

\* cell_create refuses a locked configuration, a cell that exists and what
\* its other checks and allocations refuse; the others refuse a cell that does
\* not exist, cell_destroy a configuration another cell has locked.
Refuse ==
  /\ mpc = "check"
  /\ op # "disable"
  /\ \/ op = "create"
     \/ mcell \notin linked
     \/ op = "destroy" /\ ~cell_reconfig_ok({mcell})
  /\ ret' = "error"
  /\ mpc' = "resume"
  /\ UNCHANGED <<linked, passive, loadable, comm, memory, guest, call, loops>>

\* cell_create up to the assignment of the CPUs. The configuration comes with
\* the hypercall.
StartCreate ==
  /\ mpc = "check"
  /\ op = "create"
  /\ cell_reconfig_ok({})
  /\ mcell \notin linked
  /\ \/ mcell \in MayBePassive /\ passive' = passive \union {mcell}
     \/ passive' = passive \ {mcell}
  /\ todo' = Mem[mcell]
  /\ mpc' = "map"
  /\ UNCHANGED <<linked, loadable, comm, memory, guest, call, rest, denied,
                 ret>>

\* cell_management_prologue finds the cell.
StartManage ==
  /\ mpc = "check"
  /\ op \in {"start", "set_loadable", "destroy"}
  /\ mcell \in linked
  /\ op = "destroy" => cell_reconfig_ok({mcell})
  /\ rest' = {mcell}
  /\ mpc' = "ask"
  /\ UNCHANGED <<linked, passive, loadable, comm, memory, guest, call, todo,
                 denied, ret>>

StartDisable ==
  /\ mpc = "check"
  /\ op = "disable"
  /\ mpc' = "ask"
  /\ UNCHANGED <<linked, passive, loadable, comm, memory, guest, call, loops,
                 ret>>

-----------------------------------------------------------------------------
(***************************************************************************)
(* cell_shutdown_ok: of the cell to be managed, or of all for disable.     *)
(***************************************************************************)
\* Mutant: the old reply is still there.
AskKeepReply(k) ==
  /\ mpc = "ask"
  /\ k \in rest \ passive
  /\ msg_to_cell' = [msg_to_cell EXCEPT ![k] = "SHUTDOWN_REQUEST"]
  /\ consent' = [consent EXCEPT ![k] = FALSE]
  /\ mcell' = k
  /\ mpc' = "wait"
  /\ UNCHANGED <<linked, passive, loadable, cell_state, reply_from_cell,
                 memory, running, saw, cleared, op, loops, ret>>

Ask(k) ==
  /\ mpc = "ask"
  /\ k \in rest \ passive
  /\ jailhouse_send_msg_to_cell(k, "SHUTDOWN_REQUEST")
  /\ consent' = [consent EXCEPT ![k] = FALSE]
  /\ mcell' = k
  /\ mpc' = "wait"
  /\ UNCHANGED <<linked, passive, loadable, memory, running, saw, cleared, op,
                 loops, ret>>

\* A passive cell is not asked.
AskPassive(k) ==
  /\ mpc = "ask"
  /\ k \in rest \intersect passive
  /\ rest' = rest \ {k}
  /\ mcell' = k
  /\ UNCHANGED <<linked, passive, loadable, comm, memory, guest, mpc, op, todo,
                 denied, ret>>

WaitAgreed ==
  /\ mpc = "wait"
  /\ Agreed(mcell)
  /\ rest' = rest \ {mcell}
  /\ mpc' = "ask"
  /\ UNCHANGED <<linked, passive, loadable, comm, memory, guest, call, todo,
                 denied, ret>>

\* Any other reply is a denial.
WaitDenied ==
  /\ mpc = "wait"
  /\ ~Agreed(mcell)
  /\ Answered(mcell)
  /\ rest' = rest \ {mcell}
  /\ denied' = TRUE
  /\ mpc' = "ask"
  /\ UNCHANGED <<linked, passive, loadable, comm, memory, guest, call, todo,
                 ret>>

AskRefused ==
  /\ mpc = "ask"
  /\ rest = {}
  /\ denied
  /\ ret' = "error"
  /\ mpc' = "resume"
  /\ UNCHANGED <<linked, passive, loadable, comm, memory, guest, call, loops>>

\* The cells in ks stop, and are never continued where they were: their
\* CPUs are reset or parked, or stay suspended.
SuspendCells(ks) ==
  /\ running' = [k \in Cell |-> running[k] /\ k \notin ks]
  /\ saw' = [k \in Cell |-> IF k \in ks THEN "NONE" ELSE saw[k]]
  /\ cleared' = [k \in Cell |-> cleared[k] /\ k \notin ks]
  /\ UNCHANGED consent

\* The prologue ends with cell_suspend.
AskApproved ==
  /\ mpc = "ask"
  /\ rest = {}
  /\ ~denied
  /\ op # "disable"
  /\ SuspendCells({mcell})
  /\ todo' = IF op = "start" /\ loadable[mcell] THEN Loadable[mcell] ELSE {}
  /\ mpc' = CASE op = "start" -> IF loadable[mcell] THEN "unmap" ELSE "run"
              [] op = "set_loadable" -> "park"
              [] OTHER -> "undo"
  /\ UNCHANGED <<linked, passive, loadable, comm, memory, call, rest, denied,
                 ret>>

\* disable: all cells are suspended and the hypervisor goes away.
DisableApproved ==
  /\ mpc = "ask"
  /\ rest = {}
  /\ ~denied
  /\ op = "disable"
  /\ SuspendCells(Cell)
  /\ mpc' = "off"
  /\ UNCHANGED <<linked, passive, loadable, comm, memory, call, loops, ret>>

-----------------------------------------------------------------------------
(***************************************************************************)
(* cell_create: the regions change hands one by one. The configuration may *)
(* list them in any order.                                                 *)
(***************************************************************************)
MapRegion(r) ==
  /\ mpc = "map"
  /\ r \in todo
  /\ mapped' = [mapped EXCEPT ![Root] = @ \ {r}, ![mcell] = @ \union {r}]
  /\ stale' = IF r \in mapped[Root] THEN stale \union {r} ELSE stale
  /\ todo' = todo \ {r}
  /\ UNCHANGED <<linked, passive, loadable, comm, lost, guest, mpc, call, rest,
                 denied, ret>>

\* unmap_from_root_cell or arch_map_memory_region fails: err_destroy_cell.
MapFails(r, unmapped) ==
  /\ mpc = "map"
  /\ r \in todo
  /\ IF unmapped THEN UnmapFromRoot(r) ELSE UNCHANGED memory
  /\ ret' = "error"
  /\ mpc' = "undo"
  /\ UNCHANGED <<linked, passive, loadable, comm, guest, call, loops>>

\* The commit, then the cell is linked and reports itself shut down. Its
\* communication page comes zeroed from the pool.
CommitCreate ==
  /\ mpc = "map"
  /\ todo = {}
  /\ stale' = {}
  /\ cell_state' = [cell_state EXCEPT ![mcell] = "SHUT_DOWN"]
  /\ msg_to_cell' = [msg_to_cell EXCEPT ![mcell] = "NONE"]
  /\ reply_from_cell' = [reply_from_cell EXCEPT ![mcell] = "NONE"]
  /\ loadable' = [loadable EXCEPT ![mcell] = FALSE]
  /\ linked' = linked \union {mcell}
  /\ rest' = linked \union {mcell}
  /\ ret' = "ok"
  /\ mpc' = "notify"
  /\ UNCHANGED <<passive, mapped, lost, guest, call, todo, denied>>

-----------------------------------------------------------------------------
(***************************************************************************)
(* cell_destroy_internal, for cell_destroy and for a failed cell_create.   *)
(***************************************************************************)
\* Mutant: regions that were not mapped yet are not given back.
DestroyMapped ==
  /\ mpc = "undo"
  /\ mapped' = [mapped EXCEPT ![mcell] = {},
                              ![Root] = @ \union
                                 (mapped[mcell] \intersect RootMem)]
  /\ stale' = {}
  /\ mpc' = IF op = "create" THEN "resume" ELSE "unlink"
  /\ UNCHANGED <<linked, passive, lost, loadable, comm, guest, call, loops,
                 ret>>

cell_destroy_internal ==
  /\ mpc = "undo"
  /\ \E failing \in SUBSET (Mem[mcell] \intersect RootMem) :
       GiveBack(mcell, failing)
  /\ mpc' = IF op = "create" THEN "resume" ELSE "unlink"
  /\ UNCHANGED <<linked, passive, loadable, comm, guest, call, loops, ret>>

\* page_free on the pages of the cell. A new cell's pages are zeroed, so what
\* the fields of a free one hold does not matter.
FreeCell(k) ==
  /\ passive' = passive \ {k}
  /\ loadable' = [loadable EXCEPT ![k] = FALSE]
  /\ cell_state' = [cell_state EXCEPT ![k] = "RUNNING"]
  /\ msg_to_cell' = [msg_to_cell EXCEPT ![k] = "NONE"]
  /\ reply_from_cell' = [reply_from_cell EXCEPT ![k] = "NONE"]

\* Mutant: the loop over the cells does not leave out the root cell.
UnlinkNotifyRoot ==
  /\ mpc = "unlink"
  /\ linked' = linked \ {mcell}
  /\ rest' = (linked \ {mcell}) \union {Root}
  /\ FreeCell(mcell)
  /\ ret' = "ok"
  /\ mpc' = "notify"
  /\ UNCHANGED <<memory, guest, call, todo, denied>>

Unlink ==
  /\ mpc = "unlink"
  /\ linked' = linked \ {mcell}
  /\ rest' = linked \ {mcell}
  /\ FreeCell(mcell)
  /\ ret' = "ok"
  /\ mpc' = "notify"
  /\ UNCHANGED <<memory, guest, call, todo, denied>>

-----------------------------------------------------------------------------
(***************************************************************************)
(* cell_start.                                                             *)
(***************************************************************************)
UnmapLoadable(r) ==
  /\ mpc = "unmap"
  /\ r \in todo
  /\ UnmapFromRoot(r)
  /\ todo' = todo \ {r}
  /\ UNCHANGED <<linked, passive, loadable, comm, guest, mpc, call, rest,
                 denied, ret>>

\* out_resume: without a commit, with the cell suspended and still loadable.
UnmapFails(r) ==
  /\ mpc = "unmap"
  /\ r \in todo
  /\ ret' = "error"
  /\ mpc' = "resume"
  /\ UNCHANGED <<linked, passive, loadable, comm, memory, guest, call, loops>>

\* Mutant: the unmapping is not committed.
StartNoCommit ==
  /\ mpc = "unmap"
  /\ todo = {}
  /\ loadable' = [loadable EXCEPT ![mcell] = FALSE]
  /\ mpc' = "run"
  /\ UNCHANGED <<linked, passive, comm, memory, guest, call, loops, ret>>

CommitStart ==
  /\ mpc = "unmap"
  /\ todo = {}
  /\ stale' = {}
  /\ loadable' = [loadable EXCEPT ![mcell] = FALSE]
  /\ mpc' = "run"
  /\ UNCHANGED <<linked, passive, comm, mapped, lost, guest, call, loops, ret>>

\* Mutant: the message of the last exchange is left in the region.
RunKeepMessage ==
  /\ mpc = "run"
  /\ cell_state' = [cell_state EXCEPT ![mcell] = "RUNNING"]
  /\ running' = [running EXCEPT ![mcell] = TRUE]
  /\ saw' = [saw EXCEPT ![mcell] = "NONE"]
  /\ cleared' = [cleared EXCEPT ![mcell] = FALSE]
  /\ ret' = "ok"
  /\ mpc' = "resume"
  /\ UNCHANGED <<linked, passive, loadable, msg_to_cell, reply_from_cell,
                 memory, consent, call, loops>>

\* "present a consistent Communication Region state to the cell", then reset
\* its CPUs.
Run ==
  /\ mpc = "run"
  /\ cell_state' = [cell_state EXCEPT ![mcell] = "RUNNING"]
  /\ msg_to_cell' = [msg_to_cell EXCEPT ![mcell] = "NONE"]
  /\ running' = [running EXCEPT ![mcell] = TRUE]
  /\ saw' = [saw EXCEPT ![mcell] = "NONE"]
  /\ cleared' = [cleared EXCEPT ![mcell] = FALSE]
  /\ ret' = "ok"
  /\ mpc' = "resume"
  /\ UNCHANGED <<linked, passive, loadable, reply_from_cell, memory, consent,
                 call, loops>>

-----------------------------------------------------------------------------
(***************************************************************************)
(* cell_set_loadable.                                                      *)
(***************************************************************************)
\* The CPUs are parked; nothing else is done for a cell that is loadable.
Park ==
  /\ mpc = "park"
  /\ loadable[mcell]
  /\ ret' = "ok"
  /\ mpc' = "resume"
  /\ UNCHANGED <<linked, passive, loadable, comm, memory, guest, call, loops>>

\* Mutant: every region is mapped, not only those marked loadable.
MakeAllLoadable ==
  /\ mpc = "park"
  /\ ~loadable[mcell]
  /\ cell_state' = [cell_state EXCEPT ![mcell] = "SHUT_DOWN"]
  /\ loadable' = [loadable EXCEPT ![mcell] = TRUE]
  /\ todo' = Mem[mcell]
  /\ mpc' = "remap"
  /\ UNCHANGED <<linked, passive, msg_to_cell, reply_from_cell, memory, guest,
                 call, rest, denied, ret>>

MakeLoadable ==
  /\ mpc = "park"
  /\ ~loadable[mcell]
  /\ cell_state' = [cell_state EXCEPT ![mcell] = "SHUT_DOWN"]
  /\ loadable' = [loadable EXCEPT ![mcell] = TRUE]
  /\ todo' = Loadable[mcell]
  /\ mpc' = "remap"
  /\ UNCHANGED <<linked, passive, msg_to_cell, reply_from_cell, memory, guest,
                 call, rest, denied, ret>>

RemapLoadable(r) ==
  /\ mpc = "remap"
  /\ r \in todo
  /\ mapped' = [mapped EXCEPT ![Root] = @ \union ({r} \intersect RootMem)]
  /\ lost' = lost \ {r}
  /\ todo' = todo \ {r}
  /\ UNCHANGED <<linked, passive, loadable, comm, stale, guest, mpc, call,
                 rest, denied, ret>>

\* ABORT_ON_ERROR.
RemapFails(r) ==
  /\ mpc = "remap"
  /\ r \in todo \intersect RootMem
  /\ ret' = "error"
  /\ mpc' = "resume"
  /\ UNCHANGED <<linked, passive, loadable, comm, memory, guest, call, loops>>

CommitLoadable ==
  /\ mpc = "remap"
  /\ todo = {}
  /\ stale' = {}
  /\ ret' = "ok"
  /\ mpc' = "resume"
  /\ UNCHANGED <<linked, passive, loadable, comm, mapped, lost, guest, call,
                 loops>>

-----------------------------------------------------------------------------
(***************************************************************************)
(* cell_reconfig_completed, and the end of the hypercall.                  *)
(***************************************************************************)
Notify(k) ==
  /\ mpc = "notify"
  /\ k \in rest \ passive
  /\ jailhouse_send_msg_to_cell(k, "RECONFIG_COMPLETED")
  /\ mcell' = k
  /\ mpc' = "inform"
  /\ UNCHANGED <<linked, passive, loadable, memory, guest, op, loops, ret>>

NotifyPassive(k) ==
  /\ mpc = "notify"
  /\ k \in rest \intersect passive
  /\ rest' = rest \ {k}
  /\ UNCHANGED <<linked, passive, loadable, comm, memory, guest, mpc, call,
                 todo, denied, ret>>

\* Any reply will do.
Informed ==
  /\ mpc = "inform"
  /\ Answered(mcell)
  /\ rest' = rest \ {mcell}
  /\ mpc' = "notify"
  /\ UNCHANGED <<linked, passive, loadable, comm, memory, guest, call, todo,
                 denied, ret>>

NotifyDone ==
  /\ mpc = "notify"
  /\ rest = {}
  /\ mpc' = "resume"
  /\ UNCHANGED <<linked, passive, loadable, comm, memory, guest, call, loops,
                 ret>>

\* cell_resume: the root cell runs again and has the result.
Resume ==
  /\ mpc = "resume"
  /\ mpc' = "idle"
  /\ op' = "none"
  /\ mcell' = Root
  /\ todo' = {}
  /\ rest' = {}
  /\ denied' = FALSE
  /\ ret' = "ok"
  /\ consent' = [k \in Cell |-> FALSE]
  /\ UNCHANGED <<linked, passive, loadable, comm, memory, running, saw,
                 cleared>>

-----------------------------------------------------------------------------
(***************************************************************************)
(* What a cell does with its communication region (external: the inmate).  *)
(***************************************************************************)
ReadMessage(k) ==
  /\ running[k]
  /\ saw[k] = "NONE"
  /\ msg_to_cell[k] # "NONE"
  /\ saw' = [saw EXCEPT ![k] = msg_to_cell[k]]
  /\ UNCHANGED <<linked, passive, loadable, comm, memory, running, cleared,
                 consent, mpc, call, loops, ret>>

\* jailhouse_send_reply_from_cell: clear the message, then write the reply.
ClearMessage(k) ==
  /\ running[k]
  /\ saw[k] # "NONE"
  /\ ~cleared[k]
  /\ msg_to_cell' = [msg_to_cell EXCEPT ![k] = "NONE"]
  /\ cleared' = [cleared EXCEPT ![k] = TRUE]
  /\ UNCHANGED <<linked, passive, loadable, cell_state, reply_from_cell,
                 memory, running, saw, consent, mpc, call, loops, ret>>

Answers(message) ==
  IF message = "SHUTDOWN_REQUEST" THEN {"REQUEST_APPROVED", "REQUEST_DENIED"}
                                  ELSE {"RECEIVED", "UNKNOWN"}

WriteReply(k, reply) ==
  /\ running[k]
  /\ cleared[k]
  /\ reply \in Answers(saw[k])
  /\ reply_from_cell' = [reply_from_cell EXCEPT ![k] = reply]
  /\ saw' = [saw EXCEPT ![k] = "NONE"]
  /\ cleared' = [cleared EXCEPT ![k] = FALSE]
  /\ consent' = [consent EXCEPT ![k] = (reply = "REQUEST_APPROVED")]
  /\ UNCHANGED <<linked, passive, loadable, cell_state, msg_to_cell, memory,
                 running, mpc, call, loops, ret>>

\* The cell locks or unlocks the configuration, or it shuts down or fails, and
\* then it halts.
SetState(k, s) ==
  /\ running[k]
  /\ cell_state[k] # s
  /\ cell_state' = [cell_state EXCEPT ![k] = s]
  /\ SuspendCells(IF s \in {"SHUT_DOWN", "FAILED"} THEN {k} ELSE {})
  /\ UNCHANGED <<linked, passive, loadable, msg_to_cell, reply_from_cell,
                 memory, mpc, call, loops, ret>>

-----------------------------------------------------------------------------
Manage ==
  \/ Refuse
  \/ StartCreate
  \/ StartManage
  \/ StartDisable
  \/ \E k \in Cell : Ask(k) \/ AskPassive(k)
  \/ WaitAgreed
  \/ WaitDenied
  \/ AskRefused
  \/ AskApproved
  \/ DisableApproved
  \/ \E r \in Region : MapRegion(r)
  \/ \E r \in Region, unmapped \in BOOLEAN : MapFails(r, unmapped)
  \/ CommitCreate
  \/ cell_destroy_internal
  \/ Unlink
  \/ \E r \in Region : UnmapLoadable(r) \/ UnmapFails(r)
  \/ CommitStart
  \/ Run
  \/ Park
  \/ MakeLoadable
  \/ \E r \in Region : RemapLoadable(r) \/ RemapFails(r)
  \/ CommitLoadable
  \/ \E k \in Cell : Notify(k) \/ NotifyPassive(k)
  \/ Informed
  \/ NotifyDone
  \/ Resume

Answer(k) ==
  \/ ReadMessage(k)
  \/ ClearMessage(k)
  \/ \E reply \in Replies : WriteReply(k, reply)

Next ==
  \/ \E o \in Ops \ {"none"}, k \in AllCells : Hypercall(o, k)
  \/ Manage
  \/ \E k \in Cell : Answer(k)
  \/ \E k \in Cell, s \in States : SetState(k, s)

Spec == Init /\ [][Next]_vars

\* The CPU that executes the hypercall proceeds, and a cell answers messages:
\* "a cell should check for pending messages periodically".
Fairness == WF_vars(Manage) /\ \A k \in Cell : WF_vars(Answer(k))

FairSpec == Spec /\ Fairness

-----------------------------------------------------------------------------
(***************************************************************************)
(* Properties.                                                             *)
(***************************************************************************)
\* What the root cell can reach: its mappings and the translations that have
\* not been flushed since.
RootView == mapped[Root] \union stale

\* A cell with disjoint memory has it to itself while it runs, whatever was
\* loaded before and however many hypercalls failed: cell_start revokes the
\* root cell's access and commits that before it lets the cell go.
RunningIsExclusive ==
  \A k \in Cell : running[k] => /\ Mem[k] \subseteq mapped[k]
                                /\ Mem[k] \intersect RootView = {}

\* Between hypercalls the root cell shares nothing with a cell but the
\* loadable regions of a loadable cell.
SharedOnlyLoadable ==
  mpc = "idle" =>
    \A k \in linked :
      mapped[Root] \intersect Mem[k] \subseteq
        IF loadable[k] THEN Loadable[k] ELSE {}

\* A running cell has its memory to itself, and the root cell sees no more of the
\* other cells than what is loadable (cell_start, cell_set_loadable).
MemoryExclusive == TypeOK /\ RunningIsExclusive /\ SharedOnlyLoadable

\* What a cell that is gone (or was never completed) had from the root cell
\* is back there, except for regions that cell_destroy_internal failed to map
\* and warned about.
MemoryReturned ==
  mpc = "idle" =>
    \A k \in Cell \ linked :
      /\ mapped[k] = {}
      /\ Mem[k] \intersect RootMem \subseteq mapped[Root] \union lost

\* A cell is stopped only if it is passive, has shut down or failed, or has
\* approved the request of this very hypercall (cell_shutdown_ok): a reply to
\* an earlier one does not count.
StopNeedsConsent ==
  [][\A k \in Cell :
       running[k] /\ ~running'[k] =>
         \/ k \in passive
         \/ consent[k]
         \/ cell_state'[k] \in {"SHUT_DOWN", "FAILED"}]_vars

\* "present a consistent Communication Region state to the cell" (cell_start):
\* a message a running cell finds is one the hypervisor waits for an answer to.
NoStaleMessage ==
  \A k \in Cell : running[k] /\ msg_to_cell[k] # "NONE" =>
                    mcell = k /\ mpc \in {"wait", "inform"}

\* Every hypercall comes to an end when the cells answer.
HypercallReturns == mpc # "idle" ~> mpc \in {"idle", "off"}

\* hypervisor-interfaces.txt, Cell Set Loadable: loading is enabled by mapping
\* the marked regions into the root cell.
LoadableIsMapped ==
  mpc = "resume" /\ op = "set_loadable" /\ ret = "ok" =>
    Loadable[mcell] \intersect RootMem \subseteq mapped[Root]

-----------------------------------------------------------------------------
(***************************************************************************)
(* The inductive strengthenings behind the safety properties; module       *)
(* CellManagementProofs shows that they are inductive.                     *)
(***************************************************************************)
\* The configurations of two cells have no region in common. The code does not
\* check it.
DisjointMem == \A j, k \in Cell : j # k => Mem[j] \intersect Mem[k] = {}

\* What each position of a hypercall knows of its cell. A cell that runs is
\* linked, and not loadable.
CallInv ==
  /\ \A k \in Cell : running[k] => k \in linked /\ ~loadable[k]
  /\ mpc = "check" => IF op = "disable" THEN rest = linked
                                         ELSE op # "none" /\ mcell \in Cell
  /\ mpc \in {"ask", "wait"} =>
       /\ op \in {"start", "set_loadable", "destroy", "disable"}
       /\ rest \subseteq linked
       /\ op # "disable" => mcell \in linked /\ rest \subseteq {mcell}
  /\ mpc = "wait" => mcell \in rest
  /\ mpc = "map" => op = "create" /\ mcell \in Cell \ linked
  /\ mpc = "undo" => mcell \in Cell /\ ((op = "create") <=> (mcell \notin linked))
  /\ mpc \in {"unmap", "run", "park", "remap", "unlink"} => mcell \in linked
  /\ mpc \in {"undo", "unmap", "run", "park", "remap", "unlink"} => ~running[mcell]
  /\ mpc \in {"unmap", "remap"} => loadable[mcell] /\ todo \subseteq Loadable[mcell]
  /\ mpc = "run" => ~loadable[mcell]

\* The cell whose memory is with the root cell, as far as it came from there.
Gone(k) == k \notin linked \/ (mpc = "unlink" /\ mcell = k)

\* The regions of a linked cell that the root cell may have as well.
Shared(k) ==
  IF ~loadable[k] THEN {} ELSE IF mpc = "unmap" /\ mcell = k THEN todo ELSE Loadable[k]

\* Where the regions are: with a linked cell; with the root cell, if the cell is
\* gone; divided by the progress of the loop in cell_create. Translations that
\* are not committed yet concern no cell that may run.
MemInv ==
  /\ \A k \in Cell : ~Gone(k) =>
       /\ mapped[k] = Mem[k]
       /\ mapped[Root] \intersect Mem[k] \subseteq Shared(k)
       /\ ~loadable[k] => stale \intersect Mem[k] = {}
  /\ \A k \in Cell : Gone(k) /\ ~(mpc \in {"map", "undo"} /\ mcell = k) =>
       /\ mapped[k] = {}
       /\ Mem[k] \intersect RootMem \subseteq mapped[Root] \union lost
  /\ mpc = "map" =>
       /\ todo \subseteq Mem[mcell]
       /\ mapped[mcell] = Mem[mcell] \ todo
       /\ mapped[Root] \intersect mapped[mcell] = {}

\* A running cell has a message, or is about to answer one, only while the
\* hypervisor waits for its reply and there is none yet.
MsgInv ==
  \A k \in Cell : running[k] =>
    /\ ~Terminal(k)
    /\ msg_to_cell[k] # "NONE" \/ saw[k] # "NONE" =>
         mcell = k /\ mpc \in {"wait", "inform"} /\ reply_from_cell[k] = "NONE"
    /\ cleared[k] => saw[k] # "NONE" /\ msg_to_cell[k] = "NONE"

\* The cells that were asked and did not deny have consented, unless they are
\* passive or stopped by themselves.
ConsentInv ==
  mpc \in {"ask", "wait"} =>
    /\ ~denied => \A k \in (IF op = "disable" THEN linked ELSE {mcell}) \ rest :
                    running[k] => k \in passive \/ consent[k]
    /\ mpc = "wait" /\ running[mcell] /\ reply_from_cell[mcell] = "REQUEST_APPROVED" =>
         consent[mcell]

=============================================================================
