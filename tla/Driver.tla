------------------------------- MODULE Driver -------------------------------
(***************************************************************************)
(* The Linux driver's own books: its cell list and sysfs objects, the CPUs *)
(* it takes from Linux and gives back, its module reference, the mapping   *)
(* of the hypervisor.  Several processes issue ioctls, serialised by the   *)
(* driver's mutex; an administrator plugs CPUs at any time, the reboot     *)
(* notifier disables, and the module may be removed.                       *)
(*                                                                         *)
(* The hypervisor is what its hypercalls promise: they succeed or fail as  *)
(* a whole.  HvEntry, HvShutdown and CellManagement model their insides.   *)
(***************************************************************************)
EXTENDS Integers, FiniteSets

CONSTANTS Procs, NoProc,
          Names,      \* names of the non-root cells; NoName is none
          NoName,
          Cpus, CellCpus  \* and the CPUs their configurations list

ASSUME DriverAssumption ==
  NoProc \notin Procs /\ NoName \notin Names /\ CellCpus \in [Names -> SUBSET Cpus]

VARIABLES
  loaded,     \* the module is loaded
  refs,       \* a module reference is held
  enabled, hvOn, hvMapped,
  hvCells,    \* the cells of the hypervisor
  rootListed, \* root_cell is in the list cells
  listed,     \* the other cells in the list
  objects,    \* non-root cells with a kobject
  cpuOnline, offlined, rootCpus,  \* Linux, offlined_cpus, root_cell->cpus_assigned
  snap,       \* history: root_cell->cpus_assigned when the hypervisor started
  mutex,
  proc        \* what each process is doing

hv == <<hvOn, hvMapped, hvCells>>
books == <<rootListed, listed, objects>>
cpuVars == <<cpuOnline, offlined, rootCpus, snap>>
driverVars == <<loaded, refs, enabled, hv, books, cpuVars, mutex, proc>>

Resting == [pc |-> "none", op |-> "none", name |-> NoName, todo |-> {}]
Doing(p, pc) == proc[p].pc = pc
Go2(p, pc, todo) == proc' = [proc EXCEPT ![p].pc = pc, ![p].todo = todo]
Unlock(p) == mutex' = NoProc /\ proc' = [proc EXCEPT ![p] = Resting]

\* Entry of an ioctl (or of the notifier): mutex_lock_interruptible.
jailhouse_ioctl(p, o, n) ==
  /\ loaded /\ mutex = NoProc /\ Doing(p, "none")
  /\ (n = NoName) <=> o \in {"enable", "disable", "info"}
  /\ mutex' = p
  /\ proc' = [proc EXCEPT ![p] = [pc |-> o, op |-> o, name |-> n, todo |-> {}]]
  /\ UNCHANGED <<loaded, refs, enabled, hv, books, cpuVars>>

\* jailhouse_shutdown_notify is jailhouse_disable with the result ignored.
jailhouse_shutdown_notify(p) == jailhouse_ioctl(p, "disable", NoName)

-----------------------------------------------------------------------------
\* Refusals and early failures undo what they did before they unlock.
GiveUp(p) ==
  /\ \/ Doing(p, "enable")
     \/ Doing(p, "create")
     \/ proc[p].pc \in {"disable", "info"} /\ ~enabled
     \/ proc[p].pc \in {"load", "start", "destroy"}
          /\ (~enabled \/ proc[p].name \notin listed)
  /\ Unlock(p) /\ UNCHANGED <<loaded, refs, enabled, hv, books, cpuVars>>

\* Module reference, firmware, mapping, root cell object.
EnablePrepare(p) ==
  /\ Doing(p, "enable") /\ ~enabled
  /\ refs' = TRUE /\ hvMapped' = TRUE
  /\ rootCpus' = cpuOnline
  /\ Go2(p, "enter", {})
  /\ UNCHANGED <<loaded, enabled, hvOn, hvCells, books, cpuOnline, offlined, snap,
                 mutex>>

EnableDone(p) ==
  /\ Doing(p, "enter")
  /\ \/ /\ hvOn' = TRUE /\ enabled' = TRUE /\ rootListed' = TRUE
        /\ snap' = rootCpus
        /\ UNCHANGED <<refs, hvMapped, rootCpus>>
     \/ /\ hvMapped' = FALSE /\ refs' = FALSE /\ rootCpus' = {}
        /\ UNCHANGED <<hvOn, enabled, rootListed, snap>>
  /\ Unlock(p)
  /\ UNCHANGED <<loaded, hvCells, listed, objects, cpuOnline, offlined>>

-----------------------------------------------------------------------------
\* All CPUs leave, or the hypervisor refuses.
DisableLeave(p) ==
  /\ Doing(p, "disable") /\ enabled
  /\ \/ Unlock(p) /\ UNCHANGED hv
     \/ /\ hvOn' = FALSE /\ hvMapped' = FALSE /\ hvCells' = {}
        /\ Go2(p, "up", offlined) /\ UNCHANGED mutex
  /\ UNCHANGED <<loaded, refs, enabled, books, cpuVars>>

\* Mutant: a CPU that does not come up stays in offlined_cpus.
KeepFailed(p, c) ==
  /\ Doing(p, "up") /\ c \in proc[p].todo
  /\ \/ cpuOnline' = cpuOnline \cup {c} /\ offlined' = offlined \ {c}
     \/ UNCHANGED <<cpuOnline, offlined>>
  /\ Go2(p, "up", proc[p].todo \ {c})
  /\ UNCHANGED <<loaded, refs, enabled, hv, books, rootCpus, snap, mutex>>

\* The loop over offlined_cpus; cpu_up may fail.
DisableCpuUp(p, c) ==
  /\ Doing(p, "up") /\ c \in proc[p].todo
  /\ cpuOnline' \in {cpuOnline, cpuOnline \cup {c}} /\ offlined' = offlined \ {c}
  /\ Go2(p, "up", proc[p].todo \ {c})
  /\ UNCHANGED <<loaded, refs, enabled, hv, books, rootCpus, snap, mutex>>

DisableDone(p) ==
  /\ Doing(p, "up") /\ proc[p].todo = {}
  /\ rootListed' = FALSE /\ listed' = {} /\ objects' = {}
  /\ enabled' = FALSE /\ refs' = FALSE /\ rootCpus' = {} /\ snap' = {}
  /\ Unlock(p) /\ UNCHANGED <<loaded, hv, cpuOnline, offlined>>

-----------------------------------------------------------------------------
\* create_cell; a name in use, or CPUs that are not the root cell's, end it.
CreateObject(p) ==
  /\ Doing(p, "create") /\ enabled /\ proc[p].name \notin objects
  /\ CellCpus[proc[p].name] \subseteq rootCpus
  /\ objects' = objects \cup {proc[p].name}
  /\ Go2(p, "down", CellCpus[proc[p].name])
  /\ UNCHANGED <<loaded, refs, enabled, hv, rootListed, listed, cpuVars, mutex>>

\* cpu_down unless the CPU is offline, which leaves offlined_cpus alone.
CreateCpuDown(p, c) ==
  /\ Doing(p, "down") /\ c \in proc[p].todo
  /\ \/ /\ cpuOnline' = cpuOnline \ {c} /\ rootCpus' = rootCpus \ {c}
        /\ offlined' = IF c \in cpuOnline THEN offlined \cup {c} ELSE offlined
        /\ Go2(p, "down", proc[p].todo \ {c})
     \/ /\ c \in cpuOnline /\ Go2(p, "undo", CellCpus[proc[p].name])
        /\ UNCHANGED <<cpuOnline, offlined, rootCpus>>
  /\ UNCHANGED <<loaded, refs, enabled, hv, books, snap, mutex>>

\* JAILHOUSE_HC_CELL_CREATE and register_cell.
CreateCall(p) ==
  /\ Doing(p, "down") /\ proc[p].todo = {}
  /\ \/ /\ hvCells' = hvCells \cup {proc[p].name}
        /\ listed' = listed \cup {proc[p].name} /\ Unlock(p)
     \/ /\ Go2(p, "undo", CellCpus[proc[p].name])
        /\ UNCHANGED <<hvCells, listed, mutex>>
  /\ UNCHANGED <<loaded, refs, enabled, hvOn, hvMapped, rootListed, objects,
                 cpuVars>>

\* Mutant: a CPU that does not come up is not given back to the root cell.
UndoOnline(p, c) ==
  /\ Doing(p, "undo") /\ c \in proc[p].todo
  /\ \/ /\ cpuOnline' = cpuOnline \cup {c} /\ offlined' = offlined \ {c}
        /\ rootCpus' = rootCpus \cup {c}
     \/ c \notin cpuOnline /\ UNCHANGED <<cpuOnline, offlined, rootCpus>>
  /\ Go2(p, "undo", proc[p].todo \ {c})
  /\ UNCHANGED <<loaded, refs, enabled, hv, books, snap, mutex>>

\* error_cpu_online: every CPU of the cell that is offline is brought up, and
\* the root cell gets it either way.
CreateUndo(p, c) ==
  /\ Doing(p, "undo") /\ c \in proc[p].todo
  /\ \/ c \in cpuOnline /\ UNCHANGED <<cpuOnline, offlined>>
     \/ /\ c \notin cpuOnline
        /\ \/ cpuOnline' = cpuOnline \cup {c} /\ offlined' = offlined \ {c}
           \/ UNCHANGED <<cpuOnline, offlined>>
  /\ rootCpus' = rootCpus \cup {c}
  /\ Go2(p, "undo", proc[p].todo \ {c})
  /\ UNCHANGED <<loaded, refs, enabled, hv, books, snap, mutex>>

\* Mutant: the object of the failed creation stays.
UndoKeepsObject(p) ==
  /\ Doing(p, "undo") /\ proc[p].todo = {} /\ Unlock(p)
  /\ UNCHANGED <<loaded, refs, enabled, hv, books, cpuVars>>

\* error_cell_delete: delete_cell.
CreateFailed(p) ==
  /\ Doing(p, "undo") /\ proc[p].todo = {}
  /\ objects' = objects \ {proc[p].name}
  /\ Unlock(p)
  /\ UNCHANGED <<loaded, refs, enabled, hv, rootListed, listed, cpuVars>>

-----------------------------------------------------------------------------
\* Mutant: nobody looks at enabled.
PrologueUnchecked(p) ==
  /\ proc[p].pc \in {"load", "start", "destroy", "info"}
  /\ Doing(p, "info") \/ proc[p].name \in listed
  /\ Go2(p, "call", {})
  /\ UNCHANGED <<loaded, refs, enabled, hv, books, cpuVars, mutex>>

\* The cell exists; info_show only wants the hypervisor.
cell_management_prologue(p) ==
  /\ proc[p].pc \in {"load", "start", "destroy", "info"} /\ enabled
  /\ Doing(p, "info") \/ proc[p].name \in listed
  /\ Go2(p, "call", {})
  /\ UNCHANGED <<loaded, refs, enabled, hv, books, cpuVars, mutex>>

\* Load, start, info: the outcome does not change the driver's books.
CallDone(p) ==
  /\ Doing(p, "call") /\ Unlock(p)
  /\ UNCHANGED <<loaded, refs, enabled, hv, books, cpuVars>>

\* A destroy hypercall that succeeds.
DestroyCall(p) ==
  /\ Doing(p, "call") /\ proc[p].op = "destroy"
  /\ hvCells' = hvCells \ {proc[p].name}
  /\ Go2(p, "back", CellCpus[proc[p].name])
  /\ UNCHANGED <<loaded, refs, enabled, hvOn, hvMapped, books, cpuVars, mutex>>

DestroyCpuUp(p, c) ==
  /\ Doing(p, "back") /\ c \in proc[p].todo
  /\ \/ c \notin offlined /\ UNCHANGED <<cpuOnline, offlined>>
     \/ /\ c \in offlined /\ offlined' = offlined \ {c}
        /\ cpuOnline' \in {cpuOnline, cpuOnline \cup {c}}
  /\ rootCpus' = rootCpus \cup {c}
  /\ Go2(p, "back", proc[p].todo \ {c})
  /\ UNCHANGED <<loaded, refs, enabled, hv, books, snap, mutex>>

\* delete_cell.
DestroyDone(p) ==
  /\ Doing(p, "back") /\ proc[p].todo = {}
  /\ listed' = listed \ {proc[p].name} /\ objects' = objects \ {proc[p].name}
  /\ Unlock(p)
  /\ UNCHANGED <<loaded, refs, enabled, hv, rootListed, cpuVars>>

-----------------------------------------------------------------------------
\* CPU hotplug by the administrator.  A CPU of a cell ignores the start-up IPI.
Hotplug(c) ==
  /\ \/ c \in cpuOnline /\ Cardinality(cpuOnline) > 1 /\ cpuOnline' = cpuOnline \ {c}
     \/ /\ c \notin cpuOnline /\ \A n \in hvCells : c \notin CellCpus[n]
        /\ cpuOnline' = cpuOnline \cup {c}
  /\ UNCHANGED <<loaded, refs, enabled, hv, books, offlined, rootCpus, snap,
                 mutex, proc>>

\* rmmod wants no reference and no open file; insmod brings the module back.
jailhouse_exit ==
  /\ loaded /\ ~refs /\ loaded' = FALSE /\ \A p \in Procs : Doing(p, "none")
  /\ UNCHANGED <<refs, enabled, hv, books, cpuVars, mutex, proc>>
jailhouse_init ==
  /\ ~loaded /\ loaded' = TRUE
  /\ UNCHANGED <<refs, enabled, hv, books, cpuVars, mutex, proc>>

DriverInit ==
  /\ loaded = TRUE /\ refs = FALSE /\ enabled = FALSE
  /\ hvOn = FALSE /\ hvMapped = FALSE /\ hvCells = {}
  /\ rootListed = FALSE /\ listed = {} /\ objects = {}
  /\ cpuOnline = Cpus /\ offlined = {} /\ rootCpus = {} /\ snap = {}
  /\ mutex = NoProc /\ proc = [p \in Procs |-> Resting]

Ioctl(p) ==
  \/ \E o \in {"enable", "disable", "info", "create", "load", "start", "destroy"} :
       \E n \in Names \cup {NoName} : jailhouse_ioctl(p, o, n)
  \/ GiveUp(p) \/ EnablePrepare(p) \/ EnableDone(p)
  \/ DisableLeave(p) \/ DisableDone(p)
  \/ CreateObject(p) \/ CreateCall(p) \/ CreateFailed(p)
  \/ cell_management_prologue(p) \/ CallDone(p) \/ DestroyCall(p) \/ DestroyDone(p)
  \/ \E c \in Cpus : \/ DisableCpuUp(p, c) \/ CreateCpuDown(p, c)
                     \/ CreateUndo(p, c) \/ DestroyCpuUp(p, c)

DriverNext ==
  \/ \E p \in Procs : Ioctl(p) \/ jailhouse_shutdown_notify(p)
  \/ \E c \in Cpus : Hotplug(c)
  \/ jailhouse_exit \/ jailhouse_init

DriverSpec == DriverInit /\ [][DriverNext]_driverVars

-----------------------------------------------------------------------------
\* When no ioctl is in progress the driver agrees with the hypervisor: same
\* cells, listed with an object each; reference, mapping and root cell exactly
\* while the hypervisor runs; and a removed module leaves nothing behind.
BooksAgree ==
  mutex = NoProc =>
    /\ listed = hvCells /\ objects = hvCells
    /\ enabled = hvOn /\ refs = hvOn /\ hvMapped = hvOn /\ rootListed = hvOn
    /\ loaded \/ ~hvOn

\* The CPUs the root cell had when the hypervisor started are, between ioctls,
\* in exactly one cell's books, whichever cpu_up, cpu_down or hypercall failed
\* and whatever the administrator plugged meanwhile.
CpusPartitioned ==
  mutex = NoProc /\ enabled =>
    /\ rootCpus \cup UNION {CellCpus[n] : n \in listed} = snap
    /\ \A n \in listed : CellCpus[n] \cap rootCpus = {}
    /\ \A n \in listed : \A k \in listed \ {n} : CellCpus[n] \cap CellCpus[k] = {}

\* Nothing the driver took offline is forgotten: once the hypervisor is
\* disabled each of these CPUs was brought up, or tried to.
OfflinedReturned == mutex = NoProc /\ ~enabled => offlined = {}

\* A management ioctl or info_show issues its hypercall only while the
\* hypervisor runs, although it may have run when the ioctl was called and may
\* refuse to go at any disable.
HypercallInHypervisor ==
  \A p \in Procs : proc[p].pc \in {"call", "down"} => hvOn

\* The driver's books agree with the hypervisor and with Linux between any two
\* ioctls, whichever steps of them failed, and no hypercall misses its hypervisor.
DriverConsistent ==
  BooksAgree /\ CpusPartitioned /\ OfflinedReturned /\ HypercallInHypervisor

-----------------------------------------------------------------------------
(* What holds within the ioctls, position by position. *)

DriverPositions == {"none", "enable", "disable", "info", "create", "load", "start",
              "destroy", "enter", "up", "down", "undo", "call", "back"}

DriverTypeOK ==
  /\ enabled \in BOOLEAN /\ refs \in BOOLEAN /\ rootListed \in BOOLEAN
  /\ hvOn \in BOOLEAN /\ hvMapped \in BOOLEAN
  /\ hvCells \subseteq Names /\ listed \subseteq Names /\ objects \subseteq Names
  /\ cpuOnline \subseteq Cpus /\ offlined \subseteq Cpus
  /\ rootCpus \subseteq Cpus /\ snap \subseteq Cpus
  /\ mutex \in Procs \cup {NoProc}
  /\ proc \in [Procs -> [pc : DriverPositions, op : DriverPositions, name : Names \cup {NoName},
                         todo : SUBSET Cpus]]

\* Only the owner of the mutex is at work, and the module stays.
OwnerInv ==
  /\ refs => loaded
  /\ \A p \in Procs :
       /\ proc[p].pc # "none" => mutex = p /\ loaded
       /\ proc[p].pc \in {"create", "load", "start", "destroy", "down", "undo", "back"} =>
            proc[p].name \in Names
       /\ proc[p].pc \in {"info", "load", "start", "destroy"} => proc[p].op = proc[p].pc

\* The CPUs of snap are the root cell's, those under way to it or from it, and
\* those of the cells S, without overlap.
Split(S, moving) ==
  /\ \A c \in Cpus : c \in snap <=>
       c \in rootCpus \cup moving \/ \E n \in S : c \in CellCpus[n]
  /\ \A n \in S : CellCpus[n] \cap (rootCpus \cup moving) = {}
  /\ \A n \in S : \A k \in S \ {n} : CellCpus[n] \cap CellCpus[k] = {}

HvRuns == enabled /\ hvOn /\ refs /\ hvMapped /\ rootListed
HvAbsent == ~hvOn /\ ~enabled /\ ~refs /\ ~hvMapped /\ ~rootListed /\ hvCells = {}

\* How far an ioctl has got, and what it owes to the books.
ProgressInv(p) ==
  LET n == proc[p].name
  IN  /\ Doing(p, "enter") => /\ refs /\ hvMapped /\ ~enabled /\ ~hvOn /\ ~rootListed
                              /\ hvCells = {} /\ listed = {} /\ objects = {}
      /\ Doing(p, "up") => enabled /\ refs /\ ~hvOn /\ ~hvMapped /\ hvCells = {}
                           /\ offlined = proc[p].todo
      /\ Doing(p, "down") => /\ HvRuns /\ listed = hvCells /\ n \notin hvCells
                             /\ objects = hvCells \cup {n} /\ Split(hvCells, CellCpus[n])
                             /\ proc[p].todo = rootCpus \cap CellCpus[n]
      /\ Doing(p, "undo") => /\ HvRuns /\ listed = hvCells /\ n \notin hvCells
                             /\ objects = hvCells \cup {n} /\ Split(hvCells, proc[p].todo)
      /\ Doing(p, "call") => enabled /\ (proc[p].op = "destroy" => n \in listed)
      /\ Doing(p, "back") => /\ HvRuns /\ listed = hvCells \cup {n} /\ n \notin hvCells
                             /\ objects = listed /\ Split(hvCells, proc[p].todo)

Midway == \E p \in Procs : proc[p].pc \in {"enter", "up", "down", "undo", "back"}

\* The inductive invariant: outside of these positions the books agree.
DriverInv ==
  /\ DriverTypeOK /\ OwnerInv
  /\ \A p \in Procs : ProgressInv(p)
  /\ ~enabled => offlined = {}
  /\ ~Midway => /\ listed = hvCells /\ objects = hvCells
                /\ HvAbsent \/ (HvRuns /\ Split(hvCells, {}))
=============================================================================
