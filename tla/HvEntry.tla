------------------------------ MODULE HvEntry ------------------------------
(***************************************************************************)
(* Switching the hypervisor on. The driver's jailhouse_enable copies a     *)
(* fresh image into the reserved memory and runs enter_hypervisor on every *)
(* online CPU. In entry() the CPUs initialise one after the other under    *)
(* init_lock, the first one as master, and then spin on initialized_cpus   *)
(* and error, which they read without the lock. Either all of them go      *)
(* through "the point of no return", or all of them restore the state of   *)
(* Linux and return the error.                                             *)
(***************************************************************************)
EXTENDS Integers, FiniteSets

CONSTANTS
  CPU,           \* the possible CPUs
  Configured,    \* the CPUs in the CPU set of the root cell's configuration
  Errors,        \* error codes of the initialisation functions
  NoCpu,         \* master_cpu_id is -1, init_lock is free
  EInval,        \* the error of register_root_cpu
  LaunchMayFail  \* whether vmlaunch may fail

ASSUME ConstAssumption ==
  /\ IsFiniteSet(CPU)
  /\ Configured \subseteq CPU
  /\ NoCpu \notin CPU
  /\ EInval \in Errors
  /\ 0 \notin Errors
  /\ {"open", "switch"} \intersect Errors = {}
  /\ LaunchMayFail \in BOOLEAN

VARIABLES
  dpc,               \* jailhouse_enable: "off", "calling" or "enabled"
  online,            \* the CPUs enter_hypervisor runs on (header->online_cpus)
  error_code,        \* the driver's error_code
  call_done,         \* the CPUs that have incremented the driver's call_done
  master_cpu_id,
  init_lock,
  initialized_cpus,
  error,
  root_cpu_set,      \* root_cell.cpu_set as register_root_cpu fills it
  pc,                \* where each CPU is
  master,            \* entry()'s local variable, per CPU
  initialized,       \* cpu_data->initialized: the state of Linux is saved
  switched,          \* the CPU is on the hypervisor's tables and in VMX
                     \* operation
  translating        \* the VT-d units translate (GSTS.TES)

driver == <<dpc, online, error_code, call_done>>
image == <<master_cpu_id, initialized_cpus, error, root_cpu_set>>
percpu == <<pc, master, initialized, switched>>
vars == <<dpc, online, error_code, call_done, master_cpu_id, init_lock,
          initialized_cpus, error, root_cpu_set, pc, master, initialized,
          switched, translating>>

InLock == {"first", "early", "cpu", "late", "unlock"}
Positions == InLock \union {"linux", "entry", "spin", "test", "shutdown",
                            "restore", "activate", "guest", "stopped", "ret"}

\* The fields of the image, of struct per_cpu and of the driver have values of
\* their types; initialized_cpus never falls below zero.
TypeOK ==
  /\ dpc \in {"off", "calling", "enabled"}
  /\ online \in SUBSET CPU
  /\ error_code \in Errors \union {0}
  /\ call_done \in SUBSET CPU
  /\ master_cpu_id \in CPU \union {NoCpu}
  /\ init_lock \in CPU \union {NoCpu}
  /\ initialized_cpus \in Nat
  /\ error \in Errors \union {0}
  /\ root_cpu_set \in SUBSET CPU
  /\ pc \in [CPU -> Positions]
  /\ master \in [CPU -> BOOLEAN]
  /\ initialized \in [CPU -> BOOLEAN]
  /\ switched \in [CPU -> BOOLEAN]
  /\ translating \in BOOLEAN

Init ==
  /\ dpc = "off"
  /\ online = {}
  /\ error_code = 0
  /\ call_done = {}
  /\ master_cpu_id = NoCpu
  /\ init_lock = NoCpu
  /\ initialized_cpus = 0
  /\ error = 0
  /\ root_cpu_set = {}
  /\ pc = [c \in CPU |-> "linux"]
  /\ master = [c \in CPU |-> FALSE]
  /\ initialized = [c \in CPU |-> FALSE]
  /\ switched = [c \in CPU |-> FALSE]
  /\ translating = FALSE

-----------------------------------------------------------------------------
(***************************************************************************)
(* The driver.                                                             *)
(***************************************************************************)
\* The memcpy and memset of the image reset all state of the hypervisor.
jailhouse_enable(S) ==
  /\ dpc = "off"
  /\ S # {}
  /\ dpc' = "calling"
  /\ online' = S
  /\ error_code' = 0
  /\ call_done' = {}
  /\ master_cpu_id' = NoCpu
  /\ init_lock' = NoCpu
  /\ initialized_cpus' = 0
  /\ error' = 0
  /\ root_cpu_set' = {}
  /\ pc' = [c \in CPU |-> IF c \in S THEN "entry" ELSE "linux"]
  /\ master' = [c \in CPU |-> FALSE]
  /\ initialized' = [c \in CPU |-> FALSE]
  /\ UNCHANGED <<switched, translating>>

\* Mutant: the error is not handed to the driver.
EnterFailedSilently(c) ==
  /\ pc[c] = "ret"
  /\ call_done' = call_done \union {c}
  /\ pc' = [pc EXCEPT ![c] = "linux"]
  /\ UNCHANGED <<dpc, online, error_code, image, init_lock, master,
                 initialized, switched, translating>>

\* enter_hypervisor after header->entry() returned the error, or came back
\* with 0 as a guest.
EnterFailed(c) ==
  /\ pc[c] = "ret"
  /\ error_code' = error
  /\ call_done' = call_done \union {c}
  /\ pc' = [pc EXCEPT ![c] = "linux"]
  /\ UNCHANGED <<dpc, online, master_cpu_id, init_lock, initialized_cpus,
                 error, root_cpu_set, master, initialized, switched, translating>>

EnterDone(c) ==
  /\ pc[c] = "guest"
  /\ c \notin call_done
  /\ call_done' = call_done \union {c}
  /\ UNCHANGED <<dpc, online, error_code, image, init_lock, percpu, translating>>

\* The driver waits for num_online_cpus() calls.
EnableReturns ==
  /\ dpc = "calling"
  /\ Cardinality(call_done) = Cardinality(online)
  /\ dpc' = IF error_code # 0 THEN "off" ELSE "enabled"
  /\ UNCHANGED <<online, error_code, call_done, image, init_lock, percpu,
                 translating>>

-----------------------------------------------------------------------------
(***************************************************************************)
(* entry(). The steps under init_lock are separate because the CPUs that   *)
(* already spin see error and initialized_cpus in between.                 *)
(***************************************************************************)
spin_lock(c) ==
  /\ pc[c] = "entry"
  /\ init_lock = NoCpu
  /\ init_lock' = c
  /\ pc' = [pc EXCEPT ![c] = "first"]
  /\ UNCHANGED <<driver, image, master, initialized, switched, translating>>

ElectMaster(c) ==
  /\ pc[c] = "first"
  /\ master_cpu_id = NoCpu
  /\ master' = [master EXCEPT ![c] = TRUE]
  /\ master_cpu_id' = c
  /\ pc' = [pc EXCEPT ![c] = "early"]
  /\ UNCHANGED <<driver, init_lock, initialized_cpus, error, root_cpu_set,
                 initialized, switched, translating>>

Follow(c) ==
  /\ pc[c] = "first"
  /\ master_cpu_id # NoCpu
  /\ pc' = [pc EXCEPT ![c] = IF error = 0 THEN "cpu" ELSE "unlock"]
  /\ UNCHANGED <<driver, image, init_lock, master, initialized, switched, translating>>

\* init_early ends with error set to the result of its last step.
init_early(c, e) ==
  /\ pc[c] = "early"
  /\ error' = e
  /\ pc' = [pc EXCEPT ![c] = IF e = 0 THEN "cpu" ELSE "unlock"]
  /\ UNCHANGED <<driver, init_lock, master_cpu_id, initialized_cpus,
                 root_cpu_set, master, initialized, switched, translating>>

\* cpu_init: register_root_cpu, then arch_cpu_init. The count is raised
\* last.
cpu_init(c) ==
  /\ pc[c] = "cpu"
  /\ c \in Configured
  /\ root_cpu_set' = root_cpu_set \union {c}
  /\ initialized' = [initialized EXCEPT ![c] = TRUE]
  /\ switched' = [switched EXCEPT ![c] = TRUE]
  /\ initialized_cpus' = initialized_cpus + 1
  /\ pc' = [pc EXCEPT ![c] = IF master[c] /\ error = 0 THEN "late"
                                                       ELSE "unlock"]
  /\ UNCHANGED <<driver, init_lock, master_cpu_id, error, master, translating>>

\* An invalid CPU is refused; arch_cpu_init takes back what it did when it
\* fails. The first error is kept.
CpuInitFails(c, e) ==
  /\ pc[c] = "cpu"
  /\ IF c \in Configured
       THEN /\ root_cpu_set' = root_cpu_set \union {c}
            /\ initialized' = [initialized EXCEPT ![c] = TRUE]
       ELSE e = EInval /\ UNCHANGED <<root_cpu_set, initialized>>
  /\ error' = IF error = 0 THEN e ELSE error
  /\ pc' = [pc EXCEPT ![c] = "unlock"]
  /\ UNCHANGED <<driver, init_lock, master_cpu_id, initialized_cpus, master,
                 switched, translating>>

\* init_late ends with arch_config_commit, which switches DMA remapping on,
\* unless a step before it failed.
init_late(c, e) ==
  /\ pc[c] = "late"
  /\ error' = e
  /\ translating' = (e = 0)
  /\ pc' = [pc EXCEPT ![c] = "unlock"]
  /\ UNCHANGED <<driver, init_lock, master_cpu_id, initialized_cpus,
                 root_cpu_set, master, initialized, switched>>

spin_unlock(c) ==
  /\ pc[c] = "unlock"
  /\ init_lock' = NoCpu
  /\ pc' = [pc EXCEPT ![c] = "spin"]
  /\ UNCHANGED <<driver, image, master, initialized, switched, translating>>

\* Mutants: one CPU too early, and without a look at error.
BarrierEarly(c) ==
  /\ pc[c] = "spin"
  /\ error # 0 \/ initialized_cpus + 1 >= Cardinality(online)
  /\ pc' = [pc EXCEPT ![c] = "test"]
  /\ UNCHANGED <<driver, image, init_lock, master, initialized, switched,
                 translating>>

BarrierCountOnly(c) ==
  /\ pc[c] = "spin"
  /\ initialized_cpus >= Cardinality(online)
  /\ pc' = [pc EXCEPT ![c] = "test"]
  /\ UNCHANGED <<driver, image, init_lock, master, initialized, switched,
                 translating>>

\* The loop on error and initialized_cpus.
Barrier(c) ==
  /\ pc[c] = "spin"
  /\ error # 0 \/ initialized_cpus >= Cardinality(online)
  /\ pc' = [pc EXCEPT ![c] = "test"]
  /\ UNCHANGED <<driver, image, init_lock, master, initialized, switched, translating>>

\* Mutant: the master does not undo init_late.
TestErrorNoShutdown(c) ==
  /\ pc[c] = "test"
  /\ pc' = [pc EXCEPT ![c] = IF error = 0 THEN "activate" ELSE "restore"]
  /\ UNCHANGED <<driver, image, init_lock, master, initialized, switched,
                 translating>>

\* error is read once more after the loop.
TestError(c) ==
  /\ pc[c] = "test"
  /\ pc' = [pc EXCEPT ![c] = IF error = 0 THEN "activate"
                             ELSE IF master[c] THEN "shutdown" ELSE "restore"]
  /\ UNCHANGED <<driver, image, init_lock, master, initialized, switched, translating>>

arch_shutdown(c) ==
  /\ pc[c] = "shutdown"
  /\ translating' = FALSE
  /\ pc' = [pc EXCEPT ![c] = "restore"]
  /\ UNCHANGED <<driver, image, init_lock, master, initialized, switched>>

\* Mutant: the CPU leaves the count although it may not be part of it.
RestoreUncounted(c) ==
  /\ pc[c] = "restore"
  /\ switched' = [switched EXCEPT ![c] = @ /\ ~initialized[c]]
  /\ initialized_cpus' = initialized_cpus - 1
  /\ pc' = [pc EXCEPT ![c] = "ret"]
  /\ UNCHANGED <<driver, master_cpu_id, error, root_cpu_set, init_lock, master,
                 initialized, translating>>

\* Nothing is restored on a CPU that never left the tables of Linux.
arch_cpu_restore(c) ==
  /\ pc[c] = "restore"
  /\ switched' = [switched EXCEPT ![c] = @ /\ ~initialized[c]]
  /\ pc' = [pc EXCEPT ![c] = "ret"]
  /\ UNCHANGED <<driver, image, init_lock, master, initialized, translating>>

\* vmlaunch: the CPU continues in Linux as a guest, with 0 as result.
arch_cpu_activate_vmm(c) ==
  /\ pc[c] = "activate"
  /\ pc' = [pc EXCEPT ![c] = "guest"]
  /\ UNCHANGED <<driver, image, init_lock, master, initialized, switched, translating>>

\* A failed vmlaunch ends in panic_stop, and the driver waits forever.
LaunchFails(c) ==
  /\ LaunchMayFail
  /\ pc[c] = "activate"
  /\ pc' = [pc EXCEPT ![c] = "stopped"]
  /\ UNCHANGED <<driver, image, init_lock, master, initialized, switched, translating>>

-----------------------------------------------------------------------------
Entry(c) ==
  \/ spin_lock(c)
  \/ ElectMaster(c)
  \/ Follow(c)
  \/ \E e \in Errors \union {0} : init_early(c, e)
  \/ cpu_init(c)
  \/ \E e \in Errors : CpuInitFails(c, e)
  \/ \E e \in Errors \union {0} : init_late(c, e)
  \/ spin_unlock(c)
  \/ Barrier(c)
  \/ TestError(c)
  \/ arch_shutdown(c)
  \/ arch_cpu_restore(c)
  \/ arch_cpu_activate_vmm(c)
  \/ LaunchFails(c)
  \/ EnterFailed(c)
  \/ EnterDone(c)

Next ==
  \/ \E S \in SUBSET CPU : jailhouse_enable(S)
  \/ \E c \in CPU : Entry(c)
  \/ EnableReturns

Spec == Init /\ [][Next]_vars

\* Interrupts are off in entry(), so every CPU proceeds; init_lock is taken
\* once per CPU and round, so that weak fairness is enough although
\* test_and_set_bit is not fair.
Fairness ==
  /\ \A c \in CPU : WF_vars(Entry(c))
  /\ WF_vars(EnableReturns)

FairSpec == Spec /\ Fairness

-----------------------------------------------------------------------------
(***************************************************************************)
(* Properties.                                                             *)
(***************************************************************************)
Active == {"activate", "guest", "stopped"}
Failing == {"shutdown", "restore", "ret"}

\* "Point of no return" (entry, setup.c): no CPU goes past it while another
\* one of the round may still fail, has failed or is not set up: all of them
\* are registered with the root cell and run on the hypervisor's tables, and
\* DMA remapping is on.
NoReturnIsSafe ==
  (\E c \in CPU : pc[c] \in Active) =>
    /\ \A c \in online : pc[c] \in {"unlock", "spin", "test"} \union Active
    /\ error = 0
    /\ online \subseteq root_cpu_set
    /\ \A c \in online : switched[c]
    /\ translating

\* When the driver reports that enabling failed, the machine is as it was:
\* every CPU is back on the tables of Linux and DMA is not remapped. This is
\* what lets jailhouse_enable unmap the image.
FailureRestoresLinux ==
  dpc = "off" =>
    /\ \A c \in CPU : pc[c] = "linux" /\ ~switched[c]
    /\ ~translating

\* The driver sees one result: it is enabled only when every CPU of the round
\* runs as a guest, and error_code is the code every CPU returned.
EnabledMeansGuest ==
  /\ dpc = "enabled" => \A c \in online : pc[c] = "guest"
  /\ error_code # 0 => error_code = error

\* jailhouse_enable does not hang in its wait for call_done: the spinning CPUs
\* notice the failure of the others, whichever of them fails, and when. Only a
\* failed vmlaunch, which stops its CPU for good, leaves it waiting.
EnableFinishes ==
  dpc = "calling" ~> dpc # "calling" \/ \E c \in CPU : pc[c] = "stopped"

(***************************************************************************)
(* The invariant behind these properties. Without an error the set of      *)
(* initialised CPUs explains the count; with one, nobody is active.        *)
(***************************************************************************)
Counted == {c \in CPU : initialized[c]}
Done == {"unlock", "spin", "test"} \union Active

\* init_lock protects what is between spin_lock and spin_unlock.
LockInv == \A c \in CPU : pc[c] \in InLock => init_lock = c

\* There is one master, and only it runs init_early and init_late.
MasterInv ==
  /\ \A c \in CPU : (master[c] <=> master_cpu_id = c)
  /\ \A c \in CPU : master[c] => c \in online
  /\ \A c \in CPU : pc[c] \in {"early", "late", "shutdown"} => master[c]
  /\ \A c \in CPU :
       pc[c] \notin {"linux", "entry", "first"} => master_cpu_id # NoCpu
  /\ error # 0 => master_cpu_id # NoCpu
  /\ \A c, d \in CPU :
       /\ master[c]
       /\ pc[c] \in {"early", "cpu", "late"}
       /\ d # c
       => pc[d] \in {"linux", "entry"}
  /\ \A c \in CPU : pc[c] \in {"entry", "first"} => ~master[c]

\* Who is in the round, and who has reported back.
RoundInv ==
  /\ \A c \in CPU : pc[c] # "linux" => c \in online
  /\ call_done \subseteq online
  /\ \A c \in call_done : pc[c] \in {"linux", "guest"}
  /\ \A c \in online : pc[c] = "linux" => c \in call_done /\ error # 0
  /\ \A c \in CPU : pc[c] = "linux" => ~switched[c]
  /\ dpc = "off" => \A c \in CPU : pc[c] = "linux"
  /\ dpc = "enabled" => \A c \in online : pc[c] = "guest"
  /\ error_code # 0 => error_code = error
  /\ error # 0 /\ call_done # {} => error_code = error

\* Before the first error initialized_cpus counts the CPUs that are set up.
CountInv ==
  /\ \A c \in CPU : switched[c] => initialized[c]
  /\ \A c \in CPU : pc[c] = "ret" => ~switched[c]
  /\ \A c \in CPU : initialized[c] => c \in online
  /\ \A c \in CPU : pc[c] \in {"entry", "first", "early", "cpu"} => ~initialized[c]
  /\ error = 0 =>
       /\ initialized_cpus = Cardinality(Counted)
       /\ \A c \in online : initialized[c] <=> pc[c] \in Done \union {"late"}
       /\ \A c \in CPU : initialized[c] => switched[c] /\ c \in root_cpu_set
       /\ \A c \in CPU : pc[c] \notin Failing

\* Past the barrier with no error, everyone is counted.
BarrierInv ==
  /\ \A c \in CPU : pc[c] = "test" => error # 0 \/ initialized_cpus >= Cardinality(online)
  /\ \A c \in CPU : pc[c] \in Active =>
       error = 0 /\ initialized_cpus >= Cardinality(online)
  /\ \A c \in CPU : pc[c] \in {"early", "cpu", "late"} => error = 0

\* DMA is remapped from the end of init_late until the master gives up.
RemapInv ==
  /\ translating => master_cpu_id # NoCpu
  /\ \A c \in CPU : translating /\ master[c] => pc[c] \in Done \union {"shutdown"}
  /\ \A c \in CPU : error = 0 /\ master[c] /\ pc[c] \in Done => translating

\* All of it: why no CPU passes the barrier of entry() before its round is
\* complete, and none of them after an error.
EntryInv ==
  /\ LockInv
  /\ MasterInv
  /\ RoundInv
  /\ CountInv
  /\ BarrierInv
  /\ RemapInv

\* entry() takes one decision for all CPUs. It is open until the first error,
\* or until the last CPU has counted itself and the master is through with
\* init_late.
Outcome ==
  IF error # 0 THEN error
  ELSE IF /\ online # {}
          /\ initialized_cpus >= Cardinality(online)
          /\ \A c \in CPU : pc[c] # "late"
         THEN "switch" ELSE "open"

World == [c \in CPU |-> CASE pc[c] = "linux" -> "back"
                          [] pc[c] = "guest" -> "guest"
                          [] OTHER -> "in"]

Abstract == INSTANCE WorldSwitch WITH outcome <- Outcome, world <- World

\* What the driver relies on (driver.c, enter_hypervisor: "either returns 0 or
\* the same error code across all CPUs").
SameResult == Abstract!Spec

=============================================================================
