---------------------------- MODULE HvShutdown ----------------------------
(***************************************************************************)
(* Switching the hypervisor off. The driver's jailhouse_disable makes every*)
(* online CPU issue the disable hypercall. In shutdown() the first CPU to  *)
(* take shutdown_lock asks all cells, closes them if all agree, and leaves *)
(* the decision in the shutdown_state of every root cell CPU, where each of*)
(* them picks it up. CPUs come and go in between: Linux offlines the CPUs  *)
(* it hands to a cell, gets them back when the cell is destroyed, and      *)
(* offlines others on its own. A non-root cell has one CPU here and is     *)
(* named after it.                                                         *)
(***************************************************************************)
EXTENDS Integers, FiniteSets

CONSTANTS
  CPU,        \* the CPUs that entered the hypervisor
  NoCpu,      \* shutdown_lock is free
  EPerm       \* -EPERM

ASSUME ConstAssumption ==
  /\ IsFiniteSet(CPU) /\ CPU # {}
  /\ NoCpu \notin CPU
  /\ EPerm \notin {"none", "started", "open", "switch"}

VARIABLES
  dpc,              \* jailhouse_disable: "idle", "calling" or "disabled"
  online,           \* the CPUs Linux uses
  error_code,       \* "none" or the driver's error_code
  call_done,        \* the CPUs that have incremented call_done
  root_cpu_set,     \* root_cell.cpu_set
  shutdown_lock,
  shutdown_state,   \* "none" (SHUTDOWN_NONE), "started" or EPerm, per CPU
  pc,               \* where each CPU is
  ret,              \* what the hypercall of this round returned on it
  unasked,          \* the cells the caller has not asked yet
  state,            \* shutdown()'s local variable
  quiet,            \* cells that need not agree: SHUT_DOWN or FAILED
  closed,           \* cells shutdown() has closed
  translating,      \* the VT-d units translate
  unplugs           \* Linux takes root cell CPUs offline, or fails to bring
                    \* them back (fixed from the start)

hotplug == <<online, root_cpu_set, unplugs>>
round == <<dpc, error_code, call_done>>
cells == <<quiet, closed, translating>>
vars == <<dpc, online, error_code, call_done, root_cpu_set, shutdown_lock,
          shutdown_state, pc, ret, unasked, state, quiet, closed, translating,
          unplugs>>

\* The cells for_each_non_root_cell visits.
Cells == CPU \ root_cpu_set

\* The fields have values of their types; in particular the driver's error_code
\* holds an error of the hypercall, never another value of shutdown_state.
TypeOK ==
  /\ dpc \in {"idle", "calling", "disabled"}
  /\ online \in SUBSET CPU
  /\ error_code \in {"none", EPerm}
  /\ call_done \in SUBSET CPU
  /\ root_cpu_set \in SUBSET CPU
  /\ shutdown_lock \in CPU \union {NoCpu}
  /\ shutdown_state \in [CPU -> {"none", "started", EPerm}]
  /\ pc \in [CPU -> {"guest", "call", "locked", "ask", "decide", "fetch",
                     "leave", "refused", "native"}]
  /\ ret \in [CPU -> {"none", "started", EPerm}]
  /\ unasked \in SUBSET CPU
  /\ state \in {"none", "started", EPerm}
  /\ quiet \in SUBSET CPU
  /\ closed \in SUBSET CPU
  /\ translating \in BOOLEAN
  /\ unplugs \in BOOLEAN

Init ==
  /\ dpc = "idle"
  /\ online = CPU
  /\ error_code = "none"
  /\ call_done = {}
  /\ root_cpu_set = CPU
  /\ shutdown_lock = NoCpu
  /\ shutdown_state = [c \in CPU |-> "none"]
  /\ pc = [c \in CPU |-> "guest"]
  /\ ret = [c \in CPU |-> "none"]
  /\ unasked = {}
  /\ state = "none"
  /\ quiet = {}
  /\ closed = {}
  /\ translating = TRUE
  /\ unplugs \in BOOLEAN

-----------------------------------------------------------------------------
(***************************************************************************)
(* Linux. The driver's mutex keeps its operations apart, and the CPU       *)
(* hotplug lock keeps a CPU from going away during on_each_cpu. While the  *)
(* hypervisor is half switched off (CPUs in different worlds) the driver   *)
(* is not called again.                                                    *)
(***************************************************************************)
Idle == dpc = "idle" /\ \A c \in CPU : pc[c] = "guest"

jailhouse_disable ==
  /\ Idle
  /\ dpc' = "calling"
  /\ error_code' = "none"
  /\ call_done' = {}
  /\ ret' = [c \in CPU |-> "none"]
  /\ pc' = [c \in CPU |-> IF c \in online THEN "call" ELSE "guest"]
  /\ UNCHANGED <<hotplug, shutdown_lock, shutdown_state, unasked, state, cells>>

\* Mutant: the state of the hypervisor is taken for an error code.
LeaveOverwrites(c) ==
  /\ pc[c] \in {"refused", "native"}
  /\ c \notin call_done
  /\ error_code' = ret[c]
  /\ call_done' = call_done \union {c}
  /\ pc' = [pc EXCEPT ![c] = IF @ = "refused" THEN "guest" ELSE @]
  /\ UNCHANGED <<dpc, hotplug, shutdown_lock, shutdown_state, ret, unasked,
                 state, cells>>

\* leave_hypervisor after the hypercall.
leave_hypervisor(c) ==
  /\ pc[c] \in {"refused", "native"}
  /\ c \notin call_done
  /\ error_code' = IF pc[c] = "refused" THEN ret[c] ELSE error_code
  /\ call_done' = call_done \union {c}
  /\ pc' = [pc EXCEPT ![c] = IF @ = "refused" THEN "guest" ELSE @]
  /\ UNCHANGED <<dpc, hotplug, shutdown_lock, shutdown_state, ret, unasked,
                 state, cells>>

DisableReturns ==
  /\ dpc = "calling"
  /\ Cardinality(call_done) = Cardinality(online)
  /\ dpc' = IF error_code = "none" THEN "disabled" ELSE "idle"
  /\ UNCHANGED <<hotplug, error_code, call_done, shutdown_lock, shutdown_state,
                 pc, ret, unasked, state, cells>>

\* cpu_down of a CPU the driver did not ask for. The CPU stays in
\* root_cell.cpu_set.
CpuDown(c) ==
  /\ unplugs
  /\ Idle
  /\ c \in online /\ online # {c}
  /\ online' = online \ {c}
  /\ UNCHANGED <<round, root_cpu_set, unplugs, shutdown_lock, shutdown_state,
                 pc, ret, unasked, state, cells>>

CpuUp(c) ==
  /\ Idle
  /\ c \in root_cpu_set \ online
  /\ online' = online \union {c}
  /\ UNCHANGED <<round, root_cpu_set, unplugs, shutdown_lock, shutdown_state,
                 pc, ret, unasked, state, cells>>

\* jailhouse_cell_create takes the CPU offline and cell_create moves it to
\* the cell, which is SHUT_DOWN until it is started.
CellCreate(c) ==
  /\ Idle
  /\ c \in root_cpu_set /\ online # {c}
  /\ online' = online \ {c}
  /\ root_cpu_set' = root_cpu_set \ {c}
  /\ quiet' = quiet \union {c}
  /\ UNCHANGED <<round, unplugs, shutdown_lock, shutdown_state, pc, ret, unasked,
                 state, closed, translating>>

\* cell_destroy gives the CPU back, and jailhouse_cell_destroy tries to bring
\* it online: cpu_up may fail.
CellDestroy(c, up) ==
  /\ Idle
  /\ c \notin root_cpu_set
  /\ up \/ unplugs
  /\ root_cpu_set' = root_cpu_set \union {c}
  /\ online' = IF up THEN online \union {c} ELSE online
  /\ quiet' = quiet \ {c}
  /\ UNCHANGED <<round, unplugs, shutdown_lock, shutdown_state, pc, ret, unasked,
                 state, closed, translating>>

\* cell_start sets a quiet cell going again.
CellStart(k) ==
  /\ Idle
  /\ k \in quiet
  /\ quiet' = quiet \ {k}
  /\ UNCHANGED <<round, hotplug, shutdown_lock, shutdown_state, pc, ret,
                 unasked, state, closed, translating>>

-----------------------------------------------------------------------------
(***************************************************************************)
(* shutdown() on CPU c.                                                    *)
(***************************************************************************)
Lock(c) ==
  /\ pc[c] = "call"
  /\ shutdown_lock = NoCpu
  /\ shutdown_lock' = c
  /\ pc' = [pc EXCEPT ![c] = "locked"]
  /\ UNCHANGED <<round, hotplug, shutdown_state, ret, unasked, state, cells>>

FirstCaller(c) ==
  /\ pc[c] = "locked"
  /\ shutdown_state[c] = "none"
  /\ state' = "started"
  /\ unasked' = Cells
  /\ pc' = [pc EXCEPT ![c] = "ask"]
  /\ UNCHANGED <<round, hotplug, shutdown_lock, shutdown_state, ret, cells>>

LaterCaller(c) ==
  /\ pc[c] = "locked"
  /\ shutdown_state[c] # "none"
  /\ pc' = [pc EXCEPT ![c] = "fetch"]
  /\ UNCHANGED <<round, hotplug, shutdown_lock, shutdown_state, ret, unasked,
                 state, cells>>

\* Mutant: the answer of the last cell counts.
AskLastCounts(c, k) ==
  /\ pc[c] = "ask"
  /\ k \in unasked
  /\ unasked' = unasked \ {k}
  /\ quiet' = quiet \union {k}
  /\ state' = "started"
  /\ UNCHANGED <<round, hotplug, shutdown_lock, shutdown_state, pc, ret,
                 closed, translating>>

\* cell_shutdown_ok of the next cell: it is quiet already, agrees by shutting
\* down, or denies. The remaining cells are asked even after a denial.
AskAgrees(c, k) ==
  /\ pc[c] = "ask"
  /\ k \in unasked
  /\ unasked' = unasked \ {k}
  /\ quiet' = quiet \union {k}
  /\ UNCHANGED <<round, hotplug, shutdown_lock, shutdown_state, pc, ret, state,
                 closed, translating>>

AskDenied(c, k) ==
  /\ pc[c] = "ask"
  /\ k \in unasked \ quiet
  /\ unasked' = unasked \ {k}
  /\ state' = EPerm
  /\ UNCHANGED <<round, hotplug, shutdown_lock, shutdown_state, pc, ret, cells>>

\* All cells agreed: they are closed and DMA remapping is switched off.
CloseCells(c) ==
  /\ pc[c] = "ask"
  /\ unasked = {}
  /\ state = "started"
  /\ closed' = Cells
  /\ translating' = FALSE
  /\ pc' = [pc EXCEPT ![c] = "decide"]
  /\ UNCHANGED <<round, hotplug, shutdown_lock, shutdown_state, ret, unasked,
                 state, quiet>>

\* Mutant: remapping is switched off although the cells stay.
RefusedOff(c) ==
  /\ pc[c] = "ask"
  /\ unasked = {}
  /\ state # "started"
  /\ translating' = FALSE
  /\ pc' = [pc EXCEPT ![c] = "decide"]
  /\ UNCHANGED <<round, hotplug, shutdown_lock, shutdown_state, ret, unasked,
                 state, quiet, closed>>

Refused(c) ==
  /\ pc[c] = "ask"
  /\ unasked = {}
  /\ state # "started"
  /\ pc' = [pc EXCEPT ![c] = "decide"]
  /\ UNCHANGED <<round, hotplug, shutdown_lock, shutdown_state, ret, unasked,
                 state, cells>>

\* Mutant: the decision is left to the caller only.
DecideAlone(c) ==
  /\ pc[c] = "decide"
  /\ shutdown_state' = [shutdown_state EXCEPT ![c] = state]
  /\ pc' = [pc EXCEPT ![c] = "fetch"]
  /\ UNCHANGED <<round, hotplug, shutdown_lock, ret, unasked, state, cells>>

Decide(c) ==
  /\ pc[c] = "decide"
  /\ shutdown_state' = [d \in CPU |-> IF d \in root_cpu_set THEN state
                                      ELSE shutdown_state[d]]
  /\ pc' = [pc EXCEPT ![c] = "fetch"]
  /\ UNCHANGED <<round, hotplug, shutdown_lock, ret, unasked, state, cells>>

\* Mutant: the decision stays behind.
FetchKeep(c) ==
  /\ pc[c] = "fetch"
  /\ ret' = [ret EXCEPT ![c] = shutdown_state[c]]
  /\ shutdown_lock' = NoCpu
  /\ pc' = [pc EXCEPT ![c] = IF shutdown_state[c] = "started" THEN "leave"
                                                              ELSE "refused"]
  /\ UNCHANGED <<round, hotplug, shutdown_state, unasked, state, cells>>

\* Mutant: a refused CPU returns with the lock held.
FetchNoUnlock(c) ==
  /\ pc[c] = "fetch"
  /\ ret' = [ret EXCEPT ![c] = shutdown_state[c]]
  /\ shutdown_state' = [shutdown_state EXCEPT ![c] = "none"]
  /\ shutdown_lock' = IF shutdown_state[c] = "started" THEN NoCpu ELSE c
  /\ pc' = [pc EXCEPT ![c] = IF shutdown_state[c] = "started" THEN "leave"
                                                              ELSE "refused"]
  /\ UNCHANGED <<round, hotplug, unasked, state, cells>>

\* The CPU takes its decision, clears it and unlocks.
Fetch(c) ==
  /\ pc[c] = "fetch"
  /\ ret' = [ret EXCEPT ![c] = shutdown_state[c]]
  /\ shutdown_state' = [shutdown_state EXCEPT ![c] = "none"]
  /\ shutdown_lock' = NoCpu
  /\ pc' = [pc EXCEPT ![c] = IF shutdown_state[c] = "started" THEN "leave"
                                                              ELSE "refused"]
  /\ UNCHANGED <<round, hotplug, unasked, state, cells>>

vmx_cpu_deactivate_vmm(c) ==
  /\ pc[c] = "leave"
  /\ pc' = [pc EXCEPT ![c] = "native"]
  /\ UNCHANGED <<round, hotplug, shutdown_lock, shutdown_state, ret, unasked,
                 state, cells>>

-----------------------------------------------------------------------------
Linux ==
  \/ jailhouse_disable
  \/ \E c \in CPU : CpuDown(c) \/ CpuUp(c) \/ CellCreate(c)
  \/ \E c \in CPU, up \in BOOLEAN : CellDestroy(c, up)
  \/ \E k \in CPU : CellStart(k)

Shutdown(c) ==
  \/ Lock(c)
  \/ FirstCaller(c)
  \/ LaterCaller(c)
  \/ \E k \in CPU : AskAgrees(c, k) \/ AskDenied(c, k)
  \/ CloseCells(c)
  \/ Refused(c)
  \/ Decide(c)
  \/ Fetch(c)
  \/ vmx_cpu_deactivate_vmm(c)
  \/ leave_hypervisor(c)

Next ==
  \/ Linux
  \/ \E c \in CPU : Shutdown(c)
  \/ DisableReturns

Spec == Init /\ [][Next]_vars

\* Every CPU in the hypercall proceeds, and every cell answers the request.
\* The hypervisor itself waits for the answer without a limit.
Fairness ==
  /\ \A c \in CPU : WF_vars(Shutdown(c))
  /\ WF_vars(DisableReturns)

FairSpec == Spec /\ Fairness

-----------------------------------------------------------------------------
(***************************************************************************)
(* Properties.                                                             *)
(***************************************************************************)
\* leave_hypervisor in driver.c: "either returns 0 or the same error code
\* across all CPUs".
DisableAgrees ==
  \A c, d \in CPU : ret[c] # "none" /\ ret[d] # "none" => ret[c] = ret[d]

\* A CPU leaves the hypervisor only after every cell has agreed and was
\* closed, and after DMA remapping was switched off: its hypervisor memory may
\* go away then.
LeaveAfterClose ==
  (\E c \in CPU : pc[c] \in {"leave", "native"}) =>
    closed = Cells /\ quiet = Cells /\ ~translating

\* A disable that no CPU got through with closes nothing: the hypervisor goes on
\* with all its CPUs, also when some of them return the refusal of an earlier
\* round.
RefusalKeepsRunning ==
  dpc = "idle" /\ (\A c \in CPU : ret[c] # "started") =>
    closed = {} /\ translating /\ \A c \in CPU : pc[c] = "guest"

\* The decision of one round is not taken for that of a later one as long as
\* Linux uses all root cell CPUs: between two rounds none of them has one left.
NoStaleDecision ==
  dpc = "idle" /\ ~unplugs => \A c \in online : shutdown_state[c] = "none"

\* A round of disable hypercalls is safe: nobody leaves too early, a refusal has
\* no effect, and nothing is left behind for the next round (shutdown).
DisableSafe == TypeOK /\ LeaveAfterClose /\ RefusalKeepsRunning /\ NoStaleDecision

\* jailhouse_disable returns, whatever the cells answer.
DisableFinishes == dpc = "calling" ~> dpc # "calling"

-----------------------------------------------------------------------------
(***************************************************************************)
(* One decision per round, as for the way in.                              *)
(***************************************************************************)
Decided(v) ==
  \E c \in CPU :
    \/ ret[c] = v
    \/ dpc = "calling" /\ c \in online /\ ret[c] = "none" /\ shutdown_state[c] = v

Outcome ==
  IF unplugs THEN "open"
  ELSE IF Decided(EPerm) THEN EPerm ELSE IF Decided("started") THEN "switch"
                                                               ELSE "open"

World == [c \in CPU |-> IF unplugs THEN "back"
                        ELSE IF pc[c] = "native" THEN "guest"
                        ELSE IF pc[c] = "guest" THEN "back" ELSE "in"]

Abstract == INSTANCE WorldSwitch WITH
              outcome <- Outcome, world <- World, Errors <- {EPerm}

\* What leave_hypervisor relies on, as a specification: as long as Linux uses
\* all root cell CPUs, a round of disable hypercalls has one result. (With CPUs
\* offline it need not; those behaviours are mapped to an idle one.)
SameAnswer == Abstract!Spec

-----------------------------------------------------------------------------
(***************************************************************************)
(* Why it holds: the inductive invariant behind DisableSafe and SameAnswer.*)
(***************************************************************************)
\* Where the CPUs can be: one of them is between lock and unlock, and only
\* those the driver called have anything to do with the round.
PlaceInv ==
  /\ online # {} /\ online \subseteq root_cpu_set
  /\ quiet \subseteq Cells
  /\ \A c \in CPU : pc[c] \in {"locked", "ask", "decide", "fetch"} <=> shutdown_lock = c
  /\ \A c \in CPU : pc[c] \notin {"guest", "native"} =>
                      dpc = "calling" /\ c \in online \ call_done
  /\ dpc = "calling" =>
       /\ call_done \subseteq online
       /\ \A c \in CPU : pc[c] = "native" => c \in online
       /\ \A c \in online \ call_done : pc[c] # "guest"
  /\ \A c \in CPU : pc[c] = "ask" => unasked \subseteq Cells
  /\ \A c \in CPU : pc[c] = "refused" => ret[c] # "started"

\* CPU c has switched off, or is bound to.
Leaving(c) ==
  \/ pc[c] \in {"leave", "native"}
  \/ pc[c] = "decide" /\ state = "started"
  \/ pc[c] = "fetch" /\ shutdown_state[c] = "started"

\* The cells are closed exactly when some CPU is bound to leave. Nobody asks the
\* cells again then: whoever has still to call finds a decision. A decision to
\* switch off does not outlive its round, as the CPU that took it leaves.
LeaveInv ==
  /\ \A c \in CPU : Leaving(c) => closed = Cells /\ quiet = Cells /\ ~translating
  /\ (\A c \in CPU : ~Leaving(c)) =>
       closed = {} /\ translating /\ \A c \in CPU : shutdown_state[c] # "started"
  /\ \A c, d \in CPU : Leaving(c) =>
       /\ pc[d] # "ask"
       /\ pc[d] \in {"call", "locked"} /\ (\A e \in CPU : pc[e] # "decide") =>
            shutdown_state[d] # "none"
  /\ \A c \in CPU : pc[c] = "ask" =>
       state # "none" /\ (state = "started" => Cells \subseteq quiet \union unasked)
  /\ \A c \in CPU : pc[c] = "decide" => state # "none"
  /\ \A c \in CPU : pc[c] \in {"leave", "native"} => ret[c] = "started"

\* If Linux uses all root cell CPUs, a round is undecided until one of them has
\* asked the cells, and from then on each CPU has the decision of the round either
\* ahead of it or behind it.
RoundInv ==
  ~unplugs =>
    /\ root_cpu_set = online
    /\ \A c \in CPU : ret[c] \in {"none", state}
    /\ \A c \in CPU \ online : shutdown_state[c] = "none"
    /\ dpc # "calling" => \A c \in CPU : shutdown_state[c] = "none"
    /\ dpc = "calling" =>
         \/ /\ \A c \in CPU : shutdown_state[c] = "none" /\ ret[c] = "none"
            /\ \A c \in online : pc[c] \in {"call", "locked", "ask", "decide"}
         \/ /\ state # "none"
            /\ \A c \in online :
                 IF pc[c] \in {"call", "locked", "fetch"}
                 THEN shutdown_state[c] = state /\ ret[c] = "none"
                 ELSE /\ shutdown_state[c] = "none" /\ ret[c] = state
                      /\ (state = "started") <=> pc[c] \in {"leave", "native"}
                      /\ pc[c] \notin {"ask", "decide"}

=============================================================================
