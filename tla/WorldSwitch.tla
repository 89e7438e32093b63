---------------------------- MODULE WorldSwitch ----------------------------
(***************************************************************************)
(* What the driver relies on when it calls the hypervisor's entry on every *)
(* online CPU: "either returns 0 or the same error code across all CPUs"   *)
(* (driver.c, enter_hypervisor). One decision is taken for all the CPUs of *)
(* the round; each of them then follows it in its own time.                *)
(***************************************************************************)
CONSTANTS CPU, Errors

VARIABLES
  outcome,    \* "open", "switch" or the error code all CPUs return
  world       \* what each CPU has done: "in" the call, "guest" or "back"

Init ==
  /\ outcome = "open"
  /\ world = [c \in CPU |-> "back"]

\* The driver starts a round on a set of CPUs that are all under Linux.
Call(S) ==
  /\ S # {}
  /\ \A c \in CPU : world[c] = "back"
  /\ outcome' = "open"
  /\ world' = [c \in CPU |-> IF c \in S THEN "in" ELSE "back"]

Decide(o) ==
  /\ outcome = "open"
  /\ outcome' = o
  /\ UNCHANGED world

Switch(c) ==
  /\ outcome = "switch"
  /\ world[c] = "in"
  /\ world' = [world EXCEPT ![c] = "guest"]
  /\ UNCHANGED outcome

GiveUp(c) ==
  /\ outcome \in Errors
  /\ world[c] = "in"
  /\ world' = [world EXCEPT ![c] = "back"]
  /\ UNCHANGED outcome

Next ==
  \/ \E S \in SUBSET CPU : Call(S)
  \/ \E o \in Errors \union {"switch"} : Decide(o)
  \/ \E c \in CPU : Switch(c) \/ GiveUp(c)

Spec == Init /\ [][Next]_<<outcome, world>>

=============================================================================
