------------------------------- MODULE MCArm -------------------------------
(* The ARM parts for TLC: as in MCX86, Init chooses the part that moves and *)
(* the others stay in their initial state.                                  *)
EXTENDS ArmCpu, GicPending, GicDist, ArmSetup, ArmDecode, TLC

(* ArmDecode: the inputs.                                                   *)
Trap == [alg |-> "trap", class |-> "cp14", cv |-> TRUE, cond |-> 1, flags |-> 0, it |-> 0,
         il |-> 4, known |-> TRUE, read |-> FALSE, isv |-> TRUE, walk |-> FALSE]
TrapIn ==
  {[Trap EXCEPT !.class = k, !.cond = n, !.flags = f, !.known = kn] :
     k \in {"cp15_32", "cp14"}, n \in 0 .. 15, f \in 0 .. 15, kn \in BOOLEAN}
  \cup
  {[Trap EXCEPT !.class = k, !.cv = cv, !.flags = f, !.it = it, !.il = 2, !.known = kn,
                !.read = rd, !.isv = isv, !.walk = wk] :
     k \in {"cp15_32", "cp15_64", "smc", "hvc", "dabt", "other"}, cv \in BOOLEAN, f \in {0, 4},
     it \in {0, 8, 24}, kn \in BOOLEAN, rd \in BOOLEAN, isv \in BOOLEAN, wk \in BOOLEAN}
ItIn ==
  {[alg |-> "it", base |-> b, bits |-> s] :
     b \in 0 .. 6, s \in UNION {[1 .. n -> {0, 1}] : n \in 1 .. 4}}
DabtIn ==
  [alg : {"dabt"}, rt : {0, 8, 13, 14}, mode : {"usr", "svc", "fiq"}, is_write : BOOLEAN,
   sse : BOOLEAN, size : {1, 2, 4}, mem : {1, 2, 9, 255}, reg : {0, 7, 254}]
VirtIds == 0 :> 0 @@ 1 :> 0 @@ 2 :> 2 @@ 3 :> 1
CellViews == {[root |-> TRUE, cpus |-> {0, 2}], [root |-> FALSE, cpus |-> {1, 3}]}
GicIn ==
  UNION {{[alg |-> "sgi", cpus |-> v.cpus, vid |-> VirtIds, self |-> s, version |-> ver,
           rm |-> rm, itf |-> 0 :> 2 @@ 1 :> 0 @@ 2 :> 3 @@ 3 :> 1, targets |-> t] :
             s \in v.cpus, ver \in {2, 3}, rm \in {0, 1}, t \in SUBSET (0 .. 3)} : v \in CellViews}
  \cup
  {[alg |-> "redist", cpus |-> v.cpus, vid |-> VirtIds, root |-> v.root, version |-> ver,
    last_virt_id |-> IF v.root THEN 0 ELSE 1, addr |-> ad] :
      v \in CellViews, ver \in {3, 4}, ad \in 0 .. 4 * 2 * FRAME}
  \cup
  {[alg |-> "route", cpus |-> v.cpus, vid |-> VirtIds, spis |-> {1, 2}, irq |-> i, high |-> h,
    val |-> x] :
      v \in CellViews, i \in 30 .. 36, h \in BOOLEAN, x \in 0 .. 4}

VARIABLE part

allVars == <<armCpuVars, gicVars, distVars, setupVars, armDecodeVars, part>>

MCInit ==
  /\ part \in {"cpus", "pending", "distributor", "setup", "decode"}
  /\ ArmCpuInit /\ GicInit /\ DistInit /\ SetupInit
  /\ (part = "distributor" \/ kind = "poke") /\ (part = "setup" \/ idmap = {})
  /\ aout = <<>>
  /\ IF part = "decode" THEN aq \in TrapIn \cup ItIn \cup DabtIn \cup GicIn
                        ELSE aq = [alg |-> "none"]

MCNext ==
  /\ UNCHANGED part
  /\ \/ /\ part = "cpus" /\ ArmCpuNext
        /\ UNCHANGED <<gicVars, distVars, setupVars, armDecodeVars>>
     \/ /\ part = "pending" /\ GicNext
        /\ UNCHANGED <<armCpuVars, distVars, setupVars, armDecodeVars>>
     \/ /\ part = "distributor" /\ DistNext
        /\ UNCHANGED <<armCpuVars, gicVars, setupVars, armDecodeVars>>
     \/ /\ part = "setup" /\ SetupNext
        /\ UNCHANGED <<armCpuVars, gicVars, distVars, armDecodeVars>>
     \/ /\ part = "decode" /\ ArmCompute
        /\ UNCHANGED <<armCpuVars, gicVars, distVars, setupVars>>

MCSpec == MCInit /\ [][MCNext]_allVars /\ GicFairness
============================================================================
