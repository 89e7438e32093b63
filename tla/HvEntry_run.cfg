SPECIFICATION FairSpec
CONSTANTS
  c0 = c0
  c1 = c1
  c2 = c2
  c3 = c3
  e1 = e1
  e2 = e2
  CPU <- FourCPUs
  Configured <- ThreeCPUs
  Errors <- TwoErrors
  NoCpu = NoCpu
  EInval = e1
  LaunchMayFail = TRUE
INVARIANTS NoReturnIsSafe FailureRestoresLinux EnabledMeansGuest
PROPERTIES SameResult EnableFinishes
CHECK_DEADLOCK FALSE
