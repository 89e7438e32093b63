SPECIFICATION SetupSpec
CONSTANTS
  SCpus = {"c0", "c1"}
  NoCpu = "none"
  GicVersion = 2
INVARIANT InterfaceRestored
CHECK_DEADLOCK FALSE
