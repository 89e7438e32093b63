SPECIFICATION Spec
CONSTANTS
  c0 = c0
  c1 = c1
  c2 = c2
  c3 = c3
  CPU <- FourCPUs
  NoCpu = NoCpu
  EPerm = EPerm
INVARIANT DisableAgrees
CHECK_DEADLOCK FALSE
