SPECIFICATION Spec
CONSTANTS
  c0 = c0
  c1 = c1
  c2 = c2
  k1 = k1
  k2 = k2
  Root = root
  CPU <- TwoCPUs
  Cell <- OneCell
  CellConfig <- CellGetsC1
  Managers = {c0}
  IpiTargets = {}
  MayPanic = {}
  PromptResume = FALSE
  GlobalInvept = TRUE
INVARIANT RootStopped
CHECK_DEADLOCK FALSE
