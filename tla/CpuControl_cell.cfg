SPECIFICATION Spec
CONSTANTS
  c0 = c0
  c1 = c1
  c2 = c2
  k1 = k1
  k2 = k2
  Root = root
  CPU <- ThreeCPUs
  Cell <- TwoCells
  CellConfig <- CellsGet
  Managers = {c0, c1}
  IpiTargets = {}
  MayPanic = {c2}
  PromptResume = TRUE
  GlobalInvept = TRUE
INVARIANTS GuestsConfined CpuSetsPartition 
CHECK_DEADLOCK FALSE
