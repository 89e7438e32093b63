SPECIFICATION Spec
CONSTANTS
  k1 = k1
  k2 = k2
  r1 = r1
  r2 = r2
  r3 = r3
  r4 = r4
  Root = root
  Cell <- TwoCells
  Region <- FourRegions
  Mem <- Disjoint
  Loadable <- LoadTwo
  RootMem <- RootRegions
  MayBePassive <- JustK2
INVARIANT LoadableIsMapped
CHECK_DEADLOCK FALSE
