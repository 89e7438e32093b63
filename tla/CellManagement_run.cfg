SPECIFICATION FairSpec
CONSTANTS
  k1 = k1
  k2 = k2
  r1 = r1
  r2 = r2
  r3 = r3
  r4 = r4
  Root = root
  Cell <- TwoCells
  Region <- FourRegions
  Mem <- Disjoint
  Loadable <- LoadTwo
  RootMem <- RootRegions
  MayBePassive <- JustK2
INVARIANTS MemoryExclusive MemoryReturned NoStaleMessage
PROPERTIES StopNeedsConsent HypercallReturns
CHECK_DEADLOCK FALSE
